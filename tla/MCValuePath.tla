---------------------------- MODULE MCValuePath ----------------------------
(* Bytes of 2 bits, with the integers at the edges of every width; texts of *)
(* no, one and several characters, one too long for a sized parameter, and  *)
(* some that are JSON.  A table has a column of every TDS type.             *)
EXTENDS ValuePath

MCInts == {-(2^15), -129, -128, -9, -8, -1, 0, 3, 4, 7, 8, 15, 16, 127, 128,
           255, 256, 2^15 - 1, 2^15, 2^16 - 1}
MCMantissas == {-12, 125, -996}
MCTexts == {"", "x", "7", "[1]", "long"}
MCHalves == {-128, -1, 127}
\* Tenths.  f64 has every i32 of the model, not every i64; f32 has less of either.
MCFloats ==
  [f32 |-> {-1280, 0, 5, 70, 80, 2560},
   f64 |-> {10 * n : n \in {-(2^15), -129, -128, -9, -8, -1, 0, 3, 4, 7, 8, 15, 16, 127,
                            128, 256, 2^16}} \cup {5, 75}]
MCBeyond == [f32 |-> 5120, f64 |-> 10 * 2^17]
MCParseJson ==
  [t \in MCTexts |-> IF t = "7" THEN <<<<"number", 7>>>>
                     ELSE IF t = "[1]" THEN <<<<"container", t>>>> ELSE <<>>]
MCLowerCase == [a |-> "a", A |-> "a", b |-> "b"]

Column(tds, length) == [tds |-> tds, length |-> length, udt |-> <<>>]
Clr(schema, name) == [tds |-> "Udt", length |-> 0, udt |-> <<schema, name>>]
MCElsewhere ==
  {Column("Bit", 1), Column("BitN", 1), Column("Int1", 1), Column("Int2", 2), Column("Int4", 4),
   Column("Int8", 8), Column("IntN", 1), Column("IntN", 2), Column("IntN", 4), Column("IntN", 8),
   Column("FltN", 4), Column("FltN", 8), Column("NumericN", 17), Column("DecimalN", 17),
   Column("MoneyN", 8), Column("MoneyN", 4), Column("DateN", 3), Column("TimeN", 5),
   Column("DateTimeN", 8), Column("DateTimeN", 4), Column("DateTim4", 4),
   Column("DateTime2N", 8), Column("DateTimeOffsetN", 10), Column("NVarChar", 8),
   Column("BigVarChar", 8), Column("NText", 8), Column("Char", 8), Column("Image", 8),
   Column("BigVarBinary", 8), Column("Xml", 0), Column("Json", 0), Column("Guid", 16),
   Column("BigBinary", 8), Column("BigChar", 8), Column("Money4", 4),
   Column("Vector", 0), Column("SsVariant", 0), Clr("sys", "geography"), Clr("dbo", "geography")}
MCBeside ==
  {<<Column("NVarChar", 8), <<"String", "x">>>>}

\* A table with a binary(8) column only.
MCFixedBinary == {Column("BigBinary", 8)}
=============================================================================
