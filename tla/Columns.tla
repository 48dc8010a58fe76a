------------------------------ MODULE Columns ------------------------------
(***************************************************************************)
(* Column types (column.rs) and the typed NULLs and copies that depend on  *)
(* them (compat/conversion.rs, row.rs).                                    *)
(*                                                                         *)
(* The server describes a column by a TDS type, a byte length and, for a   *)
(* CLR type, the schema and name of the type.  Operators named Slip... are *)
(* mistakes the properties must tell apart.                                *)
(***************************************************************************)
EXTENDS Parameters

-----------------------------------------------------------------------------
(* From metadata to ColumnType *)

\* From<TdsDataType>: the length of the nullable types is not known here, and
\* the types nobody lists are Null: BigBinary and BigChar, which are binary(n)
\* and char(n), Money4, which is smallmoney NOT NULL, and Void.
TypeOf == [Bit |-> "Bit", BitN |-> "Bit", Int1 |-> "Int1", Int2 |-> "Int2", Int4 |-> "Int4",
  IntN |-> "Int4", Int8 |-> "Int8", Flt4 |-> "Float4", Flt8 |-> "Float8", FltN |-> "Float8",
  DateTime |-> "Datetime", DateTimeN |-> "Datetime", DateTime2N |-> "Datetime2",
  DateTim4 |-> "Datetime4", DateTimeOffsetN |-> "DatetimeOffset", DateN |-> "Date",
  TimeN |-> "Time", Decimal |-> "Decimaln", DecimalN |-> "Decimaln", Numeric |-> "Numericn",
  NumericN |-> "Numericn", Money |-> "Money", MoneyN |-> "Money", Guid |-> "Guid",
  NVarChar |-> "NVarchar", VarChar |-> "Varchar", BigVarChar |-> "Varchar",
  NChar |-> "NChar", Char |-> "Char", NText |-> "NText", Text |-> "Text",
  Binary |-> "Binary", VarBinary |-> "VarBinary", BigVarBinary |-> "VarBinary",
  Image |-> "Image", Xml |-> "Xml", Json |-> "Json", Vector |-> "Vector",
  SsVariant |-> "Ssvariant", Udt |-> "Udt"]
PlainType(tds) == IF tds \in DOMAIN TypeOf THEN TypeOf[tds] ELSE "Null"

\* The width is not looked at.
SlipSizedType(tds, length) == PlainType(tds)

\* from_tds_with_length: the nullable types have the width of their length.
SizedType(tds, length) ==
  CASE tds = "IntN" /\ length = 1   -> "Int1"
    [] tds = "IntN" /\ length = 2   -> "Int2"
    [] tds = "IntN" /\ length = 8   -> "Int8"
    [] tds = "FltN" /\ length = 4   -> "Float4"
    [] tds = "MoneyN" /\ length = 4 -> "Money4"
    [] OTHER                        -> PlainType(tds)

\* from_metadata: the spatial types are those of schema sys, in any case.
ColumnTypeOf(meta) ==
  CASE meta.tds = "Udt" /\ meta.udt = <<"sys", "geography">> -> "Geography"
    [] meta.tds = "Udt" /\ meta.udt = <<"sys", "geometry">>  -> "Geometry"
    [] OTHER -> SizedType(meta.tds, meta.length)

\* The cells that the driver reads from a column (external), by its TDS type and
\* where that is nullable by its length.  Types of a fixed length have no NULLs.
HeldBy == [Bit |-> {"Bit"}, BitN |-> {"Bit"}, Int1 |-> {"TinyInt"}, Int2 |-> {"SmallInt"},
  Int4 |-> {"Int"}, Int8 |-> {"BigInt"}, Flt4 |-> {"Real"}, Flt8 |-> {"Float"},
  DateTime |-> {"DateTime"}, DateTim4 |-> {"SmallDateTime"}, DateTime2N |-> {"DateTime2"},
  DateTimeOffsetN |-> {"DateTimeOffset"}, DateN |-> {"Date"}, TimeN |-> {"Time"},
  Decimal |-> {"Decimal"}, DecimalN |-> {"Decimal"}, Numeric |-> {"Numeric"},
  NumericN |-> {"Numeric"}, Money |-> {"Money"}, Guid |-> {"Uuid"}, NVarChar |-> {"String"},
  VarChar |-> {"String"}, BigVarChar |-> {"String"}, NChar |-> {"String"}, Char |-> {"String"},
  NText |-> {"String"}, Text |-> {"String"}, Binary |-> {"Bytes"}, VarBinary |-> {"Bytes"},
  BigBinary |-> {"Bytes"}, BigChar |-> {"String"}, Money4 |-> {"SmallMoney"},
  BigVarBinary |-> {"Bytes"}, Image |-> {"Bytes"}, Udt |-> {"Bytes"}, Xml |-> {"Xml"},
  Json |-> {"Json"}, Vector |-> {"Vector"},
  SsVariant |-> {"Bit", "TinyInt", "SmallInt", "Int", "BigInt", "Real", "Float", "Numeric",
                 "Money", "String", "Bytes", "Uuid"} \cup Temporals]
HeldBySize == {<<"IntN", 1, "TinyInt">>, <<"IntN", 2, "SmallInt">>, <<"IntN", 4, "Int">>,
  <<"IntN", 8, "BigInt">>, <<"FltN", 4, "Real">>, <<"FltN", 8, "Float">>,
  <<"MoneyN", 4, "SmallMoney">>, <<"MoneyN", 8, "Money">>,
  <<"DateTimeN", 4, "SmallDateTime">>, <<"DateTimeN", 8, "DateTime">>}
FixedLength == {"Bit", "Int1", "Int2", "Int4", "Int8", "Flt4", "Flt8", "DateTime", "DateTim4",
  "Money", "Money4"}
KindsHeld(tds, length) ==
  IF tds \in DOMAIN HeldBy THEN HeldBy[tds]
  ELSE {held[3] : held \in {h \in HeldBySize : h[1] = tds /\ h[2] = length}}

\* char_length: two bytes for a character of the Unicode types.
CharLength(type, bytes) ==
  CASE type \in {"NVarchar", "NChar", "NText"} -> <<bytes \div 2>>
    [] type \in {"Varchar", "Char", "Text"}    -> <<bytes>>
    [] OTHER                                   -> <<>>

-----------------------------------------------------------------------------
(* A cell as ColumnData *)

NullColumnData(type) ==
  CASE type \in {"Bit", "Date", "Time", "Money", "Guid", "Xml", "Json"} -> <<type>>
    [] type = "Int1"      -> <<"U8">>       [] type = "Int2"      -> <<"I16">>
    [] type = "Int4"      -> <<"I32">>      [] type = "Int8"      -> <<"I64">>
    [] type = "Float4"    -> <<"F32">>      [] type = "Float8"    -> <<"F64">>
    [] type = "Datetime"  -> <<"DateTime">> [] type = "Datetime4" -> <<"SmallDateTime">>
    [] type = "Datetime2" -> <<"DateTime2">> [] type = "DatetimeOffset" -> <<"DateTimeOffset">>
    [] type \in {"Decimaln", "Numericn"} -> <<"Numeric">>
    [] type = "Money4"    -> <<"SmallMoney">>
    [] type \in {"NVarchar", "Varchar", "NChar", "Char", "NText", "Text", "Null"} -> <<"String">>
    [] type \in {"Binary", "VarBinary", "Image", "BigVarBin", "Ssvariant", "Geography",
                 "Geometry", "Udt", "Vector"} -> <<"Binary">>

\* column_data_ref: the variants whose names differ.
DataOf == [TinyInt |-> "U8", SmallInt |-> "I16", Int |-> "I32", BigInt |-> "I64",
  Real |-> "F32", Float |-> "F64", Decimal |-> "Numeric", Bytes |-> "Binary",
  Uuid |-> "Guid"]

\* A text is taken from the decoded strings where there is one.
ColumnDataRef(cell, decoded, type) ==
  CASE cell = Null                          -> NullColumnData(type)
    [] Kind(cell) = "Vector"                -> <<"Native", cell>>
    [] Kind(cell) \in TextKinds /\ decoded # <<>> -> <<Kind(cell)>> \o decoded
    [] Kind(cell) \in DOMAIN DataOf         -> Retag(DataOf, cell)
    [] OTHER                                -> cell

\* into_column_value: the way back, for the readers below and for bulk rows.
CellOf == [U8 |-> "TinyInt", I16 |-> "SmallInt", I32 |-> "Int", I64 |-> "BigInt",
  F32 |-> "Real", F64 |-> "Float", Binary |-> "Bytes", Guid |-> "Uuid"]

Error == <<"error", "conversion">>
IntoColumnValue(data) ==
  IF Kind(data) = "Native" THEN Error
  ELSE IF IsNone(data) THEN Null
  ELSE IF Kind(data) \in DOMAIN CellOf THEN Retag(CellOf, data)
  ELSE data
=============================================================================
