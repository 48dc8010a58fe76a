------------------------------ MODULE Readers ------------------------------
(***************************************************************************)
(* The readers of a cell: the native FromSql (row.rs, vector.rs),          *)
(* Tiberius' FromSql (compat/conversion.rs) and the serde deserializer of  *)
(* a cell (serde_de.rs).  A reader returns a Rust value <<type, payload>>, *)
(* None, or an error.  Operators named Slip... are mistakes the properties *)
(* must tell apart.                                                        *)
(***************************************************************************)
EXTENDS Columns

\* What serde_json::from_str makes of a text: <<a JSON value>> or <<>>.
CONSTANT ParseJson

ASSUME ParseJsonAssumption ==
  /\ DOMAIN ParseJson = Texts
  /\ \A t \in Texts : ParseJson[t] = <<>> \/ ParseJson[t] = <<ParseJson[t][1]>>

None == <<"none">>
Some(type, payload) == <<type, payload>>

-----------------------------------------------------------------------------
(* Native FromSql *)

\* The cells a type reads; integers and floats widen.
Accepts == [bool |-> {"Bit"}, u8 |-> {"TinyInt"}, i16 |-> {"SmallInt", "TinyInt"},
  i32 |-> {"Int", "SmallInt", "TinyInt"}, i64 |-> {"BigInt", "Int", "SmallInt", "TinyInt"},
  f32 |-> {"Real"}, f64 |-> {"Float", "Real"}, String |-> TextKinds, str |-> TextKinds,
  Json |-> {"Json", "String"}, Uuid |-> {"Uuid"}, bytes |-> {"Bytes"},
  NaiveDate |-> {"Date", "DateTime2", "DateTime"}, NaiveTime |-> {"Time"},
  NaiveDateTime |-> {"DateTime2", "DateTime", "SmallDateTime"},
  FixedOffset |-> {"DateTimeOffset"}, VectorValue |-> {"Vector"},
  Decimal |-> {"Decimal", "Numeric", "SmallMoney", "Money"}]
NativeTypes == DOMAIN Accepts

\* What rust_decimal (external) makes of a number: decimals are rounded away
\* until scale and mantissa fit; an integer that does not fit is refused.
Rounded(m, k) ==
  LET up == (Magnitude(m) + (10^k \div 2)) \div 10^k IN IF m < 0 THEN -up ELSE up
ParseDecimal(m, s) ==
  LET enough == {k \in 0..s : s - k <= MaxScale /\ Magnitude(Rounded(m, k)) <= MaxMantissa}
  IN {<<Rounded(m, k), s - k>> : k \in {k \in enough : \A l \in enough : k <= l}}

\* Money has its own scale, and fits; a Decimal has no precision.
RawMoney(cell) ==
  IF Kind(cell) = "SmallMoney" THEN Payload(cell) ELSE Raw(Payload(cell)[1], Payload(cell)[2])
DecimalsOf(cell) ==
  CASE Kind(cell) \in {"SmallMoney", "Money"} -> {<<RawMoney(cell), MoneyScale>>}
    [] OTHER                     -> ParseDecimal(Payload(cell)[1], Payload(cell)[2])
ReadDecimal(cell) ==
  IF DecimalsOf(cell) = {} THEN None ELSE Some("Decimal", CHOOSE d \in DecimalsOf(cell) : TRUE)

\* &str is lent the decoded text, whatever the cell is.
ReadStr(decoded) == IF decoded = <<>> THEN None ELSE <<"str">> \o decoded
ReadJson(cell) ==
  IF ParseJson[Payload(cell)] = <<>> THEN None ELSE <<"Json">> \o ParseJson[Payload(cell)]

FromSql(type, cell, decoded) ==
  CASE type = "str"                     -> ReadStr(decoded)
    [] type # "str" /\ Kind(cell) \notin Accepts[type] -> None
    [] type = "Json" /\ Kind(cell) \in Accepts[type]   -> ReadJson(cell)
    [] type = "Decimal" /\ Kind(cell) \in Accepts[type] -> ReadDecimal(cell)
    [] OTHER                            -> Some(type, Payload(cell))

\* Option<T> is always Some: None inside for NULL, and for any other cell
\* whatever T makes of it.
FromSqlOption(type, cell, decoded) ==
  IF cell = Null THEN None ELSE FromSql(type, cell, decoded)

-----------------------------------------------------------------------------
(* Tiberius' FromSql *)

\* The variants a type reads, NULL or not.
Exact == [bool |-> {"Bit"}, u8 |-> {"U8"}, i16 |-> {"I16"}, i32 |-> {"I32"},
  i64 |-> {"I64"}, f32 |-> {"F32"}, f64 |-> {"F64"}, String |-> {"String"},
  str |-> {"String"}, Uuid |-> {"Guid"}, bytes |-> {"Binary"}, Json |-> {"Json", "String"},
  NaiveDate |-> {"Date"}, NaiveTime |-> {"Time"},
  NaiveDateTime |-> {"DateTime", "SmallDateTime", "DateTime2"},
  FixedOffset |-> {"DateTimeOffset"}, Decimal |-> {"Numeric"}]

\* Integers read a NULL of these other variants as well.
NullOnly == [u8 |-> {"I32"}, i16 |-> {"U8", "I32"}, i32 |-> {"U8"}, i64 |-> {"U8", "I32"}]

Matches(type, data) ==
  \/ Kind(data) \in Exact[type]
  \/ type \in DOMAIN NullOnly /\ IsNone(data) /\ Kind(data) \in NullOnly[type]

\* A value that does not decode is no NULL.
SlipDecodeOwned(type, data) ==
  LET cell == IntoColumnValue(data)
  IN CASE cell = Error -> Error
       [] OTHER        -> FromSql(type, cell, <<>>)

\* A value is decoded by the native reader.
DecodeOwned(type, data) ==
  LET cell == IntoColumnValue(data)
  IN CASE cell = Error -> Error
       [] cell = Null  -> None
       [] OTHER -> IF FromSql(type, cell, <<>>) = None THEN Error ELSE FromSql(type, cell, <<>>)

\* &str and &[u8] borrow, DecimalParts is copied.
Lent == {"str", "bytes", "DecimalParts"}
FromBorrowed(type, data) ==
  CASE Kind(data) # (IF type = "str" THEN "String" ELSE IF type = "bytes" THEN "Binary" ELSE "Numeric")
         -> Error
    [] OTHER -> IF IsNone(data) THEN None ELSE Some(type, Payload(data))

\* DateTime<Utc>: an instant, or a datetime2 taken to be in UTC.
FromColumnDataUtc(data) ==
  LET inner == IF Kind(data) = "DateTimeOffset" THEN DecodeOwned("FixedOffset", data)
               ELSE DecodeOwned("NaiveDateTime", data)
  IN IF Kind(data) \notin {"DateTimeOffset", "DateTime2"} THEN Error
     ELSE IF Len(inner) = 2 /\ inner # Error THEN Some("Utc", inner[2]) ELSE inner

CompatTypes == DOMAIN Exact \cup {"Utc", "DecimalParts"}
FromColumnData(type, data) ==
  CASE type = "Utc"           -> FromColumnDataUtc(data)
    [] type \in Lent          -> FromBorrowed(type, data)
    [] OTHER -> IF Matches(type, data) THEN DecodeOwned(type, data) ELSE Error

-----------------------------------------------------------------------------
(* serde: the deserializer of a cell, by the type that is asked for *)

\* The text a cell is shown as, named by the cell.
Shown(cell) == <<"shown", cell>>
NoText == ""
DecodedText(decoded) == IF decoded = <<>> THEN NoText ELSE decoded[1]

Integers == {"TinyInt", "SmallInt", "Int", "BigInt"}

\* visit_int: any integer of the row, or a bit, if the type can hold it.
VisitInt(type, cell) ==
  CASE Kind(cell) \in Integers ->
         IF Fits(type, Payload(cell)) THEN Some(type, Payload(cell)) ELSE Error
    [] Kind(cell) = "Bit" -> Some(type, IF Payload(cell) THEN 1 ELSE 0)
    [] OTHER -> Error

\* Money as an f64: the driver does to it (external) as is done to SmallMoney,
\* int_val as f64 / 10_000.0, which rounds twice.
MoneyAsF64(cell) ==
  LET raw == CastInt("f64", RawMoney(cell))
  IN IF raw \in Infinities THEN raw ELSE Cast("f64", raw[1], 10^MoneyScale)

\* visit_float: any number but a decimal, cast.
VisitFloat(type, cell) ==
  CASE Kind(cell) \in {"Real", "Float"}       -> Some(type, CastFloat(type, Payload(cell)))
    [] Kind(cell) \in Integers                -> Some(type, CastInt(type, Payload(cell)))
    [] Kind(cell) \in {"SmallMoney", "Money"} -> Some(type, CastFloat(type, MoneyAsF64(cell)))
    [] OTHER -> Error

\* deserialize_str: dates, decimals and Uuids are shown as text.
VisitStr(cell, decoded) ==
  CASE Kind(cell) \in TextKinds -> Some("text", DecodedText(decoded))
    [] Kind(cell) \in Temporals \cup {"Uuid", "Decimal", "Numeric"} -> Shown(cell)
    [] OTHER -> Error

VisitBytes(cell) ==
  CASE Kind(cell) = "Bytes" -> Some("bytes", Payload(cell))
    [] Kind(cell) = "Uuid"  -> <<"raw", cell>>
    [] OTHER -> Error

VisitChar(decoded) ==
  IF decoded # <<>> /\ Len(DecodedText(decoded)) = 1 THEN Some("char", decoded[1]) ELSE Error

VisitBool(cell) == IF Kind(cell) = "Bit" THEN Some("bool", Payload(cell)) ELSE Error

\* An enum is named by the text of the cell, and only its unit variants are:
\* the visitor (serde's, external) knows the variants.
VisitEnum(cell, decoded, variants) ==
  LET name == VisitStr(cell, decoded)
  IN IF Kind(name) = "text" /\ name[2] \in variants THEN Some("variant", name[2]) ELSE Error

\* deserialize_any: the cell decides.
VisitAny(cell, decoded) ==
  CASE cell = Null -> <<"unit">>
    [] Kind(cell) = "Bit" -> VisitBool(cell)
    [] Kind(cell) \in Integers ->
         Some([TinyInt |-> "u8", SmallInt |-> "i16", Int |-> "i32", BigInt |-> "i64"][Kind(cell)],
              Payload(cell))
    [] Kind(cell) = "Real"  -> Some("f32", Payload(cell))
    [] Kind(cell) = "Float" -> Some("f64", Payload(cell))
    [] Kind(cell) \in {"Money", "SmallMoney"} -> Some("f64", MoneyAsF64(cell))
    [] Kind(cell) = "Bytes" -> VisitBytes(cell)
    [] Kind(cell) = "Vector" -> Error
    [] OTHER -> VisitStr(cell, decoded)

\* Sequences and maps are refused: a cell is neither.
VisitCompound(cell) == Error

Deserialize(type, cell, decoded) ==
  CASE type = "bool" -> VisitBool(cell)
    [] type \in IntTypes -> VisitInt(type, cell)
    [] type \in {"f32", "f64"} -> VisitFloat(type, cell)
    [] type = "char" -> VisitChar(decoded)
    [] type = "str" -> VisitStr(cell, decoded)
    [] type = "bytes" -> VisitBytes(cell)
    [] type = "unit" -> <<"unit">>
    [] type = "any" -> VisitAny(cell, decoded)
    [] type = "compound" -> VisitCompound(cell)
SerdeTypes == IntTypes \cup {"bool", "f32", "f64", "char", "str", "bytes", "unit", "any", "compound"}

DeserializeOption(type, cell, decoded) ==
  IF cell = Null THEN None ELSE Deserialize(type, cell, decoded)
=============================================================================
