----------------------------- MODULE Parameters -----------------------------
(***************************************************************************)
(* Rust values on their way to parameters: the native ToSql (query.rs,     *)
(* vector.rs), Tiberius' ToSql, IntoSql and ColumnData                     *)
(* (compat/conversion.rs), the encoding of strings, and what prepare()     *)
(* declares for a sample (prepared.rs).  Operators named Slip... are       *)
(* mistakes the properties must tell apart.                                *)
(*                                                                         *)
(* A Rust value is <<type, payload>>, its None <<type>>.  time and jiff    *)
(* convert as chrono does; what happens to the figures of a date or a time *)
(* is Temporal's subject, here they are tokens.                            *)
(***************************************************************************)
EXTENDS SqlValues

-----------------------------------------------------------------------------
(* Native ToSql *)

\* The types that have one variant; the sized ones are bound at MaxUnits.
SqlOf == [bool |-> "Bit", u8 |-> "TinyInt", i16 |-> "SmallInt", i32 |-> "Int",
  i64 |-> "BigInt", f32 |-> "Real", f64 |-> "Float", str |-> "NVarchar",
  String |-> "NVarchar", Uuid |-> "Uuid", bytes |-> "VarBinaryMax",
  NaiveDate |-> "Date", NaiveTime |-> "Time", NaiveDateTime |-> "DateTime2",
  FixedOffset |-> "DateTimeOffset", Utc |-> "DateTimeOffset"]

\* DecimalParts::from_string (external) refuses what has too many digits.
FromString(d, precision) ==
  IF Digits(d[1]) <= precision /\ d[2] <= precision /\ precision <= MaxDigits
  THEN <<"Numeric", <<d[1], d[2], precision>>>> ELSE <<"Numeric">>

\* A precision that is refused gives way to the largest one, then to NULL.
DecimalToSqlType(d, precision) ==
  IF IsNone(FromString(d, precision)) THEN FromString(d, MaxDigits)
  ELSE FromString(d, precision)

Precision(d) == IF Digits(d[1]) > d[2] THEN Digits(d[1]) ELSE d[2]
DecimalToSql(d) == DecimalToSqlType(d, Precision(d))

\* serde_json::Value is <<"null">> or <<its variant, payload>>; a container is
\* named by its text.  A number is an integer: up to i64::MAX an i64, then an
\* f64, which holds the nearest one.
JsonToSql(j) ==
  CASE j[1] = "null"      -> <<"NVarchar">>
    [] j[1] = "bool"      -> <<"Bit", j[2]>>
    [] j[1] = "number"    -> IF Fits("i64", j[2]) THEN <<"BigInt", j[2]>>
                             ELSE <<"Float", CastInt("f64", j[2])>>
    [] j[1] \in {"string", "container"} -> <<"NVarchar", j[2]>>

\* VectorValue: a vector the driver refuses is bound as NULL.
VectorToSql(v) == IF v = "refused" THEN <<"Vector">> ELSE <<"Vector", v>>

TypedNull(type) ==
  CASE type = "Json"    -> <<"NVarchar">>
    [] type = "Decimal" -> <<"Numeric">>
    [] OTHER            -> <<SqlOf[type]>>

ToSql(value) ==
  IF IsNone(value) THEN TypedNull(Kind(value)) ELSE
  CASE Kind(value) = "Json"    -> JsonToSql(Payload(value))
    [] Kind(value) = "Decimal" -> DecimalToSql(Payload(value))
    [] Kind(value) = "VectorValue" -> VectorToSql(Payload(value))
    [] OTHER                   -> <<SqlOf[Kind(value)], Payload(value)>>

-----------------------------------------------------------------------------
(* ColumnData *)

FromNative == [Bit |-> "Bit", TinyInt |-> "U8", SmallInt |-> "I16", Int |-> "I32",
  BigInt |-> "I64", Real |-> "F32", Float |-> "F64", Decimal |-> "Numeric",
  Numeric |-> "Numeric", Money |-> "Money", SmallMoney |-> "SmallMoney", Time |-> "Time",
  DateTime2 |-> "DateTime2", DateTimeOffset |-> "DateTimeOffset",
  SmallDateTime |-> "SmallDateTime", DateTime |-> "DateTime", Date |-> "Date",
  NVarchar |-> "String", NVarcharMax |-> "String", Varchar |-> "String",
  VarcharMax |-> "String", VarBinaryMax |-> "Binary", Json |-> "Json", Xml |-> "Xml",
  Uuid |-> "Guid"]

\* What ColumnData has no variant for stays native.
FromNativeValue(x) ==
  IF Kind(x) = "Vector" THEN <<"Native", x>> ELSE Retag(FromNative, x)

\* ColumnData as a parameter; the remaining variants keep their names.
IntoNative == [U8 |-> "TinyInt", I16 |-> "SmallInt", I32 |-> "Int", I64 |-> "BigInt",
  F32 |-> "Real", F64 |-> "Float", Guid |-> "Uuid", Binary |-> "VarBinaryMax"]

DataToSql(data) ==
  CASE Kind(data) = "Native" -> Payload(data)
    [] Kind(data) = "String" ->
         IF ~IsNone(data) /\ Len(Payload(data)) > MaxUnits
         THEN <<"NVarcharMax", Payload(data)>> ELSE Retag([String |-> "NVarchar"], data)
    [] Kind(data) \in DOMAIN IntoNative -> Retag(IntoNative, data)
    [] OTHER -> data

\* Tiberius' ToSql: the native one, seen as ColumnData.
CompatToSql(value) ==
  IF Kind(value) = "DecimalParts" THEN <<"Numeric">> \o Tail(value)
  ELSE FromNativeValue(ToSql(value))

\* IntoSql has typed NULLs of its own.
IntoNull == [bool |-> "Bit", u8 |-> "U8", i16 |-> "I16", i32 |-> "I32", i64 |-> "I64",
  f32 |-> "F32", f64 |-> "F64", Uuid |-> "Guid", Decimal |-> "Numeric", Json |-> "Json",
  NaiveDate |-> "Date", NaiveTime |-> "Time", NaiveDateTime |-> "DateTime2",
  FixedOffset |-> "DateTimeOffset", Utc |-> "DateTimeOffset"]

\* Text, bytes, Uuid references and DecimalParts, NULL or not.
IntoOther == [String |-> "String", str |-> "String", bytes |-> "Binary",
  DecimalParts |-> "Numeric", Uuid |-> "Guid"]

IntoSql(value) ==
  IF Kind(value) \in DOMAIN IntoOther THEN Retag(IntoOther, value)
  ELSE IF IsNone(value) THEN Retag(IntoNull, value)
  ELSE FromNativeValue(ToSql(value))

-----------------------------------------------------------------------------
(* What is sent and what is declared *)

NonUnicode == [NVarchar |-> "Varchar", NVarcharMax |-> "VarcharMax"]
EncodeStringParameters(x, unicode) ==
  IF unicode \/ Kind(x) \notin DOMAIN NonUnicode THEN x ELSE Retag(NonUnicode, x)

\* The APIs a caller binds through.
Apis == {"native", "compat", "into"}
Bound(api, value) ==
  CASE api = "native" -> ToSql(value)
    [] api = "compat" -> DataToSql(CompatToSql(value))
    [] api = "into"   -> DataToSql(IntoSql(value))

\* The part of a declaration in parentheses.  The bridge's own strings have
\* MaxUnits, and its times the default scale, so that theirs are fixed.
Suffix(x) ==
  CASE Kind(x) \in {"NVarcharMax", "VarcharMax", "VarBinaryMax"} -> <<"MAX">>
    [] Kind(x) \in {"NVarchar", "Varchar"}   -> <<"sized">>
    [] Kind(x) \in {"Decimal", "Numeric"}    ->
         IF IsNone(x) THEN <<"parts", 18, 10>> ELSE <<"parts", Payload(x)[3], Payload(x)[2]>>
    [] Kind(x) \in {"Time", "DateTime2", "DateTimeOffset"} -> <<"scale">>
    [] Kind(x) = "Vector"                    -> <<"dimensions">>
    [] OTHER                                 -> <<>>
SqlDeclaration(x) == [name |-> Kind(x), suffix |-> Suffix(x)]

\* prepare() encodes its samples itself.
SlipParameterDeclaration(sample, unicode) == SqlDeclaration(sample)

ParameterDeclaration(sample, unicode) ==
  SqlDeclaration(IF unicode \/ Kind(sample) \notin DOMAIN NonUnicode THEN sample
                 ELSE Retag(NonUnicode, sample))
=============================================================================
