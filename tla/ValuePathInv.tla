---------------------------- MODULE ValuePathInv ----------------------------
(***************************************************************************)
(* The invariant of ValuePath: what a Config holds after any setters, what *)
(* a row holds at every step of a value's way through the bridge, and how  *)
(* far serde's visit of it has come.                                       *)
(***************************************************************************)
EXTENDS ValuePath

IsTuple(s) == s \in Seq({s[i] : i \in DOMAIN s})

-----------------------------------------------------------------------------
(* The Config *)

CallsOf(field) == {i \in DOMAIN calls : calls[i][1] = field}

ConfigInv ==
  /\ IsTuple(calls) /\ config = [f \in DOMAIN Domain |-> config[f]]
  /\ \A f \in DOMAIN Domain :
       /\ config[f] = LastSet(f) /\ config[f] \in Domain[f] \cup {Defaults[f]}
       /\ CallsOf(f) = {} \/ \E i \in CallsOf(f) : \A j \in CallsOf(f) : j <= i
  /\ link # Unset =>
       link = [source |-> DatasourceString(config), context |-> ToClientContext(config)]

-----------------------------------------------------------------------------
(* Cells and parameters, by their variants; of payloads only texts matter *)

CellKinds == {"Bit", "TinyInt", "SmallInt", "Int", "BigInt", "Real", "Float", "Decimal",
  "Numeric", "Money", "SmallMoney", "String", "Xml", "Json", "Bytes", "Uuid", "Vector",
  "Date", "Time", "DateTime", "DateTime2", "DateTimeOffset", "SmallDateTime"}
CellLike(c) ==
  \/ c = Null
  \/ /\ c = <<c[1], c[2]>> /\ c[1] \in CellKinds
     /\ c[1] \in TextKinds => c[2] \in Texts

ParamTexts == {"NVarchar", "NVarcharMax", "Varchar", "VarcharMax", "Xml", "Json"}
ParamLike(x) ==
  /\ x[1] \in DOMAIN EchoTds
  /\ \/ x = <<x[1]>>
     \/ x = <<x[1], x[2]>> /\ (x[1] \in ParamTexts => x[2] \in Texts)

ColumnTypes == {"Null", "Bit", "Int1", "Int2", "Int4", "Int8", "Float4", "Float8", "Money",
  "Money4", "Datetime", "Datetime2", "Datetime4", "DatetimeOffset", "Date", "Time",
  "Decimaln", "Numericn", "Guid", "NVarchar", "Varchar", "NChar", "Char", "NText", "Text",
  "Binary", "VarBinary", "Image", "Xml", "Json", "Vector", "Ssvariant", "Udt",
  "Geography", "Geometry"}

\* A row: its texts are decoded, each at its own place.
RowTyped(m, vs, ds) ==
  /\ IsTuple(m) /\ IsTuple(vs) /\ IsTuple(ds)
  /\ \A i \in DOMAIN m : m[i].type \in ColumnTypes
  /\ DOMAIN ds = DOMAIN vs
  /\ \A i \in DOMAIN vs : CellLike(vs[i]) /\ ds[i] = DecodedOf(vs[i])

-----------------------------------------------------------------------------
(* The way of a value *)

PathInv ==
  /\ phase \in {"config", "ready", "bound", "writing", "row", "visiting", "visited"}
  /\ unicode \in BOOLEAN
  /\ phase \in {"config", "ready", "bound"} => NoRow
  /\ phase \in {"row", "visiting", "visited"} => wire = <<>>
  /\ phase \in {"config", "ready"} => params = <<>> /\ bound = <<>> /\ source = <<>>
  /\ RowTyped(metadata, values, decoded)
  /\ IsTuple(wire) /\ \A i \in DOMAIN wire : CellLike(wire[i])
  /\ IsTuple(params) /\ \A i \in DOMAIN params : ParamLike(params[i])

BoundInv ==
  bound # <<>> =>
    \E api \in Apis : \E type \in Binds(api) : \E value \in RustValues(type) :
      bound = <<api, value>> /\ params = <<Bound(api, value)>> /\ source = <<>>

BoundSomehow == phase = "bound" => bound # <<>> \/ source # <<>>

Sent(i) == EncodeStringParameters(params[i], unicode)

\* The echoed row, written so far and to come.
EchoInv ==
  params # <<>> /\ phase # "bound" =>
    /\ DOMAIN metadata = DOMAIN params /\ Len(values) + Len(wire) = Len(params)
    /\ \A i \in DOMAIN params : metadata[i].type = ColumnTypeOf(EchoColumn(Sent(i)))
    /\ \A i \in DOMAIN values : values[i] = EchoCell(Sent(i))
    /\ \A i \in DOMAIN wire : wire[i] = EchoCell(Sent(Len(values) + i))

\* What was sent had room, and its column has its length.
RoomInv ==
  params # <<>> /\ phase # "bound" => \A i \in DOMAIN params :
    HasRoom(params[i]) /\ metadata[i].length = EchoColumn(Sent(i)).length

\* A number is one of its variant's: integers have its width, floats are its
\* type's, f64 has every SmallMoney, a decimal has no more places than digits,
\* and the lower half of Money is a signed integer.
WidthOf == [TinyInt |-> "u8", SmallInt |-> "i16", Int |-> "i32", BigInt |-> "i64"]
HalfRange == 2^(4 * ByteBits - 1)
CanHold(k, p) ==
  /\ k \in Integers => p \in Int /\ Fits(WidthOf[k], p)
  /\ k = "Real" => p \in PayloadsIn("f32")
  /\ k = "Float" => p \in PayloadsIn("f64")
  /\ k = "SmallMoney" => p \in Int /\ p * 10^FloatScale \in Floats["f64"]
  /\ k \in {"Decimal", "Numeric"} => p[1] \in Int /\ p[2] \in 0..MaxDigits
  /\ k = "Money" => p[1] \in Int /\ p[2] \in -HalfRange..(HalfRange - 1)
Sound(x) == ~IsNone(x) => CanHold(x[1], x[2])
AllSound(s) == \A i \in DOMAIN s : Sound(s[i])
NumbersInv == AllSound(params) /\ AllSound(wire) /\ AllSound(values)

\* A column's typed NULL is one of the variants its cells become.
NullFits(type, k) ==
  \/ type \in {"Ssvariant", "Null"} \/ k = "Vector"
  \/ NullColumnData(type) = <<IF k \in DOMAIN DataOf THEN DataOf[k] ELSE k>>
  \/ NullColumnData(type) = <<"DateTime">> /\ k = "SmallDateTime"
KindsInv == \A i \in DOMAIN metadata : \A k \in Of(i) : NullFits(metadata[i].type, k)

Rebound(row, i) ==
  DataToSql(ColumnDataRef(row.values[i], row.decoded[i],
                          IF i \in DOMAIN row.metadata THEN row.metadata[i].type ELSE "Null"))
SourceInv ==
  source # <<>> =>
    LET row == source[1]
    IN /\ phase \in {"bound", "writing", "row"}
       /\ RowTyped(row.metadata, row.values, row.decoded)
       /\ params # <<>> /\ DOMAIN params = DOMAIN row.values
       /\ \A i \in DOMAIN params : params[i] = Rebound(row, i)

-----------------------------------------------------------------------------
(* The visit *)

FieldOf(i) == <<metadata[i].name, Field(i)>>
Wanted(i) == metadata[i].name \in visit.wanted

\* The wanted columns so far have their fields, one each.
StructVisit ==
  /\ visit.shape = "struct"
  /\ visit = [shape |-> "struct", type |-> visit.type, wanted |-> visit.wanted,
              idx |-> visit.idx, key |-> visit.key, fields |-> visit.fields,
              outcome |-> visit.outcome]
  /\ visit.wanted \subseteq Columns_
  /\ visit.idx \in 0..Len(values) /\ visit.idx <= Len(metadata)
  /\ \A k \in DOMAIN visit.fields : \E i \in 1..visit.idx :
       Wanted(i) /\ visit.fields[k] = FieldOf(i) /\ Field(i)[1] # "error"
  /\ \A i \in 1..visit.idx : Wanted(i) => \E k \in DOMAIN visit.fields : visit.fields[k] = FieldOf(i)
  /\ \A i, j \in 1..visit.idx : Wanted(i) /\ metadata[i].name = metadata[j].name => i = j
  /\ \A k, l \in DOMAIN visit.fields : visit.fields[k][1] = visit.fields[l][1] => k = l
  /\ visit.key # <<>> =>
       /\ visit.idx < Len(values) /\ visit.idx < Len(metadata)
       /\ visit.key = <<metadata[visit.idx + 1].name>>
       /\ visit.key[1] \in visit.wanted => Visited(visit.key[1]) = {}

StructEnd ==
  \/ visit.outcome = <<"ok">> /\ visit.idx = Len(values)
  \/ /\ visit.outcome = <<"error", "duplicate">>
     /\ visit.idx < Len(values) /\ visit.idx < Len(metadata) /\ Wanted(visit.idx + 1)
     /\ Visited(metadata[visit.idx + 1].name) # {}
  \/ visit.outcome = OutOfBounds /\ Len(metadata) < Len(values)
  \/ visit.outcome = Error /\ \E i \in DOMAIN values : Field(i)[1] = "error"

TupleVisit ==
  /\ visit.shape = "tuple"
  /\ visit = [shape |-> "tuple", type |-> visit.type, size |-> visit.size,
              idx |-> visit.idx, key |-> <<>>, fields |-> visit.fields,
              outcome |-> visit.outcome]
  /\ visit.size \in Nat /\ visit.idx \in 0..Len(values) /\ visit.idx <= visit.size
  /\ Len(visit.fields) = visit.idx
  /\ \A k \in 1..visit.idx : visit.fields[k] = <<k, Field(k)>> /\ Field(k)[1] # "error"

TupleEnd ==
  \/ visit.outcome = <<"ok">> /\ visit.idx = visit.size
  \/ visit.outcome = <<"error", "length">> /\ Len(values) < visit.size
  \/ visit.outcome = Error /\ \E i \in DOMAIN values : Field(i)[1] = "error"

VisitInv ==
  phase \in {"visiting", "visited"} =>
    /\ visit.type \in FieldTypes /\ IsTuple(visit.fields)
    /\ \/ StructVisit /\ (phase = "visited" => StructEnd)
       \/ TupleVisit /\ (phase = "visited" => TupleEnd)

VInv == ConfigInv /\ PathInv /\ BoundInv /\ EchoInv /\ SourceInv /\ VisitInv
=============================================================================
