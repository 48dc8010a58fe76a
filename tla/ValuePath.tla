----------------------------- MODULE ValuePath -----------------------------
(***************************************************************************)
(* A value's way through the bridge: bound as a parameter of a query by a  *)
(* client whose Config says how strings are sent, echoed by the server,    *)
(* written into a Row (BridgeRowWriter), and read from it by name or by    *)
(* index, by any of the three readers, or visited by serde (row.rs,        *)
(* serde_de.rs).  The cells of a row may be bound again (Row::cells and    *)
(* IntoIterator); a row may also come from elsewhere: a table, or the      *)
(* public Row::from_schema.                                                *)
(*                                                                         *)
(* The server is external: it stores what it is sent and describes it as   *)
(* a nullable column.  Positions count from 1.                             *)
(***************************************************************************)
EXTENDS Readers, Config

CONSTANTS
  Columns_,       \* names of columns
  LowerCase,      \* a name in lower case
  Elsewhere,      \* columns of tables: [tds, length, udt]
  Beside,         \* cells of a second column
  FieldTypes,     \* the types of the fields serde is asked for
  Containers      \* the texts of JSON arrays and objects

ASSUME ValuePathAssumption ==
  /\ FieldTypes \subseteq SerdeTypes
  /\ Containers \subseteq Texts /\ \A t \in Containers : ParseJson[t] # <<>>
  /\ \A other \in Beside : other[2] \in Cells \cup {Null}

VARIABLES
  phase,      \* "config", "ready", "bound", "writing", "row", "visiting" or "visited"
  unicode,    \* Client::send_string_parameters_as_unicode
  bound,      \* what the caller bound: <<api, value>>, <<>> otherwise
  params,     \* the parameters, as the caller's values give them
  source,     \* the row whose cells were bound again, <<>> otherwise
  metadata,   \* the columns as the server describes them, with their names
  wire,       \* the cells the driver has yet to write
  values,     \* Row::values
  decoded,    \* Row::decoded_strings: <<text>> or <<>>
  visit       \* serde's visit of the row

rowVars == <<metadata, wire, values, decoded>>
vars == <<configVars, phase, unicode, bound, params, source, rowVars, visit>>

NoVisit == [shape |-> "none"]
NoRow == metadata = <<>> /\ wire = <<>> /\ values = <<>> /\ decoded = <<>>

Init ==
  /\ ConfigInit
  /\ phase = "config" /\ unicode = TRUE
  /\ bound = <<>> /\ params = <<>> /\ source = <<>> /\ NoRow /\ visit = NoVisit

-----------------------------------------------------------------------------
(* From the Config to the parameters *)

Configure ==
  /\ phase = "config"
  /\ (\E f \in DOMAIN Domain : \E v \in Domain[f] : Call(f, v)) \/ Connect
  /\ UNCHANGED <<phase, unicode, bound, params, source, rowVars, visit>>

\* The client keeps one setting, the driver the others.
Login ==
  /\ phase = "config" /\ link # Unset /\ phase' = "ready"
  /\ unicode' = config.unicode
  /\ config' = Defaults /\ calls' = <<>> /\ link' = Unset
  /\ UNCHANGED <<bound, params, source, rowVars, visit>>

Json ==
  {<<"null">>} \cup {<<"bool", b>> : b \in BOOLEAN}
    \cup {<<"number", n>> : n \in {i \in Ints : Fits("i64", i) \/ Fits("u64", i)}}
    \cup {<<"string", t>> : t \in Texts} \cup {<<"container", t>> : t \in Containers}

PayloadsOf(type) ==
  CASE type = "bool" -> BOOLEAN
    [] type \in IntTypes -> IntsOf(type)
    [] type \in {"f32", "f64"} -> PayloadsIn(type)
    [] type \in {"str", "String"} -> Texts
    [] type = "Uuid" -> {"uuid"}
    [] type = "bytes" -> {"bytes"}
    [] type = "Decimal" -> 
         {m \in Mantissas : Magnitude(m) <= MaxMantissa} \X {s \in Scales : s <= MaxScale}
    [] type = "DecimalParts" -> Parts
    [] type = "Json" -> Json
    [] type = "VectorValue" -> {"vector", "refused"}
    [] OTHER -> {"time"}

\* The types that each API binds; only those with a default have a None.
BoundTypes == DOMAIN SqlOf \cup {"Decimal", "Json", "VectorValue"}
RustValues(type) ==
  {<<type, v>> : v \in PayloadsOf(type)} \cup (IF type = "VectorValue" THEN {} ELSE {<<type>>})
Binds(api) ==
  CASE api = "native" -> BoundTypes
    [] api = "compat" -> BoundTypes \cup {"DecimalParts"}
    [] api = "into"   -> (BoundTypes \ {"VectorValue"}) \cup {"DecimalParts"}

\* A slice of ToSql, or Query::bind.
Bind ==
  /\ phase = "ready" /\ phase' = "bound"
  /\ \E api \in Apis : \E type \in Binds(api) : \E value \in RustValues(type) :
       bound' = <<api, value>> /\ params' = <<Bound(api, value)>>
  /\ UNCHANGED <<configVars, unicode, source, rowVars, visit>>

-----------------------------------------------------------------------------
(* From the server to the row *)

\* The byte length that stands for MAX in a column's description (external).
MaxLength == 65535

\* The server's column for a parameter, and the cell it stores (external).
EchoTds == [Bit |-> <<"BitN", 1>>, TinyInt |-> <<"IntN", 1>>, SmallInt |-> <<"IntN", 2>>,
  Int |-> <<"IntN", 4>>, BigInt |-> <<"IntN", 8>>, Real |-> <<"FltN", 4>>,
  Float |-> <<"FltN", 8>>, Numeric |-> <<"NumericN", 17>>, Money |-> <<"MoneyN", 8>>,
  SmallMoney |-> <<"MoneyN", 4>>, Date |-> <<"DateN", 3>>, Time |-> <<"TimeN", 5>>,
  DateTime |-> <<"DateTimeN", 8>>, SmallDateTime |-> <<"DateTimeN", 4>>,
  DateTime2 |-> <<"DateTime2N", 8>>, DateTimeOffset |-> <<"DateTimeOffsetN", 10>>,
  NVarchar |-> <<"NVarChar", 2 * MaxUnits>>, NVarcharMax |-> <<"NVarChar", MaxLength>>,
  Varchar |-> <<"BigVarChar", MaxUnits>>, VarcharMax |-> <<"BigVarChar", MaxLength>>,
  VarBinaryMax |-> <<"BigVarBinary", MaxLength>>, Uuid |-> <<"Guid", 16>>,
  Xml |-> <<"Xml", 0>>, Json |-> <<"Json", 0>>, Vector |-> <<"Vector", 0>>]
EchoKind == [NVarchar |-> "String", NVarcharMax |-> "String", Varchar |-> "String",
  VarcharMax |-> "String", VarBinaryMax |-> "Bytes"]

EchoColumn(x) == [tds |-> EchoTds[Kind(x)][1], length |-> EchoTds[Kind(x)][2], udt |-> <<>>]
EchoCell(x) ==
  IF IsNone(x) THEN Null ELSE IF Kind(x) \in DOMAIN EchoKind THEN Retag(EchoKind, x) ELSE x

Named(name, column) ==
  [name |-> name, type |-> ColumnTypeOf(column), length |-> column.length,
   kinds |-> KindsHeld(column.tds, column.length)]

\* A text fits its parameter; what the driver does with one that does not is
\* its own affair, and not followed here.
HasRoom(x) == Kind(x) \in {"NVarchar", "Varchar"} /\ ~IsNone(x) => Len(Payload(x)) <= MaxUnits

\* build_params, and SELECT @P1 AS ..., @P2 AS ...
Send ==
  /\ phase = "bound" /\ phase' = "writing" /\ \A i \in DOMAIN params : HasRoom(params[i])
  /\ LET sent == [i \in DOMAIN params |-> EncodeStringParameters(params[i], unicode)]
     IN /\ \E names \in [DOMAIN params -> Columns_] :
             metadata' = [i \in DOMAIN params |-> Named(names[i], EchoColumn(sent[i]))]
        /\ wire' = [i \in DOMAIN params |-> EchoCell(sent[i])]
  /\ UNCHANGED <<configVars, unicode, bound, params, source, values, decoded, visit>>

\* A row of a table: one column of any type, and perhaps another beside it.
CellsOf(column) ==
  {c \in Cells : Kind(c) \in KindsHeld(column.tds, column.length)}
    \cup (IF column.tds \in FixedLength THEN {} ELSE {Null})
Select ==
  /\ phase = "ready" /\ phase' = "writing"
  /\ \E column \in Elsewhere : \E cell \in CellsOf(column) :
       \/ \E name \in Columns_ : wire' = <<cell>> /\ metadata' = <<Named(name, column)>>
       \/ \E other \in Beside : \E first, second \in Columns_ :
            /\ wire' = <<cell, other[2]>>
            /\ metadata' = <<Named(first, column), Named(second, other[1])>>
  /\ UNCHANGED <<configVars, unicode, bound, params, source, values, decoded, visit>>

DecodedOf(cell) == IF Kind(cell) \in TextKinds THEN <<Payload(cell)>> ELSE <<>>

\* The write_... methods of BridgeRowWriter: two vectors grow together.
WriteColumn ==
  /\ phase = "writing" /\ wire # <<>> /\ wire' = Tail(wire)
  /\ values' = Append(values, Head(wire))
  /\ decoded' = Append(decoded, DecodedOf(Head(wire)))
  /\ UNCHANGED <<configVars, phase, unicode, bound, params, source, metadata, visit>>

TakeRow ==
  /\ phase = "writing" /\ wire = <<>> /\ phase' = "row"
  /\ UNCHANGED <<configVars, unicode, bound, params, source, rowVars, visit>>

\* Row::from_schema: the caller's values need not be as many as the columns.
FromSchema ==
  /\ phase = "writing" /\ params = <<>> /\ values = <<>> /\ phase' = "row" /\ wire' = <<>>
  /\ \/ values' = wire /\ metadata' = SubSeq(metadata, 1, Len(metadata) - 1)
     \/ values' = SubSeq(wire, 1, Len(wire) - 1) /\ UNCHANGED metadata
  /\ decoded' = [i \in DOMAIN values' |-> DecodedOf(values'[i])]
  /\ UNCHANGED <<configVars, unicode, bound, params, source, visit>>

-----------------------------------------------------------------------------
(* Lookups *)

\* decoded_str_at
Decoded(i) == IF i \in DOMAIN decoded THEN decoded[i] ELSE <<>>

NotFound == <<"error", "column">>
OutOfBounds == <<"error", "index">>

\* The last of two columns with one name is found.
SlipNameMap(name) ==
  {i \in DOMAIN metadata : metadata[i].name = name
     /\ \A j \in DOMAIN metadata : metadata[j].name = name => j <= i}

\* RowSchema::name_map: the first of two columns with one name.
NameMap(name) ==
  {i \in DOMAIN metadata : metadata[i].name = name
     /\ \A j \in DOMAIN metadata : metadata[j].name = name => i <= j}

\* resolve_name_ci: the exact name, then the first in any case.
IgnoringCase(name) ==
  {i \in DOMAIN metadata : LowerCase[metadata[i].name] = LowerCase[name]
     /\ \A j \in DOMAIN metadata : LowerCase[metadata[j].name] = LowerCase[name] => i <= j}
ResolveNameCi(name) == IF NameMap(name) # {} THEN NameMap(name) ELSE IgnoringCase(name)

\* try_get_at
TryGetAt(type, i) ==
  IF i \in DOMAIN values THEN FromSql(type, values[i], Decoded(i)) ELSE OutOfBounds

\* try_get: an index must be that of a value, a name that of a column.
TryGetIndex(type, i) == IF i \in DOMAIN values THEN TryGetAt(type, i) ELSE OutOfBounds
TryGetName(type, name) ==
  IF NameMap(name) = {} THEN NotFound ELSE TryGetAt(type, CHOOSE i \in NameMap(name) : TRUE)
TryGetCi(type, name) ==
  IF ResolveNameCi(name) = {} THEN NotFound
  ELSE TryGetAt(type, CHOOSE i \in ResolveNameCi(name) : TRUE)

\* build_compat_values: a value without a column has no type.
CompatValues ==
  [i \in DOMAIN values \cap DOMAIN decoded |->
     ColumnDataRef(values[i], decoded[i],
                   IF i \in DOMAIN metadata THEN metadata[i].type ELSE "Null")]

\* try_get_compat
TryGetCompat(type, i) ==
  IF i \in DOMAIN CompatValues THEN FromColumnData(type, CompatValues[i]) ELSE OutOfBounds

\* PartialEq: the types of the columns and the values.
RowEq(a, b) ==
  /\ [i \in DOMAIN a.metadata |-> a.metadata[i].type] = [i \in DOMAIN b.metadata |-> b.metadata[i].type]
  /\ a.values = b.values

\* Cells are bound again as they are: IntoSql of ColumnData is the identity.
SlipRebind ==
  /\ phase = "row" /\ source = <<>> /\ values # <<>> /\ phase' = "bound"
  /\ params' = [i \in DOMAIN values |-> DataToSql(ColumnDataRef(values[i], <<>>, "Null"))]
  /\ source' = <<[metadata |-> metadata, values |-> values, decoded |-> decoded]>>
  /\ metadata' = <<>> /\ values' = <<>> /\ decoded' = <<>>
  /\ bound' = <<>>
  /\ UNCHANGED <<configVars, unicode, wire, visit>>

Rebind ==
  /\ phase = "row" /\ source = <<>> /\ values # <<>> /\ phase' = "bound"
  /\ params' = [i \in DOMAIN CompatValues |-> DataToSql(CompatValues[i])]
  /\ source' = <<[metadata |-> metadata, values |-> values, decoded |-> decoded]>>
  /\ metadata' = <<>> /\ values' = <<>> /\ decoded' = <<>>
  /\ bound' = <<>>
  /\ UNCHANGED <<configVars, unicode, wire, visit>>

-----------------------------------------------------------------------------
(* serde: RowDeserializer, whose visitors are derived (external).  A struct *)
(* has a field of type Option<type> for each name it wants; a tuple has     *)
(* size elements of that type.                                              *)

StartVisit ==
  /\ phase = "row" /\ source = <<>> /\ phase' = "visiting"
  /\ \E type \in FieldTypes :
       \/ \E wanted \in SUBSET Columns_ \ {{}} :
            visit' = [shape |-> "struct", type |-> type, wanted |-> wanted, idx |-> 0,
                      key |-> <<>>, fields |-> <<>>, outcome |-> <<>>]
       \/ \E size \in 1..2 :
            visit' = [shape |-> "tuple", type |-> type, size |-> size, idx |-> 0,
                      key |-> <<>>, fields |-> <<>>, outcome |-> <<>>]
  /\ UNCHANGED <<configVars, unicode, bound, params, source, rowVars>>

Visiting(shape) ==
  /\ phase = "visiting" /\ visit.shape = shape /\ visit.outcome = <<>>
  /\ UNCHANGED <<configVars, unicode, bound, params, source, rowVars>>
Visited(name) == {k \in DOMAIN visit.fields : visit.fields[k][1] = name}
End(outcome) == visit' = [visit EXCEPT !.outcome = outcome] /\ phase' = "visited"

\* next_key_seed; the visitor refuses a second value for a field, and takes a
\* missing one for None.
NextKey ==
  /\ Visiting("struct") /\ visit.key = <<>>
  /\ LET i == visit.idx + 1
     IN IF i > Len(values) THEN End(<<"ok">>)
        ELSE IF i > Len(metadata) THEN End(OutOfBounds)
        ELSE IF metadata[i].name \in visit.wanted /\ Visited(metadata[i].name) # {}
             THEN End(<<"error", "duplicate">>)
        ELSE visit' = [visit EXCEPT !.key = <<metadata[i].name>>] /\ UNCHANGED phase

Field(i) == DeserializeOption(visit.type, values[i], Decoded(i))

\* next_value_seed; a column that is not wanted is skipped (ignored_any).
NextValue ==
  /\ Visiting("struct") /\ visit.key # <<>>
  /\ LET i == visit.idx + 1
     IN IF visit.key[1] \notin visit.wanted
        THEN visit' = [visit EXCEPT !.key = <<>>, !.idx = i] /\ UNCHANGED phase
        ELSE IF Field(i)[1] = "error" THEN End(Field(i))
        ELSE /\ visit' = [visit EXCEPT !.key = <<>>, !.idx = i,
                             !.fields = Append(@, <<visit.key[1], Field(i)>>)]
             /\ UNCHANGED phase

\* next_element_seed; the visitor refuses a row that is too short.
NextElement ==
  /\ Visiting("tuple")
  /\ LET i == visit.idx + 1
     IN IF visit.idx = visit.size THEN End(<<"ok">>)
        ELSE IF i > Len(values) THEN End(<<"error", "length">>)
        ELSE IF Field(i)[1] = "error" THEN End(Field(i))
        ELSE /\ visit' = [visit EXCEPT !.idx = i, !.fields = Append(@, <<i, Field(i)>>)]
             /\ UNCHANGED phase

Next ==
  \/ Configure \/ Login \/ Bind \/ Send \/ Select
  \/ WriteColumn \/ TakeRow \/ FromSchema \/ Rebind
  \/ StartVisit \/ NextKey \/ NextValue \/ NextElement

Spec == Init /\ [][Next]_vars

-----------------------------------------------------------------------------
(* Correctness *)

Success(x) == Len(x) = 2 /\ x[1] # "error"
AtRow == phase = "row"
Of(i) == metadata[i].kinds

\* What a column of the row was bound as, where it was bound here.
BoundValue == bound[2]

\* Texts that a caller binds as JSON arrive as JSON; its scalars become SQL
\* scalars, which are not read as JSON.
JsonLost(value) ==
  ~IsNone(value) /\ Kind(value) = "Json" /\ Payload(value)[1] # "container"
RefusedVector(value) == value = <<"VectorValue", "refused">>

\* A value bound through any of the APIs, under either string encoding, reads
\* back from the echoed row as itself: a None as None of its own type without
\* an error, a value by every reader that knows its type; and a column of sized
\* text says that it is as long as the text, or longer (a MAX one is described
\* by a marker, which char_length takes for a length).
EchoReadsBack ==
  AtRow /\ bound # <<>> /\ Len(values) = 1 /\ Len(metadata) = 1 =>
    LET value == BoundValue  type == Kind(BoundValue)
    IN ~JsonLost(value) /\ ~RefusedVector(value) =>
         /\ type \in NativeTypes =>
              TryGetIndex(type, 1) = IF IsNone(value) THEN None ELSE
                IF type = "Json" THEN <<type>> \o ParseJson[Payload(value)[2]] ELSE value
         /\ type \in CompatTypes =>
              TryGetCompat(type, 1) = IF IsNone(value) THEN None ELSE
                IF type = "Json" THEN <<type>> \o ParseJson[Payload(value)[2]] ELSE value
         /\ IsNone(value) => DeserializeOption("any", values[1], Decoded(1)) = None
         /\ Kind(values[1]) = "String" /\ metadata[1].length # MaxLength =>
              Len(Payload(values[1])) <= CharLength(metadata[1].type, metadata[1].length)[1]

\* Every type that reads a value of column i reads its NULL as None.
NullReads(i) ==
  \A type \in CompatTypes : \A other \in {c \in Cells : Kind(c) \in Of(i)} :
    Kind(other) # "Vector"
        /\ Success(FromColumnData(type, ColumnDataRef(other, DecodedOf(other), "Null")))
      => TryGetCompat(type, i) = None

\* The three readers of one cell agree.  What Tiberius' reader returns the
\* native one returns; what the native one cannot read is an error, never a
\* NULL, to Tiberius' reader; Option<T> and T, &str and String are the same;
\* serde reads what the native reader does; and a NULL reads as None for every
\* type that reads the values of its column, where ColumnType names the column's
\* type (column.rs names neither binary(n) nor char(n)) and that is no
\* sql_variant, whose NULLs are typed as binary ones.
ReadersAgree ==
  AtRow => \A i \in DOMAIN values :
    LET cell == values[i]
        text == Decoded(i)
    IN /\ \A type \in NativeTypes \cap CompatTypes :
            LET native == TryGetIndex(type, i)  compat == TryGetCompat(type, i)
            IN /\ Success(compat) => native = compat
               /\ compat = None => cell = Null
               /\ cell # Null /\ native = None => compat = Error
       /\ \A type \in NativeTypes : FromSqlOption(type, cell, text) = TryGetIndex(type, i)
       /\ Tail(TryGetIndex("str", i)) = Tail(TryGetIndex("String", i))
       /\ \A type \in NativeTypes \cap (SerdeTypes \ {"str"}) :
            Success(TryGetIndex(type, i)) =>
              DeserializeOption(type, cell, text) = TryGetIndex(type, i)
       /\ Success(TryGetIndex("str", i)) =>
            /\ DeserializeOption("str", cell, text) = <<"text">> \o Tail(TryGetIndex("str", i))
            /\ VisitAny(cell, text) = DeserializeOption("str", cell, text)
            /\ VisitEnum(cell, text, Texts) = <<"variant">> \o Tail(TryGetIndex("str", i))
       /\ cell = Null /\ i \in DOMAIN metadata /\ metadata[i].type \notin {"Ssvariant", "Null"} =>
            NullReads(i)

\* A NULL reads as None by Tiberius' reader for every type that reads a value of
\* its column, a sql_variant aside: row.rs promises of try_get_compat that a
\* "target-compatible typed SQL NULL returns `Ok(None)`".
NullsReadAsNone ==
  AtRow => \A i \in DOMAIN values \cap DOMAIN metadata :
    values[i] = Null /\ metadata[i].type # "Ssvariant" => NullReads(i)

\* The number a cell holds, and the number a Rust value is, as <<m, s>>.
CellNumber(cell) ==
  CASE Kind(cell) \in Integers   -> <<Payload(cell), 0>>
    [] Kind(cell) = "Bit"        -> <<IF Payload(cell) THEN 1 ELSE 0, 0>>
    [] Kind(cell) = "SmallMoney" -> <<Payload(cell), MoneyScale>>
    [] Kind(cell) = "Money"      ->
         LET half == 2^(4 * ByteBits)
         IN <<(Payload(cell)[1] * half) + (Payload(cell)[2] % half), MoneyScale>>
    [] OTHER                     -> <<Payload(cell)[1], Payload(cell)[2]>>
Number(type, v) == IF type \in IntTypes THEN <<v, 0>> ELSE v
Numeric == Integers \cup {"Bit", "Real", "Float", "Decimal", "Numeric", "Money", "SmallMoney"}

\* A number with more digits than the Rust type has is rounded at its last one.
Nearest(number, held) ==
  LET unit == 10^(held[2] - number[2])
      error == Magnitude((number[1] * unit) - held[1])
  IN held[2] >= number[2] /\ 2 * error <= unit

HasNoRoom(number) == Magnitude(number[1]) > MaxMantissa \/ number[2] > MaxScale

\* A float is read as faithfully as its type allows: the number itself where the
\* type has it, else a neighbour of it, and infinity only past every float.
Faithful(type, p, number) ==
  LET x == number[1] * 10^(FloatScale - number[2])
  IN CASE p = <<"inf">>  -> \A f \in Floats[type] : f < x
       [] p = <<"-inf">> -> \A f \in Floats[type] : x < f
       [] OTHER          ->
            /\ p = <<p[1], FloatScale>> /\ p[1] \in Floats[type]
            /\ \A f \in Floats[type] : ~(x <= f /\ f < p[1]) /\ ~(p[1] < f /\ f <= x)

\* Money is divided as a float: its count of ten-thousandths must be one.
Divided(cell) == Kind(cell) = "Money" => RawMoney(cell) * 10^FloatScale \in Floats["f64"]

\* No reader returns another number than the cell holds, or another text, where
\* the type asked for has that number: an integer that does not fit is an error
\* or None.  A Decimal is rounded, to the nearest at its last place, only where
\* it has no room for the digits or the scale.  A float, which serde casts from
\* any number, from a wider float and from Money too, is the number or a
\* neighbour of it among the floats of its type, and infinite only where the
\* number is past them all.
ReadsAreExact ==
  AtRow => \A i \in DOMAIN values :
    LET cell == values[i]
        Exactly(type, x) ==
          /\ Kind(cell) \in Numeric /\ type \in IntTypes \cup {"Decimal"} /\ Success(x) =>
               /\ \/ Number(type, x[2]) = CellNumber(cell)
                  \/ /\ type = "Decimal" /\ HasNoRoom(CellNumber(cell))
                     /\ Nearest(x[2], CellNumber(cell))
               /\ type \in IntTypes => Fits(type, x[2])
          /\ Kind(cell) \in Numeric /\ type \in {"f32", "f64"} /\ Success(x) /\ Divided(cell) =>
               Faithful(type, x[2], CellNumber(cell))
          /\ Kind(cell) \in TextKinds /\ type \in {"str", "String", "char"} /\ Success(x) =>
               x[2] = Payload(cell)
    IN /\ \A type \in NativeTypes : Exactly(type, TryGetIndex(type, i))
       /\ \A type \in CompatTypes : Exactly(type, TryGetCompat(type, i))
       /\ \A type \in SerdeTypes : Exactly(type, DeserializeOption(type, cell, Decoded(i)))

\* The cells of a row can be bound again (by cells() or by consuming the row)
\* and the echoed copy reads as the row did: by every type, the same value,
\* the same None or the same error, natively and by Tiberius' reader.  The copy
\* equals the row unless a column changed its type or a decimal its name.
CopiesFaithful ==
  AtRow /\ source # <<>> =>
    LET row == source[1]
        TypeIn(i) == IF i \in DOMAIN row.metadata THEN row.metadata[i].type ELSE "Null"
    IN /\ \A i \in DOMAIN values :
            /\ \A type \in NativeTypes :
                 TryGetIndex(type, i) = FromSql(type, row.values[i], row.decoded[i])
            /\ \A type \in CompatTypes :
                 TryGetCompat(type, i) =
                   FromColumnData(type, ColumnDataRef(row.values[i], row.decoded[i], TypeIn(i)))
       /\ \/ RowEq([metadata |-> metadata, values |-> values], row)
          \/ Len(metadata) # Len(row.metadata)
          \/ \E i \in DOMAIN values :
               metadata[i].type # TypeIn(i) \/ Kind(row.values[i]) = "Decimal"

\* A statement prepared with a sample of some type is declared for any later
\* value of that type, None included: the declaration names the variant that
\* is sent, under either encoding of strings, and gives it the same size; a
\* Decimal's precision and scale aside, which are those of the sample.  Text
\* that is bound as ColumnData, from a row or not, always has room.
DeclarationFits ==
  phase = "bound" =>
    /\ bound # <<>> /\ bound[1] = "native" /\ Kind(BoundValue) # "Json" =>
         \A sample \in RustValues(Kind(BoundValue)) :
           LET declared == ParameterDeclaration(ToSql(sample), unicode)
               sent == EncodeStringParameters(params[1], unicode)
           IN /\ declared.name = Kind(sent)
              /\ Kind(sent) # "Numeric" => declared.suffix = Suffix(sent)
    /\ source # <<>> \/ bound[1] # "native" => \A i \in DOMAIN params : HasRoom(params[i])

\* The columns called name, and those called so in some case.
Called(name) == {i \in DOMAIN metadata : metadata[i].name = name}
CalledCi(name) == {i \in DOMAIN metadata : LowerCase[metadata[i].name] = LowerCase[name]}
IsFirst(i, S) == i \in S /\ \A j \in S : i <= j

\* Lookup by name reads the first of the columns with that name, however many
\* there are, and is an error only if there is none; ignoring case it prefers
\* the exact name, even to an earlier column.  Where both find a column with a
\* value they read what lookup by its index reads.
LookupsAgree ==
  AtRow => \A name \in Columns_ : \A type \in NativeTypes :
    LET exact == TryGetName(type, name)  ci == TryGetCi(type, name)
    IN /\ (exact = NotFound) <=> (Called(name) = {})
       /\ (ci = NotFound) <=> (CalledCi(name) = {})
       /\ exact # NotFound =>
            /\ ci = exact
            /\ \E i \in DOMAIN metadata : IsFirst(i, Called(name)) /\ exact = TryGetIndex(type, i)
       /\ exact = NotFound /\ ci # NotFound =>
            \E i \in DOMAIN metadata : IsFirst(i, CalledCi(name)) /\ ci = TryGetIndex(type, i)

\* A struct or tuple that is read from a row has in each field what its own
\* column holds, as lookup by name or index reads it, and a field is missing
\* only where the row has no such column or no value for it; a name that two
\* columns have, or a row too short, is an error and never a guess.
FieldsMatchColumns ==
  phase = "visited" =>
    LET Holds(x, i) ==
          /\ x = DeserializeOption(visit.type, values[i], Decoded(i))
          /\ x = None => values[i] = Null
          /\ visit.type \in NativeTypes /\ Success(TryGetIndex(visit.type, i)) =>
               x[2] = TryGetIndex(visit.type, i)[2]
        Valued(name) == {i \in Called(name) : i \in DOMAIN values}
    IN CASE visit.shape = "struct" /\ visit.outcome = <<"ok">> ->
              \A name \in visit.wanted :
                /\ Cardinality(Valued(name)) = Cardinality(Visited(name))
                /\ Visited(name) # {} => \E k \in Visited(name) :
                     /\ Cardinality(Visited(name)) = 1
                     /\ Holds(visit.fields[k][2], CHOOSE i \in NameMap(name) : TRUE)
         [] visit.shape = "tuple" /\ visit.outcome = <<"ok">> ->
              /\ Len(visit.fields) = visit.size
              /\ \A k \in DOMAIN visit.fields : Holds(visit.fields[k][2], k)
         [] visit.outcome = <<"error", "duplicate">> ->
              \E name \in visit.wanted : Cardinality(Valued(name)) > 1
         [] visit.outcome = <<"error", "length">> -> Len(values) < visit.size
         [] OTHER -> \/ Len(metadata) < Len(values)
                     \/ \E i \in DOMAIN values :
                          DeserializeOption(visit.type, values[i], Decoded(i))[1] = "error"

\* The ways to a column agree, by name, ignoring case, by index and by serde's
\* fields, whichever names two columns share.
NamesAgree == LookupsAgree /\ FieldsMatchColumns
=============================================================================
