----------------------------- MODULE QueryStream -----------------------------
(***************************************************************************)
(* Client::query_compat (client.rs) and the QueryStream around it          *)
(* (compat.rs): a generator that runs only while a caller polls it, a      *)
(* one-item look-ahead for columns(), and into_results.                    *)
(*                                                                         *)
(* A poll may be dropped at any await and the stream polled again: the     *)
(* generator keeps its place.  Whether the connection survives the drop of *)
(* the stream itself is BridgeClient's subject.  Operators named Slip...   *)
(* are mistakes the properties must tell apart.                            *)
(***************************************************************************)
EXTENDS NativeResponse, FiniteSets

CONSTANT None   \* no item, no columns

VARIABLES
  gen,          \* where the generator is suspended
  resultIndex,  \* result_index of the generator
  schema,       \* the set whose metadata the generator took last
  peeked,       \* QueryStream::peeked: an item the caller has not taken
  columns,      \* QueryStream::columns, named by the set they describe
  poll,         \* the future the caller is polling
  taken,        \* items received by poll_next
  results,      \* what into_results has collected
  reported      \* errors handed to the caller

genVars == <<gen, resultIndex, schema>>
callerVars == <<peeked, columns, poll, taken, results, reported>>
vars == <<nativeVars, genVars, callerVars>>

Item == [at : Nat, schema : Nat, index : Nat]

TypeOK ==
  /\ NativeTypeOK
  /\ gen \in {"start", "advancing", "fetching", "metadata", "row", "error", "done"}
  /\ resultIndex \in Nat
  /\ schema \in Nat \cup {None}
  /\ peeked \in Item \cup {None}
  /\ columns \in Nat \cup {None}
  /\ poll \in {"none", "next", "columns", "collect", "consumed"}
  /\ taken \in Seq(Item)
  /\ results \in Seq(Seq(Item))
  /\ reported \in Nat

Init ==
  /\ NativeInit
  /\ gen = "start" /\ resultIndex = 0 /\ schema = None
  /\ peeked = None /\ columns = None /\ poll = "none"
  /\ taken = <<>> /\ results = <<>> /\ reported = 0

-----------------------------------------------------------------------------
(* The generator of query_compat *)

\* poll_next and columns() ask the generator only when nothing is peeked.
Running == poll \in {"next", "columns", "collect"} /\ peeked = None

\* One writer for all sets.
SlipEnterSet == gen' = "metadata" /\ schema' = (IF schema = None THEN pos' ELSE schema) /\ UNCHANGED resultIndex

\* The loop body starts: the set's metadata, and a writer for its rows.
EnterSet == gen' = "metadata" /\ schema' = pos' /\ UNCHANGED resultIndex
Continue(place) == gen' = place /\ UNCHANGED <<resultIndex, schema>>

\* close_query and execute, then the loop test: on_rows, or advance first.
Execute ==
  /\ gen = "start"
  /\ \/ ReadStatement("set") /\ EnterSet
     \/ \E k \in {"count", "silent"} : ReadStatement(k) /\ Continue("advancing")
     \/ ReadStatement("error") /\ Continue("error")
     \/ AtEnd /\ UNCHANGED nativeVars /\ Continue("advancing")

\* The loop does not stop at the last set.
SlipAdvance ==
  /\ gen = "advancing"
  /\ \/ Advanced /\ EnterSet
     \/ AdvanceFails /\ Continue("error")
     \/ NoMoreSets /\ Continue("advancing")

\* advance_stream, in the loop test or after a set.
Advance ==
  /\ gen = "advancing"
  /\ \/ Advanced /\ EnterSet
     \/ AdvanceFails /\ Continue("error")
     \/ NoMoreSets /\ Continue("done")

\* next_row_into with the writer of this set.
Fetch ==
  /\ gen = "fetching"
  /\ \/ ReadRow /\ Continue("row")
     \/ RowError /\ Continue("error")
     \/ NoMoreRows /\ gen' = "advancing" /\ resultIndex' = resultIndex + 1 /\ UNCHANGED schema

Generate == Running /\ (Execute \/ Advance \/ Fetch) /\ UNCHANGED callerVars

-----------------------------------------------------------------------------
(* What it yields, and who receives it *)

\* The item at the yield point, with the schema and index of its writer.
Yielded == [at |-> pos, schema |-> schema, index |-> resultIndex]
AtYield == gen \in {"metadata", "row"}

\* The item a poll finds: the peeked one before the generator's.
Found == IF peeked # None THEN peeked ELSE Yielded
Obtain ==
  /\ peeked # None \/ AtYield
  /\ peeked' = None
  /\ gen' = IF peeked # None THEN gen ELSE "fetching"
  /\ UNCHANGED <<nativeVars, resultIndex, schema>>

IsMetadata(item) == response[item.at] = "set"
Describe(item) == columns' = IF IsMetadata(item) THEN item.schema ELSE columns

\* poll_next is ready with an item.
Take ==
  /\ poll = "next"
  /\ Obtain /\ Describe(Found)
  /\ taken' = Append(taken, Found)
  /\ poll' = "none"
  /\ UNCHANGED <<results, reported>>

\* Empty sets are dropped, as in Tiberius.
SlipGrouped(sets, item) ==
  CASE IsMetadata(item) ->
         IF sets # <<>> /\ sets[Len(sets)] = <<>> THEN sets ELSE Append(sets, <<>>)
    [] ~IsMetadata(item) /\ sets = <<>> -> << <<item>> >>
    [] OTHER -> [sets EXCEPT ![Len(sets)] = Append(@, item)]

\* into_results: metadata opens a set, a row joins the last one, or opens the
\* first when its metadata was taken before.
Grouped(sets, item) ==
  CASE IsMetadata(item) -> Append(sets, <<>>)
    [] ~IsMetadata(item) /\ sets = <<>> -> << <<item>> >>
    [] OTHER -> [sets EXCEPT ![Len(sets)] = Append(@, item)]

Collect ==
  /\ poll = "collect"
  /\ Obtain /\ Describe(Found)
  /\ results' = Grouped(results, Found)
  /\ UNCHANGED <<poll, taken, reported>>

\* columns() consumes the item it looked at.
SlipPeek ==
  /\ poll = "columns" /\ peeked = None /\ AtYield
  /\ Describe(Yielded)
  /\ gen' = "fetching" /\ poll' = "none"
  /\ UNCHANGED <<nativeVars, resultIndex, schema, peeked, taken, results, reported>>

\* columns() keeps the item for the next poll.
Peek ==
  /\ poll = "columns" /\ peeked = None /\ AtYield
  /\ peeked' = Yielded /\ Describe(Yielded)
  /\ gen' = "fetching" /\ poll' = "none"
  /\ UNCHANGED <<nativeVars, resultIndex, schema, taken, results, reported>>

Finished == poll' = IF poll = "collect" THEN "consumed" ELSE "none"

\* An error goes to whichever future is polling and ends the generator.
ReportError ==
  /\ Running /\ gen = "error"
  /\ gen' = "done" /\ columns' = None /\ reported' = reported + 1
  /\ Finished
  /\ UNCHANGED <<nativeVars, resultIndex, schema, peeked, taken, results>>

\* None: the end of the stream, now and on every later poll.
ReportEnd ==
  /\ Running /\ gen = "done"
  /\ Finished
  /\ UNCHANGED <<nativeVars, genVars, peeked, columns, taken, results, reported>>

-----------------------------------------------------------------------------
(* The caller *)

\* next(), columns() with nothing peeked, into_results.
StartPoll(future) ==
  /\ poll = "none"
  /\ future = "columns" => peeked = None
  /\ poll' = future
  /\ UNCHANGED <<nativeVars, genVars, peeked, columns, taken, results, reported>>

\* The pending next() or columns() is dropped, the stream is kept.
DropPoll ==
  /\ poll \in {"next", "columns"}
  /\ poll' = "none"
  /\ UNCHANGED <<nativeVars, genVars, peeked, columns, taken, results, reported>>

Ready == Generate \/ Take \/ Collect \/ Peek \/ ReportError \/ ReportEnd
Next ==
  \/ Ready
  \/ \E future \in {"next", "columns", "collect"} : StartPoll(future)
  \/ DropPoll

Spec == Init /\ [][Next]_vars

-----------------------------------------------------------------------------
(* Correctness *)

At(s) == {s[i].at : i \in DOMAIN s}
Collected == UNION {At(results[k]) : k \in DOMAIN results}
Peeked == IF peeked = None THEN {} ELSE {peeked.at}

\* Items the generator has let go.
Released == {i \in Items : i <= pos /\ ~(AtYield /\ i = pos)}
Sets == Positions({"set"})

\* Every item is received once and in order, whatever polls were dropped and
\* however columns() looked ahead: what the driver has read is with the
\* caller, in peeked, or at the yield point.  Only into_results keeps no
\* metadata.
NothingLost ==
  /\ At(taken) \cup Collected \cup Peeked \subseteq Released
  /\ \A i \in Released \ (At(taken) \cup Collected \cup Peeked) :
       i \in Sets /\ results # <<>>
  /\ \A i, j \in DOMAIN taken : i < j => taken[i].at < taken[j].at
  /\ \A i \in At(taken), j \in Collected \cup Peeked : i < j

\* A row carries the schema and the index of its own result set, though one
\* writer serves a whole set and is replaced only between two of them.
RowsMatchSchema ==
  \A item \in {taken[i] : i \in DOMAIN taken}
                \cup UNION {{results[k][i] : i \in DOMAIN results[k]} : k \in DOMAIN results} :
    /\ item.schema = SetOf(item.at)
    /\ item.index = Cardinality({s \in Sets : s < item.schema})

\* columns() describes the item a following poll_next returns, or the last
\* set when the stream is over, and nothing after an error.
ColumnsFit ==
  columns = IF Released = {} \/ reported > 0 THEN None
            ELSE SetOf(CHOOSE i \in Released : \A j \in Released : j <= i)

\* An error in the response reaches the caller exactly once, after every item
\* before it, and nothing comes after it.
ErrorOnce ==
  /\ reported <= 1
  /\ reported = 1 => Failing /\ Released = Items /\ gen = "done"
  /\ poll = "consumed" /\ Failing => reported = 1

\* into_results returns the sets in order, rows grouped as the server sent
\* them, the empty ones kept: one group per set whose metadata had not been
\* taken, and one for what is left of the set being read.
SetsKept ==
  poll = "consumed" /\ reported = 0 =>
    LET partial == {i \in Collected : SetOf(i) \in At(taken)}
        groups == DOMAIN results
    IN /\ Len(results) = Cardinality(Sets \ At(taken)) + (IF partial = {} THEN 0 ELSE 1)
       /\ Collected = (Items \ Sets) \ At(taken)
       /\ \A k \in groups : Lists([i \in DOMAIN results[k] |-> results[k][i].at], At(results[k]))
       /\ \A k, l \in groups : \A i \in At(results[k]), j \in At(results[l]) :
            /\ k = l <=> SetOf(i) = SetOf(j)
            /\ k < l => i < j

=============================================================================
