--------------------------- MODULE QueryStreamInv ---------------------------
(***************************************************************************)
(* The invariant of QueryStream, in named parts: where the generator is in *)
(* the response, and who has the items it has let go.                      *)
(***************************************************************************)
EXTENDS QueryStream

\* Where each suspension point of the generator is in the response.
Place ==
  /\ gen = "start" => pos = 0
  /\ gen = "metadata" => pos \in Positions({"set"})
  /\ gen = "row" => pos \in Positions({"row"})
  /\ gen = "fetching" => pos \in Items
  /\ gen = "advancing" => ~NextIs({"row"})
  /\ gen = "error" => pos \in Positions({"error"})
  /\ gen = "done" => pos = Len(response)
  /\ gen \notin {"error", "done"} => pos \notin Positions({"error"})

\* A writer's rows have a set, from its metadata on.
Writing == gen \in {"metadata", "row", "fetching"} => schema \in Nat

\* An error is reported when the generator is done with it, not before.
Reporting ==
  /\ reported = IF gen = "done" /\ Failing THEN 1 ELSE 0
  /\ poll = "consumed" => gen = "done"

\* A peeked item is the last one the generator let go.
PeekedLast == peeked # None => gen = "fetching" /\ peeked.at = pos

\* into_results consumes the stream: nothing is taken after it.
CollectLast == results # <<>> => poll \in {"collect", "consumed"}

SInv ==
  TypeOK /\ Place /\ Writing /\ Reporting /\ PeekedLast /\ CollectLast /\ NothingLost

-----------------------------------------------------------------------------
(* What describes the items *)

Before(i) == {s \in Sets : s < i}
UpTo(i) == {s \in Sets : s <= i}

\* The writer has the schema of the last set, and the number of those before.
WriterFits ==
  /\ gen \in {"metadata", "row", "fetching"} =>
       /\ schema \in UpTo(pos) /\ \A t \in UpTo(pos) : t <= schema
       /\ resultIndex = Cardinality(Before(schema))
  /\ gen \in {"start", "advancing"} => resultIndex = Cardinality(UpTo(pos))

Fits(item) ==
  item.schema = SetOf(item.at) /\ item.index = Cardinality(Before(item.schema))
PeekedFits == peeked # None => Fits(peeked)

Last(i) == i \in Released /\ \A j \in Released : j <= i
ColumnsKnown ==
  /\ Released # {} => \E i \in Released : Last(i)
  /\ Released = {} \/ reported > 0 => columns = None
  /\ reported = 0 => \A i \in Released : Last(i) => columns = SetOf(i)

DInv == WriterFits /\ PeekedFits /\ RowsMatchSchema /\ ColumnsKnown

-----------------------------------------------------------------------------
(* What into_results makes of them *)

\* The items the caller has received, and of them the metadata that opened a
\* group and the rows whose set was opened before into_results.
Handed == Released \ Peeked
Opened == (Sets \cap Handed) \ At(taken)
Partial == {i \in Collected : SetOf(i) \in At(taken)}

\* What was taken came before everything else.
TakenFirst == \A i \in At(taken), j \in Released \ At(taken) : i < j

\* Groups hold rows, in the order they came.
GroupsInOrder ==
  /\ Collected \subseteq Handed \ Sets
  /\ \A k \in DOMAIN results : \A i, j \in DOMAIN results[k] :
       i < j => results[k][i].at < results[k][j].at
  /\ \A k, l \in DOMAIN results : k < l =>
       \A i \in At(results[k]), j \in At(results[l]) : i < j

\* Rows are in one group when no set starts between them, and in the last group
\* when none has started since.
SameSet(i, j) == ~\E s \in Sets : i < s /\ s < j
GroupsAreSets ==
  /\ \A k, l \in DOMAIN results : \A i \in At(results[k]), j \in At(results[l]) :
       i < j => (k = l <=> SameSet(i, j))
  /\ \A k \in DOMAIN results : \A i \in At(results[k]) :
       k = Len(results) <=> ~\E s \in Sets \cap Handed : i < s

\* Each set opened has a group, and so have the rows of the set before them.
GroupsCounted == Len(results) = Cardinality(Opened) + (IF Partial = {} THEN 0 ELSE 1)

GInv == TakenFirst /\ GroupsInOrder /\ GroupsAreSets /\ GroupsCounted
=============================================================================
