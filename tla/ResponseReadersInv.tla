-------------------------- MODULE ResponseReadersInv --------------------------
(***************************************************************************)
(* The invariants of ResponseReaders, in named parts: what a buffering     *)
(* loop holds of the response it has read, and how its RowStream hands it  *)
(* out.  Those of the stream are in QueryStreamInv.                        *)
(***************************************************************************)
EXTENDS ResponseReaders, FiniteSets

Rows == Positions({"row"})
SetsUpTo(i) == {s \in Positions({"set"}) : s <= i}
RowsOf(s) == {i \in Rows : SetOf(i) = s}
Elements(s) == {s[i] : i \in DOMAIN s}
Increasing(s) == \A i, j \in DOMAIN s : i < j => s[i] < s[j]
Precedes(S, T) == \A i \in S, j \in T : i < j

-----------------------------------------------------------------------------
(* collect_results *)

\* Where the loop is.  The set it is in started before the rows it has read.
QueryPlace ==
  /\ loop = "execute" => pos = 0 /\ ~onRows
  /\ loop = "test" => IF onRows THEN pos \in Positions({"set"}) ELSE ~NextIs({"row"})
  /\ loop = "row" =>
       /\ pos - Len(rows) \in Positions({"set"})
       /\ \A i \in DOMAIN rows : rows[i] = pos - Len(rows) + i /\ rows[i] \in Rows
  /\ loop = "advance" => ~NextIs({"row"})

\* The tokens whose rows are in result_sets.
Gathered ==
  CASE loop = "test" /\ onRows -> pos - 1
    [] loop = "row"            -> pos - Len(rows) - 1
    [] OTHER                   -> pos

\* One Vec for each set up to token g, with its rows.
EachSet(sets, g) ==
  /\ Len(sets) = Cardinality(SetsUpTo(g))
  /\ \A s \in SetsUpTo(g) : Lists(sets[Cardinality(SetsUpTo(s))], RowsOf(s))

\* Sequences that hold these positions one after the other.
InOrder(seqs, S) ==
  /\ UNION {Elements(seqs[k]) : k \in DOMAIN seqs} = S
  /\ \A k \in DOMAIN seqs : Increasing(seqs[k])
  /\ \A k, l \in DOMAIN seqs : k < l => Precedes(Elements(seqs[k]), Elements(seqs[l]))

\* All rows up to token g, in the order they came.
EachRow(sets, g) == InOrder(sets, {i \in Rows : i <= g})

-----------------------------------------------------------------------------
(* collect_execute_results *)

\* The rows counted follow the set they are counted for.
CountPlace ==
  /\ loop \in {"execute", "advance", "counting", "ok", "err"}
  /\ loop = "counting" =>
       /\ statement \in Positions({"set"}) /\ pos = statement + count
       /\ \A i \in statement + 1..pos : i \in Rows

Counted == IF loop = "counting" THEN statement - 1 ELSE pos

\* One count for each statement up to token g that has one.
EachCount(list, g) ==
  /\ Lists([k \in DOMAIN list |-> list[k].of], {i \in Positions({"set", "count"}) : i <= g})
  /\ \A k \in DOMAIN list : list[k].rows = Cardinality(RowsOf(list[k].of))

-----------------------------------------------------------------------------
(* RowStream *)

Unyielded == Rows \ Elements(streamed)

\* What it has yielded, what is left of the current set, and the sets after it
\* are the rows of the response, in order.
Streaming ==
  /\ Elements(streamed) \subseteq Rows /\ Elements(rowStream.current) \subseteq Unyielded
  /\ Increasing(streamed) /\ Increasing(rowStream.current)
  /\ Precedes(Elements(streamed), Unyielded)
  /\ Precedes(Elements(rowStream.current), Unyielded \ Elements(rowStream.current))
  /\ InOrder(rowStream.sets, Unyielded \ Elements(rowStream.current))
  /\ rowStream.remaining = Cardinality(Unyielded)

-----------------------------------------------------------------------------

\* An error that was read has ended the loop, and only a response that was
\* read to its end is a result.
BufferPlace ==
  /\ loop # "err" => pos \notin Positions({"error"})
  /\ loop \in {"ok", "streaming", "streamed"} => pos = Len(response)

BufferTyped ==
  /\ api \in {"query", "execute"}
  /\ loop \in {"execute", "test", "row", "advance", "counting", "ok", "err", "streaming", "streamed"}
  /\ resultSets \in Seq(Seq(Nat))
  /\ rows \in Seq(Nat)
  /\ statement \in 0..Len(response)
  /\ counts \in Seq([of : Nat, rows : Nat])
  /\ count \in Nat
  /\ rowStream \in [sets : Seq(Seq(Nat)), current : Seq(Nat), remaining : Nat]
  /\ streamed \in Seq(Nat)

QueryInv ==
  /\ loop # "counting" /\ QueryPlace
  /\ loop # "err" => EachSet(resultSets, Gathered) /\ EachRow(resultSets, Gathered)
  /\ loop = "streaming" => Streaming
  /\ loop = "streamed" => Lists(streamed, Rows)
  /\ loop \notin {"streaming", "streamed"} => streamed = <<>>

ExecuteInv == CountPlace /\ (loop # "err" => EachCount(counts, Counted))

BInv ==
  /\ NativeTypeOK /\ BufferTyped /\ BufferPlace
  /\ api = "query" => QueryInv
  /\ api = "execute" => ExecuteInv

===============================================================================
