---------------------------- MODULE BulkLoadInv ----------------------------
(***************************************************************************)
(* The invariant of BulkLoad that its steps preserve.  What a complete     *)
(* load and a failed one leave in the table is not inductive by itself: it *)
(* rests on the rows held being the rows promised, and on the table being  *)
(* untouched, for as long as the request lives.                            *)
(***************************************************************************)
EXTENDS BulkLoad

\* The width a request expects is that of every row it retains.
OneWidth ==
  request = "open" =>
    /\ \A i \in 1..Len(rows) : rows[i].width = rowWidth
    /\ rowWidth = NoWidth <=> rows = <<>>

\* Until a send has ended, the rows are those its callers were told are in, the
\* table is as the request found it and nothing has gone wrong.
Unfinished ==
  request # "none" => rows = accepted /\ table = before /\ cause = "none"

\* What the end of a send leaves in the table, and what it replies.
Beginning == \E n \in 0..Len(accepted) : table = before \o SubSeq(accepted, 1, n)
Replied ==
  /\ request # "none" => reply.kind \in {"none", "accepted", "bulk_input"}
  /\ reply.kind = "ok" => table = before \o accepted /\ reply.count = Len(accepted)
  /\ InputErrorsNamed

BInv == TypeOK /\ OneWidth /\ Unfinished /\ Beginning /\ Replied
=============================================================================
