--------------------------- MODULE BulkLoadProofs ---------------------------
(***************************************************************************)
(* Proofs about BulkLoad for every table width, batch size, number of rows *)
(* and outcome of their cells.                                             *)
(***************************************************************************)
EXTENDS BulkLoadInv, SequenceTheorems, TLAPS

\* A table that is as the request found it holds a beginning of its rows: none.
LEMMA NothingLoaded ==
  ASSUME NEW t \in Seq(Row), NEW a \in Seq(Row)
  PROVE  \E n \in 0..Len(a) : t = t \o SubSeq(a, 1, n)
<1>1. SubSeq(a, 1, 0) = <<>>
  OBVIOUS
<1>2. t \o <<>> = t
  BY ConcatEmptySeq
<1>3. 0 \in 0..Len(a)
  OBVIOUS
<1>4. QED BY <1>1, <1>2, <1>3

\* A bulk load starts from an empty table and no request.
LEMMA InitBInv == Init => BInv
<1>1. ASSUME Init PROVE TypeOK
  <2>1. <<>> \in Seq(Row) /\ Len(<<>>) = 0
    OBVIOUS
  <2>2. reply \in [kind : Replies, count : Nat]
    BY <1>1 DEF Init, Replies
  <2>3. written \in 0..Len(rows) /\ offered \in 0..MaxOffered
    BY <1>1, <2>1, BulkAssumption DEF Init
  <2>4. QED BY <1>1, <2>1, <2>2, <2>3 DEF Init, TypeOK, Causes
<1>2. ASSUME Init PROVE Beginning
  BY <1>1, <1>2, NothingLoaded DEF Init, TypeOK, Beginning
<1>3. ASSUME Init PROVE OneWidth /\ Unfinished
  BY <1>3 DEF Init, OneWidth, Unfinished
<1>4. ASSUME Init PROVE Replied
  <2>1. request = "none" /\ reply.kind = "none" /\ cause = "none"
    BY <1>4 DEF Init
  <2>2. QED BY <2>1 DEF Replied, InputErrorsNamed
<1>5. QED BY <1>1, <1>2, <1>3, <1>4 DEF BInv

-----------------------------------------------------------------------------
(* The steps, with the parts of the invariant each can disturb *)

\* A step that leaves the table and the rows alone leaves a beginning of them.
LEMMA SameBeginning ==
  ASSUME Beginning, UNCHANGED <<table, before, accepted>>
  PROVE  Beginning'
  BY DEF Beginning

\* What is appended to a sequence is its last element, after those it had.
LEMMA Appended ==
  ASSUME NEW s \in Seq(Row), NEW e \in Row
  PROVE  /\ Append(s, e) \in Seq(Row) /\ Len(Append(s, e)) = Len(s) + 1 /\ Append(s, e) # <<>>
         /\ \A i \in 1..Len(s) : Append(s, e)[i] = s[i]
         /\ Append(s, e)[Len(s) + 1] = e
  BY AppendProperties

\* A request that has sent nothing finds the table as it was.
LEMMA FreshBeginning ==
  ASSUME table' \in Seq(Row), accepted' \in Seq(Row), before' = table'
  PROVE  Beginning'
  BY NothingLoaded DEF Beginning

\* Awaiting the builder opens a request that retains nothing.
LEMMA BeginStep == ASSUME BInv, Begin PROVE BInv'
<1> USE DEF BInv, Begin, Reply
<1>1. CASE dead
  <2>1. /\ UNCHANGED <<dead, request, api, rows, rowWidth, table, accepted, before, cause, offered>>
        /\ written' = 0 /\ reply' = [kind |-> "closed", count |-> 0] /\ request = "none"
    BY <1>1 DEF requestVars, historyVars
  <2>2. 0 \in 0..Len(rows)
    BY DEF TypeOK
  <2>3. TypeOK'
    BY <2>1, <2>2 DEF TypeOK, Replies
  <2>4. QED
    BY <2>1, <2>3, SameBeginning DEF OneWidth, Unfinished, Replied, InputErrorsNamed
<1>2. CASE ~dead
  <2>1. /\ UNCHANGED <<dead, api, table, offered>> /\ request' = "open"
        /\ rows' = <<>> /\ rowWidth' = NoWidth /\ written' = 0 /\ reply' = [kind |-> "none", count |-> 0]
        /\ accepted' = <<>> /\ before' = table /\ cause' = "none"
    BY <1>2
  <2>2. <<>> \in Seq(Row) /\ 0 \in 0..Len(<<>>)
    OBVIOUS
  <2>3. TypeOK'
    BY <2>1, <2>2 DEF TypeOK, Replies, Causes
  <2>4. Beginning'
    BY <2>1, <2>2, FreshBeginning DEF TypeOK
  <2>5. QED
    BY <2>1, <2>3, <2>4 DEF OneWidth, Unfinished, Replied, InputErrorsNamed
<1>3. QED BY <1>1, <1>2

\* A row is retained, and its caller told so, or neither.
LEMMA SendStep == ASSUME BInv, NEW row \in OfferedRows, Send(row) PROVE BInv'
<1> USE BulkAssumption DEF BInv, Send, Reply
<1>1. row \in Row /\ offered' \in 0..MaxOffered
  BY DEF OfferedRows, Row, TypeOK
<1>2. CASE ~WidthFits(row)
  <2>1. /\ UNCHANGED <<dead, request, api, written, rows, rowWidth, table, accepted, before, cause>>
        /\ reply' = [kind |-> "bulk_input", count |-> 0] /\ request = "open"
    BY <1>2 DEF requestVars
  <2>2. TypeOK'
    BY <1>1, <2>1 DEF TypeOK, Replies
  <2>3. QED
    BY <2>1, <2>2, SameBeginning DEF OneWidth, Unfinished, Replied, InputErrorsNamed
<1>3. CASE WidthFits(row)
  <2>1. /\ rows' = Append(rows, row) /\ rows' \in Seq(Row) /\ Len(rows') = Len(rows) + 1
        /\ \A i \in 1..Len(rows) : rows'[i] = rows[i]
        /\ rows'[Len(rows) + 1] = row /\ rows' # <<>>
    <3>1. rows \in Seq(Row) /\ rows' = Append(rows, row)
      BY <1>3 DEF TypeOK
    <3>2. QED BY ONLY <1>1, <3>1, Appended
  <2>2. /\ UNCHANGED <<dead, request, api, written, table, before, cause>>
        /\ accepted' = rows' /\ rowWidth' = row.width /\ request = "open"
        /\ reply' = [kind |-> "accepted", count |-> 0] /\ table = before
    BY <1>3, <2>1, request = "open" DEF Unfinished
  <2>3. row.width \in Widths
    BY DEF OfferedRows
  <2>4. TypeOK'
    <3>1. written' \in 0..Len(rows')
      BY <2>1, <2>2 DEF TypeOK
    <3>2. QED BY <1>1, <2>1, <2>2, <2>3, <3>1 DEF TypeOK, Replies
  <2>5. OneWidth'
    <3>1. \A i \in 1..Len(rows) : rows[i].width = row.width
      BY <1>3, <2>2 DEF WidthFits, OneWidth
    <3>2. Len(rows) \in Nat /\ row.width # NoWidth
      <4>1. rows \in Seq(Row)
        BY DEF TypeOK
      <4>2. row.width \in Nat /\ NoWidth \notin Nat
        BY ONLY <2>3, BulkAssumption
      <4>3. QED BY ONLY <4>1, <4>2
    <3>3. \A i \in 1..Len(rows') : rows'[i].width = rowWidth'
      <4> TAKE i \in 1..Len(rows')
      <4>1. i \in 1..Len(rows) \/ i = Len(rows) + 1
        BY ONLY <2>1, <3>2, i \in 1..Len(rows')
      <4>2. QED BY ONLY <2>1, <2>2, <3>1, <4>1
    <3>4. rowWidth' # NoWidth /\ rows' # <<>>
      BY ONLY <2>1, <2>2, <3>2
    <3>5. QED BY ONLY <3>3, <3>4 DEF OneWidth
  <2>6. Beginning'
    BY <2>1, <2>2, FreshBeginning DEF TypeOK
  <2>7. QED BY <2>2, <2>4, <2>5, <2>6 DEF Unfinished, Replied, InputErrorsNamed
<1>4. QED BY <1>2, <1>3

\* A dropped request keeps the table as it was.
LEMMA DropRequestStep == ASSUME BInv, DropRequest PROVE BInv'
<1>1. /\ UNCHANGED <<dead, api, rows, rowWidth, written, table, accepted, before, cause, offered>>
      /\ request' = "none" /\ reply' = [kind |-> "none", count |-> 0]
  BY DEF DropRequest, Reply, requestVars, historyVars
<1>2. TypeOK'
  BY <1>1 DEF BInv, TypeOK, Replies
<1>3. QED
  BY <1>1, <1>2, SameBeginning DEF BInv, OneWidth, Unfinished, Replied, InputErrorsNamed

\* So does one that is finalized.
LEMMA FinalizeStep == ASSUME BInv, Finalize PROVE BInv'
<1>1. /\ UNCHANGED <<dead, rows, rowWidth, table, accepted, before, offered>>
      /\ request = "open" /\ api' = "compat" /\ written' = 0 /\ cause' = "none"
      /\ request' = IF dead THEN "none" ELSE "sending"
      /\ reply' = [kind |-> IF dead THEN "closed" ELSE "none", count |-> 0]
  BY DEF Finalize, Start, Reply
<1>2. TypeOK'
  <2>1. 0 \in 0..Len(rows)
    BY DEF BInv, TypeOK
  <2>2. QED BY <1>1, <2>1 DEF BInv, TypeOK, Replies, Causes
<1>3. QED
  BY <1>1, <1>2, SameBeginning DEF BInv, OneWidth, Unfinished, Replied, InputErrorsNamed

\* The caller's own rows are sent from the table as it is.
LEMMA SendNativeStep ==
  ASSUME BInv, NEW load \in Seq(Row), SendNative(load)
  PROVE  BInv'
<1>1. /\ UNCHANGED <<dead, rowWidth, table>> /\ request = "none"
      /\ rows' = (IF dead THEN rows ELSE load) /\ accepted' = load /\ before' = table
      /\ api' = "native" /\ written' = 0 /\ cause' = "none"
      /\ request' = IF dead THEN "none" ELSE "sending"
      /\ reply' = [kind |-> IF dead THEN "closed" ELSE "none", count |-> 0]
  BY DEF SendNative, Start, Reply
<1>2. offered' \in 0..MaxOffered
  BY BulkAssumption DEF SendNative, BInv, TypeOK
<1>3. rows' \in Seq(Row) /\ 0 \in 0..Len(rows')
  BY <1>1 DEF BInv, TypeOK
<1>4. TypeOK'
  BY <1>1, <1>2, <1>3 DEF BInv, TypeOK, Replies, Causes
<1>5. Beginning'
  BY <1>1, FreshBeginning DEF BInv, TypeOK
<1>6. QED
  BY <1>1, <1>4, <1>5 DEF BInv, OneWidth, Unfinished, Replied, InputErrorsNamed

\* A row is serialised.
LEMMA WriteRowStep == ASSUME BInv, WriteRow PROVE BInv'
<1>1. /\ UNCHANGED <<dead, request, api, rows, rowWidth, reply, table, accepted, before, cause, offered>>
      /\ written' \in 0..Len(rows)
  BY DEF BInv, TypeOK, WriteRow, requestVars, historyVars
<1>2. TypeOK'
  BY <1>1 DEF BInv, TypeOK
<1>3. QED
  BY <1>1, <1>2, SameBeginning DEF BInv, OneWidth, Unfinished, Replied, InputErrorsNamed

\* Whatever of the rows a server keeps is a beginning of them.
LEMMA PartlyLoadedStep ==
  ASSUME BInv, request = "sending", PartlyLoaded, UNCHANGED <<before, accepted>>
  PROVE  table' \in Seq(Row) /\ Beginning'
<1>1. PICK n \in 0..written : table' = before \o SubSeq(rows, 1, n)
  BY DEF PartlyLoaded
<1>2. rows = accepted /\ written \in 0..Len(rows) /\ Len(rows) \in Nat /\ rows \in Seq(Row)
  BY DEF BInv, TypeOK, Unfinished
<1>3. n \in 0..Len(accepted)
  BY <1>2
<1>4. SubSeq(rows, 1, n) \in Seq(Row)
  <2>1. \A i \in 1..n : rows[i] \in Row
    BY <1>2
  <2>2. QED BY <2>1, SubSeqProperties
<1>5. table' \in Seq(Row)
  BY <1>1, <1>4, ConcatProperties DEF BInv, TypeOK
<1>6. QED BY <1>1, <1>2, <1>3, <1>5 DEF Beginning

\* A send that fails names a fault of a row, and only that, as bad input.
LEMMA FailedStep ==
  ASSUME BInv, request = "sending", NEW why \in Causes \ {"none"}, NEW error,
         error.variant = "UsageError" /\ IsBulkInputMessage(error.message) <=> why = "row",
         Failed(why, error), dead' \in BOOLEAN
  PROVE  BInv'
<1>1. /\ UNCHANGED <<api, rows, rowWidth, written, accepted, before, offered>>
      /\ request' = "none" /\ cause' = why
      /\ reply' = [kind |-> IF api = "compat" /\ why = "row" THEN "bulk_input" ELSE "tds", count |-> 0]
  BY DEF Failed, Reply, Mapped, requestVars
<1>2. table' \in Seq(Row) /\ Beginning'
  BY <1>1, PartlyLoadedStep DEF Failed
<1>3. TypeOK'
  BY <1>1, <1>2 DEF BInv, TypeOK, Replies
<1>4. QED
  BY <1>1, <1>2, <1>3 DEF BInv, OneWidth, Unfinished, Replied, InputErrorsNamed

\* The four ways a send fails.
LEMMA ErrorStep ==
  ASSUME BInv, RowRejected \/ SchemaError \/ ServerError \/ NetworkError
  PROVE  BInv'
<1>1. CASE RowRejected
  <2>1. IsBulkInputMessage(Message(rows[written + 1]))
    BY <1>1 DEF RowRejected, Message, IsBulkInputMessage
  <2>2. QED BY <1>1, <2>1, FailedStep DEF RowRejected, Usage, Causes
<1>2. CASE SchemaError
  BY <1>2, FailedStep DEF SchemaError, Usage, Causes, IsBulkInputMessage, BInv, TypeOK
<1>3. CASE ServerError
  BY <1>3, FailedStep DEF ServerError, Causes, BInv, TypeOK
<1>4. CASE NetworkError
  BY <1>4, FailedStep DEF NetworkError, Causes, BInv, TypeOK
<1>5. QED BY <1>1, <1>2, <1>3, <1>4

\* A complete load has put all the rows into the table.
LEMMA LoadedStep == ASSUME BInv, Loaded PROVE BInv'
<1>1. rows = accepted /\ rows \in Seq(Row) /\ before \in Seq(Row) /\ Len(rows) \in Nat
  BY DEF BInv, TypeOK, Unfinished, Loaded
<1>2. /\ UNCHANGED <<dead, api, rows, rowWidth, written, accepted, before, cause, offered>>
      /\ request' = "none" /\ reply' = [kind |-> "ok", count |-> Len(accepted)]
      /\ table' = before \o accepted
  BY <1>1 DEF Loaded, requestVars, historyVars
<1>3. table' \in Seq(Row)
  BY <1>1, <1>2, ConcatProperties
<1>4. Beginning'
  <2>1. accepted = SubSeq(accepted, 1, Len(accepted)) /\ Len(accepted) \in 0..Len(accepted)
    BY <1>1, SubSeqFull
  <2>2. QED BY <1>2, <2>1 DEF Beginning
<1>5. TypeOK'
  BY <1>1, <1>2, <1>3 DEF BInv, TypeOK, Replies
<1>6. cause = "none"
  BY DEF BInv, Loaded, Unfinished
<1>7. QED
  BY <1>2, <1>4, <1>5, <1>6 DEF BInv, OneWidth, Unfinished, Replied, InputErrorsNamed

\* The drop of a send leaves a beginning of its rows.
LEMMA CancelStep == ASSUME BInv, Cancel PROVE BInv'
<1>1. /\ UNCHANGED <<api, rows, rowWidth, written, accepted, before, cause, offered>>
      /\ request = "sending" /\ request' = "none" /\ dead' = TRUE /\ cause = "none"
      /\ reply' = [kind |-> "cancelled", count |-> 0]
  BY DEF BInv, Unfinished, Cancel, Reply, requestVars, historyVars
<1>2. table' \in Seq(Row) /\ Beginning'
  BY <1>1, PartlyLoadedStep DEF Cancel
<1>3. TypeOK'
  BY <1>1, <1>2 DEF BInv, TypeOK, Replies
<1>4. QED
  BY <1>1, <1>2, <1>3 DEF BInv, OneWidth, Unfinished, Replied, InputErrorsNamed

\* Every step keeps the invariant.
LEMMA NextBInv == BInv /\ [Next]_vars => BInv'
<1>1. ASSUME BInv, NEW load \in OfferedPairs, SendNative(load) PROVE BInv'
  <2>1. load \in Seq(Row)
    <3>1. PICK a \in OfferedRows, b \in [id : {offered + 2}, width : Widths, cell : Cells] :
            load = <<a, b>>
      BY <1>1 DEF OfferedPairs
    <3>2. offered + 2 <= MaxOffered /\ offered \in Nat
      BY <1>1, <3>1, BulkAssumption DEF SendNative, BInv, TypeOK
    <3>3. a \in Row /\ b \in Row
      BY <3>2, BulkAssumption DEF OfferedRows, Row
    <3>4. QED BY <3>1, <3>3
  <2>2. QED BY <1>1, <2>1, SendNativeStep
<1>2. ASSUME BInv, NEW batches \in ArrowLoads, NEW bad, SendArrowBatches(batches, bad) PROVE BInv'
  <2> DEFINE load == [k \in 1..RowsIn(batches) |->
                        [id |-> offered + k, width |-> TableWidth,
                         cell |-> IF k = bad THEN "native" ELSE "good"]]
  <2>1. SendNative(load) /\ RowsIn(batches) \in Nat
    BY <1>2, BulkAssumption DEF SendArrowBatches
  <2>2. Len(load) = RowsIn(batches)
    BY <2>1
  <2>3. offered + RowsIn(batches) <= MaxOffered /\ offered \in Nat
    BY <1>2, <2>1, <2>2 DEF SendNative, BInv, TypeOK
  <2>4. \A k \in 1..RowsIn(batches) : load[k] \in Row
    BY <2>1, <2>3, BulkAssumption DEF Row
  <2>5. load \in Seq(Row)
    BY <2>1, <2>4
  <2>6. QED BY <1>2, <2>1, <2>5, SendNativeStep
<1>3. ASSUME BInv, UNCHANGED vars PROVE BInv'
  BY <1>3 DEF vars, requestVars, historyVars, BInv, TypeOK, OneWidth, Unfinished, Beginning,
     Replied, InputErrorsNamed
<1>4. QED
  BY <1>1, <1>2, <1>3, BeginStep, FinalizeStep, DropRequestStep, SendStep, WriteRowStep,
     ErrorStep, LoadedStep, CancelStep DEF Next

\* The invariant holds in every state of every sequence of loads.
THEOREM BulkInvariance == Spec => []BInv
  BY InitBInv, NextBInv, PTL DEF Spec

\* The state keeps its types: no more is ever written than there is.
THEOREM BulkTyped == Spec => []TypeOK
<1>1. BInv => TypeOK
  BY DEF BInv
<1>2. QED BY <1>1, BulkInvariance, PTL

\* A load reported as complete has put exactly the rows its callers were told
\* are in into the table, in order, each counted once (finalize, send).
THEOREM CompleteLoads == Spec => []LoadedExactly
<1>1. BInv => LoadedExactly
  BY DEF BInv, Replied, LoadedExactly
<1>2. QED BY <1>1, BulkInvariance, PTL

\* Whatever happens, the table holds a beginning of those rows, and a request
\* never holds rows of two widths (validate_row_width).
THEOREM NothingButAccepted == Spec => []OnlyAccepted
<1>1. ASSUME BInv PROVE OnlyAccepted
  <2>1. DOMAIN rows = 1..Len(rows)
    BY <1>1 DEF BInv, TypeOK
  <2>2. request = "open" => \A i, j \in DOMAIN rows : rows[i].width = rows[j].width
    BY <1>1, <2>1 DEF BInv, OneWidth
  <2>3. QED BY <1>1, <2>2 DEF BInv, Beginning, OnlyAccepted
<1>2. QED BY <1>1, BulkInvariance, PTL

\* The compatibility API calls the faults of rows, and no others, bad input,
\* whatever rows follow each other (map_compat_bulk_error).
THEOREM InputErrorsTold == Spec => []InputErrorsNamed
<1>1. BInv => InputErrorsNamed
  BY DEF BInv, Replied
<1>2. QED BY <1>1, BulkInvariance, PTL

\* No row reaches the server before finalize or send.
THEOREM UnsentStaysFree == Spec => UnsentIsFree
<1>1. [Next]_vars => [request # "sending" => UNCHANGED <<table, dead>>]_vars
  BY DEF Next, vars, Begin, Finalize, DropRequest, Send, SendNative, SendArrowBatches, Start,
     WriteRow, RowRejected, SchemaError, ServerError, NetworkError, Loaded, Cancel
<1>2. QED BY <1>1, PTL DEF Spec, UnsentIsFree
=============================================================================
