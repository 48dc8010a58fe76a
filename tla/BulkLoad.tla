------------------------------ MODULE BulkLoad ------------------------------
(***************************************************************************)
(* Bulk insert (bulk.rs) over one client: the awaited BulkLoadRequest,     *)
(* which retains rows and sends them when it is finalized, and             *)
(* BulkInsert::send with the caller's own rows or the rows of Arrow        *)
(* batches (bulk_arrow.rs).                                                *)
(*                                                                         *)
(* The native BulkCopy and the destination table are external: the copy    *)
(* serialises the rows in order, and the server keeps whole batches of     *)
(* them.  A row is its number among the rows offered, its width, and what  *)
(* the native writer or the server will say of its cells.                  *)
(***************************************************************************)
EXTENDS Naturals, SequencesExt

CONSTANTS
  TableWidth,  \* columns of the destination
  Widths,      \* widths of the rows callers offer
  Cells,       \* what may become of a row's cells, see Message
  BatchSize,   \* BulkCopyOptions::batch_size, 0 for a single batch
  ArrowLoads,  \* arguments of send_arrow_batches: rows in each batch
  MaxOffered,  \* bound: rows ever offered
  NoWidth      \* row_width before the first row, None

\* How many rows are in the batches.
RowsIn(batches) == FoldSeq(+, 0, batches)

ASSUME BulkAssumption ==
  /\ TableWidth \in Nat /\ BatchSize \in Nat /\ MaxOffered \in Nat
  /\ Widths \subseteq Nat /\ NoWidth \notin Nat
  /\ Cells \subseteq {"good", "refused", "native", "oversized", "null"}
  /\ \A load \in ArrowLoads : load \in Seq(Nat) /\ RowsIn(load) \in Nat

VARIABLES
  dead,       \* TdsClient::is_connection_dead
  request,    \* "none", "open" (a BulkLoadRequest exists) or "sending"
  api,        \* who sends: "compat" (finalize) or "native" (BulkInsert::send)
  rows,       \* BulkLoadRequest::rows, or the rows handed to send
  rowWidth,   \* BulkLoadRequest::row_width
  written,    \* rows serialised so far
  reply,      \* how the last call ended
  table,      \* the destination table
  accepted,   \* history: rows the callers of this request were told are in
  before,     \* history: the table when the request began
  cause,      \* history: what went wrong in the last send
  offered     \* history: rows offered by callers

requestVars == <<rows, rowWidth>>
historyVars == <<accepted, before, cause>>
vars == <<dead, request, api, rows, rowWidth, written, reply, table,
          accepted, before, cause, offered>>

Row == [id : 1..MaxOffered, width : Widths \cup {TableWidth}, cell : Cells \cup {"good", "native"}]
Causes == {"none", "row", "schema", "server", "network"}
Replies == {"none", "accepted", "ok", "bulk_input", "tds", "closed", "cancelled"}

TypeOK ==
  /\ dead \in BOOLEAN
  /\ request \in {"none", "open", "sending"} /\ api \in {"compat", "native"}
  /\ rows \in Seq(Row) /\ rowWidth \in Widths \cup {NoWidth}
  /\ written \in 0..Len(rows)
  /\ reply \in [kind : Replies, count : Nat]
  /\ table \in Seq(Row) /\ accepted \in Seq(Row) /\ before \in Seq(Row)
  /\ cause \in Causes /\ offered \in 0..MaxOffered

Init ==
  /\ dead = FALSE
  /\ request = "none" /\ api = "compat"
  /\ rows = <<>> /\ rowWidth = NoWidth /\ written = 0
  /\ reply = [kind |-> "none", count |-> 0]
  /\ table = <<>> /\ accepted = <<>> /\ before = <<>> /\ cause = "none"
  /\ offered = 0

Reply(k) == reply' = [kind |-> k, count |-> 0]

-----------------------------------------------------------------------------
(* BulkLoadRequest *)

\* Awaiting the builder: into_future checks the client and starts no I/O.
Begin ==
  /\ request = "none"
  /\ IF dead
     THEN Reply("closed") /\ UNCHANGED <<request, requestVars, historyVars>>
     ELSE /\ request' = "open" /\ Reply("none")
          /\ rows' = <<>> /\ rowWidth' = NoWidth
          /\ accepted' = <<>> /\ before' = table /\ cause' = "none"
  /\ written' = 0
  /\ UNCHANGED <<dead, api, table, offered>>

\* The first row fixes the width of a request.
WidthFits(row) == rowWidth = NoWidth \/ rowWidth = row.width

\* The width of a refused row replaces the expected one.
SlipSendWidth(row) ==
  /\ request = "open" /\ offered < MaxOffered /\ row.id = offered + 1
  /\ IF WidthFits(row)
     THEN rows' = Append(rows, row) /\ accepted' = Append(accepted, row) /\ Reply("accepted")
     ELSE Reply("bulk_input") /\ UNCHANGED <<rows, accepted>>
  /\ rowWidth' = row.width
  /\ offered' = offered + 1
  /\ UNCHANGED <<dead, request, api, written, table, before, cause>>

\* The row that fixes the width is not retained.
SlipSendFirst(row) ==
  /\ request = "open" /\ offered < MaxOffered /\ row.id = offered + 1
  /\ IF WidthFits(row)
     THEN /\ rows' = IF rowWidth = NoWidth THEN rows ELSE Append(rows, row)
          /\ rowWidth' = row.width
          /\ accepted' = Append(accepted, row) /\ Reply("accepted")
     ELSE Reply("bulk_input") /\ UNCHANGED <<requestVars, accepted>>
  /\ offered' = offered + 1
  /\ UNCHANGED <<dead, request, api, written, table, before, cause>>

Send(row) ==
  /\ request = "open" /\ offered < MaxOffered /\ row.id = offered + 1
  /\ IF WidthFits(row)
     THEN /\ rowWidth' = row.width /\ rows' = Append(rows, row)
          /\ accepted' = Append(accepted, row) /\ Reply("accepted")
     ELSE Reply("bulk_input") /\ UNCHANGED <<requestVars, accepted>>
  /\ offered' = offered + 1
  /\ UNCHANGED <<dead, request, api, written, table, before, cause>>

\* A request that is dropped loads what it retained.
SlipDropRequest ==
  /\ request = "open" /\ request' = "none" /\ Reply("none")
  /\ table' = table \o rows
  /\ UNCHANGED <<dead, api, requestVars, written, historyVars, offered>>

DropRequest ==
  /\ request = "open" /\ request' = "none" /\ Reply("none")
  /\ UNCHANGED <<dead, api, requestVars, written, table, historyVars, offered>>

-----------------------------------------------------------------------------
(* BulkInsert::send *)

\* The progress of the previous copy is kept.
SlipStart(who, load) ==
  /\ api' = who /\ cause' = "none"
  /\ IF dead
     THEN request' = "none" /\ Reply("closed") /\ UNCHANGED rows
     ELSE request' = "sending" /\ Reply("none") /\ rows' = load
  /\ UNCHANGED <<dead, rowWidth, table, written>>

\* Operation::new checks the client again and arms the guard.
Start(who, load) ==
  /\ api' = who /\ written' = 0 /\ cause' = "none"
  /\ IF dead
     THEN request' = "none" /\ Reply("closed") /\ UNCHANGED rows
     ELSE request' = "sending" /\ Reply("none") /\ rows' = load
  /\ UNCHANGED <<dead, rowWidth, table>>

Finalize ==
  /\ request = "open"
  /\ Start("compat", rows)
  /\ UNCHANGED <<accepted, before, offered>>

\* The caller's own rows, whose widths nothing compares.
SendNative(load) ==
  /\ request = "none" /\ offered + Len(load) <= MaxOffered
  /\ \A k \in 1..Len(load) : load[k].id = offered + k
  /\ Start("native", load)
  /\ accepted' = load /\ before' = table /\ offered' = offered + Len(load)

\* send_arrow_batches collects the rows of all batches, in order, and sends them.
\* A row is converted cell by cell while it is written (write_to_packet): one of
\* them, bad, may have a cell that ColumnValues cannot hold.
SendArrowBatches(batches, bad) ==
  SendNative([k \in 1..RowsIn(batches) |->
                [id |-> offered + k, width |-> TableWidth,
                 cell |-> IF k = bad THEN "native" ELSE "good"]])

\* How the native writer's complaint about a row starts (external), and the
\* text of ColumnData::into_column_value's error (error.rs, Display).
Message(row) ==
  CASE row.cell = "native"        -> "Conversion error: "
    [] row.width > TableWidth     -> "Column index "
    [] row.cell = "oversized"     -> "String length "
    [] row.cell = "null"          -> "Cannot serialize NULL "
    [] row.width < TableWidth     -> "Row "
    [] OTHER                      -> "none"

IsBulkInputMessage(message) ==
  message \in {"Row ", "Column index ", "Binary data length ", "String length ",
               "SQL_VARIANT data size ", "SQL_VARIANT total size ",
               "Cannot serialize NULL ", "Unsupported TDS type ",
               "Invalid UTF-16 data: ", "Conversion error: "}

\* Errors of the native driver: a variant and a message.
Usage(message) == [variant |-> "UsageError", message |-> message]

\* The message alone decides.
SlipMapped(error) ==
  IF api = "compat" /\ IsBulkInputMessage(error.message) THEN "bulk_input" ELSE "tds"

\* map_compat_bulk_error, which only finalize applies.
Mapped(error) ==
  IF api = "compat" /\ error.variant = "UsageError" /\ IsBulkInputMessage(error.message)
  THEN "bulk_input" ELSE "tds"

\* The server keeps whole batches of the rows it was sent.
Kept(n) ==
  \/ n = 0
  \/ n = Len(rows) /\ written = n
  \/ BatchSize # 0 /\ n % BatchSize = 0
PartlyLoaded ==
  \E n \in 0..written : Kept(n) /\ table' = before \o SubSeq(rows, 1, n)

\* A row is serialised when its cells, written one after the other, fit.
WriteRow ==
  /\ request = "sending" /\ written < Len(rows)
  /\ Message(rows[written + 1]) = "none"
  /\ written' = written + 1
  /\ UNCHANGED <<dead, request, api, requestVars, reply, table, historyVars, offered>>

\* The call ends with an error; the native driver says whether the connection
\* survived it.
Failed(why, error) ==
  /\ request' = "none" /\ cause' = why /\ Reply(Mapped(error))
  /\ PartlyLoaded
  /\ UNCHANGED <<api, requestVars, written, accepted, before, offered>>

RowRejected ==
  /\ request = "sending" /\ written < Len(rows)
  /\ Message(rows[written + 1]) # "none"
  /\ Failed("row", Usage(Message(rows[written + 1])))
  /\ dead' \in BOOLEAN

\* No such table: a usage error that is not about a row.
SchemaError ==
  /\ request = "sending" /\ written = 0
  /\ Failed("schema", Usage("Table not found"))
  /\ UNCHANGED dead

\* The server's text may begin as the native writer's complaints do.
ServerError ==
  /\ request = "sending" /\ written = Len(rows)
  /\ \E k \in 1..Len(rows) : rows[k].cell = "refused"
  /\ \E message \in {"Row ", "Cannot insert "} :
       Failed("server", [variant |-> "SqlServerError", message |-> message])
  /\ UNCHANGED dead

\* A lost connection or the native timeout.
NetworkError ==
  /\ request = "sending"
  /\ Failed("network", [variant |-> "ConnectionClosed", message |-> "closed"])
  /\ dead' = TRUE

\* The result counts the rows the client serialised.
Loaded ==
  /\ request = "sending" /\ written = Len(rows)
  /\ \A k \in 1..Len(rows) : rows[k].cell # "refused"
  /\ request' = "none"
  /\ reply' = [kind |-> "ok", count |-> written]
  /\ table' = before \o rows
  /\ UNCHANGED <<dead, api, requestVars, written, historyVars, offered>>

\* The future is dropped: the armed guard marks the connection dead.
Cancel ==
  /\ request = "sending" /\ request' = "none" /\ Reply("cancelled")
  /\ PartlyLoaded
  /\ dead' = TRUE
  /\ UNCHANGED <<api, requestVars, written, historyVars, offered>>

OfferedRows == [id : {offered + 1}, width : Widths, cell : Cells]
OfferedPairs ==
  {<<a, b>> : a \in OfferedRows, b \in [id : {offered + 2}, width : Widths, cell : Cells]}

Next ==
  \/ Begin \/ Finalize \/ DropRequest
  \/ \E row \in OfferedRows : Send(row)
  \/ \E load \in OfferedPairs : SendNative(load)
  \/ \E batches \in ArrowLoads, bad \in 0..MaxOffered : SendArrowBatches(batches, bad)
  \/ WriteRow \/ RowRejected \/ SchemaError \/ ServerError \/ NetworkError
  \/ Loaded \/ Cancel

Spec == Init /\ [][Next]_vars

-----------------------------------------------------------------------------

\* A load reported as complete has put exactly the rows whose send succeeded
\* into the table, in the order they were offered, and counts them once each
\* (finalize, send, send_arrow_batches).
LoadedExactly ==
  reply.kind = "ok" =>
    /\ table = before \o accepted
    /\ reply.count = Len(accepted)

\* Whatever happens, the table holds what was there and then a beginning of
\* what this request's callers had accepted: nothing twice, nothing refused.
\* And a request never holds rows of two widths, however many rows it refused
\* in between: a refused row leaves validate_row_width's expectation alone.
OnlyAccepted ==
  /\ \E n \in 0..Len(accepted) : table = before \o SubSeq(accepted, 1, n)
  /\ request = "open" => \A i, j \in DOMAIN rows : rows[i].width = rows[j].width

\* Until finalize or send has started, no row reaches the server and the
\* client stays as usable as it was; dropping a BulkLoadRequest is free.
UnsentIsFree == [][request # "sending" => UNCHANGED <<table, dead>>]_vars

\* The compatibility API calls a fault of a row, and nothing else, BulkInput,
\* and so tells bad input from server and connection errors; the native API
\* keeps the driver's error (map_compat_bulk_error).
InputErrorsNamed ==
  request = "none" =>
    (cause # "none" /\ reply.kind \notin {"none", "closed"} =>
       (reply.kind = "bulk_input" <=> cause = "row" /\ api = "compat"))
=============================================================================
