--------------------------- MODULE ResponseReaders ---------------------------
(***************************************************************************)
(* The readers of one response: the compatibility stream or a buffering    *)
(* loop, over the same cursor of the driver.  Their properties are stated  *)
(* against the response itself, so that what one reader returns is what    *)
(* the other would have.                                                   *)
(***************************************************************************)
EXTENDS NativeResponse

CONSTANT None   \* no item, no columns

ASSUME NoneAssumption == None \notin Nat \cup [at : Nat, schema : Nat, index : Nat]

VARIABLES
  reader,   \* "stream" or "buffer"
  gen, resultIndex, schema, peeked, columns, poll, taken, results, reported,
  api, loop, resultSets, rows, statement, counts, count, rowStream, streamed

Stream == INSTANCE QueryStream
Buffer == INSTANCE BufferedResults

streamVars == <<gen, resultIndex, schema, peeked, columns, poll, taken, results, reported>>
bufferVars == <<api, loop, resultSets, rows, statement, counts, count, rowStream, streamed>>
vars == <<nativeVars, reader, streamVars, bufferVars>>

Init == reader \in {"stream", "buffer"} /\ Stream!Init /\ Buffer!Init

BufferIdle == UNCHANGED <<reader, bufferVars>>
StreamIdle == UNCHANGED <<reader, streamVars>>

Ready == reader = "stream" /\ Stream!Ready /\ BufferIdle
StartPoll(future) == reader = "stream" /\ Stream!StartPoll(future) /\ BufferIdle
DropPoll == reader = "stream" /\ Stream!DropPoll /\ BufferIdle
Loop == reader = "buffer" /\ Buffer!Next /\ StreamIdle

Next ==
  \/ Ready
  \/ \E future \in {"next", "columns", "collect"} : StartPoll(future)
  \/ DropPoll
  \/ Loop

\* Each await resolves: the server answers or fails.  A poll that is not
\* dropped is polled until it is ready, and the caller finally asks for the
\* rest; so is a buffering call.
Spec ==
  Init /\ [][Next]_vars
    /\ WF_vars(Ready) /\ SF_vars(StartPoll("collect")) /\ WF_vars(Loop)

-----------------------------------------------------------------------------

TypeOK == Stream!TypeOK /\ Buffer!TypeOK

\* The stream (compat.rs) loses and repeats nothing: see QueryStream.
NothingLost == reader = "stream" => Stream!NothingLost

\* What a caller of the stream is given is described by the right columns, as
\* a row by its schema and as the stream by columns(): see QueryStream.
RowsDescribed == reader = "stream" => Stream!RowsMatchSchema /\ Stream!ColumnsFit

\* into_results of the stream groups the rows as the server did.
SetsKept == reader = "stream" => Stream!SetsKept

\* query() and execute() (client.rs), and the RowStream of a result
\* (query.rs), return all there is and nothing else: see BufferedResults.
ResultsComplete == reader = "buffer" => Buffer!ResultsComplete /\ Buffer!CountsComplete

\* The error of a response reaches the caller of either reader exactly once,
\* and never a result instead of it.
ErrorOnce ==
  /\ reader = "stream" => Stream!ErrorOnce
  /\ reader = "buffer" => Buffer!NoErrorSwallowed

\* A caller that asks for the rest of a stream, or calls query() or execute(),
\* gets all of it or the error: no loop runs on past the end of a response.
ReadersEnd ==
  <>(poll = "consumed" \/ loop \in {"err", "streamed"} \/ (api = "execute" /\ loop = "ok"))
=============================================================================
