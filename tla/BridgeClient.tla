---------------------------- MODULE BridgeClient ----------------------------
(***************************************************************************)
(* The client side of the bridge: Client (client.rs), its Operation guard  *)
(* (operation.rs), PreparedStatement (prepared.rs) and the bulk send       *)
(* (bulk.rs), over several connections used by concurrent tasks.           *)
(*                                                                         *)
(* An async method is a future: it suspends at each await on the native    *)
(* driver and its caller may drop it there.  pc[c] names the await at      *)
(* which the future that borrows client c is suspended:                    *)
(*                                                                         *)
(*   "idle"        no future borrows the client                            *)
(*   "closing"     first close_query: draining what an earlier call left   *)
(*   "sending"     the request is on its way, its first token not read     *)
(*   "collecting"  the loop that buffers the whole response                *)
(*   "draining"    the close_query that follows a reset or sp_unprepare    *)
(*   "fetching"    a stream's next_row_into                                *)
(*   "advancing"   a stream's advance_to_rows                              *)
(*   "yielded"     a stream handed an item over: no I/O is in flight       *)
(*                                                                         *)
(* The native driver and SQL Server are external; they are modelled by     *)
(* what this code and its tests rely on.  A request id is not needed:      *)
(* unread tokens are "own" to the future that is running or "stale", left  *)
(* by an earlier one.                                                      *)
(*                                                                         *)
(* Operators named Slip... are slips of the kind the properties are there  *)
(* to catch.  Nothing uses them but the comparison with the definition     *)
(* that follows each of them.                                              *)
(***************************************************************************)
EXTENDS Naturals

CONSTANTS
  Conns,     \* client slots; a slot is reused by a later connection
  Stmts,     \* names of PreparedStatement values
  Handles,   \* handle numbers sp_prepare may return
  Tokens,    \* addresses Arc::new(()) may return
  Residues,  \* what a session may retain: SUBSET {"state", "isolation"}
  Ops,       \* the calls the callers make
  NULL,      \* no statement, no token
  Leaked     \* a server-side handle whose PreparedStatement no longer exists

AllOps == {"query", "stream", "prepare", "query_prepared", "unprepare",
           "reset", "bulk", "ping", "inner_mut"}

ASSUME ConstantsAssumption ==
  /\ Ops \subseteq AllOps
  /\ Residues \subseteq {"state", "isolation"}
  /\ NULL \notin Stmts \cup Tokens \cup AllOps \cup [handle : Handles, token : Tokens]
  /\ Leaked \notin Stmts \cup {NULL}

VARIABLES
  alive,     \* alive[c]: slot c holds a Client
  dead,      \* dead[c]: TdsClient::is_connection_dead
  torn,      \* torn[c]: a native call was abandoned or failed half-way
  wire,      \* wire[c]: unread response tokens
  session,   \* session[c]: server session state differing from a fresh login
  prepared,  \* prepared[c][h]: the statement the server knows as handle h
  token,     \* token[c]: Client::prepared_session
  stmt,      \* stmt[s]: the PreparedStatement value, NULL when not held
  pc,        \* pc[c]: where the future that borrows client c is suspended
  kind,      \* kind[c]: the current call, or the last one
  arg,       \* arg[c]: the statement the current call borrows or makes
  guard,     \* guard[c]: the armed drop guard
  sent,      \* sent[c]: requests the call has handed to the driver
  got,       \* got[c]: whose rows the call has delivered
  outcome    \* outcome[c]: how the last call ended, "none" while it runs

futureVars == <<pc, kind, arg, guard, sent, got, outcome>>
clientVars == <<alive, token>>
driverVars == <<dead, torn, wire>>
serverVars == <<session, prepared>>
vars == <<alive, dead, torn, wire, session, prepared, token, stmt,
          pc, kind, arg, guard, sent, got, outcome>>

\* The awaits at which native I/O is in flight.
IO == {"closing", "sending", "collecting", "draining", "fetching", "advancing"}
Outcomes == {"none", "ok", "err", "closed", "invalid", "cancelled", "detached"}

ClientTypeOK ==
  /\ alive \in [Conns -> BOOLEAN]
  /\ token \in [Conns -> Tokens \cup {NULL}]
  /\ stmt \in [Stmts -> [handle : Handles, token : Tokens] \cup {NULL}]
DriverTypeOK ==
  /\ dead \in [Conns -> BOOLEAN]
  /\ torn \in [Conns -> BOOLEAN]
  /\ wire \in [Conns -> {"idle", "own", "stale"}]
ServerTypeOK ==
  /\ session \in [Conns -> SUBSET Residues]
  /\ prepared \in [Conns -> [Handles -> Stmts \cup {NULL, Leaked}]]
FutureTypeOK ==
  /\ pc \in [Conns -> IO \cup {"idle", "yielded"}]
  /\ kind \in [Conns -> AllOps \cup {NULL}]
  /\ arg \in [Conns -> Stmts \cup {NULL}]
  /\ guard \in [Conns -> {"none", "operation", "reset"}]
  /\ sent \in [Conns -> Nat]
  /\ got \in [Conns -> SUBSET {"own", "stale"}]
  /\ outcome \in [Conns -> Outcomes]

TypeOK == ClientTypeOK /\ DriverTypeOK /\ ServerTypeOK /\ FutureTypeOK

-----------------------------------------------------------------------------
(* Helpers *)

Empty == [h \in Handles |-> NULL]
Held == {s \in Stmts : stmt[s] # NULL}
Borrowed == {s \in Stmts : \E c \in Conns : arg[c] = s}

\* The statement's clone does not keep its address taken.
SlipTokens == Tokens \ {token[c] : c \in Conns}

\* Arc::new returns an address no live Arc has: a client's own, or the clone
\* a PreparedStatement keeps.
FreeTokens ==
  Tokens \ ({token[c] : c \in Conns} \cup {stmt[s].token : s \in Held})

\* The server still has the handle, but nobody can name it any more.
Orphan(table, s) ==
  [h \in Handles |-> IF table[h] = s THEN Leaked ELSE table[h]]

\* SQL the caller wrote may open a transaction, create temporary tables,
\* change settings or the isolation level, or undo any of these.
UserEffect(c) == \E r \in SUBSET Residues : session' = [session EXCEPT ![c] = r]

-----------------------------------------------------------------------------
(* The drop guards *)

Idle(c) == alive[c] /\ pc[c] = "idle"

\* A call that returns before its first await.
Return(c, k, out) ==
  /\ kind' = [kind EXCEPT ![c] = k]
  /\ outcome' = [outcome EXCEPT ![c] = out]
  /\ sent' = [sent EXCEPT ![c] = 0]
  /\ got' = [got EXCEPT ![c] = {}]
  /\ UNCHANGED <<pc, arg, guard>>

\* Operation::new after ensure_usable, and the run to the first await.
Arm(c, k, s, g, await) ==
  /\ kind' = [kind EXCEPT ![c] = k]
  /\ arg' = [arg EXCEPT ![c] = s]
  /\ guard' = [guard EXCEPT ![c] = g]
  /\ pc' = [pc EXCEPT ![c] = await]
  /\ sent' = [sent EXCEPT ![c] = IF await = "sending" THEN 1 ELSE 0]
  /\ got' = [got EXCEPT ![c] = {}]
  /\ outcome' = [outcome EXCEPT ![c] = "none"]

\* The future is gone; with it its borrow of the client and of a statement.
End(c, out) ==
  /\ pc' = [pc EXCEPT ![c] = "idle"]
  /\ guard' = [guard EXCEPT ![c] = "none"]
  /\ arg' = [arg EXCEPT ![c] = NULL]
  /\ outcome' = [outcome EXCEPT ![c] = out]
  /\ UNCHANGED <<kind, sent, got>>

\* Operation::complete with Ok, or SessionReset with complete = true.
Complete(c) == End(c, "ok") /\ UNCHANGED dead

\* The result is an error.  Operation::complete disarms just the same;
\* SessionReset is dropped by the early return with complete = false.
Fail(c) ==
  /\ End(c, "err")
  /\ dead' = [dead EXCEPT ![c] = @ \/ guard[c] = "reset"]

\* No drop guard.
SlipAbandon(c) == End(c, "cancelled") /\ UNCHANGED dead

\* Drop of the future with an armed guard in it.
Abandon(c) ==
  /\ End(c, "cancelled")
  /\ dead' = [dead EXCEPT ![c] = @ \/ guard[c] # "none"]

\* A PreparedStatement is dropped: Drop cannot run sp_unprepare, so whatever
\* handle the server still has for it stays behind.
DropValue(s) ==
  /\ stmt' = [stmt EXCEPT ![s] = NULL]
  /\ prepared' = [c \in Conns |-> Orphan(prepared[c], s)]

\* unprepare owns its statement and prepare has not returned one yet: either
\* is dropped with the future.  Other calls only borrow one.
DropArg(c) ==
  \/ kind[c] \in {"prepare", "unprepare"} /\ DropValue(arg[c])
  \/ kind[c] \notin {"prepare", "unprepare"} /\ UNCHANGED <<stmt, prepared>>

-----------------------------------------------------------------------------
(* Client::connect and the drop of a Client *)

\* A new driver connection, session and Arc.  A failed connect makes no Client.
Connect(c) ==
  /\ ~alive[c]
  /\ \E t \in FreeTokens : token' = [token EXCEPT ![c] = t]
  /\ alive' = [alive EXCEPT ![c] = TRUE]
  /\ UNCHANGED <<driverVars, serverVars, stmt, futureVars>>

\* Closing the connection ends the server session and frees its handles;
\* PreparedStatements outlive it.
Disconnect(c) ==
  /\ Idle(c)
  /\ alive' = [alive EXCEPT ![c] = FALSE]
  /\ token' = [token EXCEPT ![c] = NULL]
  /\ dead' = [dead EXCEPT ![c] = FALSE]
  /\ torn' = [torn EXCEPT ![c] = FALSE]
  /\ wire' = [wire EXCEPT ![c] = "idle"]
  /\ session' = [session EXCEPT ![c] = {}]
  /\ prepared' = [prepared EXCEPT ![c] = Empty]
  /\ kind' = [kind EXCEPT ![c] = NULL]
  /\ sent' = [sent EXCEPT ![c] = 0]
  /\ got' = [got EXCEPT ![c] = {}]
  /\ outcome' = [outcome EXCEPT ![c] = "none"]
  /\ UNCHANGED <<stmt, pc, arg, guard>>

-----------------------------------------------------------------------------
(* First poll of a call: what it checks before its first await *)

\* Operation::new: a dead client is refused without I/O.
Start(c, k, s, await) ==
  \/ dead[c] /\ Return(c, k, "closed")
  \/ ~dead[c] /\ Arm(c, k, s, "operation", await)

\* simple_query, query, execute; and query_compat with the streams over it.
BeginRequest(c) ==
  /\ Idle(c)
  /\ \E k \in {"query", "stream"} \cap Ops : Start(c, k, NULL, "closing")
  /\ UNCHANGED <<clientVars, driverVars, serverVars, stmt>>

\* prepare; s names the statement it may return.
BeginPrepare(c) ==
  /\ Idle(c) /\ "prepare" \in Ops
  /\ \E s \in Stmts \ (Held \cup Borrowed) : Start(c, "prepare", s, "closing")
  /\ UNCHANGED <<clientVars, driverVars, serverVars, stmt>>

\* A shared borrow: several clients may run calls with the same statement,
\* as long as none of them has taken it by value.
Shared(s) == \A c \in Conns : arg[c] = s => kind[c] = "query_prepared"

\* No validation.
SlipSession(c, s) == s \in Held /\ alive[c]

\* PreparedStatement::validate_session, by address.
SameSession(c, s) == stmt[s].token = token[c]

\* query_prepared and execute_prepared.
BeginQueryPrepared(c) ==
  /\ Idle(c) /\ "query_prepared" \in Ops
  /\ \E s \in Held :
       /\ Shared(s)
       /\ \/ (dead[c] \/ SameSession(c, s)) /\ Start(c, "query_prepared", s, "closing")
          \/ ~dead[c] /\ ~SameSession(c, s) /\ Return(c, "query_prepared", "invalid")
  /\ UNCHANGED <<clientVars, driverVars, serverVars, stmt>>

\* unprepare takes the statement by value, and drops it when it refuses.
BeginUnprepare(c) ==
  /\ Idle(c) /\ "unprepare" \in Ops
  /\ \E s \in Held \ Borrowed :
       \/ /\ ~dead[c] /\ SameSession(c, s)
          /\ Arm(c, "unprepare", s, "operation", "closing")
          /\ UNCHANGED <<stmt, prepared>>
       \/ /\ dead[c] \/ ~SameSession(c, s)
          /\ Return(c, "unprepare", IF dead[c] THEN "closed" ELSE "invalid")
          /\ DropValue(s)
  /\ UNCHANGED <<clientVars, driverVars, session>>

\* The reset keeps its session token: old statements stay valid.
SlipResetKeeps(c) ==
  /\ Idle(c) /\ "reset" \in Ops
  /\ \/ dead[c] /\ Return(c, "reset", "closed")
     \/ ~dead[c] /\ Arm(c, "reset", NULL, "reset", "closing")
  /\ UNCHANGED <<clientVars, driverVars, serverVars, stmt>>

\* reset_session replaces the Arc before the first await, so that no outcome
\* of the reset leaves an old statement valid.
BeginReset(c) ==
  /\ Idle(c) /\ "reset" \in Ops
  /\ \/ dead[c] /\ Return(c, "reset", "closed") /\ UNCHANGED token
     \/ /\ ~dead[c] /\ Arm(c, "reset", NULL, "reset", "closing")
        /\ \E t \in FreeTokens : token' = [token EXCEPT ![c] = t]
  /\ UNCHANGED <<alive, driverVars, serverVars, stmt>>

\* BulkInsert::send does not call close_query first.
BeginBulk(c) ==
  /\ Idle(c) /\ "bulk" \in Ops
  /\ Start(c, "bulk", NULL, "sending")
  /\ UNCHANGED <<clientVars, driverVars, serverVars, stmt>>

\* ping without a look at the flag.
SlipPing(c) ==
  /\ Idle(c) /\ "ping" \in Ops
  /\ Return(c, "ping", "ok")
  /\ UNCHANGED <<clientVars, driverVars, serverVars, stmt>>

\* ping looks at the cached flag only.
Ping(c) ==
  /\ Idle(c) /\ "ping" \in Ops
  /\ Return(c, "ping", IF dead[c] THEN "closed" ELSE "ok")
  /\ UNCHANGED <<clientVars, driverVars, serverVars, stmt>>

\* A whole use of inner_mut by a caller that keeps its contract: a live
\* client, completed native calls.  It may leave results unread.
InnerMut(c) ==
  /\ Idle(c) /\ "inner_mut" \in Ops /\ ~dead[c]
  /\ Return(c, "inner_mut", "ok")
  /\ \E w \in {"idle", "stale"} : wire' = [wire EXCEPT ![c] = w]
  /\ UserEffect(c)
  /\ UNCHANGED <<clientVars, dead, torn, prepared, stmt>>

\* The caller drops a statement nothing borrows.
DropStatement(s) ==
  /\ s \in Held \ Borrowed
  /\ DropValue(s)
  /\ UNCHANGED <<clientVars, driverVars, session, futureVars>>

-----------------------------------------------------------------------------
(* The awaits *)

At(c, await) == pc[c] = await
Goto(c, await) ==
  /\ pc' = [pc EXCEPT ![c] = await]
  /\ UNCHANGED <<kind, arg, guard, sent, got, outcome>>
Drained(c) == wire' = [wire EXCEPT ![c] = "idle"]

\* The request is sent without close_query.
SlipCloseQuery(c) ==
  /\ At(c, "closing")
  /\ pc' = [pc EXCEPT ![c] = "sending"]
  /\ sent' = [sent EXCEPT ![c] = @ + 1]
  /\ UNCHANGED <<kind, arg, guard, got, outcome>>
  /\ UNCHANGED <<clientVars, driverVars, serverVars, stmt>>

\* close_query has read what was left; the request is handed over at once.
CloseQuery(c) ==
  /\ At(c, "closing")
  /\ Drained(c)
  /\ pc' = [pc EXCEPT ![c] = "sending"]
  /\ sent' = [sent EXCEPT ![c] = @ + 1]
  /\ UNCHANGED <<kind, arg, guard, got, outcome>>
  /\ UNCHANGED <<clientVars, dead, torn, serverVars, stmt>>

\* An error among the leftover tokens is returned to this caller, whose own
\* request is never sent.
CloseQueryError(c) ==
  /\ At(c, "closing") /\ wire[c] = "stale"
  /\ Drained(c)
  /\ Fail(c) /\ DropArg(c)
  /\ UNCHANGED <<clientVars, torn, session>>

\* parameter_declaration rejects a sample value after the drain.
DeclarationError(c) ==
  /\ At(c, "closing") /\ kind[c] = "prepare"
  /\ Drained(c)
  /\ Fail(c) /\ DropArg(c)
  /\ UNCHANGED <<clientVars, torn, session>>

\* The first tokens of the response: on a wire that was not idle they would
\* be those of an earlier request.
Answered(c) == wire' = [wire EXCEPT ![c] = IF @ = "idle" THEN "own" ELSE @]

QueryReply(c) ==
  /\ At(c, "sending") /\ kind[c] \in {"query", "query_prepared"}
  /\ Answered(c) /\ UserEffect(c)
  /\ Goto(c, "collecting")
  /\ UNCHANGED <<clientVars, dead, torn, prepared, stmt>>

\* sp_prepare compiled the statement under a handle number not in use.
PrepareReply(c) ==
  /\ At(c, "sending") /\ kind[c] = "prepare"
  /\ \E h \in Handles :
       /\ prepared[c][h] = NULL
       /\ prepared' = [prepared EXCEPT ![c][h] = arg[c]]
  /\ Answered(c)
  /\ Goto(c, "collecting")
  /\ UNCHANGED <<clientVars, dead, torn, session, stmt>>

\* sp_unprepare freed whatever the server has under that number.
UnprepareReply(c) ==
  /\ At(c, "sending") /\ kind[c] = "unprepare"
  /\ prepared' = [prepared EXCEPT ![c][stmt[arg[c]].handle] = NULL]
  /\ Answered(c)
  /\ Goto(c, "draining")
  /\ UNCHANGED <<clientVars, dead, torn, session, stmt>>

\* The batch does not restore the isolation level.
SlipResetReply(c) ==
  /\ At(c, "sending") /\ kind[c] = "reset"
  /\ session' = [session EXCEPT ![c] = @ \cap {"isolation"}]
  /\ prepared' = [prepared EXCEPT ![c] = Empty]
  /\ Answered(c)
  /\ Goto(c, "draining")
  /\ UNCHANGED <<clientVars, dead, torn, stmt>>

\* RESETCONNECTION rolled back, cleared the session and its handles; then the
\* batch restored the isolation level.
ResetReply(c) ==
  /\ At(c, "sending") /\ kind[c] = "reset"
  /\ session' = [session EXCEPT ![c] = {}]
  /\ prepared' = [prepared EXCEPT ![c] = Empty]
  /\ Answered(c)
  /\ Goto(c, "draining")
  /\ UNCHANGED <<clientVars, dead, torn, stmt>>

\* The whole native bulk copy: it has read its own response when it returns.
BulkReply(c) ==
  /\ At(c, "sending") /\ kind[c] = "bulk"
  /\ Drained(c)
  /\ Complete(c)
  /\ UNCHANGED <<clientVars, torn, serverVars, stmt>>

\* The native driver refuses to start a bulk copy over unread results.
BulkRejected(c) ==
  /\ At(c, "sending") /\ kind[c] = "bulk" /\ wire[c] = "stale"
  /\ Fail(c)
  /\ UNCHANGED <<clientVars, torn, wire, serverVars, stmt>>

\* next_row_into gave a row to collect_results or collect_execute_results.
CollectRow(c) ==
  /\ At(c, "collecting") /\ kind[c] # "prepare"
  /\ got' = [got EXCEPT ![c] = @ \cup {wire[c]}]
  /\ UNCHANGED <<pc, kind, arg, guard, sent, outcome>>
  /\ UNCHANGED <<clientVars, driverVars, serverVars, stmt>>

\* The loop stops at the first result set.
SlipCollectEnd(c) ==
  /\ At(c, "collecting") /\ kind[c] # "prepare"
  /\ Complete(c)
  /\ UNCHANGED <<clientVars, torn, wire, serverVars, stmt>>

CollectEnd(c) ==
  /\ At(c, "collecting") /\ kind[c] # "prepare"
  /\ Drained(c)
  /\ Complete(c)
  /\ UNCHANGED <<clientVars, torn, serverVars, stmt>>

\* The return values are exactly one integer: the handle.
PrepareEnd(c) ==
  /\ At(c, "collecting") /\ kind[c] = "prepare"
  /\ \E h \in Handles :
       /\ prepared[c][h] = arg[c]
       /\ stmt' = [stmt EXCEPT ![arg[c]] = [handle |-> h, token |-> token[c]]]
  /\ Drained(c)
  /\ Complete(c)
  /\ UNCHANGED <<clientVars, torn, serverVars>>

\* They are not: ProtocolError on a live connection.
PrepareProtocolError(c) ==
  /\ At(c, "collecting") /\ kind[c] = "prepare"
  /\ Drained(c)
  /\ Fail(c) /\ DropArg(c)
  /\ UNCHANGED <<clientVars, torn, session>>

\* The close_query that ends unprepare and reset_session.
DrainEnd(c) ==
  /\ At(c, "draining")
  /\ Drained(c)
  /\ Complete(c) /\ DropArg(c)
  /\ UNCHANGED <<clientVars, torn, session>>

\* A reset that the server refuses is sent again.
SlipRequestError(c) ==
  /\ pc[c] \in {"sending", "collecting", "draining", "fetching", "advancing"}
  /\ Drained(c)
  /\ \/ /\ kind[c] # "reset"
        /\ Fail(c) /\ UserEffect(c) /\ DropArg(c)
     \/ /\ kind[c] = "reset"
        /\ Goto(c, "sending")
        /\ UNCHANGED <<dead, session, prepared, stmt>>
  /\ UNCHANGED <<clientVars, torn>>

\* A SQL error in the response: the driver has drained it and stays alive.
\* RESETCONNECTION is processed before the batch that carries it.
RequestError(c) ==
  /\ pc[c] \in {"sending", "collecting", "draining", "fetching", "advancing"}
  /\ Drained(c)
  /\ Fail(c)
  /\ \/ /\ kind[c] # "reset"
        /\ UserEffect(c) /\ DropArg(c)
     \/ /\ kind[c] = "reset"
        /\ session' = [session EXCEPT ![c] = @ \cap {"isolation"}]
        /\ prepared' = [prepared EXCEPT ![c] = Empty]
        /\ UNCHANGED stmt
  /\ UNCHANGED <<clientVars, torn>>

\* A network or protocol failure: the driver marks the connection itself.
ConnectionError(c) ==
  /\ pc[c] \in IO
  /\ dead' = [dead EXCEPT ![c] = TRUE]
  /\ torn' = [torn EXCEPT ![c] = TRUE]
  /\ End(c, "err") /\ DropArg(c)
  /\ UNCHANGED <<clientVars, wire, session>>

-----------------------------------------------------------------------------
(* query_compat: the generator arms a guard around each await only *)

Guarded(c, await) ==
  /\ pc' = [pc EXCEPT ![c] = await]
  /\ guard' = [guard EXCEPT ![c] = "operation"]
  /\ UNCHANGED <<kind, arg, sent, outcome>>
\* The guard lives as long as the generator.
SlipUnguarded(c) ==
  /\ pc' = [pc EXCEPT ![c] = "yielded"]
  /\ UNCHANGED <<kind, arg, guard, sent, outcome>>

Unguarded(c) ==
  /\ pc' = [pc EXCEPT ![c] = "yielded"]
  /\ guard' = [guard EXCEPT ![c] = "none"]
  /\ UNCHANGED <<kind, arg, sent, outcome>>

\* execute returned: yield Metadata at once when on_rows, else look for rows.
StreamReply(c) ==
  /\ At(c, "sending") /\ kind[c] = "stream"
  /\ Answered(c) /\ UserEffect(c)
  /\ Unguarded(c) \/ Guarded(c, "advancing")
  /\ UNCHANGED <<clientVars, dead, torn, prepared, stmt, got>>

\* The caller polls for the item after Metadata or a Row: next_row_into.
StreamPoll(c) ==
  /\ At(c, "yielded") /\ ~dead[c]
  /\ Guarded(c, "fetching")
  /\ UNCHANGED <<clientVars, driverVars, serverVars, stmt, got>>

StreamRow(c) ==
  /\ At(c, "fetching")
  /\ got' = [got EXCEPT ![c] = @ \cup {wire[c]}]
  /\ Unguarded(c)
  /\ UNCHANGED <<clientVars, driverVars, serverVars, stmt>>

\* End of the result set: advance_stream follows without a yield.
StreamSetEnd(c) ==
  /\ At(c, "fetching")
  /\ Guarded(c, "advancing")
  /\ UNCHANGED <<clientVars, driverVars, serverVars, stmt, got>>

\* Another result set: its Metadata is yielded.
StreamAdvanced(c) ==
  /\ At(c, "advancing")
  /\ Unguarded(c)
  /\ UNCHANGED <<clientVars, driverVars, serverVars, stmt, got>>

StreamExhausted(c) ==
  /\ At(c, "advancing")
  /\ Drained(c)
  /\ Complete(c)
  /\ UNCHANGED <<clientVars, torn, serverVars, stmt>>

\* The stream is dropped between two items: what it left is now stale.
StreamDetach(c) ==
  /\ At(c, "yielded")
  /\ End(c, "detached")
  /\ dead' = [dead EXCEPT ![c] = @ \/ guard[c] # "none"]
  /\ wire' = [wire EXCEPT ![c] = "stale"]
  /\ UNCHANGED <<clientVars, torn, serverVars, stmt>>

\* Any future, or a stream, is dropped while its I/O is pending.
Cancel(c) ==
  /\ pc[c] \in IO
  /\ torn' = [torn EXCEPT ![c] = TRUE]
  /\ Abandon(c) /\ DropArg(c)
  /\ UNCHANGED <<clientVars, wire, session>>

-----------------------------------------------------------------------------
Init ==
  /\ alive = [c \in Conns |-> FALSE]
  /\ token = [c \in Conns |-> NULL]
  /\ dead = [c \in Conns |-> FALSE]
  /\ torn = [c \in Conns |-> FALSE]
  /\ wire = [c \in Conns |-> "idle"]
  /\ session = [c \in Conns |-> {}]
  /\ prepared = [c \in Conns |-> Empty]
  /\ stmt = [s \in Stmts |-> NULL]
  /\ pc = [c \in Conns |-> "idle"]
  /\ kind = [c \in Conns |-> NULL]
  /\ arg = [c \in Conns |-> NULL]
  /\ guard = [c \in Conns |-> "none"]
  /\ sent = [c \in Conns |-> 0]
  /\ got = [c \in Conns |-> {}]
  /\ outcome = [c \in Conns |-> "none"]

\* What a caller decides: to connect, to call, to poll a stream, to drop.
Call(c) ==
  \/ Connect(c) \/ Disconnect(c)
  \/ BeginRequest(c) \/ BeginPrepare(c) \/ BeginQueryPrepared(c)
  \/ BeginUnprepare(c) \/ BeginReset(c) \/ BeginBulk(c)
  \/ Ping(c) \/ InnerMut(c)
  \/ StreamPoll(c) \/ StreamDetach(c) \/ Cancel(c)

\* An await that resolves.
Resume(c) ==
  \/ CloseQuery(c) \/ CloseQueryError(c) \/ DeclarationError(c)
  \/ QueryReply(c) \/ PrepareReply(c) \/ UnprepareReply(c)
  \/ ResetReply(c) \/ BulkReply(c) \/ BulkRejected(c)
  \/ CollectRow(c) \/ CollectEnd(c) \/ PrepareEnd(c) \/ PrepareProtocolError(c)
  \/ DrainEnd(c) \/ RequestError(c) \/ ConnectionError(c)
  \/ StreamReply(c) \/ StreamRow(c) \/ StreamSetEnd(c)
  \/ StreamAdvanced(c) \/ StreamExhausted(c)

Next ==
  \/ \E c \in Conns : Call(c) \/ Resume(c)
  \/ \E s \in Stmts : DropStatement(s)

Spec == Init /\ [][Next]_vars

-----------------------------------------------------------------------------
(* Safety *)

\* A connection whose protocol position was lost, by a future dropped during
\* its I/O or by a network failure, is never offered for use again: whichever
\* await it was, some guard was armed (Operation and SessionReset, Drop).
TornIsDead == \A c \in Conns : torn[c] => dead[c]

\* No I/O is under way on a connection known to be dead (ensure_usable first),
\* and whatever I/O is under way is covered by an armed drop guard.
IOIsGuarded ==
  \A c \in Conns : pc[c] \in IO => ~dead[c] /\ guard[c] # "none"

\* A guard covers awaits only: a stream between two items, or a finished
\* call, has none, so that dropping it leaves the connection usable.
NoGuardAtRest == \A c \in Conns : pc[c] \notin IO => guard[c] = "none"

\* A request is handed over on a drained wire: leftovers of an abandoned
\* stream never meet the response of the next call (close_query first).
RequestOnIdleWire ==
  \A c \in Conns : pc[c] = "sending" /\ kind[c] # "bulk" => wire[c] = "idle"

\* Every row a call delivers answers that call's own request.
OwnRowsOnly == \A c \in Conns : "stale" \notin got[c]

\* The handle sent by sp_execute or sp_unprepare is, on that server session,
\* the handle of the very statement the caller passed: after resets, on other
\* clients, after a handle number or an Arc address was reused.
HandleSound ==
  \A c \in Conns :
    pc[c] = "sending" /\ kind[c] \in {"query_prepared", "unprepare"}
      => /\ arg[c] \in Held
         /\ prepared[c][stmt[arg[c]].handle] = arg[c]

\* reset_session is all or nothing.  Ok: nothing of the previous use is left,
\* neither in the session nor on the wire, and the connection is live.  Failed
\* or dropped at any await: the connection is retired (SessionReset, Drop).
ResetAllOrNothing ==
  \A c \in Conns : kind[c] = "reset" =>
    /\ outcome[c] = "ok" =>
         session[c] = {} /\ prepared[c] = Empty /\ wire[c] = "idle" /\ ~dead[c]
    /\ outcome[c] \notin {"none", "ok"} => dead[c]

\* A call that returned Ok sent its request exactly once and read all of the
\* response; no path sends twice; a refused call sent nothing.
SentOnce ==
  \A c \in Conns :
    /\ sent[c] <= 1
    /\ outcome[c] = "ok" /\ kind[c] \notin {"ping", "inner_mut"}
         => sent[c] = 1 /\ wire[c] = "idle"
    /\ outcome[c] \in {"closed", "invalid"} => sent[c] = 0

\* A dead connection is not revived by anything but a new connect in its slot.
DeadIsFinal ==
  [][\A c \in Conns : dead[c] /\ alive'[c] => dead'[c]]_vars

=============================================================================
