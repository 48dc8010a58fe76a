---------------------------- MODULE ClientPromise ----------------------------
(***************************************************************************)
(* What the bridge promises a caller who knows nothing of Arc addresses,   *)
(* handle numbers, drop guards or wire positions (the "Cancellation        *)
(* safety" and "Resource lifecycle" contracts of client.rs and             *)
(* prepared.rs):                                                           *)
(*                                                                         *)
(*   - a call dropped during its I/O retires its client for good, and so   *)
(*     does a reset that does not succeed; a stream dropped between two    *)
(*     items does not;                                                     *)
(*   - a retired client refuses every call;                                *)
(*   - a prepared statement is usable with the client that prepared it,    *)
(*     until that client is reset or dropped, and never again after that.  *)
(***************************************************************************)
CONSTANTS Conns, Stmts, NULL

VARIABLES
  phase,   \* phase[c]: what client c is doing
  result,  \* result[c]: how its last call ended
  using,   \* using[c]: the prepared statement its current call executes
  home     \* home[s]: the client statement s is usable with, NULL if none

vars == <<phase, result, using, home>>

Phases == {"none", "ready", "busy", "resetting", "parked", "retired"}
Results == {"none", "ok", "err", "closed", "invalid", "cancelled", "detached"}

TypeOK ==
  /\ phase \in [Conns -> Phases]
  /\ result \in [Conns -> Results]
  /\ using \in [Conns -> Stmts \cup {NULL}]
  /\ home \in [Stmts -> Conns \cup {NULL}]

Init ==
  /\ phase = [c \in Conns |-> "none"]
  /\ result = [c \in Conns |-> "none"]
  /\ using = [c \in Conns |-> NULL]
  /\ home = [s \in Stmts |-> NULL]

Become(c, p, r) ==
  /\ phase' = [phase EXCEPT ![c] = p]
  /\ result' = [result EXCEPT ![c] = r]
Use(c, s) == using' = [using EXCEPT ![c] = s]
Invalidate(c) == home' = [s \in Stmts |-> IF home[s] = c THEN NULL ELSE home[s]]

\* A call may give up the statement it was made with, and no other.
MayDrop(S) ==
  \/ UNCHANGED home
  \/ \E s \in S : home' = [home EXCEPT ![s] = NULL]

Open(c) ==
  /\ phase[c] = "none" /\ Become(c, "ready", "none")
  /\ UNCHANGED <<using, home>>
Close(c) ==
  /\ phase[c] \in {"ready", "retired"} /\ Become(c, "none", "none")
  /\ Invalidate(c) /\ UNCHANGED using

\* A live client admits any call, one with a statement only at its home.
Call(c) ==
  /\ phase[c] = "ready" /\ Become(c, "busy", "none")
  /\ \E s \in {t \in Stmts : home[t] = c} \cup {NULL} : Use(c, s)
  /\ UNCHANGED home
CallReset(c) ==
  /\ phase[c] = "ready" /\ Become(c, "resetting", "none")
  /\ Invalidate(c) /\ UNCHANGED using
Immediate(c) ==
  /\ phase[c] = "ready" /\ Become(c, "ready", "ok")
  /\ UNCHANGED <<using, home>>

\* Refusals: any call on a retired client, a statement away from its home.
RefuseRetired(c) ==
  /\ phase[c] = "retired" /\ Become(c, "retired", "closed")
  /\ MayDrop(Stmts) /\ UNCHANGED using
RefuseStatement(c) ==
  /\ phase[c] = "ready" /\ Become(c, "ready", "invalid")
  /\ MayDrop({s \in Stmts : home[s] # c}) /\ UNCHANGED using

\* Ends of a call.  Success may consume the statement used, or return a new one.
Succeed(c) ==
  /\ phase[c] \in {"busy", "resetting"} /\ Become(c, "ready", "ok")
  /\ Use(c, NULL)
  /\ \/ MayDrop({using[c]} \cap Stmts)
     \/ /\ phase[c] = "busy" /\ using[c] = NULL
        /\ \E s \in Stmts : home[s] = NULL /\ home' = [home EXCEPT ![s] = c]
Fail(c) ==
  /\ \/ phase[c] = "busy" /\ \E p \in {"ready", "retired"} : Become(c, p, "err")
     \/ phase[c] = "resetting" /\ Become(c, "retired", "err")
  /\ MayDrop({using[c]} \cap Stmts) /\ Use(c, NULL)
Abandon(c) ==
  /\ phase[c] \in {"busy", "resetting"} /\ Become(c, "retired", "cancelled")
  /\ MayDrop({using[c]} \cap Stmts) /\ Use(c, NULL)

\* A stream between two items.
Park(c) == phase[c] = "busy" /\ Become(c, "parked", "none") /\ UNCHANGED <<using, home>>
Unpark(c) == phase[c] = "parked" /\ Become(c, "busy", "none") /\ UNCHANGED <<using, home>>
Detach(c) == phase[c] = "parked" /\ Become(c, "ready", "detached") /\ UNCHANGED <<using, home>>

DropStatement(s) == home' = [home EXCEPT ![s] = NULL] /\ UNCHANGED <<phase, result, using>>

Step(c) ==
  \/ Open(c) \/ Close(c) \/ Call(c) \/ CallReset(c) \/ Immediate(c)
  \/ RefuseRetired(c) \/ RefuseStatement(c)
  \/ Succeed(c) \/ Fail(c) \/ Abandon(c)
  \/ Park(c) \/ Unpark(c) \/ Detach(c)

Next ==
  \/ \E c \in Conns : Step(c)
  \/ \E s \in Stmts : DropStatement(s)

Spec == Init /\ [][Next]_vars
=============================================================================
