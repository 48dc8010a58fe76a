--------------------------- MODULE BridgeClientInv ---------------------------
(***************************************************************************)
(* The inductive invariant of BridgeClient, in named parts.  The safety    *)
(* invariants of BridgeClient follow from it; none of them is inductive    *)
(* alone.                                                                  *)
(***************************************************************************)
EXTENDS BridgeClient

WithStatement == {"prepare", "query_prepared", "unprepare"}

\* A slot without a client is as Init leaves it.
EmptySlot(c) ==
  /\ pc[c] = "idle" /\ ~dead[c] /\ ~torn[c] /\ wire[c] = "idle"
  /\ token[c] = NULL /\ kind[c] = NULL /\ outcome[c] = "none"
  /\ sent[c] = 0 /\ got[c] = {}
  /\ session[c] = {} /\ prepared[c] = Empty

\* Which call can be at which await, and under which guard.
Control(c) ==
  /\ pc[c] \in IO => ~dead[c] /\ guard[c] = IF kind[c] = "reset" THEN "reset" ELSE "operation"
  /\ pc[c] \notin IO => guard[c] = "none"
  /\ pc[c] = "closing" => kind[c] \in AllOps \ {"bulk", "ping", "inner_mut"}
  /\ pc[c] = "sending" => kind[c] \in AllOps \ {"ping", "inner_mut"}
  /\ pc[c] = "collecting" => kind[c] \in {"query", "query_prepared", "prepare"}
  /\ pc[c] = "draining" => kind[c] \in {"unprepare", "reset"}
  /\ pc[c] \in {"fetching", "advancing", "yielded"} => kind[c] = "stream"
  /\ pc[c] = "yielded" => ~dead[c]
  /\ pc[c] # "idle" => outcome[c] = "none"
  /\ torn[c] => dead[c]

\* Whose tokens are on the wire, and how often the request was handed over.
Wire(c) ==
  /\ pc[c] = "closing" => wire[c] # "own" /\ sent[c] = 0
  /\ pc[c] = "sending" => wire[c] = "idle" \/ (kind[c] = "bulk" /\ wire[c] = "stale")
  /\ pc[c] \in {"collecting", "draining", "fetching", "advancing", "yielded"} => wire[c] = "own"
  /\ pc[c] = "idle" /\ ~dead[c] => wire[c] # "own"
  /\ pc[c] \notin {"idle", "closing"} => sent[c] = 1
  /\ sent[c] <= 1
  /\ outcome[c] = "ok" /\ kind[c] \notin {"ping", "inner_mut"} => sent[c] = 1 /\ wire[c] = "idle"
  /\ outcome[c] \in {"closed", "invalid"} => sent[c] = 0
  /\ "stale" \notin got[c]

\* A reset: no statement carries the new token until it is over, a complete
\* one has cleaned the session, an incomplete one has retired the client.
ResetState(c) ==
  kind[c] = "reset" =>
    /\ pc[c] \in IO => \A s \in Stmts : stmt[s] = NULL \/ stmt[s].token # token[c]
    /\ pc[c] = "draining" \/ outcome[c] = "ok" => session[c] = {} /\ prepared[c] = Empty
    /\ outcome[c] = "ok" => ~dead[c]
    /\ outcome[c] \notin {"none", "ok"} => dead[c]

\* The statement a running call makes, borrows or owns.
Argument(c) ==
  /\ (pc[c] # "idle" /\ kind[c] \in WithStatement) <=> arg[c] # NULL
  /\ arg[c] # NULL /\ kind[c] = "prepare" => stmt[arg[c]] = NULL
  /\ arg[c] # NULL /\ kind[c] # "prepare" => stmt[arg[c]] # NULL /\ stmt[arg[c]].token = token[c]

\* Only shared borrows are shared.
Aliasing ==
  \A c, d \in Conns :
    c # d /\ arg[c] # NULL /\ arg[c] = arg[d] => kind[c] = "query_prepared"

\* No two clients have the same session token.
TokensDistinct ==
  \A c, d \in Conns : c # d /\ alive[c] /\ alive[d] => token[c] # token[d]

\* A statement that would pass validate_session on c is on the server of c
\* under its handle, unless it is just being unprepared.
ServerKnows ==
  \A c \in Conns, s \in Stmts :
    /\ alive[c] /\ stmt[s] # NULL /\ stmt[s].token = token[c]
    /\ ~(pc[c] = "draining" /\ arg[c] = s)
    => prepared[c][stmt[s].handle] = s

IInv ==
  /\ TypeOK
  /\ \A c \in Conns : IF alive[c] THEN token[c] # NULL ELSE EmptySlot(c)
  /\ \A c \in Conns : Control(c)
  /\ \A c \in Conns : Wire(c)
  /\ \A c \in Conns : ResetState(c)
  /\ \A c \in Conns : Argument(c)
  /\ Aliasing /\ TokensDistinct /\ ServerKnows
=============================================================================
