------------------------- MODULE BridgeClientRefines -------------------------
(***************************************************************************)
(* BridgeClient implements ClientPromise: guards, tokens, handle tables    *)
(* and wire positions are mapped to what the caller may rely on.           *)
(***************************************************************************)
EXTENDS BridgeClient

\* A statement without a home is told from one at home with some client.
ASSUME HomeAssumption == NULL \notin Conns

phaseBar(c) ==
  CASE ~alive[c] -> "none"
    [] alive[c] /\ pc[c] = "idle" -> IF dead[c] THEN "retired" ELSE "ready"
    [] alive[c] /\ pc[c] = "yielded" -> "parked"
    [] alive[c] /\ pc[c] \in IO -> IF kind[c] = "reset" THEN "resetting" ELSE "busy"

usingBar(c) ==
  IF kind[c] \in {"query_prepared", "unprepare"} THEN arg[c] ELSE NULL

\* The clients whose session token the statement carries: at most one.
Sessions(s) == {c \in Conns : s \in Held /\ stmt[s].token = token[c]}
homeBar(s) == IF Sessions(s) = {} THEN NULL ELSE CHOOSE c \in Sessions(s) : TRUE

Promise ==
  INSTANCE ClientPromise
    WITH phase <- [c \in Conns |-> phaseBar(c)],
         result <- outcome,
         using <- [c \in Conns |-> usingBar(c)],
         home <- [s \in Stmts |-> homeBar(s)]

\* The bridge keeps the contract of client.rs and prepared.rs: whatever the
\* interleaving of calls, drops, resets and reconnects, a caller sees only
\* what ClientPromise allows.
KeepsPromise == Promise!Spec
=============================================================================
