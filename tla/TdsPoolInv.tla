----------------------------- MODULE TdsPoolInv -----------------------------
(***************************************************************************)
(* The inductive invariant of TdsPool, in named parts.  What it says of    *)
(* one client is what IInv of BridgeClientInv leaves open: who has it, and *)
(* what its recycling has established so far.                              *)
(***************************************************************************)
EXTENDS TdsPool

PoolTypeOK ==
  /\ recycling \in Methods
  /\ idle \in Seq(Conns)
  /\ permits \in Nat
  /\ waiters \in Seq(Tasks)
  /\ task \in [Tasks -> TaskStates]
  /\ held \in [Tasks -> Conns \cup {NULL}]

\* The semaphore's queue holds tasks that wait, each of them once.
Queue ==
  /\ \A i \in 1..Len(waiters) : task[waiters[i]] = "waiting"
  /\ \A i, j \in 1..Len(waiters) : waiters[i] = waiters[j] => i = j

\* Where a task owns a client.
Placement ==
  \A t \in Tasks : held[t] # NULL <=> task[t] \in {"recycling", "holding", "leaving"}

\* No client is owned twice, queued twice, or queued while owned.
Exclusive ==
  /\ \A t, u \in Tasks : held[t] # NULL /\ held[t] = held[u] => t = u
  /\ \A i, j \in 1..Len(idle) : idle[i] = idle[j] => i = j
  /\ \A t \in Tasks, i \in 1..Len(idle) : held[t] # idle[i]

\* The clients that exist are those that are queued or owned.
Placed ==
  \A c \in Conns :
    alive[c] <=> (\E t \in Tasks : held[t] = c) \/ (\E i \in 1..Len(idle) : idle[i] = c)

\* No future borrows a client that is queued or about to be dropped.
AtRest ==
  /\ \A i \in 1..Len(idle) : pc[idle[i]] = "idle"
  /\ \A t \in Tasks : task[t] = "leaving" => pc[held[t]] = "idle"

\* What recycle() establishes when it ends with Ok: under Ping the flag was
\* looked at and nobody has touched the client since; under Reset the reset's
\* own facts, and no statement of an earlier use passes validate_session.
Vetted(c) ==
  /\ recycling = "Reset" =>
       /\ kind[c] = "reset"
       /\ outcome[c] = "ok" => \A s \in Stmts : stmt[s] = NULL \/ stmt[s].token # token[c]
  /\ recycling = "Ping" =>
       /\ kind[c] = "ping" /\ pc[c] = "idle"
       /\ outcome[c] = "ok" => ~dead[c]
Recycling == \A t \in Tasks : task[t] = "recycling" => Vetted(held[t])

\* A task has a permit from the semaphore until it gives its client back.
PermitHolders == {t \in Tasks : task[t] \notin {"out", "waiting"}}
PermitsConserved == permits + Cardinality(PermitHolders) = MaxSize

PInv ==
  PoolTypeOK /\ Queue /\ Placement /\ Exclusive /\ Placed /\ AtRest /\ Recycling

=============================================================================
