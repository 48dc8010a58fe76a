------------------------------- MODULE TdsPool -------------------------------
(***************************************************************************)
(* TdsManager (pool.rs) under deadpool's managed pool: tasks that check    *)
(* clients out, use them by the calls of BridgeClient and give them back.  *)
(*                                                                         *)
(* deadpool is external.  What pool.rs relies on: a fair semaphore of      *)
(* MaxSize permits; a FIFO queue of idle objects; get() takes a permit,    *)
(* then recycles idle objects until one is accepted or none is left, and   *)
(* creates one in that case; an object whose recycle() fails or times out  *)
(* is dropped; a dropped object goes back to the queue with its permit.    *)
(* Operators named Slip... are mistakes the properties must tell apart.    *)
(***************************************************************************)
EXTENDS Naturals, Sequences, FiniteSets

CONSTANTS
  Conns, Stmts, Handles, Tokens, Residues, Ops, NULL, Leaked,  \* BridgeClient
  Tasks,      \* the tasks that share the pool
  MaxSize,    \* Pool::builder(..).max_size
  Methods     \* RecyclingMethod: "Reset", "Ping"

ASSUME PoolAssumption ==
  /\ MaxSize \in Nat \ {0}
  /\ Methods \subseteq {"Reset", "Ping"}
  /\ "Reset" \in Methods => "reset" \in Ops
  /\ "Ping" \in Methods => "ping" \in Ops
  /\ NULL \notin Conns
  /\ IsFiniteSet(Tasks)

VARIABLES alive, dead, torn, wire, session, prepared, token, stmt,
          pc, kind, arg, guard, sent, got, outcome

VARIABLES
  recycling, \* TdsManager::recycling_method, fixed when the pool is built
  idle,      \* the queue of objects nobody holds
  permits,   \* free permits of the semaphore
  waiters,   \* the semaphore's queue of tasks
  task,      \* task[t]: where the task is in get() and after it
  held       \* held[t]: the client task t owns

clientVars == <<alive, dead, torn, wire, session, prepared, token, stmt,
                pc, kind, arg, guard, sent, got, outcome>>
poolVars == <<recycling, idle, permits, waiters, task, held>>
vars == <<clientVars, poolVars>>

Client == INSTANCE BridgeClient

ASSUME ClientAssumption == Client!ConstantsAssumption

TaskStates ==
  {"out",         \* outside the pool
   "waiting",     \* semaphore.acquire()
   "choosing",    \* has a permit, about to take an idle object or to create
   "recycling",   \* Manager::recycle on held[t]
   "creating",    \* Manager::create
   "holding",     \* get() returned Ok
   "leaving"}     \* get() was dropped inside recycle(): drops run

TypeOK ==
  /\ Client!TypeOK
  /\ recycling \in Methods
  /\ idle \in Seq(Conns)
  /\ permits \in 0..MaxSize
  /\ waiters \in Seq(Tasks)
  /\ task \in [Tasks -> TaskStates]
  /\ held \in [Tasks -> Conns \cup {NULL}]

-----------------------------------------------------------------------------
(* get() *)

Move(t, state, c) ==
  /\ task' = [task EXCEPT ![t] = state]
  /\ held' = [held EXCEPT ![t] = c]
  /\ UNCHANGED recycling

Get(t) ==
  /\ task[t] = "out"
  /\ Move(t, "waiting", NULL)
  /\ waiters' = Append(waiters, t)
  /\ UNCHANGED <<clientVars, idle, permits>>

Acquire(t) ==
  /\ waiters # <<>> /\ t = Head(waiters) /\ permits > 0
  /\ Move(t, "choosing", NULL)
  /\ waiters' = Tail(waiters)
  /\ permits' = permits - 1
  /\ UNCHANGED <<clientVars, idle>>

\* The wait timed out or get() was dropped while waiting.
GiveUp(t) ==
  /\ task[t] = "waiting"
  /\ Move(t, "out", NULL)
  /\ \E i \in 1..Len(waiters) :
       /\ waiters[i] = t
       /\ waiters' = [j \in 1..(Len(waiters) - 1) |-> waiters[IF j < i THEN j ELSE j + 1]]
  /\ UNCHANGED <<clientVars, idle, permits>>

\* The policy is ignored.
SlipRecycle(c) == Client!Ping(c)

\* TdsManager::recycle up to its first await: ensure_usable, then
\* reset_session or ping.
Recycle(c) ==
  \/ recycling = "Reset" /\ Client!BeginReset(c)
  \/ recycling = "Ping" /\ Client!Ping(c)

TakeIdle(t) ==
  /\ task[t] = "choosing" /\ idle # <<>>
  /\ Recycle(Head(idle))
  /\ Move(t, "recycling", Head(idle))
  /\ idle' = Tail(idle)
  /\ UNCHANGED <<permits, waiters>>

Recycled(t) == task[t] = "recycling" /\ pc[held[t]] = "idle"

Accept(t) ==
  /\ Recycled(t) /\ outcome[held[t]] = "ok"
  /\ Move(t, "holding", held[t])
  /\ UNCHANGED <<clientVars, idle, permits, waiters>>

\* The permit goes with the rejected client.
SlipRejectPermit(t) ==
  /\ Recycled(t) /\ outcome[held[t]] # "ok"
  /\ Client!Disconnect(held[t])
  /\ Move(t, "choosing", NULL)
  /\ permits' = permits + 1
  /\ UNCHANGED <<idle, waiters>>

\* RecycleError::Backend, or the recycle timeout: drop the client, try again.
Reject(t) ==
  /\ Recycled(t) /\ outcome[held[t]] # "ok"
  /\ Client!Disconnect(held[t])
  /\ Move(t, "choosing", NULL)
  /\ UNCHANGED <<idle, permits, waiters>>

\* deadpool drops the recycle future when its timeout fires.
RecycleTimeout(t) ==
  /\ task[t] = "recycling"
  /\ Client!Cancel(held[t])
  /\ UNCHANGED poolVars

\* get() itself is dropped while recycling: the recycle future first, then
\* the object, then the permit.
GetCancelled(t) ==
  /\ task[t] = "recycling"
  /\ Client!Cancel(held[t])
  /\ Move(t, "leaving", held[t])
  /\ UNCHANGED <<idle, permits, waiters>>
Leave(t) ==
  /\ task[t] = "leaving"
  /\ Client!Disconnect(held[t])
  /\ Move(t, "out", NULL)
  /\ permits' = permits + 1
  /\ UNCHANGED <<idle, waiters>>

StartCreate(t) ==
  /\ task[t] = "choosing" /\ idle = <<>>
  /\ Move(t, "creating", NULL)
  /\ UNCHANGED <<clientVars, idle, permits, waiters>>
Created(t) ==
  /\ task[t] = "creating"
  /\ \E c \in Conns : Client!Connect(c) /\ Move(t, "holding", c)
  /\ UNCHANGED <<idle, permits, waiters>>

\* Client::connect failed, timed out or was dropped.
CreateFailed(t) ==
  /\ task[t] = "creating"
  /\ Move(t, "out", NULL)
  /\ permits' = permits + 1
  /\ UNCHANGED <<clientVars, idle, waiters>>

-----------------------------------------------------------------------------
(* The holder *)

\* One call, or the drop of one, by the holder of a client.
Use(t) ==
  /\ task[t] = "holding"
  /\ LET c == held[t] IN
       \/ Client!BeginRequest(c) \/ Client!BeginPrepare(c)
       \/ Client!BeginQueryPrepared(c) \/ Client!BeginUnprepare(c)
       \/ Client!BeginReset(c) \/ Client!BeginBulk(c)
       \/ Client!Ping(c) \/ Client!InnerMut(c)
       \/ Client!StreamPoll(c) \/ Client!StreamDetach(c) \/ Client!Cancel(c)
  /\ UNCHANGED poolVars

\* The drop of a QueryStream, which alone ends its borrow of the client.
DropStream(t) ==
  /\ task[t] = "holding"
  /\ Client!StreamDetach(held[t])
  /\ UNCHANGED poolVars

\* Drop of the Object: no future borrows its client any more.
GiveBack(t) ==
  /\ task[t] = "holding" /\ pc[held[t]] = "idle"
  /\ idle' = Append(idle, held[t])
  /\ permits' = permits + 1
  /\ Move(t, "out", NULL)
  /\ UNCHANGED <<clientVars, waiters>>

-----------------------------------------------------------------------------
Init ==
  /\ Client!Init
  /\ recycling \in Methods
  /\ idle = <<>> /\ permits = MaxSize /\ waiters = <<>>
  /\ task = [t \in Tasks |-> "out"]
  /\ held = [t \in Tasks |-> NULL]

\* Steps deadpool takes by itself once their await resolves.
Progress(t) ==
  \/ Acquire(t) \/ TakeIdle(t) \/ Accept(t) \/ Reject(t)
  \/ Leave(t) \/ StartCreate(t) \/ Created(t) \/ CreateFailed(t)

IODone(c) == Client!Resume(c) /\ UNCHANGED poolVars
StatementDropped(s) == Client!DropStatement(s) /\ UNCHANGED poolVars

Next ==
  \/ \E t \in Tasks : Get(t) \/ GiveUp(t) \/ Progress(t) \/ RecycleTimeout(t)
                        \/ GetCancelled(t) \/ Use(t) \/ GiveBack(t)
  \/ \E c \in Conns : IODone(c)
  \/ \E s \in Stmts : StatementDropped(s)

Spec == Init /\ [][Next]_vars

\* Ready tasks are polled; native I/O ends, in a reply or an error; a holder
\* drops its stream, then gives its client back, however often it uses it first.
Fairness ==
  /\ \A t \in Tasks : WF_vars(Progress(t)) /\ SF_vars(DropStream(t)) /\ SF_vars(GiveBack(t))
  /\ \A c \in Conns : WF_vars(IODone(c))
FairSpec == Spec /\ Fairness

-----------------------------------------------------------------------------
(* Correctness *)

HandedOut(t) == task[t] # "holding" /\ task'[t] = "holding"

\* Neither policy hands out a connection that is known dead or whose protocol
\* position was lost (recycle: ensure_usable first).
NoDeadCheckout ==
  [][\A t \in Tasks : HandedOut(t) => ~dead[held'[t]] /\ ~torn[held'[t]]]_vars

\* Under Reset a checkout starts from a fresh session: nothing the previous
\* holder did, abandoned or prepared is visible to the next one.
FreshCheckout ==
  [][\A t \in Tasks : HandedOut(t) /\ recycling = "Reset" =>
       LET c == held'[t] IN
         /\ session'[c] = {} /\ wire'[c] = "idle"
         /\ prepared'[c] = Client!Empty
         /\ \A s \in Stmts : stmt'[s] = NULL \/ stmt'[s].token # token'[c]]_vars

\* get() ends, with a client or an error: whatever a task does with its client,
\* and whichever call, ping or reset fails, times out or is dropped in the middle,
\* the client comes to rest, its recycling ends and the next task has its turn.
\* This needs one permit.  With more, two tasks that keep giving bad clients back
\* can hold a third in deadpool's loop over idle objects for ever.
GetEnds ==
  MaxSize = 1 => \A t \in Tasks : task[t] = "waiting" ~> task[t] \in {"holding", "out"}

=============================================================================
