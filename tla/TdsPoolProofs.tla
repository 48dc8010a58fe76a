--------------------------- MODULE TdsPoolProofs ---------------------------
(***************************************************************************)
(* Proofs about TdsPool for every number of tasks, clients and permits:    *)
(* the pool uses its clients by their own calls alone, so that what is     *)
(* proved of BridgeClient holds of the clients in it; a checkout hands out *)
(* what recycling has established.                                         *)
(***************************************************************************)
EXTENDS TdsPoolInv, FiniteSetTheorems, TLAPS

CP == INSTANCE BridgeClientProofs

-----------------------------------------------------------------------------
(* The clients *)

\* The two instances of BridgeClient, under Client! and under CP!, are the same.
LEMMA SameClient ==
  ASSUME NEW c \in Conns
  PROVE  /\ Client!Connect(c) <=> CP!Connect(c)
         /\ Client!Disconnect(c) <=> CP!Disconnect(c)
         /\ Client!BeginRequest(c) <=> CP!BeginRequest(c)
         /\ Client!BeginPrepare(c) <=> CP!BeginPrepare(c)
         /\ Client!BeginQueryPrepared(c) <=> CP!BeginQueryPrepared(c)
         /\ Client!BeginUnprepare(c) <=> CP!BeginUnprepare(c)
         /\ Client!BeginReset(c) <=> CP!BeginReset(c)
         /\ Client!BeginBulk(c) <=> CP!BeginBulk(c)
         /\ Client!Ping(c) <=> CP!Ping(c)
         /\ Client!InnerMut(c) <=> CP!InnerMut(c)
         /\ Client!StreamPoll(c) <=> CP!StreamPoll(c)
         /\ Client!StreamDetach(c) <=> CP!StreamDetach(c)
         /\ Client!Cancel(c) <=> CP!Cancel(c)
         /\ Client!Resume(c) <=> CP!Resume(c)
  BY DEF Client!Connect, CP!Connect, Client!Disconnect, CP!Disconnect, Client!BeginRequest,
         CP!BeginRequest, Client!BeginPrepare, CP!BeginPrepare,
         Client!BeginQueryPrepared, CP!BeginQueryPrepared, Client!BeginUnprepare,
         CP!BeginUnprepare, Client!BeginReset, CP!BeginReset, Client!BeginBulk,
         CP!BeginBulk, Client!Ping, CP!Ping, Client!InnerMut, CP!InnerMut,
         Client!StreamPoll, CP!StreamPoll, Client!StreamDetach, CP!StreamDetach,
         Client!Cancel, CP!Cancel, Client!Resume, CP!Resume, Client!CloseQuery,
         CP!CloseQuery, Client!CloseQueryError, CP!CloseQueryError,
         Client!DeclarationError, CP!DeclarationError, Client!QueryReply,
         CP!QueryReply, Client!PrepareReply, CP!PrepareReply, Client!UnprepareReply,
         CP!UnprepareReply, Client!ResetReply, CP!ResetReply, Client!BulkReply,
         CP!BulkReply, Client!BulkRejected, CP!BulkRejected, Client!CollectRow,
         CP!CollectRow, Client!CollectEnd, CP!CollectEnd, Client!PrepareEnd,
         CP!PrepareEnd, Client!PrepareProtocolError, CP!PrepareProtocolError,
         Client!DrainEnd, CP!DrainEnd, Client!RequestError, CP!RequestError,
         Client!ConnectionError, CP!ConnectionError, Client!StreamReply,
         CP!StreamReply, Client!StreamRow, CP!StreamRow, Client!StreamSetEnd,
         CP!StreamSetEnd, Client!StreamAdvanced, CP!StreamAdvanced,
         Client!StreamExhausted, CP!StreamExhausted, Client!futureVars,
         CP!futureVars, Client!clientVars, CP!clientVars, Client!driverVars,
         CP!driverVars, Client!serverVars, CP!serverVars, Client!IO, CP!IO,
         Client!AllOps, CP!AllOps, Client!Empty, CP!Empty, Client!Held, CP!Held,
         Client!Borrowed, CP!Borrowed, Client!FreeTokens, CP!FreeTokens,
         Client!Orphan, CP!Orphan, Client!UserEffect, CP!UserEffect, Client!Idle,
         CP!Idle, Client!Return, CP!Return, Client!Arm, CP!Arm, Client!End, CP!End,
         Client!Complete, CP!Complete, Client!Fail, CP!Fail, Client!Abandon,
         CP!Abandon, Client!DropValue, CP!DropValue, Client!DropArg, CP!DropArg,
         Client!Start, CP!Start, Client!Shared, CP!Shared, Client!SameSession,
         CP!SameSession, Client!At, CP!At, Client!Goto, CP!Goto, Client!Drained,
         CP!Drained, Client!Answered, CP!Answered, Client!Guarded, CP!Guarded,
         Client!Unguarded, CP!Unguarded

\* So are the drops of a statement.
LEMMA SameDrop ==
  ASSUME NEW s \in Stmts
  PROVE  Client!DropStatement(s) <=> CP!DropStatement(s)
  BY DEF Client!DropStatement, CP!DropStatement, Client!Held, CP!Held, Client!Borrowed,
         CP!Borrowed, Client!DropValue, CP!DropValue, Client!Orphan, CP!Orphan,
         Client!clientVars, CP!clientVars, Client!driverVars, CP!driverVars,
         Client!futureVars, CP!futureVars

\* What the proofs about clients assume of the constants.
LEMMA SameAssumption == CP!ConstantsAssumption /\ CP!HomeAssumption
  BY ClientAssumption, PoolAssumption DEF Client!AllOps, CP!AllOps

\* Calls and their ends, in the terms of the pool's actions.
ClientCall(c) ==
  \/ Client!BeginRequest(c) \/ Client!BeginPrepare(c)
  \/ Client!BeginQueryPrepared(c) \/ Client!BeginUnprepare(c)
  \/ Client!BeginReset(c) \/ Client!BeginBulk(c)
  \/ Client!Ping(c) \/ Client!InnerMut(c)
  \/ Client!StreamPoll(c) \/ Client!StreamDetach(c) \/ Client!Cancel(c)
  \/ Client!Resume(c)

\* A call on client c neither makes nor closes a client, and leaves all others
\* as they are (Frame of BridgeClientProofs).
LEMMA CallFrame ==
  ASSUME CP!IInv, NEW c \in Conns, ClientCall(c)
  PROVE  /\ CP!Call(c) \/ CP!Resume(c)
         /\ alive' = alive
         /\ \A d \in Conns \ {c} : CP!Untouched(d)
<1>1. CP!Call(c) \/ CP!Resume(c)
  BY SameClient DEF ClientCall, CP!Call
<1>2. alive' = alive
  BY CP!AliveFrame, SameClient, SameAssumption DEF ClientCall
<1>3. QED BY <1>1, <1>2, CP!Frame, SameAssumption

\* What a client's recycling has established stays true while others make
\* their calls: none of them can make a statement with its token.
LEMMA VettedElsewhere ==
  ASSUME CP!IInv, NEW c \in Conns, CP!Call(c) \/ CP!Resume(c),
         NEW d \in Conns \ {c}, alive[d], Vetted(d), recycling' = recycling
  PROVE  Vetted(d)'
<1>1. CP!Untouched(d)
  BY CP!Frame, SameAssumption
<1>2. ASSUME NEW s \in Stmts, stmt[s] = NULL \/ stmt[s].token # token[d]
      PROVE  stmt'[s] = NULL \/ stmt'[s].token # token[d]
  BY <1>2, CP!NewStatement, SameAssumption
<1>3. QED BY <1>1, <1>2 DEF Vetted, CP!Untouched

\* While the recycling itself goes on, or is dropped: a Ping has no await, and
\* a reset ends with Ok only if no statement carries its new token.
LEMMA VettedOnward ==
  ASSUME CP!IInv, NEW c \in Conns, Client!Resume(c) \/ Client!Cancel(c),
         Vetted(c), recycling \in Methods, recycling' = recycling
  PROVE  Vetted(c)'
<1>1. CP!Resume(c) \/ CP!Cancel(c)
  BY SameClient
<1>2. /\ pc[c] # "idle" /\ kind'[c] = kind[c] /\ token' = token
      /\ recycling = "Reset"
  BY <1>1, CP!AwaitFrame, SameAssumption, PoolAssumption DEF Vetted
<1>3. kind[c] = "reset"
  BY <1>2 DEF Vetted
<1>4. \A s \in Stmts : stmt[s] = NULL \/ stmt[s].token # token[c]
  BY <1>2, <1>3 DEF CP!IInv, CP!ResetState, CP!Control, CP!TypeOK, CP!FutureTypeOK
<1>5. ASSUME NEW s \in Stmts PROVE stmt'[s] = NULL \/ stmt'[s].token # token[c]
  <2>1. stmt'[s] = NULL \/ stmt'[s] = stmt[s]
    BY <1>1, <1>3, CP!NewStatement, SameAssumption DEF CP!Call
  <2>2. QED BY <1>4, <2>1
<1>6. QED BY <1>2, <1>3, <1>5 DEF Vetted

\* recycle() begins: nothing is established but by a ping of a live client.
LEMMA VettedBegin ==
  ASSUME CP!IInv, NEW c \in Conns, Recycle(c), pc[c] = "idle",
         recycling \in Methods, recycling' = recycling
  PROVE  Vetted(c)'
<1> USE DEF CP!IInv, CP!TypeOK, CP!DriverTypeOK, CP!FutureTypeOK
<1>1. CASE recycling = "Reset" /\ Client!BeginReset(c)
  BY <1>1 DEF Vetted, Client!BeginReset, Client!Return, Client!Arm
<1>2. CASE recycling = "Ping" /\ Client!Ping(c)
  BY <1>2 DEF Vetted, Client!Ping, Client!Return, Client!driverVars
<1>3. QED BY <1>1, <1>2 DEF Recycle

\* A dropped statement carries no token any more.
LEMMA VettedDrop ==
  ASSUME CP!IInv, NEW s \in Stmts, Client!DropStatement(s), NEW c \in Conns,
         Vetted(c), recycling' = recycling
  PROVE  Vetted(c)'
<1> USE DEF CP!IInv, CP!TypeOK, CP!ClientTypeOK
<1>1. QED
  BY DEF Vetted, Client!DropStatement, Client!DropValue, Client!clientVars,
     Client!driverVars, Client!futureVars

-----------------------------------------------------------------------------
(* The pool's own variables *)

TaskStep(t) ==
  \/ Get(t) \/ GiveUp(t) \/ Progress(t) \/ RecycleTimeout(t)
  \/ GetCancelled(t) \/ Use(t) \/ GiveBack(t)

\* The types, the semaphore's queue and the place of each client survive every
\* step of a task: the queue only loses waiting tasks and gains new ones.
LEMMA QueueStep ==
  ASSUME PInv, NEW t \in Tasks, TaskStep(t)
  PROVE  PoolTypeOK' /\ Queue' /\ Placement'
<1> USE PoolAssumption DEF PInv, PoolTypeOK, Placement, Queue, TaskStates, Move, poolVars
<1>1. CASE Get(t)
  BY <1>1, SMTT(60) DEF Get
<1>2. CASE GiveUp(t)
  <2>1. PICK i \in 1..Len(waiters) :
          /\ waiters[i] = t
          /\ waiters' = [j \in 1..(Len(waiters) - 1) |-> waiters[IF j < i THEN j ELSE j + 1]]
    BY <1>2 DEF GiveUp
  <2>2. \A j \in 1..(Len(waiters) - 1) : (IF j < i THEN j ELSE j + 1) \in 1..Len(waiters)
    OBVIOUS
  <2>3. /\ Len(waiters) - 1 \in Nat
        /\ \A j \in 1..(Len(waiters) - 1) : waiters[IF j < i THEN j ELSE j + 1] \in Tasks
    BY <2>2
  <2>4. waiters' \in Seq(Tasks)
    BY <2>1, <2>3
  <2>5. Len(waiters') = Len(waiters) - 1
    BY <2>1, <2>3
  <2>6. \A j \in 1..Len(waiters') : waiters'[j] = waiters[IF j < i THEN j ELSE j + 1]
    BY <2>1, <2>5
  <2>7. \A j, k \in 1..Len(waiters) : waiters[j] = waiters[k] => j = k
    OBVIOUS
  <2>8. \A j \in 1..Len(waiters') : waiters'[j] # t /\ task[waiters'[j]] = "waiting"
    BY <2>1, <2>2, <2>5, <2>6, <2>7
  <2>9. \A j, k \in 1..Len(waiters') : waiters'[j] = waiters'[k] => j = k
    BY <2>2, <2>5, <2>6, <2>7
  <2>10. task' = [task EXCEPT ![t] = "out"] /\ held' = [held EXCEPT ![t] = NULL]
         /\ UNCHANGED <<recycling, idle, permits>> /\ task[t] = "waiting"
    BY <1>2 DEF GiveUp
  <2>11. PoolTypeOK' /\ Placement'
    BY <2>4, <2>10
  <2>12. Queue'
    BY <2>4, <2>8, <2>9, <2>10
  <2>13. QED BY <2>11, <2>12
<1>3. CASE Acquire(t)
  BY <1>3 DEF Acquire
<1>4. CASE TakeIdle(t)
  <2>1. Head(idle) \in Conns /\ Tail(idle) \in Seq(Conns)
    BY <1>4 DEF TakeIdle
  <2>2. QED BY <1>4, <2>1 DEF TakeIdle
<1>5. CASE Accept(t) \/ Reject(t) \/ Leave(t) \/ StartCreate(t) \/ CreateFailed(t)
  <2>1. CASE Accept(t)
    BY <2>1, SMTT(60) DEF Accept, Recycled
  <2>2. CASE Reject(t)
    BY <2>2, SMTT(60) DEF Reject, Recycled
  <2>3. CASE Leave(t)
    BY <2>3, SMTT(60) DEF Leave
  <2>4. CASE StartCreate(t)
    BY <2>4, SMTT(60) DEF StartCreate
  <2>5. CASE CreateFailed(t)
    BY <2>5, SMTT(60) DEF CreateFailed
  <2>6. QED BY <1>5, <2>1, <2>2, <2>3, <2>4, <2>5
<1>6. CASE Created(t)
  BY <1>6 DEF Created
<1>7. CASE RecycleTimeout(t) \/ Use(t)
  BY <1>7 DEF RecycleTimeout, Use
<1>8. CASE GetCancelled(t)
  BY <1>8 DEF GetCancelled
<1>9. CASE GiveBack(t)
  <2>1. held[t] \in Conns
    BY <1>9 DEF GiveBack
  <2>2. idle' \in Seq(Conns)
    BY <1>9, <2>1 DEF GiveBack
  <2>3. QED BY <1>9, <2>2 DEF GiveBack
<1>10. QED
  BY <1>1, <1>2, <1>3, <1>4, <1>5, <1>6, <1>7, <1>8, <1>9 DEF TaskStep, Progress

\* A client the pool makes is in nobody's hands: Connect takes an empty slot.
LEMMA Unowned ==
  ASSUME PInv, NEW c \in Conns, ~alive[c]
  PROVE  (\A t \in Tasks : held[t] # c) /\ (\A i \in 1..Len(idle) : idle[i] # c)
  BY DEF PInv, Placed

\* No step hands a client to two owners or queues it twice.
LEMMA ExclusiveStep ==
  ASSUME PInv, NEW t \in Tasks, TaskStep(t)
  PROVE  Exclusive'
<1> USE PoolAssumption DEF PInv, PoolTypeOK, Placement, Exclusive, Move, poolVars
<1>1. CASE Get(t) \/ GiveUp(t) \/ Acquire(t) \/ Reject(t) \/ Leave(t) \/ StartCreate(t)
           \/ CreateFailed(t)
  <2>1. idle' = idle /\ held' = [held EXCEPT ![t] = NULL]
    BY ONLY <1>1 DEF Get, GiveUp, Acquire, Reject, Leave, StartCreate, CreateFailed, Move
  <2>2. \A u \in Tasks : held'[u] = held[u] \/ held'[u] = NULL
    BY <2>1
  <2>3. \A i \in 1..Len(idle) : idle[i] # NULL
    OBVIOUS
  <2>4. QED BY <2>1, <2>2, <2>3
<1>2. CASE Accept(t) \/ RecycleTimeout(t) \/ Use(t) \/ GetCancelled(t)
  BY <1>2 DEF Accept, RecycleTimeout, Use, GetCancelled
<1>3. CASE TakeIdle(t)
  <2>1. /\ Len(idle) \in Nat /\ 1 \in 1..Len(idle) /\ Head(idle) = idle[1]
        /\ Len(Tail(idle)) = Len(idle) - 1
        /\ \A i \in 1..Len(Tail(idle)) : Tail(idle)[i] = idle[i + 1]
    BY <1>3 DEF TakeIdle
  <2>2. /\ held' = [held EXCEPT ![t] = idle[1]]
        /\ idle' = Tail(idle)
    BY <1>3, <2>1 DEF TakeIdle
  <2>3. \A i \in 1..Len(idle') : i + 1 \in 1..Len(idle) /\ idle'[i] = idle[i + 1]
    BY <2>1, <2>2
  <2>4. \A i, j \in 1..Len(idle') : idle'[i] = idle'[j] => i = j
    BY <2>3
  <2>5. \A u \in Tasks, i \in 1..Len(idle') : held'[u] # idle'[i]
    BY <2>1, <2>2, <2>3
  <2>6. \A u, v \in Tasks : held'[u] # NULL /\ held'[u] = held'[v] => u = v
    BY <2>1, <2>2
  <2>7. QED BY <2>4, <2>5, <2>6
<1>4. CASE Created(t)
  <2>1. PICK c \in Conns : Client!Connect(c) /\ Move(t, "holding", c)
    BY <1>4 DEF Created
  <2>2. (\A u \in Tasks : held[u] # c) /\ (\A i \in 1..Len(idle) : idle[i] # c)
    BY <2>1, Unowned DEF Client!Connect
  <2>3. idle' = idle
    BY <1>4 DEF Created
  <2>4. QED BY <2>1, <2>2, <2>3
<1>5. CASE GiveBack(t)
  <2>1. held[t] \in Conns
    BY <1>5 DEF GiveBack
  <2>2. /\ Len(idle) \in Nat /\ Len(idle') = Len(idle) + 1
        /\ \A i \in 1..Len(idle') : idle'[i] = IF i = Len(idle) + 1 THEN held[t] ELSE idle[i]
    BY <1>5, <2>1 DEF GiveBack
  <2>3. held' = [held EXCEPT ![t] = NULL]
    BY <1>5 DEF GiveBack
  <2>4. \A i, j \in 1..Len(idle') : idle'[i] = idle'[j] => i = j
    BY <2>2
  <2>5. \A u \in Tasks, i \in 1..Len(idle') : held'[u] # idle'[i]
    <3>1. TAKE u \in Tasks, i \in 1..Len(idle')
    <3>2. CASE i = Len(idle) + 1
      BY <2>1, <2>2, <2>3, <3>2
    <3>3. CASE i # Len(idle) + 1
      <4>1. i \in 1..Len(idle) /\ idle[i] \in Conns
        BY <2>2, <3>3
      <4>2. QED BY <2>2, <2>3, <3>3, <4>1
    <3>4. QED BY <3>2, <3>3
  <2>6. QED BY <2>3, <2>4, <2>5
<1>6. QED
  BY <1>1, <1>2, <1>3, <1>4, <1>5 DEF TaskStep, Progress

\* Every client stays owned or queued, and leaves the pool only with its drop.
LEMMA PlacedStep ==
  ASSUME CP!IInv, PInv, NEW t \in Tasks, TaskStep(t)
  PROVE  Placed'
<1> USE PoolAssumption DEF PInv, PoolTypeOK, Placement, Placed, Move, poolVars, clientVars,
                           CP!IInv, CP!TypeOK, CP!ClientTypeOK
<1>1. CASE Get(t) \/ GiveUp(t) \/ Acquire(t) \/ StartCreate(t) \/ CreateFailed(t) \/ Accept(t)
  <2>1. held' = held
    <3>1. CASE Acquire(t)
      <4>1. task[t] = "waiting"
        <5>1. Len(waiters) \in Nat /\ 1 \in 1..Len(waiters) /\ waiters[1] = t
          BY <3>1 DEF Acquire
        <5>2. QED BY ONLY PInv, <5>1 DEF PInv, Queue
      <4>2. held' = [held EXCEPT ![t] = NULL]
        BY ONLY <3>1 DEF Acquire, Move
      <4>3. QED BY ONLY PInv, <4>1, <4>2 DEF PInv, PoolTypeOK, Placement
    <3>2. CASE Get(t) \/ GiveUp(t) \/ StartCreate(t) \/ CreateFailed(t)
      <4>1. task[t] \in {"out", "waiting", "choosing", "creating"}
        BY ONLY <3>2 DEF Get, GiveUp, StartCreate, CreateFailed
      <4>2. held' = [held EXCEPT ![t] = NULL]
        BY ONLY <3>2 DEF Get, GiveUp, StartCreate, CreateFailed, Move
      <4>3. QED BY ONLY PInv, <4>1, <4>2 DEF PInv, PoolTypeOK, Placement
    <3>3. CASE Accept(t)
      <4>1. held' = [held EXCEPT ![t] = held[t]]
        BY ONLY <3>3 DEF Accept, Move
      <4>2. QED BY ONLY PInv, <4>1 DEF PInv, PoolTypeOK
    <3>4. QED BY <1>1, <3>1, <3>2, <3>3
  <2>2. alive' = alive /\ idle' = idle
    BY ONLY <1>1 DEF clientVars, Get, GiveUp, Acquire, StartCreate, CreateFailed, Accept
  <2>3. QED BY <2>1, <2>2
<1>2. CASE Reject(t) \/ Leave(t)
  <2>1. /\ held[t] \in Conns /\ held' = [held EXCEPT ![t] = NULL]
        /\ alive' = [alive EXCEPT ![held[t]] = FALSE] /\ idle' = idle
    BY <1>2 DEF Reject, Recycled, Leave, Client!Disconnect
  <2>2. \A u \in Tasks : u # t => held[u] # held[t]
    BY <2>1 DEF Exclusive
  <2>3. \A i \in 1..Len(idle) : idle[i] # held[t]
    BY DEF Exclusive
  <2>4. ASSUME NEW c \in Conns, c # held[t]
        PROVE  (\E u \in Tasks : held'[u] = c) <=> (\E u \in Tasks : held[u] = c)
    BY <2>1, <2>4
  <2>5. \A u \in Tasks : held'[u] # held[t]
    BY <2>1, <2>2
  <2>6. /\ alive \in [Conns -> BOOLEAN] /\ ~alive'[held[t]]
        /\ \A c \in Conns : c # held[t] => (alive'[c] <=> alive[c])
    BY <2>1
  <2>7. QED BY ONLY PInv, <2>1, <2>3, <2>4, <2>5, <2>6 DEF PInv, Placed
<1>3. CASE RecycleTimeout(t) \/ Use(t)
  <2>1. held[t] \in Conns /\ ClientCall(held[t]) /\ UNCHANGED <<held, idle>>
    BY <1>3 DEF RecycleTimeout, Use, ClientCall
  <2>2. QED BY <2>1, CallFrame
<1>4. CASE GetCancelled(t)
  <2>1. held[t] \in Conns /\ ClientCall(held[t])
    BY <1>4 DEF GetCancelled, ClientCall
  <2>2. held' = held /\ idle' = idle
    BY <1>4 DEF GetCancelled
  <2>3. QED BY <2>1, <2>2, CallFrame
<1>5. CASE TakeIdle(t)
  <2>1. /\ Len(idle) \in Nat /\ 1 \in 1..Len(idle) /\ Head(idle) = idle[1]
        /\ Len(Tail(idle)) = Len(idle) - 1
        /\ \A i \in 1..Len(Tail(idle)) : Tail(idle)[i] = idle[i + 1]
    BY <1>5 DEF TakeIdle
  <2>2. held' = [held EXCEPT ![t] = idle[1]] /\ idle' = Tail(idle) /\ held[t] = NULL
    BY <1>5, <2>1 DEF TakeIdle
  <2>3. idle[1] \in Conns /\ ClientCall(idle[1])
    BY <1>5, <2>1 DEF TakeIdle, Recycle, ClientCall
  <2>4. alive' = alive
    BY <2>3, CallFrame
  <2>5. ASSUME NEW c \in Conns, NEW i \in 1..Len(idle), idle[i] = c
        PROVE  (\E u \in Tasks : held'[u] = c) \/ (\E j \in 1..Len(idle') : idle'[j] = c)
    <3>1. CASE i = 1
      BY <2>2, <2>5, <3>1
    <3>2. CASE i # 1
      <4>1. i - 1 \in 1..Len(idle') /\ idle'[i - 1] = idle[i]
        BY <2>1, <2>2, <3>2
      <4>2. QED BY <2>5, <4>1
    <3>3. QED BY <3>1, <3>2
  <2>6. ASSUME NEW c \in Conns, NEW u \in Tasks, held[u] = c PROVE held'[u] = c
    BY <2>2, <2>6
  <2>7. ASSUME NEW c \in Conns, NEW u \in Tasks, held'[u] = c
        PROVE  (\E v \in Tasks : held[v] = c) \/ (\E j \in 1..Len(idle) : idle[j] = c)
    BY <2>1, <2>2, <2>7
  <2>8. ASSUME NEW c \in Conns, NEW i \in 1..Len(idle'), idle'[i] = c
        PROVE  \E j \in 1..Len(idle) : idle[j] = c
    <3>1. i + 1 \in 1..Len(idle) /\ idle[i + 1] = c
      BY <2>1, <2>2, <2>8
    <3>2. QED BY <3>1
  <2>9. QED BY <2>4, <2>5, <2>6, <2>7, <2>8
<1>6. CASE Created(t)
  <2>1. PICK c \in Conns : Client!Connect(c) /\ Move(t, "holding", c)
    BY <1>6 DEF Created
  <2>2. alive' = [alive EXCEPT ![c] = TRUE] /\ held' = [held EXCEPT ![t] = c]
        /\ idle' = idle /\ held[t] = NULL
    BY <1>6, <2>1 DEF Client!Connect, Created
  <2>3. QED BY <2>2
<1>7. CASE GiveBack(t)
  <2>1. held[t] \in Conns /\ held' = [held EXCEPT ![t] = NULL] /\ alive' = alive
    BY <1>7 DEF GiveBack
  <2>2. /\ Len(idle) \in Nat /\ Len(idle') = Len(idle) + 1
        /\ \A i \in 1..Len(idle') : idle'[i] = IF i = Len(idle) + 1 THEN held[t] ELSE idle[i]
    BY <1>7, <2>1 DEF GiveBack
  <2>3. Len(idle) + 1 \in 1..Len(idle') /\ idle'[Len(idle) + 1] = held[t]
    BY <2>2
  <2>4. \A i \in 1..Len(idle) : i \in 1..Len(idle') /\ idle'[i] = idle[i]
    BY <2>2
  <2>5. ASSUME NEW c \in Conns
        PROVE  (\E u \in Tasks : held[u] = c) \/ (\E i \in 1..Len(idle) : idle[i] = c)
               <=> (\E u \in Tasks : held'[u] = c) \/ (\E i \in 1..Len(idle') : idle'[i] = c)
    <3>1. CASE c = held[t]
      BY <2>3, <3>1
    <3>2. CASE c # held[t]
      <4>1. \A u \in Tasks : held'[u] = c <=> held[u] = c
        BY <2>1, <3>2
      <4>2. \A i \in 1..Len(idle') : idle'[i] = c => i \in 1..Len(idle) /\ idle[i] = c
        BY <2>2, <3>2
      <4>3. QED BY <2>4, <4>1, <4>2
    <3>3. QED BY <3>1, <3>2
  <2>6. QED BY <2>1, <2>5
<1>8. QED
  BY <1>1, <1>2, <1>3, <1>4, <1>5, <1>6, <1>7 DEF TaskStep, Progress

\* A client that is queued or about to be dropped is touched by nobody.
LEMMA AtRestStep ==
  ASSUME CP!IInv, PInv, NEW t \in Tasks, TaskStep(t)
  PROVE  AtRest'
<1> USE PoolAssumption DEF PInv, PoolTypeOK, Placement, AtRest, Move, poolVars
<1>1. CASE Get(t) \/ GiveUp(t) \/ Acquire(t) \/ StartCreate(t) \/ CreateFailed(t) \/ Accept(t)
  BY <1>1 DEF Get, GiveUp, Acquire, StartCreate, CreateFailed, Accept, clientVars
<1>2. CASE Reject(t) \/ Leave(t)
  <2>1. /\ held[t] \in Conns /\ held' = [held EXCEPT ![t] = NULL]
        /\ task' = [task EXCEPT ![t] = IF Reject(t) THEN "choosing" ELSE "out"]
        /\ idle' = idle /\ pc' = pc
    BY <1>2 DEF Reject, Recycled, Leave, Client!Disconnect
  <2>2. QED BY <2>1
<1>3. ASSUME held[t] \in Conns, ClientCall(held[t]), UNCHANGED <<held, idle>>,
             \A u \in Tasks \ {t} : task'[u] = task[u],
             task'[t] = "leaving" => pc'[held[t]] = "idle"
      PROVE  AtRest'
  <2>1. \A d \in Conns \ {held[t]} : pc'[d] = pc[d]
    BY <1>3, CallFrame DEF CP!Untouched
  <2>2. \A u \in Tasks \ {t} : held[u] # held[t]
    BY <1>3 DEF Exclusive
  <2>3. \A i \in 1..Len(idle) : idle[i] \in Conns \ {held[t]}
    BY DEF Exclusive
  <2>4. ASSUME NEW u \in Tasks, task'[u] = "leaving" PROVE pc'[held[u]] = "idle"
    BY <1>3, <2>1, <2>2, <2>4
  <2>5. QED BY <1>3, <2>1, <2>3, <2>4
<1>4. CASE RecycleTimeout(t) \/ Use(t)
  <2>1. held[t] \in Conns /\ ClientCall(held[t]) /\ UNCHANGED <<held, idle, task>>
    BY <1>4 DEF RecycleTimeout, Use, ClientCall
  <2>2. task[t] # "leaving"
    BY <1>4 DEF RecycleTimeout, Use
  <2>3. QED BY <1>3, <2>1, <2>2
<1>5. CASE GetCancelled(t)
  <2>1. held[t] \in Conns /\ ClientCall(held[t]) /\ UNCHANGED <<held, idle>>
    BY <1>5 DEF GetCancelled, ClientCall
  <2>2. pc'[held[t]] = "idle"
    BY <1>5, <2>1 DEF GetCancelled, Client!Cancel, Client!Abandon, Client!End,
       CP!IInv, CP!TypeOK, CP!FutureTypeOK
  <2>3. \A u \in Tasks \ {t} : task'[u] = task[u]
    BY <1>5 DEF GetCancelled
  <2>4. QED BY <1>3, <2>1, <2>2, <2>3
<1>6. CASE TakeIdle(t)
  <2>1. /\ Len(idle) \in Nat /\ 1 \in 1..Len(idle) /\ Head(idle) = idle[1]
        /\ Len(Tail(idle)) = Len(idle) - 1
        /\ \A i \in 1..Len(Tail(idle)) : Tail(idle)[i] = idle[i + 1]
    BY <1>6 DEF TakeIdle
  <2>2. held' = [held EXCEPT ![t] = idle[1]] /\ idle' = Tail(idle) /\ held[t] = NULL
        /\ task' = [task EXCEPT ![t] = "recycling"]
    BY <1>6, <2>1 DEF TakeIdle
  <2>3. idle[1] \in Conns /\ ClientCall(idle[1])
    BY <1>6, <2>1 DEF TakeIdle, Recycle, ClientCall
  <2>4. \A d \in Conns \ {idle[1]} : pc'[d] = pc[d]
    BY <2>3, CallFrame DEF CP!Untouched
  <2>5. \A i \in 1..Len(idle') : idle'[i] \in Conns \ {idle[1]} /\ pc[idle'[i]] = "idle"
    <3>1. TAKE i \in 1..Len(idle')
    <3>2. i + 1 \in 1..Len(idle) /\ idle'[i] = idle[i + 1]
      BY <2>1, <2>2
    <3>3. QED BY <2>1, <3>2 DEF Exclusive
  <2>6. ASSUME NEW u \in Tasks, task'[u] = "leaving"
        PROVE  held'[u] = held[u] /\ held[u] \in Conns \ {idle[1]} /\ pc[held[u]] = "idle"
    BY <2>1, <2>2, <2>6 DEF Exclusive
  <2>7. QED BY <2>4, <2>5, <2>6
<1>7. CASE Created(t)
  <2>1. PICK c \in Conns : Client!Connect(c) /\ Move(t, "holding", c)
    BY <1>7 DEF Created
  <2>2. pc' = pc /\ idle' = idle
    BY <1>7, <2>1 DEF Client!Connect, Created, Client!futureVars
  <2>3. QED BY <2>1, <2>2
<1>8. CASE GiveBack(t)
  <2>1. held[t] \in Conns /\ held' = [held EXCEPT ![t] = NULL] /\ pc' = pc /\ pc[held[t]] = "idle"
        /\ task' = [task EXCEPT ![t] = "out"]
    BY <1>8 DEF GiveBack, clientVars
  <2>2. /\ Len(idle) \in Nat /\ Len(idle') = Len(idle) + 1
        /\ \A i \in 1..Len(idle') : idle'[i] = IF i = Len(idle) + 1 THEN held[t] ELSE idle[i]
    BY <1>8, <2>1 DEF GiveBack
  <2>3. ASSUME NEW i \in 1..Len(idle') PROVE pc'[idle'[i]] = "idle"
    <3>1. CASE i = Len(idle) + 1
      BY <2>1, <2>2, <3>1
    <3>2. CASE i # Len(idle) + 1
      <4>1. i \in 1..Len(idle)
        BY <2>2, <3>2
      <4>2. QED BY <2>1, <2>2, <3>2, <4>1
    <3>3. QED BY <3>1, <3>2
  <2>4. QED BY <2>1, <2>3
<1>9. QED
  BY <1>1, <1>2, <1>4, <1>5, <1>6, <1>7, <1>8 DEF TaskStep, Progress

\* What recycling has established of a client holds until it is handed out.
LEMMA RecyclingStep ==
  ASSUME CP!IInv, PInv, NEW t \in Tasks, TaskStep(t)
  PROVE  Recycling'
<1>1. SUFFICES ASSUME NEW u \in Tasks, NEW d \in Conns, task'[u] = "recycling", held'[u] = d
               PROVE  Vetted(d)'
  <2>1. \A u \in Tasks : task'[u] = "recycling" => held'[u] \in Conns
    BY QueueStep DEF PoolTypeOK, Placement
  <2>2. QED BY <2>1 DEF Recycling, Vetted
<1> USE PoolAssumption DEF PInv, PoolTypeOK, Placement, Move, poolVars
<1>2. recycling' = recycling /\ (u # t => task'[u] = task[u] /\ held'[u] = held[u])
  BY DEF TaskStep, Progress, Get, GiveUp, Acquire, TakeIdle, Accept, Reject, Leave,
     StartCreate, Created, CreateFailed, RecycleTimeout, GetCancelled, Use, GiveBack
<1>3. task[u] = "recycling" /\ held[u] = d => Vetted(d) /\ alive[d]
  BY DEF Recycling, Vetted, Placed
<1>4. ASSUME u # t, NEW c \in Conns, CP!Call(c) \/ CP!Resume(c), d # c PROVE Vetted(d)'
  BY <1>1, <1>2, <1>3, <1>4, VettedElsewhere
<1>5. CASE Get(t) \/ GiveUp(t) \/ Acquire(t) \/ StartCreate(t) \/ CreateFailed(t) \/ Accept(t)
           \/ GiveBack(t)
  <2>1. UNCHANGED clientVars /\ task'[t] # "recycling"
    BY <1>5 DEF Get, GiveUp, Acquire, StartCreate, CreateFailed, Accept, GiveBack
  <2>2. QED BY <1>1, <1>2, <1>3, <2>1 DEF Vetted, clientVars
<1>6. CASE Reject(t) \/ Leave(t)
  <2>1. held[t] \in Conns /\ Client!Disconnect(held[t]) /\ task'[t] # "recycling"
    BY <1>6 DEF Reject, Recycled, Leave
  <2>2. CP!Call(held[t])
    BY <2>1, SameClient DEF CP!Call
  <2>3. QED BY <1>1, <1>2, <1>4, <2>1, <2>2 DEF Exclusive
<1>7. CASE Created(t)
  <2>1. PICK c \in Conns : Client!Connect(c) /\ Move(t, "holding", c)
    BY <1>7 DEF Created
  <2>2. CP!Call(c) /\ ~alive[c] /\ task'[t] # "recycling"
    BY <2>1, SameClient DEF CP!Call, Client!Connect
  <2>3. QED BY <1>1, <1>2, <1>3, <1>4, <2>2
<1>8. CASE Use(t)
  <2>1. held[t] \in Conns /\ ClientCall(held[t]) /\ task'[t] # "recycling"
    BY <1>8 DEF Use, ClientCall
  <2>2. CP!Call(held[t]) \/ CP!Resume(held[t])
    BY <2>1, CallFrame
  <2>3. QED BY <1>1, <1>2, <1>4, <2>1, <2>2 DEF Exclusive
<1>9. CASE RecycleTimeout(t) \/ GetCancelled(t)
  <2>1. held[t] \in Conns /\ Client!Cancel(held[t]) /\ task[t] = "recycling" /\ held' = held
    BY <1>9 DEF RecycleTimeout, GetCancelled
  <2>2. CASE u = t
    BY <1>1, <1>2, <1>3, <2>1, <2>2, VettedOnward
  <2>3. CASE u # t
    <3>1. CP!Call(held[t])
      BY <2>1, SameClient DEF CP!Call
    <3>2. QED BY <1>1, <1>2, <1>4, <2>1, <2>3, <3>1 DEF Exclusive
  <2>4. QED BY <2>2, <2>3
<1>10. CASE TakeIdle(t)
  <2>1. PICK c \in Conns : c = Head(idle) /\ c = idle[1] /\ 1 \in 1..Len(idle)
    BY <1>10 DEF TakeIdle
  <2>2. Recycle(c) /\ pc[c] = "idle" /\ held'[t] = c
    BY <1>10, <2>1 DEF TakeIdle, AtRest
  <2>3. CASE u = t
    BY <1>1, <1>2, <2>2, <2>3, VettedBegin
  <2>4. CASE u # t
    <3>1. CP!Call(c)
      BY <2>2, SameClient DEF Recycle, CP!Call
    <3>2. QED BY <1>1, <1>2, <1>4, <2>1, <2>4, <3>1 DEF Exclusive
  <2>5. QED BY <2>3, <2>4
<1>11. QED
  BY <1>5, <1>6, <1>7, <1>8, <1>9, <1>10 DEF TaskStep, Progress

\* A native call that ends touches a client in use or in recycling, and the
\* pool's variables not at all.
LEMMA IODonePInv ==
  ASSUME CP!IInv, PInv, NEW c \in Conns, IODone(c)
  PROVE  PInv'
<1>1. Client!Resume(c) /\ UNCHANGED poolVars /\ ClientCall(c)
  BY DEF IODone, ClientCall
<1>2. /\ CP!Resume(c) /\ pc[c] # "idle" /\ alive' = alive
      /\ \A d \in Conns \ {c} : pc'[d] = pc[d]
  BY <1>1, CallFrame, SameClient, CP!AwaitFrame, SameAssumption DEF CP!Untouched
<1> USE DEF PInv, poolVars
<1>3. PoolTypeOK' /\ Queue' /\ Placement' /\ Exclusive'
  BY <1>1 DEF PoolTypeOK, Queue, Placement, Exclusive
<1>4. Placed'
  BY <1>1, <1>2 DEF Placed
<1>5. AtRest'
  <2>1. \A i \in 1..Len(idle) : idle[i] \in Conns \ {c}
    BY <1>2 DEF AtRest, PoolTypeOK
  <2>2. \A t \in Tasks : task[t] = "leaving" => held[t] \in Conns \ {c}
    BY <1>2 DEF AtRest, PoolTypeOK, Placement
  <2>3. QED BY <1>1, <1>2, <2>1, <2>2 DEF AtRest
<1>6. Recycling'
  <2>1. SUFFICES ASSUME NEW t \in Tasks, NEW d \in Conns, task[t] = "recycling", held[t] = d
                 PROVE  Vetted(d)'
    BY <1>1 DEF Recycling, Vetted, PoolTypeOK, Placement
  <2>2. Vetted(d) /\ alive[d]
    BY <2>1 DEF Recycling, Vetted, Placed
  <2>3. CASE d = c
    BY <1>1, <2>2, <2>3, VettedOnward DEF PoolTypeOK
  <2>4. CASE d # c
    BY <1>1, <1>2, <2>2, <2>4, VettedElsewhere
  <2>5. QED BY <2>3, <2>4
<1>7. QED BY <1>3, <1>4, <1>5, <1>6

\* The drop of a statement touches no client.
LEMMA DropPInv ==
  ASSUME CP!IInv, PInv, NEW s \in Stmts, StatementDropped(s)
  PROVE  PInv'
<1>1. Client!DropStatement(s) /\ UNCHANGED poolVars /\ alive' = alive /\ pc' = pc
  BY DEF StatementDropped, Client!DropStatement, Client!clientVars, Client!futureVars
<1> USE DEF PInv, poolVars
<1>2. PoolTypeOK' /\ Queue' /\ Placement' /\ Exclusive' /\ Placed' /\ AtRest'
  BY <1>1 DEF PoolTypeOK, Queue, Placement, Exclusive, Placed, AtRest
<1>3. Recycling'
  <2>1. SUFFICES ASSUME NEW t \in Tasks, NEW d \in Conns, task[t] = "recycling", held[t] = d
                 PROVE  Vetted(d)'
    BY <1>1 DEF Recycling, Vetted, PoolTypeOK, Placement
  <2>2. Vetted(d)
    BY <2>1 DEF Recycling, Vetted
  <2>3. QED BY <1>1, <2>2, VettedDrop
<1>4. QED BY <1>2, <1>3

\* Every step of the pool is a step of its clients, or leaves them alone: the
\* pool has no access to a client but its calls, its creation and its drop.
LEMMA ClientStep ==
  ASSUME CP!IInv, PInv, [Next]_vars
  PROVE  [CP!Next]_(CP!vars)
<1> USE DEF PInv, PoolTypeOK, Placement
<1>1. ASSUME UNCHANGED clientVars PROVE UNCHANGED CP!vars
  BY <1>1 DEF clientVars, CP!vars
<1>2. ASSUME NEW t \in Tasks, TaskStep(t) PROVE CP!Next \/ UNCHANGED CP!vars
  <2>1. CASE Get(t) \/ GiveUp(t) \/ Acquire(t) \/ StartCreate(t) \/ CreateFailed(t)
             \/ Accept(t) \/ GiveBack(t)
    BY <1>1, <2>1 DEF Get, GiveUp, Acquire, StartCreate, CreateFailed, Accept, GiveBack
  <2>2. CASE Created(t)
    BY <2>2, SameClient DEF Created, CP!Next, CP!Call
  <2>3. CASE Reject(t) \/ Leave(t)
    <3>1. held[t] \in Conns /\ Client!Disconnect(held[t])
      BY <2>3 DEF Reject, Recycled, Leave
    <3>2. QED BY <3>1, SameClient DEF CP!Next, CP!Call
  <2>4. CASE Use(t) \/ RecycleTimeout(t) \/ GetCancelled(t)
    <3>1. held[t] \in Conns /\ ClientCall(held[t])
      BY <2>4 DEF Use, RecycleTimeout, GetCancelled, ClientCall
    <3>2. QED BY <3>1, CallFrame DEF CP!Next
  <2>5. CASE TakeIdle(t)
    <3>1. Head(idle) \in Conns /\ ClientCall(Head(idle))
      BY <2>5 DEF TakeIdle, Recycle, ClientCall
    <3>2. QED BY <3>1, CallFrame DEF CP!Next
  <2>6. QED
    BY <1>2, <2>1, <2>2, <2>3, <2>4, <2>5 DEF TaskStep, Progress
<1>3. ASSUME NEW c \in Conns, IODone(c) PROVE CP!Next
  BY <1>3, SameClient DEF IODone, CP!Next
<1>4. ASSUME NEW s \in Stmts, StatementDropped(s) PROVE CP!Next
  BY <1>4, SameDrop DEF StatementDropped, CP!Next
<1>5. CASE UNCHANGED vars
  BY <1>1, <1>5 DEF vars
<1>6. QED BY <1>2, <1>3, <1>4, <1>5 DEF Next, TaskStep

\* A new pool is empty, and none of its clients exists.
LEMMA InitPool == Init => CP!IInv /\ PInv
<1>1. Init => CP!Init
  BY DEF Init, Client!Init, CP!Init, Client!Empty, CP!Empty
<1>2. Init => CP!IInv
  BY <1>1, CP!InitIInv, SameAssumption
<1>3. Init => PInv
  BY PoolAssumption DEF Init, Client!Init, PInv, PoolTypeOK, TaskStates, Queue, Placement,
     Exclusive, Placed, AtRest, Recycling
<1>4. QED BY <1>2, <1>3

\* The two invariants are inductive together.
LEMMA NextPool == CP!IInv /\ PInv /\ [Next]_vars => (CP!IInv /\ PInv)'
<1>1. ASSUME CP!IInv, PInv, [Next]_vars PROVE CP!IInv'
  BY <1>1, ClientStep, CP!NextIInv, SameAssumption
<1>2. ASSUME CP!IInv, PInv, NEW t \in Tasks, TaskStep(t) PROVE PInv'
  BY <1>2, QueueStep, ExclusiveStep, PlacedStep, AtRestStep, RecyclingStep DEF PInv
<1>3. ASSUME CP!IInv, PInv, UNCHANGED vars PROVE PInv'
  BY <1>3 DEF vars, clientVars, poolVars, PInv, PoolTypeOK, Queue, Placement, Exclusive,
     Placed, AtRest, Recycling, Vetted
<1>4. ASSUME CP!IInv, PInv, Next PROVE PInv'
  BY <1>2, <1>4, IODonePInv, DropPInv DEF Next, TaskStep
<1>5. QED BY <1>1, <1>3, <1>4

-----------------------------------------------------------------------------
(* What follows *)

\* In every reachable state of a pool its clients satisfy the invariant of
\* BridgeClient, and each has one place, with what its recycling has
\* established still true.
THEOREM PoolInvariance == Spec => [](CP!IInv /\ PInv)
  BY InitPool, NextPool, PTL DEF Spec

\* The pool is a user of BridgeClient like any other: TdsManager and deadpool
\* add no step to a client, so all that is proved of clients holds in pools.
THEOREM PoolUsesClients == Spec => CP!Spec
<1>1. Init => CP!Init
  BY DEF Init, Client!Init, CP!Init, Client!Empty, CP!Empty
<1>2. CP!IInv /\ PInv /\ [Next]_vars => [CP!Next]_(CP!vars)
  BY ClientStep
<1>3. QED BY <1>1, <1>2, PoolInvariance, PTL DEF Spec, CP!Spec

\* The tasks that hold a permit are finitely many.
LEMMA HoldersFinite == IsFiniteSet(PermitHolders) /\ Cardinality(PermitHolders) \in Nat
  BY PoolAssumption, FS_Subset, FS_CardinalityType DEF PermitHolders

\* The permits that are free and those that tasks hold make up MaxSize after
\* every step, if they did before: one task at a time takes or returns one.
LEMMA PermitStep ==
  ASSUME PInv, PermitsConserved, [Next]_vars
  PROVE  PermitsConserved'
<1> USE DEF PInv, PoolTypeOK, PermitHolders, Move, poolVars, vars
<1>1. ASSUME permits' = permits, PermitHolders' = PermitHolders PROVE PermitsConserved'
  BY <1>1 DEF PermitsConserved
<1>2. ASSUME NEW t \in Tasks, t \notin PermitHolders, PermitHolders' = PermitHolders \cup {t},
             permits' = permits - 1
      PROVE  PermitsConserved'
  <2>1. Cardinality(PermitHolders') = Cardinality(PermitHolders) + 1
    BY <1>2, HoldersFinite, FS_AddElement
  <2>2. QED BY <1>2, <2>1, HoldersFinite DEF PermitsConserved
<1>3. ASSUME NEW t \in Tasks, t \in PermitHolders, PermitHolders' = PermitHolders \ {t},
             permits' = permits + 1
      PROVE  PermitsConserved'
  <2>1. Cardinality(PermitHolders') = Cardinality(PermitHolders) - 1
    <3>1. Cardinality(PermitHolders \ {t}) = Cardinality(PermitHolders) - 1
      BY ONLY t \in PermitHolders, HoldersFinite, FS_RemoveElement
    <3>2. QED BY ONLY <1>3, <3>1
  <2>2. QED BY <1>3, <2>1, HoldersFinite DEF PermitsConserved
<1>4. ASSUME NEW t \in Tasks, TaskStep(t) PROVE PermitsConserved'
  <2>1. CASE Get(t) \/ GiveUp(t) \/ TakeIdle(t) \/ Accept(t) \/ Reject(t) \/ StartCreate(t)
             \/ Created(t) \/ GetCancelled(t)
    <3>1. permits' = permits
      BY <2>1 DEF Get, GiveUp, TakeIdle, Accept, Reject, StartCreate, Created, GetCancelled
    <3>2. \A u \in Tasks : task'[u] \in {"out", "waiting"} <=> task[u] \in {"out", "waiting"}
      BY <2>1 DEF Get, GiveUp, TakeIdle, Accept, Reject, Recycled, StartCreate, Created,
         GetCancelled
    <3>3. QED BY <1>1, <3>1, <3>2
  <2>2. CASE Acquire(t)
    <3>1. task[t] = "waiting" /\ task' = [task EXCEPT ![t] = "choosing"] /\ permits' = permits - 1
      BY <2>2 DEF Acquire, Queue
    <3>2. QED BY <1>2, <3>1
  <2>3. CASE Leave(t) \/ CreateFailed(t) \/ GiveBack(t)
    <3>1. /\ task[t] \in {"leaving", "creating", "holding"}
          /\ task' = [task EXCEPT ![t] = "out"] /\ permits' = permits + 1
      BY <2>3 DEF Leave, CreateFailed, GiveBack
    <3>2. QED BY <1>3, <3>1
  <2>4. CASE RecycleTimeout(t) \/ Use(t)
    BY <1>1, <2>4 DEF RecycleTimeout, Use
  <2>5. QED
    BY <1>4, <2>1, <2>2, <2>3, <2>4 DEF TaskStep, Progress
<1>5. CASE UNCHANGED poolVars
  BY <1>1, <1>5
<1>6. QED BY <1>4, <1>5 DEF Next, TaskStep, IODone, StatementDropped

\* Permits are neither lost nor made up, whichever await of get() fails or is
\* dropped, for any number of tasks.
LEMMA PermitsKept == Spec => []PermitsConserved
<1>1. Init => PermitsConserved
  <2>1. Init => PermitHolders = {}
    BY DEF Init, PermitHolders
  <2>2. Cardinality({}) = 0
    BY FS_EmptySet
  <2>3. Init => permits = MaxSize /\ MaxSize + 0 = MaxSize
    BY PoolAssumption DEF Init
  <2>4. QED BY <2>1, <2>2, <2>3 DEF PermitsConserved
<1>2. PInv /\ PermitsConserved /\ [Next]_vars => PermitsConserved'
  BY PermitStep
<1>3. QED BY <1>1, <1>2, PoolInvariance, PTL DEF Spec

\* Every variable of the pool and of its clients keeps its type.
THEOREM PoolTyped == Spec => []TypeOK
<1>1. CP!IInv /\ PInv /\ PermitsConserved => TypeOK
  <2>1. CP!TypeOK => Client!TypeOK
    BY DEF CP!TypeOK, CP!ClientTypeOK, CP!DriverTypeOK, CP!ServerTypeOK, CP!FutureTypeOK,
       CP!IO, CP!Outcomes, CP!AllOps, Client!TypeOK, Client!ClientTypeOK,
       Client!DriverTypeOK, Client!ServerTypeOK, Client!FutureTypeOK, Client!IO,
       Client!Outcomes, Client!AllOps
  <2>2. PInv /\ PermitsConserved => permits \in 0..MaxSize
    BY HoldersFinite, PoolAssumption DEF PInv, PoolTypeOK, PermitsConserved
  <2>3. QED BY <2>1, <2>2 DEF TypeOK, CP!IInv, PInv, PoolTypeOK
<1>2. QED BY <1>1, PoolInvariance, PermitsKept, PTL

\* A client reaches a caller of get() by an accepted recycling or a connect.
LEMMA HandedOutBy ==
  ASSUME PInv, Next, NEW t \in Tasks, HandedOut(t)
  PROVE  Accept(t) \/ Created(t)
<1> USE DEF PInv, PoolTypeOK, HandedOut, Move, poolVars
<1>1. ASSUME NEW u \in Tasks, TaskStep(u), ~Accept(u), ~Created(u) PROVE FALSE
  BY <1>1 DEF TaskStep, Progress, Get, GiveUp, Acquire, TakeIdle, Reject, Leave, StartCreate,
     CreateFailed, RecycleTimeout, GetCancelled, Use, GiveBack
<1>2. ASSUME NEW u \in Tasks, u # t, Accept(u) \/ Created(u) PROVE FALSE
  BY <1>2 DEF Accept, Created
<1>3. QED BY <1>1, <1>2 DEF Next, TaskStep, IODone, StatementDropped

\* Whatever the policy, recycle() never hands out a connection that is known
\* dead or whose protocol position was lost (ensure_usable, then the guards).
THEOREM NoDeadHandedOut == Spec => NoDeadCheckout
<1>1. CP!IInv /\ PInv /\ [Next]_vars
        => [\A t \in Tasks : HandedOut(t) => ~dead[held'[t]] /\ ~torn[held'[t]]]_vars
  <2>1. SUFFICES ASSUME CP!IInv, PInv, Next, NEW t \in Tasks, HandedOut(t)
                 PROVE  ~dead[held'[t]] /\ ~torn[held'[t]]
    OBVIOUS
  <2> USE DEF PInv, PoolTypeOK, Placement, HandedOut, Move, poolVars
  <2>2. Accept(t) \/ Created(t)
    BY <2>1, HandedOutBy
  <2>3. CASE Accept(t)
    <3>1. held'[t] = held[t] /\ held[t] \in Conns /\ outcome[held[t]] = "ok" /\ Vetted(held[t])
      BY <2>1, <2>3 DEF Accept, Recycled, Recycling
    <3>2. ~dead[held[t]]
      BY <2>1, <3>1, PoolAssumption DEF Vetted, CP!IInv, CP!ResetState
    <3>3. QED BY <2>1, <3>1, <3>2 DEF CP!IInv, CP!Control
  <2>4. CASE Created(t)
    <3>1. PICK c \in Conns : Client!Connect(c) /\ Move(t, "holding", c)
      BY <2>4 DEF Created
    <3>2. held'[t] = c /\ ~alive[c]
      BY <2>1, <3>1 DEF Client!Connect
    <3>3. QED BY <2>1, <3>2 DEF CP!IInv, CP!EmptySlot
  <2>5. QED BY <2>2, <2>3, <2>4
<1>2. QED BY <1>1, PoolInvariance, PTL DEF Spec, NoDeadCheckout

\* Under RecyclingMethod::Reset nothing the previous holder did, abandoned or
\* prepared reaches the next: session, wire, handles and statement tokens.
THEOREM FreshHandedOut == Spec => FreshCheckout
<1>1. CP!IInv /\ PInv /\ [Next]_vars
        => [\A t \in Tasks : HandedOut(t) /\ recycling = "Reset" =>
              LET c == held'[t] IN
                /\ session'[c] = {} /\ wire'[c] = "idle"
                /\ prepared'[c] = Client!Empty
                /\ \A s \in Stmts : stmt'[s] = NULL \/ stmt'[s].token # token'[c]]_vars
  <2>1. SUFFICES ASSUME CP!IInv, PInv, Next, NEW t \in Tasks, HandedOut(t), recycling = "Reset"
                 PROVE  LET c == held'[t] IN
                          /\ session'[c] = {} /\ wire'[c] = "idle"
                          /\ prepared'[c] = Client!Empty
                          /\ \A s \in Stmts : stmt'[s] = NULL \/ stmt'[s].token # token'[c]
    OBVIOUS
  <2>2. Accept(t) \/ Created(t)
    BY <2>1, HandedOutBy
  <2>3. CASE Accept(t)
    <3>1. /\ held'[t] = held[t] /\ held[t] \in Conns /\ outcome[held[t]] = "ok"
          /\ Vetted(held[t]) /\ UNCHANGED <<session, wire, prepared, stmt, token>>
      BY <2>1, <2>3 DEF Accept, Recycled, Recycling, Move, PInv, PoolTypeOK, Placement, clientVars
    <3>2. kind[held[t]] = "reset" /\ \A s \in Stmts : stmt[s] = NULL \/ stmt[s].token # token[held[t]]
      BY <2>1, <3>1 DEF Vetted
    <3>3. session[held[t]] = {} /\ prepared[held[t]] = CP!Empty /\ wire[held[t]] = "idle"
      BY <2>1, <3>1, <3>2 DEF CP!IInv, CP!ResetState, CP!Wire
    <3>4. QED BY <3>1, <3>2, <3>3 DEF CP!Empty, Client!Empty
  <2>4. CASE Created(t)
    <3>1. PICK c \in Conns : Client!Connect(c) /\ Move(t, "holding", c)
      BY <2>4 DEF Created
    <3>2. held'[t] = c
      BY <2>1, <3>1 DEF Move, PInv, PoolTypeOK
    <3>3. session[c] = {} /\ prepared[c] = CP!Empty /\ wire[c] = "idle"
      BY <2>1, <3>1 DEF Client!Connect, CP!IInv, CP!EmptySlot
    <3>4. UNCHANGED <<session, wire, prepared, stmt>>
      BY <3>1 DEF Client!Connect, Client!driverVars, Client!serverVars
    <3>5. \A s \in Stmts : stmt[s] = NULL \/ stmt[s].token # token'[c]
      BY <2>1, <3>1 DEF Client!Connect, Client!FreeTokens, Client!Held, CP!IInv, CP!TypeOK,
         CP!ClientTypeOK
    <3>6. QED BY <3>2, <3>3, <3>4, <3>5 DEF CP!Empty, Client!Empty
  <2>5. QED BY <2>2, <2>3, <2>4
<1>2. QED BY <1>1, PoolInvariance, PTL DEF Spec, FreshCheckout
=============================================================================
