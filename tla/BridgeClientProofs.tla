------------------------- MODULE BridgeClientProofs -------------------------
(***************************************************************************)
(* Proofs about BridgeClient for every set of clients, statements, handle  *)
(* numbers and Arc addresses: IInv is inductive and implies the safety     *)
(* invariants, one lemma per part of IInv, one step per action; and it     *)
(* implements ClientPromise, each of its steps being a step of the promise *)
(* or unnoticed by the caller.                                             *)
(***************************************************************************)
EXTENDS BridgeClientInv, BridgeClientRefines, TLAPS

\* Init establishes every part of the invariant.
LEMMA InitIInv == Init => IInv
  BY ConstantsAssumption
  DEF Init, IInv, TypeOK, ClientTypeOK, DriverTypeOK, ServerTypeOK, FutureTypeOK,
      EmptySlot, Control, Wire, ResetState, Argument, Aliasing,
      TokensDistinct, ServerKnows, Empty, IO, AllOps, Outcomes, WithStatement

-----------------------------------------------------------------------------
(* Types *)

\* What the helpers of the actions do to the types of the future's variables.
LEMMA ReturnTyped ==
  ASSUME FutureTypeOK, NEW c \in Conns, NEW k \in AllOps, NEW out \in Outcomes,
         Return(c, k, out)
  PROVE  FutureTypeOK'
  BY DEF Return, FutureTypeOK

\* The first poll of a call keeps the future's variables typed.
LEMMA ArmTyped ==
  ASSUME FutureTypeOK, NEW c \in Conns, NEW k \in AllOps, NEW s \in Stmts \cup {NULL},
         NEW g \in {"operation", "reset"}, NEW await \in IO, Arm(c, k, s, g, await)
  PROVE  FutureTypeOK'
  BY DEF Arm, FutureTypeOK, Outcomes

\* Operation::new, refused or armed, keeps them typed.
LEMMA StartTyped ==
  ASSUME FutureTypeOK, NEW c \in Conns, NEW k \in AllOps, NEW s \in Stmts \cup {NULL},
         NEW await \in IO, Start(c, k, s, await)
  PROVE  FutureTypeOK'
  BY ReturnTyped, ArmTyped DEF Start, Outcomes

\* The end of a call keeps them typed.
LEMMA EndTyped ==
  ASSUME FutureTypeOK, NEW c \in Conns, NEW out \in Outcomes, End(c, out)
  PROVE  FutureTypeOK'
  BY DEF End, FutureTypeOK

\* A dropped statement keeps the handle tables and statements typed.
LEMMA DropTyped ==
  ASSUME ClientTypeOK, ServerTypeOK, NEW s \in Stmts \cup {NULL}, DropValue(s),
         UNCHANGED <<alive, token, session>>
  PROVE  ClientTypeOK' /\ ServerTypeOK'
<1>1. ClientTypeOK'
  BY DEF ClientTypeOK, DropValue
<1>2. prepared' \in [Conns -> [Handles -> Stmts \cup {NULL, Leaked}]]
  BY DEF ServerTypeOK, DropValue, Orphan
<1>3. QED
  BY <1>1, <1>2 DEF ServerTypeOK

\* Whatever the caller's SQL does, the session retains known residues only.
LEMMA UserEffectTyped ==
  ASSUME ServerTypeOK, NEW c \in Conns, UserEffect(c)
  PROVE  session' \in [Conns -> SUBSET Residues]
  BY DEF ServerTypeOK, UserEffect
\* Every action preserves the types; IInv says where wire[c] is "own" and
\* that a client that runs a call has a token.
LEMMA TypeStep ==
  ASSUME IInv, NEW c \in Conns, Call(c) \/ Resume(c)
  PROVE  TypeOK'
<1> USE DEF IInv, TypeOK, IO, AllOps, Outcomes, futureVars, clientVars, driverVars, serverVars
<1>1. CASE Connect(c)
  <2>1. ClientTypeOK' /\ ServerTypeOK'
    BY <1>1 DEF Connect, FreeTokens, ClientTypeOK, ServerTypeOK
  <2>2. DriverTypeOK'
    BY <1>1 DEF Connect, FreeTokens, DriverTypeOK
  <2>3. FutureTypeOK'
    BY <1>1 DEF Connect, FreeTokens, FutureTypeOK
  <2>4. QED BY <2>1, <2>2, <2>3
<1>2. CASE Disconnect(c)
  <2>1. ClientTypeOK' /\ ServerTypeOK'
    BY <1>2 DEF Disconnect, Idle, Empty, ClientTypeOK, ServerTypeOK
  <2>2. DriverTypeOK'
    BY <1>2 DEF Disconnect, Idle, Empty, DriverTypeOK
  <2>3. FutureTypeOK'
    BY <1>2 DEF Disconnect, Idle, Empty, FutureTypeOK
  <2>4. QED BY <2>1, <2>2, <2>3
<1>3. CASE BeginRequest(c)
  <2>1. ClientTypeOK' /\ ServerTypeOK'
    BY <1>3 DEF BeginRequest, Idle, Start, Return, Arm, ClientTypeOK,
                ServerTypeOK
  <2>2. DriverTypeOK'
    BY <1>3 DEF BeginRequest, Idle, Start, Return, Arm, DriverTypeOK
  <2>3. FutureTypeOK'
    BY <1>3, StartTyped DEF BeginRequest
  <2>4. QED BY <2>1, <2>2, <2>3
<1>4. CASE BeginPrepare(c)
  <2>1. ClientTypeOK' /\ ServerTypeOK'
    BY <1>4 DEF BeginPrepare, Idle, Start, Return, Arm, Held, Borrowed,
                ClientTypeOK, ServerTypeOK
  <2>2. DriverTypeOK'
    BY <1>4 DEF BeginPrepare, Idle, Start, Return, Arm, Held, Borrowed,
                DriverTypeOK
  <2>3. FutureTypeOK'
    BY <1>4, StartTyped DEF BeginPrepare
  <2>4. QED BY <2>1, <2>2, <2>3
<1>5. CASE BeginQueryPrepared(c)
  <2>1. ClientTypeOK' /\ ServerTypeOK'
    BY <1>5 DEF BeginQueryPrepared, Idle, Start, Return, Arm, Held, Shared,
                SameSession, ClientTypeOK, ServerTypeOK
  <2>2. DriverTypeOK'
    BY <1>5 DEF BeginQueryPrepared, Idle, Start, Return, Arm, Held, Shared,
                SameSession, DriverTypeOK
  <2>3. FutureTypeOK'
    BY <1>5, StartTyped, ReturnTyped DEF BeginQueryPrepared, Held
  <2>4. QED BY <2>1, <2>2, <2>3
<1>6. CASE BeginUnprepare(c)
  <2>1. ClientTypeOK' /\ ServerTypeOK'
    BY <1>6, DropTyped DEF BeginUnprepare, Held, ClientTypeOK, ServerTypeOK
  <2>2. DriverTypeOK'
    BY <1>6 DEF BeginUnprepare, Idle, Return, Arm, Held, Borrowed,
                SameSession, DropValue, Orphan, DriverTypeOK
  <2>3. FutureTypeOK'
    BY <1>6, ArmTyped, ReturnTyped DEF BeginUnprepare, Held
  <2>4. QED BY <2>1, <2>2, <2>3
<1>7. CASE BeginReset(c)
  <2>1. ClientTypeOK' /\ ServerTypeOK'
    BY <1>7 DEF BeginReset, Idle, Return, Arm, FreeTokens, ClientTypeOK,
                ServerTypeOK
  <2>2. DriverTypeOK'
    BY <1>7 DEF BeginReset, Idle, Return, Arm, FreeTokens, DriverTypeOK
  <2>3. FutureTypeOK'
    BY <1>7, ArmTyped, ReturnTyped DEF BeginReset
  <2>4. QED BY <2>1, <2>2, <2>3
<1>8. CASE BeginBulk(c)
  <2>1. ClientTypeOK' /\ ServerTypeOK'
    BY <1>8 DEF BeginBulk, Idle, Start, Return, Arm, ClientTypeOK,
                ServerTypeOK
  <2>2. DriverTypeOK'
    BY <1>8 DEF BeginBulk, Idle, Start, Return, Arm, DriverTypeOK
  <2>3. FutureTypeOK'
    BY <1>8, StartTyped DEF BeginBulk
  <2>4. QED BY <2>1, <2>2, <2>3
<1>9. CASE Ping(c)
  <2>1. ClientTypeOK' /\ ServerTypeOK'
    BY <1>9 DEF Ping, Idle, Return, ClientTypeOK, ServerTypeOK
  <2>2. DriverTypeOK'
    BY <1>9 DEF Ping, Idle, Return, DriverTypeOK
  <2>3. FutureTypeOK'
    BY <1>9, ReturnTyped DEF Ping
  <2>4. QED BY <2>1, <2>2, <2>3
<1>10. CASE InnerMut(c)
  <2>1. ClientTypeOK' /\ ServerTypeOK'
    BY <1>10 DEF InnerMut, Idle, Return, UserEffect, ClientTypeOK,
                 ServerTypeOK
  <2>2. DriverTypeOK'
    BY <1>10 DEF InnerMut, Idle, Return, UserEffect, DriverTypeOK
  <2>3. FutureTypeOK'
    BY <1>10, ReturnTyped DEF InnerMut
  <2>4. QED BY <2>1, <2>2, <2>3
<1>11. CASE StreamPoll(c)
  <2>1. ClientTypeOK' /\ ServerTypeOK'
    BY <1>11 DEF StreamPoll, At, Guarded, ClientTypeOK, ServerTypeOK
  <2>2. DriverTypeOK'
    BY <1>11 DEF StreamPoll, At, Guarded, DriverTypeOK
  <2>3. FutureTypeOK'
    BY <1>11 DEF StreamPoll, At, Guarded, FutureTypeOK
  <2>4. QED BY <2>1, <2>2, <2>3
<1>12. CASE StreamDetach(c)
  <2>1. ClientTypeOK' /\ ServerTypeOK'
    BY <1>12 DEF StreamDetach, At, End, ClientTypeOK, ServerTypeOK
  <2>2. DriverTypeOK'
    BY <1>12 DEF StreamDetach, At, End, DriverTypeOK
  <2>3. FutureTypeOK'
    BY <1>12 DEF StreamDetach, At, End, FutureTypeOK
  <2>4. QED BY <2>1, <2>2, <2>3
<1>13. CASE Cancel(c)
  <2>1. ClientTypeOK' /\ ServerTypeOK'
    <3>1. arg[c] \in Stmts \cup {NULL}
      BY DEF FutureTypeOK
    <3>2. QED
      BY <1>13, <3>1, DropTyped DEF Cancel, DropArg, ClientTypeOK,
                                    ServerTypeOK
  <2>2. DriverTypeOK'
    BY <1>13 DEF Cancel, Abandon, End, DropArg, DropValue, Orphan,
                 DriverTypeOK
  <2>3. FutureTypeOK'
    BY <1>13 DEF Cancel, Abandon, End, DropArg, DropValue, Orphan,
                 FutureTypeOK
  <2>4. QED BY <2>1, <2>2, <2>3
<1>14. CASE CloseQuery(c)
  <2>1. ClientTypeOK' /\ ServerTypeOK'
    BY <1>14 DEF CloseQuery, At, Drained, ClientTypeOK, ServerTypeOK
  <2>2. DriverTypeOK'
    BY <1>14 DEF CloseQuery, At, Drained, DriverTypeOK
  <2>3. FutureTypeOK'
    BY <1>14 DEF CloseQuery, At, Drained, FutureTypeOK
  <2>4. QED BY <2>1, <2>2, <2>3
<1>15. CASE CloseQueryError(c)
  <2>1. ClientTypeOK' /\ ServerTypeOK'
    <3>1. arg[c] \in Stmts \cup {NULL}
      BY DEF FutureTypeOK
    <3>2. QED
      BY <1>15, <3>1, DropTyped DEF CloseQueryError, DropArg, ClientTypeOK,
                                    ServerTypeOK
  <2>2. DriverTypeOK'
    BY <1>15 DEF CloseQueryError, At, Drained, Fail, End, DropArg, DropValue,
                 Orphan, DriverTypeOK
  <2>3. FutureTypeOK'
    BY <1>15 DEF CloseQueryError, At, Drained, Fail, End, DropArg, DropValue,
                 Orphan, FutureTypeOK
  <2>4. QED BY <2>1, <2>2, <2>3
<1>16. CASE DeclarationError(c)
  <2>1. ClientTypeOK' /\ ServerTypeOK'
    <3>1. arg[c] \in Stmts \cup {NULL}
      BY DEF FutureTypeOK
    <3>2. QED
      BY <1>16, <3>1, DropTyped DEF DeclarationError, DropArg, ClientTypeOK,
                                    ServerTypeOK
  <2>2. DriverTypeOK'
    BY <1>16 DEF DeclarationError, At, Drained, Fail, End, DropArg, DropValue,
                 Orphan, DriverTypeOK
  <2>3. FutureTypeOK'
    BY <1>16 DEF DeclarationError, At, Drained, Fail, End, DropArg, DropValue,
                 Orphan, FutureTypeOK
  <2>4. QED BY <2>1, <2>2, <2>3
<1>17. CASE QueryReply(c)
  <2>1. ClientTypeOK' /\ ServerTypeOK'
    BY <1>17 DEF QueryReply, At, Answered, UserEffect, Goto, ClientTypeOK,
                 ServerTypeOK
  <2>2. DriverTypeOK'
    BY <1>17 DEF QueryReply, At, Answered, UserEffect, Goto, DriverTypeOK
  <2>3. FutureTypeOK'
    BY <1>17 DEF QueryReply, At, Answered, UserEffect, Goto, FutureTypeOK
  <2>4. QED BY <2>1, <2>2, <2>3
<1>18. CASE PrepareReply(c)
  <2>1. ClientTypeOK' /\ ServerTypeOK'
    <3>1. PICK h \in Handles : prepared' = [prepared EXCEPT ![c][h] = arg[c]]
      BY <1>18 DEF PrepareReply
    <3>2. [prepared[c] EXCEPT ![h] = arg[c]] \in [Handles -> Stmts \cup {NULL, Leaked}]
      BY DEF ServerTypeOK, FutureTypeOK
    <3>3. prepared' \in [Conns -> [Handles -> Stmts \cup {NULL, Leaked}]]
      BY <3>1, <3>2 DEF ServerTypeOK
    <3>4. QED BY <1>18, <3>3 DEF PrepareReply, ClientTypeOK, ServerTypeOK
  <2>2. DriverTypeOK'
    BY <1>18 DEF PrepareReply, At, Answered, Goto, DriverTypeOK
  <2>3. FutureTypeOK'
    BY <1>18 DEF PrepareReply, At, Answered, Goto, FutureTypeOK
  <2>4. QED BY <2>1, <2>2, <2>3
<1>19. CASE UnprepareReply(c)
  <2>1. ClientTypeOK' /\ ServerTypeOK'
    BY <1>19 DEF UnprepareReply, At, Answered, Goto, ClientTypeOK,
                 ServerTypeOK
  <2>2. DriverTypeOK'
    BY <1>19 DEF UnprepareReply, At, Answered, Goto, DriverTypeOK
  <2>3. FutureTypeOK'
    BY <1>19 DEF UnprepareReply, At, Answered, Goto, FutureTypeOK
  <2>4. QED BY <2>1, <2>2, <2>3
<1>20. CASE ResetReply(c)
  <2>1. ClientTypeOK' /\ ServerTypeOK'
    BY <1>20 DEF ResetReply, At, Answered, Goto, Empty, ClientTypeOK,
                 ServerTypeOK
  <2>2. DriverTypeOK'
    BY <1>20 DEF ResetReply, At, Answered, Goto, Empty, DriverTypeOK
  <2>3. FutureTypeOK'
    BY <1>20 DEF ResetReply, At, Answered, Goto, Empty, FutureTypeOK
  <2>4. QED BY <2>1, <2>2, <2>3
<1>21. CASE BulkReply(c)
  <2>1. ClientTypeOK' /\ ServerTypeOK'
    BY <1>21 DEF BulkReply, At, Drained, Complete, End, ClientTypeOK,
                 ServerTypeOK
  <2>2. DriverTypeOK'
    BY <1>21 DEF BulkReply, At, Drained, Complete, End, DriverTypeOK
  <2>3. FutureTypeOK'
    BY <1>21 DEF BulkReply, At, Drained, Complete, End, FutureTypeOK
  <2>4. QED BY <2>1, <2>2, <2>3
<1>22. CASE BulkRejected(c)
  <2>1. ClientTypeOK' /\ ServerTypeOK'
    BY <1>22 DEF BulkRejected, At, Fail, End, ClientTypeOK, ServerTypeOK
  <2>2. DriverTypeOK'
    BY <1>22 DEF BulkRejected, At, Fail, End, DriverTypeOK
  <2>3. FutureTypeOK'
    BY <1>22 DEF BulkRejected, At, Fail, End, FutureTypeOK
  <2>4. QED BY <2>1, <2>2, <2>3
<1>23. CASE CollectRow(c)
  <2>1. ClientTypeOK' /\ ServerTypeOK'
    BY <1>23 DEF CollectRow, At, ClientTypeOK, ServerTypeOK
  <2>2. DriverTypeOK'
    BY <1>23 DEF CollectRow, At, DriverTypeOK
  <2>3. FutureTypeOK'
    BY <1>23 DEF CollectRow, At, FutureTypeOK, Wire
  <2>4. QED BY <2>1, <2>2, <2>3
<1>24. CASE CollectEnd(c)
  <2>1. ClientTypeOK' /\ ServerTypeOK'
    BY <1>24 DEF CollectEnd, At, Drained, Complete, End, ClientTypeOK,
                 ServerTypeOK
  <2>2. DriverTypeOK'
    BY <1>24 DEF CollectEnd, At, Drained, Complete, End, DriverTypeOK
  <2>3. FutureTypeOK'
    BY <1>24 DEF CollectEnd, At, Drained, Complete, End, FutureTypeOK
  <2>4. QED BY <2>1, <2>2, <2>3
<1>25. CASE PrepareEnd(c)
  <2>1. ClientTypeOK' /\ ServerTypeOK'
    <3>1. token[c] \in Tokens
      BY <1>25 DEF PrepareEnd, At, ClientTypeOK, EmptySlot
    <3>2. PICK h \in Handles : stmt' = [stmt EXCEPT ![arg[c]] = [handle |-> h, token |-> token[c]]]
      BY <1>25 DEF PrepareEnd
    <3>3. stmt' \in [Stmts -> [handle : Handles, token : Tokens] \cup {NULL}]
      BY <3>1, <3>2 DEF ClientTypeOK
    <3>4. QED BY <1>25, <3>3 DEF PrepareEnd, ClientTypeOK, ServerTypeOK
  <2>2. DriverTypeOK'
    BY <1>25 DEF PrepareEnd, At, Drained, Complete, End, DriverTypeOK
  <2>3. FutureTypeOK'
    BY <1>25 DEF PrepareEnd, At, Drained, Complete, End, FutureTypeOK
  <2>4. QED BY <2>1, <2>2, <2>3
<1>26. CASE PrepareProtocolError(c)
  <2>1. ClientTypeOK' /\ ServerTypeOK'
    <3>1. arg[c] \in Stmts \cup {NULL}
      BY DEF FutureTypeOK
    <3>2. QED
      BY <1>26, <3>1, DropTyped DEF PrepareProtocolError, DropArg,
                                    ClientTypeOK, ServerTypeOK
  <2>2. DriverTypeOK'
    BY <1>26 DEF PrepareProtocolError, At, Drained, Fail, End, DropArg,
                 DropValue, Orphan, DriverTypeOK
  <2>3. FutureTypeOK'
    BY <1>26 DEF PrepareProtocolError, At, Drained, Fail, End, DropArg,
                 DropValue, Orphan, FutureTypeOK
  <2>4. QED BY <2>1, <2>2, <2>3
<1>27. CASE DrainEnd(c)
  <2>1. ClientTypeOK' /\ ServerTypeOK'
    <3>1. arg[c] \in Stmts \cup {NULL}
      BY DEF FutureTypeOK
    <3>2. QED
      BY <1>27, <3>1, DropTyped DEF DrainEnd, DropArg, ClientTypeOK,
                                    ServerTypeOK
  <2>2. DriverTypeOK'
    BY <1>27 DEF DrainEnd, At, Drained, Complete, End, DropArg, DropValue,
                 Orphan, DriverTypeOK
  <2>3. FutureTypeOK'
    BY <1>27 DEF DrainEnd, At, Drained, Complete, End, DropArg, DropValue,
                 Orphan, FutureTypeOK
  <2>4. QED BY <2>1, <2>2, <2>3
<1>28. CASE RequestError(c)
  <2>1. ClientTypeOK' /\ ServerTypeOK'
    <3>1. arg[c] \in Stmts \cup {NULL}
      BY DEF FutureTypeOK
    <3>2. CASE kind[c] # "reset"
      <4>1. ServerTypeOK /\ ClientTypeOK
        OBVIOUS
      <4>2. session' \in [Conns -> SUBSET Residues]
        BY <1>28, <3>2, UserEffectTyped DEF RequestError
      <4>3. CASE DropValue(arg[c])
        <5>1. stmt' \in [Stmts -> [handle : Handles, token : Tokens] \cup {NULL}]
          BY <4>3 DEF DropValue, ClientTypeOK
        <5>2. prepared' \in [Conns -> [Handles -> Stmts \cup {NULL, Leaked}]]
          BY <4>3 DEF DropValue, Orphan, ServerTypeOK
        <5>3. QED BY <1>28, <4>2, <5>1, <5>2 DEF RequestError, ClientTypeOK, ServerTypeOK
      <4>4. CASE UNCHANGED <<stmt, prepared>>
        BY <1>28, <4>2, <4>4 DEF RequestError, ClientTypeOK, ServerTypeOK
      <4>5. QED BY <1>28, <3>2, <4>3, <4>4 DEF RequestError, DropArg
    <3>3. CASE kind[c] = "reset"
      BY <1>28, <3>3, SMTT(60) DEF RequestError, Empty, ClientTypeOK, ServerTypeOK
    <3>4. QED BY <3>2, <3>3
  <2>2. DriverTypeOK'
    BY <1>28 DEF RequestError, Drained, Fail, End, UserEffect, DropArg,
                 DropValue, Orphan, Empty, DriverTypeOK
  <2>3. FutureTypeOK'
    BY <1>28 DEF RequestError, Drained, Fail, End, UserEffect, DropArg,
                 DropValue, Orphan, Empty, FutureTypeOK
  <2>4. QED BY <2>1, <2>2, <2>3
<1>29. CASE ConnectionError(c)
  <2>1. ClientTypeOK' /\ ServerTypeOK'
    <3>1. arg[c] \in Stmts \cup {NULL}
      BY DEF FutureTypeOK
    <3>2. QED
      BY <1>29, <3>1, DropTyped DEF ConnectionError, DropArg, ClientTypeOK,
                                    ServerTypeOK
  <2>2. DriverTypeOK'
    BY <1>29 DEF ConnectionError, End, DropArg, DropValue, Orphan,
                 DriverTypeOK
  <2>3. FutureTypeOK'
    BY <1>29 DEF ConnectionError, End, DropArg, DropValue, Orphan,
                 FutureTypeOK
  <2>4. QED BY <2>1, <2>2, <2>3
<1>30. CASE StreamReply(c)
  <2>1. ClientTypeOK' /\ ServerTypeOK'
    BY <1>30 DEF StreamReply, At, Answered, UserEffect, Unguarded, Guarded,
                 ClientTypeOK, ServerTypeOK
  <2>2. DriverTypeOK'
    BY <1>30 DEF StreamReply, At, Answered, UserEffect, Unguarded, Guarded,
                 DriverTypeOK
  <2>3. FutureTypeOK'
    BY <1>30 DEF StreamReply, At, Answered, UserEffect, Unguarded, Guarded,
                 FutureTypeOK
  <2>4. QED BY <2>1, <2>2, <2>3
<1>31. CASE StreamRow(c)
  <2>1. ClientTypeOK' /\ ServerTypeOK'
    BY <1>31 DEF StreamRow, At, Unguarded, ClientTypeOK, ServerTypeOK
  <2>2. DriverTypeOK'
    BY <1>31 DEF StreamRow, At, Unguarded, DriverTypeOK
  <2>3. FutureTypeOK'
    BY <1>31 DEF StreamRow, At, Unguarded, FutureTypeOK, Wire
  <2>4. QED BY <2>1, <2>2, <2>3
<1>32. CASE StreamSetEnd(c)
  <2>1. ClientTypeOK' /\ ServerTypeOK'
    BY <1>32 DEF StreamSetEnd, At, Guarded, ClientTypeOK, ServerTypeOK
  <2>2. DriverTypeOK'
    BY <1>32 DEF StreamSetEnd, At, Guarded, DriverTypeOK
  <2>3. FutureTypeOK'
    BY <1>32 DEF StreamSetEnd, At, Guarded, FutureTypeOK
  <2>4. QED BY <2>1, <2>2, <2>3
<1>33. CASE StreamAdvanced(c)
  <2>1. ClientTypeOK' /\ ServerTypeOK'
    BY <1>33 DEF StreamAdvanced, At, Unguarded, ClientTypeOK, ServerTypeOK
  <2>2. DriverTypeOK'
    BY <1>33 DEF StreamAdvanced, At, Unguarded, DriverTypeOK
  <2>3. FutureTypeOK'
    BY <1>33 DEF StreamAdvanced, At, Unguarded, FutureTypeOK
  <2>4. QED BY <2>1, <2>2, <2>3
<1>34. CASE StreamExhausted(c)
  <2>1. ClientTypeOK' /\ ServerTypeOK'
    BY <1>34 DEF StreamExhausted, At, Drained, Complete, End, ClientTypeOK,
                 ServerTypeOK
  <2>2. DriverTypeOK'
    BY <1>34 DEF StreamExhausted, At, Drained, Complete, End, DriverTypeOK
  <2>3. FutureTypeOK'
    BY <1>34 DEF StreamExhausted, At, Drained, Complete, End, FutureTypeOK
  <2>4. QED BY <2>1, <2>2, <2>3
<1>35. QED
  BY <1>1, <1>2, <1>3, <1>4, <1>5, <1>6, <1>7, <1>8, <1>9, <1>10, <1>11,
     <1>12, <1>13, <1>14, <1>15, <1>16, <1>17, <1>18, <1>19, <1>20, <1>21,
     <1>22, <1>23, <1>24, <1>25, <1>26, <1>27, <1>28, <1>29, <1>30, <1>31,
     <1>32, <1>33, <1>34 DEF Call, Resume

-----------------------------------------------------------------------------
(* Frames *)

\* A step of client c leaves everything of another client d alone, except that
\* dropping a statement may orphan its handle on d's server.
Untouched(d) ==
  /\ alive'[d] = alive[d] /\ token'[d] = token[d]
  /\ dead'[d] = dead[d] /\ torn'[d] = torn[d] /\ wire'[d] = wire[d]
  /\ session'[d] = session[d]
  /\ pc'[d] = pc[d] /\ kind'[d] = kind[d] /\ arg'[d] = arg[d] /\ guard'[d] = guard[d]
  /\ sent'[d] = sent[d] /\ got'[d] = got[d] /\ outcome'[d] = outcome[d]

\* A step of client c leaves the slots of all other clients as they are.
LEMMA Frame ==
  ASSUME IInv, NEW c \in Conns, Call(c) \/ Resume(c), NEW d \in Conns \ {c}
  PROVE  Untouched(d)
<1> USE DEF Untouched, IInv, TypeOK, ClientTypeOK, DriverTypeOK, ServerTypeOK, FutureTypeOK,
            futureVars, clientVars, driverVars, serverVars
<1>1. CASE Connect(c)
  BY <1>1 DEF Connect, FreeTokens
<1>2. CASE Disconnect(c)
  BY <1>2 DEF Disconnect, Idle, Empty
<1>3. CASE BeginRequest(c)
  BY <1>3 DEF BeginRequest, Idle, Start, Return, Arm
<1>4. CASE BeginPrepare(c)
  BY <1>4 DEF BeginPrepare, Idle, Start, Return, Arm, Held, Borrowed
<1>5. CASE BeginQueryPrepared(c)
  BY <1>5 DEF BeginQueryPrepared, Idle, Start, Return, Arm, Held, Shared,
              SameSession
<1>6. CASE BeginUnprepare(c)
  BY <1>6 DEF BeginUnprepare, Idle, Return, Arm, Held, Borrowed, SameSession,
              DropValue, Orphan
<1>7. CASE BeginReset(c)
  BY <1>7 DEF BeginReset, Idle, Return, Arm, FreeTokens
<1>8. CASE BeginBulk(c)
  BY <1>8 DEF BeginBulk, Idle, Start, Return, Arm
<1>9. CASE Ping(c)
  BY <1>9 DEF Ping, Idle, Return
<1>10. CASE InnerMut(c)
  BY <1>10 DEF InnerMut, Idle, Return, UserEffect
<1>11. CASE StreamPoll(c)
  BY <1>11 DEF StreamPoll, At, Guarded
<1>12. CASE StreamDetach(c)
  BY <1>12 DEF StreamDetach, At, End
<1>13. CASE Cancel(c)
  BY <1>13 DEF Cancel, Abandon, End, DropArg, DropValue, Orphan
<1>14. CASE CloseQuery(c)
  BY <1>14 DEF CloseQuery, At, Drained
<1>15. CASE CloseQueryError(c)
  BY <1>15 DEF CloseQueryError, At, Drained, Fail, End, DropArg, DropValue,
               Orphan
<1>16. CASE DeclarationError(c)
  BY <1>16 DEF DeclarationError, At, Drained, Fail, End, DropArg, DropValue,
               Orphan
<1>17. CASE QueryReply(c)
  BY <1>17 DEF QueryReply, At, Answered, UserEffect, Goto
<1>18. CASE PrepareReply(c)
  BY <1>18 DEF PrepareReply, At, Answered, Goto
<1>19. CASE UnprepareReply(c)
  BY <1>19 DEF UnprepareReply, At, Answered, Goto
<1>20. CASE ResetReply(c)
  BY <1>20 DEF ResetReply, At, Answered, Goto, Empty
<1>21. CASE BulkReply(c)
  BY <1>21 DEF BulkReply, At, Drained, Complete, End
<1>22. CASE BulkRejected(c)
  BY <1>22 DEF BulkRejected, At, Fail, End
<1>23. CASE CollectRow(c)
  BY <1>23 DEF CollectRow, At
<1>24. CASE CollectEnd(c)
  BY <1>24 DEF CollectEnd, At, Drained, Complete, End
<1>25. CASE PrepareEnd(c)
  BY <1>25 DEF PrepareEnd, At, Drained, Complete, End
<1>26. CASE PrepareProtocolError(c)
  BY <1>26 DEF PrepareProtocolError, At, Drained, Fail, End, DropArg,
               DropValue, Orphan
<1>27. CASE DrainEnd(c)
  BY <1>27 DEF DrainEnd, At, Drained, Complete, End, DropArg, DropValue,
               Orphan
<1>28. CASE RequestError(c)
  BY <1>28 DEF RequestError, Drained, Fail, End, UserEffect, DropArg,
               DropValue, Orphan, Empty
<1>29. CASE ConnectionError(c)
  BY <1>29 DEF ConnectionError, End, DropArg, DropValue, Orphan
<1>30. CASE StreamReply(c)
  BY <1>30 DEF StreamReply, At, Answered, UserEffect, Unguarded, Guarded
<1>31. CASE StreamRow(c)
  BY <1>31 DEF StreamRow, At, Unguarded
<1>32. CASE StreamSetEnd(c)
  BY <1>32 DEF StreamSetEnd, At, Guarded
<1>33. CASE StreamAdvanced(c)
  BY <1>33 DEF StreamAdvanced, At, Unguarded
<1>34. CASE StreamExhausted(c)
  BY <1>34 DEF StreamExhausted, At, Drained, Complete, End
<1>35. QED
  BY <1>1, <1>2, <1>3, <1>4, <1>5, <1>6, <1>7, <1>8, <1>9, <1>10, <1>11,
     <1>12, <1>13, <1>14, <1>15, <1>16, <1>17, <1>18, <1>19, <1>20, <1>21,
     <1>22, <1>23, <1>24, <1>25, <1>26, <1>27, <1>28, <1>29, <1>30, <1>31,
     <1>32, <1>33, <1>34 DEF Call, Resume

-----------------------------------------------------------------------------
(* The parts about one client, for the client that takes the step *)

\* Guards follow the awaits, and no I/O starts on a dead client.
LEMMA ControlStep ==
  ASSUME IInv, NEW c \in Conns, Call(c) \/ Resume(c)
  PROVE  Control(c)'
<1> USE DEF IInv, TypeOK, ClientTypeOK, DriverTypeOK, ServerTypeOK, FutureTypeOK,
            futureVars, clientVars, driverVars, serverVars, Control, IO, AllOps
<1>1. CASE Connect(c)
  BY <1>1 DEF Connect, FreeTokens
<1>2. CASE Disconnect(c)
  BY <1>2 DEF Disconnect, Idle, Empty
<1>3. CASE BeginRequest(c)
  BY <1>3 DEF BeginRequest, Idle, Start, Return, Arm
<1>4. CASE BeginPrepare(c)
  BY <1>4 DEF BeginPrepare, Idle, Start, Return, Arm, Held, Borrowed
<1>5. CASE BeginQueryPrepared(c)
  BY <1>5 DEF BeginQueryPrepared, Idle, Start, Return, Arm, Held, Shared,
              SameSession
<1>6. CASE BeginUnprepare(c)
  BY <1>6 DEF BeginUnprepare, Idle, Return, Arm, Held, Borrowed, SameSession,
              DropValue, Orphan
<1>7. CASE BeginReset(c)
  BY <1>7 DEF BeginReset, Idle, Return, Arm, FreeTokens
<1>8. CASE BeginBulk(c)
  BY <1>8 DEF BeginBulk, Idle, Start, Return, Arm
<1>9. CASE Ping(c)
  BY <1>9 DEF Ping, Idle, Return
<1>10. CASE InnerMut(c)
  BY <1>10 DEF InnerMut, Idle, Return, UserEffect
<1>11. CASE StreamPoll(c)
  BY <1>11 DEF StreamPoll, At, Guarded
<1>12. CASE StreamDetach(c)
  BY <1>12 DEF StreamDetach, At, End
<1>13. CASE Cancel(c)
  BY <1>13 DEF Cancel, Abandon, End, DropArg, DropValue, Orphan
<1>14. CASE CloseQuery(c)
  BY <1>14 DEF CloseQuery, At, Drained
<1>15. CASE CloseQueryError(c)
  BY <1>15 DEF CloseQueryError, At, Drained, Fail, End, DropArg, DropValue,
               Orphan
<1>16. CASE DeclarationError(c)
  BY <1>16 DEF DeclarationError, At, Drained, Fail, End, DropArg, DropValue,
               Orphan
<1>17. CASE QueryReply(c)
  BY <1>17 DEF QueryReply, At, Answered, UserEffect, Goto
<1>18. CASE PrepareReply(c)
  BY <1>18 DEF PrepareReply, At, Answered, Goto
<1>19. CASE UnprepareReply(c)
  BY <1>19 DEF UnprepareReply, At, Answered, Goto
<1>20. CASE ResetReply(c)
  BY <1>20 DEF ResetReply, At, Answered, Goto, Empty
<1>21. CASE BulkReply(c)
  BY <1>21 DEF BulkReply, At, Drained, Complete, End
<1>22. CASE BulkRejected(c)
  BY <1>22 DEF BulkRejected, At, Fail, End
<1>23. CASE CollectRow(c)
  BY <1>23 DEF CollectRow, At
<1>24. CASE CollectEnd(c)
  BY <1>24 DEF CollectEnd, At, Drained, Complete, End
<1>25. CASE PrepareEnd(c)
  BY <1>25 DEF PrepareEnd, At, Drained, Complete, End
<1>26. CASE PrepareProtocolError(c)
  BY <1>26 DEF PrepareProtocolError, At, Drained, Fail, End, DropArg,
               DropValue, Orphan
<1>27. CASE DrainEnd(c)
  BY <1>27 DEF DrainEnd, At, Drained, Complete, End, DropArg, DropValue,
               Orphan
<1>28. CASE RequestError(c)
  BY <1>28 DEF RequestError, Drained, Fail, End, UserEffect, DropArg,
               DropValue, Orphan, Empty
<1>29. CASE ConnectionError(c)
  BY <1>29 DEF ConnectionError, End, DropArg, DropValue, Orphan
<1>30. CASE StreamReply(c)
  BY <1>30 DEF StreamReply, At, Answered, UserEffect, Unguarded, Guarded
<1>31. CASE StreamRow(c)
  BY <1>31 DEF StreamRow, At, Unguarded
<1>32. CASE StreamSetEnd(c)
  BY <1>32 DEF StreamSetEnd, At, Guarded
<1>33. CASE StreamAdvanced(c)
  BY <1>33 DEF StreamAdvanced, At, Unguarded
<1>34. CASE StreamExhausted(c)
  BY <1>34 DEF StreamExhausted, At, Drained, Complete, End
<1>35. QED
  BY <1>1, <1>2, <1>3, <1>4, <1>5, <1>6, <1>7, <1>8, <1>9, <1>10, <1>11,
     <1>12, <1>13, <1>14, <1>15, <1>16, <1>17, <1>18, <1>19, <1>20, <1>21,
     <1>22, <1>23, <1>24, <1>25, <1>26, <1>27, <1>28, <1>29, <1>30, <1>31,
     <1>32, <1>33, <1>34 DEF Call, Resume

\* The first close_query makes the wire idle before a request is handed over.
LEMMA WireStep ==
  ASSUME IInv, NEW c \in Conns, Call(c) \/ Resume(c)
  PROVE  Wire(c)'
<1> USE DEF IInv, TypeOK, ClientTypeOK, DriverTypeOK, ServerTypeOK, FutureTypeOK,
            futureVars, clientVars, driverVars, serverVars, Wire, Control, IO, AllOps
<1>1. CASE Connect(c)
  BY <1>1 DEF Connect, FreeTokens
<1>2. CASE Disconnect(c)
  BY <1>2 DEF Disconnect, Idle, Empty
<1>3. CASE BeginRequest(c)
  BY <1>3 DEF BeginRequest, Idle, Start, Return, Arm
<1>4. CASE BeginPrepare(c)
  BY <1>4 DEF BeginPrepare, Idle, Start, Return, Arm, Held, Borrowed
<1>5. CASE BeginQueryPrepared(c)
  BY <1>5 DEF BeginQueryPrepared, Idle, Start, Return, Arm, Held, Shared,
              SameSession
<1>6. CASE BeginUnprepare(c)
  BY <1>6 DEF BeginUnprepare, Idle, Return, Arm, Held, Borrowed, SameSession,
              DropValue, Orphan
<1>7. CASE BeginReset(c)
  BY <1>7 DEF BeginReset, Idle, Return, Arm, FreeTokens
<1>8. CASE BeginBulk(c)
  BY <1>8 DEF BeginBulk, Idle, Start, Return, Arm
<1>9. CASE Ping(c)
  BY <1>9 DEF Ping, Idle, Return
<1>10. CASE InnerMut(c)
  BY <1>10 DEF InnerMut, Idle, Return, UserEffect
<1>11. CASE StreamPoll(c)
  BY <1>11 DEF StreamPoll, At, Guarded
<1>12. CASE StreamDetach(c)
  BY <1>12 DEF StreamDetach, At, End
<1>13. CASE Cancel(c)
  <2>1. dead'[c]
    <3>1. pc[c] \in IO /\ dead' = [dead EXCEPT ![c] = @ \/ guard[c] # "none"]
      BY <1>13 DEF Cancel, Abandon
    <3>2. guard[c] # "none" /\ dead \in [Conns -> BOOLEAN]
      BY <3>1
    <3>3. dead'[c] = (dead[c] \/ guard[c] # "none")
      BY ONLY <3>1, <3>2, c \in Conns
    <3>4. QED BY ONLY <3>2, <3>3
  <2>2. pc'[c] = "idle" /\ outcome'[c] = "cancelled" /\ UNCHANGED <<sent, got, kind>>
    BY <1>13 DEF Cancel, Abandon, End
  <2>3. QED BY <2>1, <2>2
<1>14. CASE CloseQuery(c)
  BY <1>14 DEF CloseQuery, At, Drained
<1>15. CASE CloseQueryError(c)
  BY <1>15 DEF CloseQueryError, At, Drained, Fail, End, DropArg, DropValue,
               Orphan
<1>16. CASE DeclarationError(c)
  BY <1>16 DEF DeclarationError, At, Drained, Fail, End, DropArg, DropValue,
               Orphan
<1>17. CASE QueryReply(c)
  <2>1. pc'[c] = "collecting" /\ UNCHANGED dead
    BY <1>17 DEF QueryReply, Goto
  <2>2. pc[c] = "sending" /\ UNCHANGED <<kind, outcome, torn>>
    BY <1>17 DEF QueryReply, At, Answered, Goto
  <2>3. sent' = sent /\ got' = got /\ wire[c] = "idle"
    BY <1>17 DEF QueryReply, At, Goto
  <2>4. wire' = [wire EXCEPT ![c] = IF @ = "idle" THEN "own" ELSE @]
    BY <1>17 DEF QueryReply, Answered
  <2>5. wire'[c] = "own"
    BY <2>3, <2>4
  <2>6. QED BY <2>1, <2>2, <2>3, <2>5
<1>18. CASE PrepareReply(c)
  BY <1>18 DEF PrepareReply, At, Answered, Goto
<1>19. CASE UnprepareReply(c)
  BY <1>19 DEF UnprepareReply, At, Answered, Goto
<1>20. CASE ResetReply(c)
  BY <1>20 DEF ResetReply, At, Answered, Goto, Empty
<1>21. CASE BulkReply(c)
  BY <1>21 DEF BulkReply, At, Drained, Complete, End
<1>22. CASE BulkRejected(c)
  BY <1>22 DEF BulkRejected, At, Fail, End
<1>23. CASE CollectRow(c)
  BY <1>23 DEF CollectRow, At
<1>24. CASE CollectEnd(c)
  BY <1>24 DEF CollectEnd, At, Drained, Complete, End
<1>25. CASE PrepareEnd(c)
  BY <1>25 DEF PrepareEnd, At, Drained, Complete, End
<1>26. CASE PrepareProtocolError(c)
  BY <1>26 DEF PrepareProtocolError, At, Drained, Fail, End, DropArg,
               DropValue, Orphan
<1>27. CASE DrainEnd(c)
  BY <1>27 DEF DrainEnd, At, Drained, Complete, End, DropArg, DropValue,
               Orphan
<1>28. CASE RequestError(c)
  BY <1>28 DEF RequestError, Drained, Fail, End, UserEffect, DropArg,
               DropValue, Orphan, Empty
<1>29. CASE ConnectionError(c)
  BY <1>29 DEF ConnectionError, End, DropArg, DropValue, Orphan
<1>30. CASE StreamReply(c)
  BY <1>30 DEF StreamReply, At, Answered, UserEffect, Unguarded, Guarded
<1>31. CASE StreamRow(c)
  BY <1>31 DEF StreamRow, At, Unguarded
<1>32. CASE StreamSetEnd(c)
  BY <1>32 DEF StreamSetEnd, At, Guarded
<1>33. CASE StreamAdvanced(c)
  BY <1>33 DEF StreamAdvanced, At, Unguarded
<1>34. CASE StreamExhausted(c)
  BY <1>34 DEF StreamExhausted, At, Drained, Complete, End
<1>35. QED
  BY <1>1, <1>2, <1>3, <1>4, <1>5, <1>6, <1>7, <1>8, <1>9, <1>10, <1>11,
     <1>12, <1>13, <1>14, <1>15, <1>16, <1>17, <1>18, <1>19, <1>20, <1>21,
     <1>22, <1>23, <1>24, <1>25, <1>26, <1>27, <1>28, <1>29, <1>30, <1>31,
     <1>32, <1>33, <1>34 DEF Call, Resume

\* A slot that loses its client is emptied; one that gains a client has a token.
LEMMA SlotStep ==
  ASSUME IInv, NEW c \in Conns, Call(c) \/ Resume(c)
  PROVE  (IF alive[c] THEN token[c] # NULL ELSE EmptySlot(c))'
<1> USE DEF IInv, EmptySlot, Empty, IO, TypeOK, ClientTypeOK, DriverTypeOK, ServerTypeOK, FutureTypeOK,
            futureVars, clientVars, driverVars, serverVars
<1>1. CASE Connect(c)
  BY <1>1, ConstantsAssumption DEF Connect, FreeTokens
<1>2. CASE Disconnect(c)
  BY <1>2 DEF Disconnect, Idle, Empty
<1>3. CASE BeginRequest(c)
  BY <1>3 DEF BeginRequest, Idle, Start, Return, Arm
<1>4. CASE BeginPrepare(c)
  BY <1>4 DEF BeginPrepare, Idle, Start, Return, Arm, Held, Borrowed
<1>5. CASE BeginQueryPrepared(c)
  BY <1>5 DEF BeginQueryPrepared, Idle, Start, Return, Arm, Held, Shared,
              SameSession
<1>6. CASE BeginUnprepare(c)
  BY <1>6 DEF BeginUnprepare, Idle, Return, Arm, Held, Borrowed, SameSession,
              DropValue, Orphan
<1>7. CASE BeginReset(c)
  BY <1>7, ConstantsAssumption DEF BeginReset, Idle, Return, Arm, FreeTokens
<1>8. CASE BeginBulk(c)
  BY <1>8 DEF BeginBulk, Idle, Start, Return, Arm
<1>9. CASE Ping(c)
  BY <1>9 DEF Ping, Idle, Return
<1>10. CASE InnerMut(c)
  BY <1>10 DEF InnerMut, Idle, Return, UserEffect
<1>11. CASE StreamPoll(c)
  BY <1>11 DEF StreamPoll, At, Guarded
<1>12. CASE StreamDetach(c)
  BY <1>12 DEF StreamDetach, At, End
<1>13. CASE Cancel(c)
  BY <1>13 DEF Cancel, Abandon, End, DropArg, DropValue, Orphan
<1>14. CASE CloseQuery(c)
  BY <1>14 DEF CloseQuery, At, Drained
<1>15. CASE CloseQueryError(c)
  BY <1>15 DEF CloseQueryError, At, Drained, Fail, End, DropArg, DropValue,
               Orphan
<1>16. CASE DeclarationError(c)
  BY <1>16 DEF DeclarationError, At, Drained, Fail, End, DropArg, DropValue,
               Orphan
<1>17. CASE QueryReply(c)
  BY <1>17 DEF QueryReply, At, Answered, UserEffect, Goto
<1>18. CASE PrepareReply(c)
  BY <1>18 DEF PrepareReply, At, Answered, Goto
<1>19. CASE UnprepareReply(c)
  BY <1>19 DEF UnprepareReply, At, Answered, Goto
<1>20. CASE ResetReply(c)
  BY <1>20 DEF ResetReply, At, Answered, Goto, Empty
<1>21. CASE BulkReply(c)
  BY <1>21 DEF BulkReply, At, Drained, Complete, End
<1>22. CASE BulkRejected(c)
  BY <1>22 DEF BulkRejected, At, Fail, End
<1>23. CASE CollectRow(c)
  BY <1>23 DEF CollectRow, At
<1>24. CASE CollectEnd(c)
  BY <1>24 DEF CollectEnd, At, Drained, Complete, End
<1>25. CASE PrepareEnd(c)
  BY <1>25 DEF PrepareEnd, At, Drained, Complete, End
<1>26. CASE PrepareProtocolError(c)
  BY <1>26 DEF PrepareProtocolError, At, Drained, Fail, End, DropArg,
               DropValue, Orphan
<1>27. CASE DrainEnd(c)
  BY <1>27 DEF DrainEnd, At, Drained, Complete, End, DropArg, DropValue,
               Orphan
<1>28. CASE RequestError(c)
  BY <1>28 DEF RequestError, Drained, Fail, End, UserEffect, DropArg,
               DropValue, Orphan, Empty
<1>29. CASE ConnectionError(c)
  BY <1>29 DEF ConnectionError, End, DropArg, DropValue, Orphan
<1>30. CASE StreamReply(c)
  BY <1>30 DEF StreamReply, At, Answered, UserEffect, Unguarded, Guarded
<1>31. CASE StreamRow(c)
  BY <1>31 DEF StreamRow, At, Unguarded
<1>32. CASE StreamSetEnd(c)
  BY <1>32 DEF StreamSetEnd, At, Guarded
<1>33. CASE StreamAdvanced(c)
  BY <1>33 DEF StreamAdvanced, At, Unguarded
<1>34. CASE StreamExhausted(c)
  BY <1>34 DEF StreamExhausted, At, Drained, Complete, End
<1>35. QED
  BY <1>1, <1>2, <1>3, <1>4, <1>5, <1>6, <1>7, <1>8, <1>9, <1>10, <1>11,
     <1>12, <1>13, <1>14, <1>15, <1>16, <1>17, <1>18, <1>19, <1>20, <1>21,
     <1>22, <1>23, <1>24, <1>25, <1>26, <1>27, <1>28, <1>29, <1>30, <1>31,
     <1>32, <1>33, <1>34 DEF Call, Resume

\* reset_session: the new token is unknown to all statements, ResetReply cleans
\* the session, and every other end retires the client.
LEMMA ResetStateStep ==
  ASSUME IInv, NEW c \in Conns, Call(c) \/ Resume(c)
  PROVE  ResetState(c)'
<1> USE DEF IInv, TypeOK, ClientTypeOK, DriverTypeOK, ServerTypeOK, FutureTypeOK,
            futureVars, clientVars, driverVars, serverVars, ResetState, Control, Wire, EmptySlot, Empty, IO, AllOps
<1>1. CASE Connect(c)
  BY <1>1 DEF Connect, FreeTokens
<1>2. CASE Disconnect(c)
  BY <1>2 DEF Disconnect, Idle, Empty
<1>3. CASE BeginRequest(c)
  BY <1>3 DEF BeginRequest, Idle, Start, Return, Arm
<1>4. CASE BeginPrepare(c)
  BY <1>4 DEF BeginPrepare, Idle, Start, Return, Arm, Held, Borrowed
<1>5. CASE BeginQueryPrepared(c)
  BY <1>5 DEF BeginQueryPrepared, Idle, Start, Return, Arm, Held, Shared,
              SameSession
<1>6. CASE BeginUnprepare(c)
  BY <1>6 DEF BeginUnprepare, Idle, Return, Arm, Held, Borrowed, SameSession,
              DropValue, Orphan
<1>7. CASE BeginReset(c)
  BY <1>7, ConstantsAssumption DEF BeginReset, Idle, Return, Arm, FreeTokens,
                                   Held
<1>8. CASE BeginBulk(c)
  BY <1>8 DEF BeginBulk, Idle, Start, Return, Arm
<1>9. CASE Ping(c)
  BY <1>9 DEF Ping, Idle, Return
<1>10. CASE InnerMut(c)
  BY <1>10 DEF InnerMut, Idle, Return, UserEffect
<1>11. CASE StreamPoll(c)
  BY <1>11 DEF StreamPoll, At, Guarded
<1>12. CASE StreamDetach(c)
  BY <1>12 DEF StreamDetach, At, End
<1>13. CASE Cancel(c)
  BY <1>13 DEF Cancel, Abandon, End, DropArg, DropValue, Orphan
<1>14. CASE CloseQuery(c)
  BY <1>14 DEF CloseQuery, At, Drained
<1>15. CASE CloseQueryError(c)
  BY <1>15 DEF CloseQueryError, At, Drained, Fail, End, DropArg, DropValue,
               Orphan
<1>16. CASE DeclarationError(c)
  BY <1>16 DEF DeclarationError, At, Drained, Fail, End, DropArg, DropValue,
               Orphan
<1>17. CASE QueryReply(c)
  BY <1>17 DEF QueryReply, At, Answered, UserEffect, Goto
<1>18. CASE PrepareReply(c)
  BY <1>18 DEF PrepareReply, At, Answered, Goto
<1>19. CASE UnprepareReply(c)
  BY <1>19 DEF UnprepareReply, At, Answered, Goto
<1>20. CASE ResetReply(c)
  BY <1>20 DEF ResetReply, At, Answered, Goto, Empty
<1>21. CASE BulkReply(c)
  BY <1>21 DEF BulkReply, At, Drained, Complete, End
<1>22. CASE BulkRejected(c)
  BY <1>22 DEF BulkRejected, At, Fail, End
<1>23. CASE CollectRow(c)
  BY <1>23 DEF CollectRow, At
<1>24. CASE CollectEnd(c)
  BY <1>24 DEF CollectEnd, At, Drained, Complete, End
<1>25. CASE PrepareEnd(c)
  BY <1>25, ConstantsAssumption DEF PrepareEnd, At, Drained, Complete, End,
                                    Held
<1>26. CASE PrepareProtocolError(c)
  BY <1>26 DEF PrepareProtocolError, At, Drained, Fail, End, DropArg,
               DropValue, Orphan
<1>27. CASE DrainEnd(c)
  BY <1>27 DEF DrainEnd, At, Drained, Complete, End, DropArg, DropValue,
               Orphan
<1>28. CASE RequestError(c)
  BY <1>28 DEF RequestError, Drained, Fail, End, UserEffect, DropArg,
               DropValue, Orphan, Empty
<1>29. CASE ConnectionError(c)
  BY <1>29 DEF ConnectionError, End, DropArg, DropValue, Orphan
<1>30. CASE StreamReply(c)
  BY <1>30 DEF StreamReply, At, Answered, UserEffect, Unguarded, Guarded
<1>31. CASE StreamRow(c)
  BY <1>31 DEF StreamRow, At, Unguarded
<1>32. CASE StreamSetEnd(c)
  BY <1>32 DEF StreamSetEnd, At, Guarded
<1>33. CASE StreamAdvanced(c)
  BY <1>33 DEF StreamAdvanced, At, Unguarded
<1>34. CASE StreamExhausted(c)
  BY <1>34 DEF StreamExhausted, At, Drained, Complete, End
<1>35. QED
  BY <1>1, <1>2, <1>3, <1>4, <1>5, <1>6, <1>7, <1>8, <1>9, <1>10, <1>11,
     <1>12, <1>13, <1>14, <1>15, <1>16, <1>17, <1>18, <1>19, <1>20, <1>21,
     <1>22, <1>23, <1>24, <1>25, <1>26, <1>27, <1>28, <1>29, <1>30, <1>31,
     <1>32, <1>33, <1>34 DEF Call, Resume

\* validate_session precedes the borrow, and a call keeps its statement.
LEMMA ArgumentStep ==
  ASSUME IInv, NEW c \in Conns, Call(c) \/ Resume(c)
  PROVE  Argument(c)'
<1> USE DEF IInv, TypeOK, ClientTypeOK, DriverTypeOK, ServerTypeOK, FutureTypeOK,
            futureVars, clientVars, driverVars, serverVars, Argument, Control, EmptySlot, WithStatement, IO, AllOps
<1>1. CASE Connect(c)
  BY <1>1 DEF Connect, FreeTokens
<1>2. CASE Disconnect(c)
  BY <1>2 DEF Disconnect, Idle, Empty
<1>3. CASE BeginRequest(c)
  BY <1>3 DEF BeginRequest, Idle, Start, Return, Arm
<1>4. CASE BeginPrepare(c)
  BY <1>4 DEF BeginPrepare, Idle, Start, Return, Arm, Held, Borrowed
<1>5. CASE BeginQueryPrepared(c)
  BY <1>5, ConstantsAssumption DEF BeginQueryPrepared, Idle, Start, Return,
                                   Arm, Held, Shared, SameSession
<1>6. CASE BeginUnprepare(c)
  BY <1>6, ConstantsAssumption DEF BeginUnprepare, Idle, Return, Arm, Held,
                                   Borrowed, SameSession, DropValue, Orphan
<1>7. CASE BeginReset(c)
  BY <1>7, ConstantsAssumption DEF BeginReset, Idle, Return, Arm, FreeTokens,
                                   Held
<1>8. CASE BeginBulk(c)
  BY <1>8 DEF BeginBulk, Idle, Start, Return, Arm
<1>9. CASE Ping(c)
  BY <1>9 DEF Ping, Idle, Return
<1>10. CASE InnerMut(c)
  BY <1>10 DEF InnerMut, Idle, Return, UserEffect
<1>11. CASE StreamPoll(c)
  BY <1>11 DEF StreamPoll, At, Guarded
<1>12. CASE StreamDetach(c)
  BY <1>12 DEF StreamDetach, At, End
<1>13. CASE Cancel(c)
  BY <1>13 DEF Cancel, Abandon, End, DropArg, DropValue, Orphan
<1>14. CASE CloseQuery(c)
  BY <1>14 DEF CloseQuery, At, Drained
<1>15. CASE CloseQueryError(c)
  BY <1>15 DEF CloseQueryError, At, Drained, Fail, End, DropArg, DropValue,
               Orphan
<1>16. CASE DeclarationError(c)
  BY <1>16 DEF DeclarationError, At, Drained, Fail, End, DropArg, DropValue,
               Orphan
<1>17. CASE QueryReply(c)
  BY <1>17 DEF QueryReply, At, Answered, UserEffect, Goto
<1>18. CASE PrepareReply(c)
  BY <1>18 DEF PrepareReply, At, Answered, Goto
<1>19. CASE UnprepareReply(c)
  BY <1>19 DEF UnprepareReply, At, Answered, Goto
<1>20. CASE ResetReply(c)
  BY <1>20 DEF ResetReply, At, Answered, Goto, Empty
<1>21. CASE BulkReply(c)
  BY <1>21 DEF BulkReply, At, Drained, Complete, End
<1>22. CASE BulkRejected(c)
  BY <1>22 DEF BulkRejected, At, Fail, End
<1>23. CASE CollectRow(c)
  BY <1>23 DEF CollectRow, At
<1>24. CASE CollectEnd(c)
  BY <1>24 DEF CollectEnd, At, Drained, Complete, End
<1>25. CASE PrepareEnd(c)
  BY <1>25, ConstantsAssumption DEF PrepareEnd, At, Drained, Complete, End,
                                    Held
<1>26. CASE PrepareProtocolError(c)
  BY <1>26 DEF PrepareProtocolError, At, Drained, Fail, End, DropArg,
               DropValue, Orphan
<1>27. CASE DrainEnd(c)
  BY <1>27 DEF DrainEnd, At, Drained, Complete, End, DropArg, DropValue,
               Orphan
<1>28. CASE RequestError(c)
  BY <1>28 DEF RequestError, Drained, Fail, End, UserEffect, DropArg,
               DropValue, Orphan, Empty
<1>29. CASE ConnectionError(c)
  BY <1>29 DEF ConnectionError, End, DropArg, DropValue, Orphan
<1>30. CASE StreamReply(c)
  BY <1>30 DEF StreamReply, At, Answered, UserEffect, Unguarded, Guarded
<1>31. CASE StreamRow(c)
  BY <1>31 DEF StreamRow, At, Unguarded
<1>32. CASE StreamSetEnd(c)
  BY <1>32 DEF StreamSetEnd, At, Guarded
<1>33. CASE StreamAdvanced(c)
  BY <1>33 DEF StreamAdvanced, At, Unguarded
<1>34. CASE StreamExhausted(c)
  BY <1>34 DEF StreamExhausted, At, Drained, Complete, End
<1>35. QED
  BY <1>1, <1>2, <1>3, <1>4, <1>5, <1>6, <1>7, <1>8, <1>9, <1>10, <1>11,
     <1>12, <1>13, <1>14, <1>15, <1>16, <1>17, <1>18, <1>19, <1>20, <1>21,
     <1>22, <1>23, <1>24, <1>25, <1>26, <1>27, <1>28, <1>29, <1>30, <1>31,
     <1>32, <1>33, <1>34 DEF Call, Resume

-----------------------------------------------------------------------------
(* Statements and handle tables *)

\* A statement dropped with the call that owns it is no other call's argument.
LEMMA DropArgFrame ==
  ASSUME IInv, NEW c \in Conns, pc[c] \in IO, DropArg(c)
  PROVE  \/ stmt' = stmt /\ prepared' = prepared
         \/ \E s \in Stmts : DropValue(s) /\ \A d \in Conns \ {c} : arg[d] # s
<1> USE DEF IInv, TypeOK, FutureTypeOK, IO
<1>1. CASE kind[c] \in {"prepare", "unprepare"}
  <2>1. arg[c] \in Stmts /\ DropValue(arg[c])
    BY <1>1 DEF DropArg, Argument, WithStatement
  <2>2. \A d \in Conns \ {c} : arg[d] # arg[c]
    BY <1>1, <2>1, ConstantsAssumption DEF Aliasing
  <2>3. QED BY <2>1, <2>2
<1>2. CASE kind[c] \notin {"prepare", "unprepare"}
  BY <1>2 DEF DropArg
<1>3. QED BY <1>1, <1>2

\* What a step of client c does to the statements and to the other servers:
\* nothing, the drop of a statement no other call has, or a new statement.
LEMMA StatementFrame ==
  ASSUME IInv, NEW c \in Conns, Call(c) \/ Resume(c)
  PROVE  \/ stmt' = stmt /\ \A d \in Conns \ {c} : prepared'[d] = prepared[d]
         \/ \E s \in Stmts : DropValue(s) /\ \A d \in Conns \ {c} : arg[d] # s
         \/ PrepareEnd(c)
<1> USE DEF IInv, TypeOK, ClientTypeOK, DriverTypeOK, ServerTypeOK, FutureTypeOK, IO,
            futureVars, clientVars, driverVars, serverVars
<1>1. CASE Connect(c)
  BY <1>1 DEF Connect, FreeTokens
<1>2. CASE Disconnect(c)
  BY <1>2 DEF Disconnect, Idle, Empty
<1>3. CASE BeginRequest(c)
  BY <1>3 DEF BeginRequest, Idle, Start, Return, Arm
<1>4. CASE BeginPrepare(c)
  BY <1>4 DEF BeginPrepare, Idle, Start, Return, Arm, Held, Borrowed
<1>5. CASE BeginQueryPrepared(c)
  BY <1>5 DEF BeginQueryPrepared, Idle, Start, Return, Arm, Held, Shared,
              SameSession
<1>6. CASE BeginUnprepare(c)
  BY <1>6 DEF BeginUnprepare, Held, Borrowed
<1>7. CASE BeginReset(c)
  BY <1>7 DEF BeginReset, Idle, Return, Arm, FreeTokens
<1>8. CASE BeginBulk(c)
  BY <1>8 DEF BeginBulk, Idle, Start, Return, Arm
<1>9. CASE Ping(c)
  BY <1>9 DEF Ping, Idle, Return
<1>10. CASE InnerMut(c)
  BY <1>10 DEF InnerMut, Idle, Return, UserEffect
<1>11. CASE StreamPoll(c)
  BY <1>11 DEF StreamPoll, At, Guarded
<1>12. CASE StreamDetach(c)
  BY <1>12 DEF StreamDetach, At, End
<1>13. CASE Cancel(c)
  BY <1>13, DropArgFrame DEF Cancel
<1>14. CASE CloseQuery(c)
  BY <1>14 DEF CloseQuery, At, Drained
<1>15. CASE CloseQueryError(c)
  BY <1>15, DropArgFrame DEF CloseQueryError, At
<1>16. CASE DeclarationError(c)
  BY <1>16, DropArgFrame DEF DeclarationError, At
<1>17. CASE QueryReply(c)
  BY <1>17 DEF QueryReply, At, Answered, UserEffect, Goto
<1>18. CASE PrepareReply(c)
  BY <1>18 DEF PrepareReply, At, Answered, Goto
<1>19. CASE UnprepareReply(c)
  BY <1>19 DEF UnprepareReply, At, Answered, Goto
<1>20. CASE ResetReply(c)
  BY <1>20 DEF ResetReply, At, Answered, Goto, Empty
<1>21. CASE BulkReply(c)
  BY <1>21 DEF BulkReply, At, Drained, Complete, End
<1>22. CASE BulkRejected(c)
  BY <1>22 DEF BulkRejected, At, Fail, End
<1>23. CASE CollectRow(c)
  BY <1>23 DEF CollectRow, At
<1>24. CASE CollectEnd(c)
  BY <1>24 DEF CollectEnd, At, Drained, Complete, End
<1>25. CASE PrepareEnd(c)
  BY <1>25 DEF PrepareEnd, At, Drained, Complete, End
<1>26. CASE PrepareProtocolError(c)
  BY <1>26, DropArgFrame DEF PrepareProtocolError, At
<1>27. CASE DrainEnd(c)
  BY <1>27, DropArgFrame DEF DrainEnd, At
<1>28. CASE RequestError(c)
  BY <1>28, DropArgFrame DEF RequestError
<1>29. CASE ConnectionError(c)
  BY <1>29, DropArgFrame DEF ConnectionError
<1>30. CASE StreamReply(c)
  BY <1>30 DEF StreamReply, At, Answered, UserEffect, Unguarded, Guarded
<1>31. CASE StreamRow(c)
  BY <1>31 DEF StreamRow, At, Unguarded
<1>32. CASE StreamSetEnd(c)
  BY <1>32 DEF StreamSetEnd, At, Guarded
<1>33. CASE StreamAdvanced(c)
  BY <1>33 DEF StreamAdvanced, At, Unguarded
<1>34. CASE StreamExhausted(c)
  BY <1>34 DEF StreamExhausted, At, Drained, Complete, End
<1>35. QED
  BY <1>1, <1>2, <1>3, <1>4, <1>5, <1>6, <1>7, <1>8, <1>9, <1>10, <1>11,
     <1>12, <1>13, <1>14, <1>15, <1>16, <1>17, <1>18, <1>19, <1>20, <1>21,
     <1>22, <1>23, <1>24, <1>25, <1>26, <1>27, <1>28, <1>29, <1>30, <1>31,
     <1>32, <1>33, <1>34 DEF Call, Resume

\* The drop of a statement leaves an empty handle table empty.
LEMMA OrphanEmpty == ASSUME NEW s \in Stmts PROVE Orphan(Empty, s) = Empty
  BY ConstantsAssumption DEF Orphan, Empty

\* A new statement carries the token of the client that prepared it, which no
\* other client has; it had not been held before.
LEMMA PrepareEndFacts ==
  ASSUME IInv, NEW c \in Conns, PrepareEnd(c)
  PROVE  /\ alive[c] /\ arg[c] \in Stmts /\ kind[c] = "prepare"
         /\ \A d \in Conns \ {c} : arg[d] # arg[c]
         /\ \A d \in Conns \ {c} : alive[d] => token[d] # token[c]
         /\ prepared' = prepared
         /\ \E h \in Handles : /\ prepared[c][h] = arg[c]
                               /\ stmt' = [stmt EXCEPT ![arg[c]] = [handle |-> h, token |-> token[c]]]
<1> USE DEF IInv, TypeOK, ClientTypeOK, FutureTypeOK
<1>1. alive[c]
  BY DEF PrepareEnd, At, EmptySlot
<1>2. arg[c] \in Stmts /\ kind[c] = "prepare"
  BY DEF PrepareEnd, At, Argument, WithStatement
<1>3. \A d \in Conns \ {c} : arg[d] # arg[c]
  BY <1>2, ConstantsAssumption DEF Aliasing
<1>4. \A d \in Conns \ {c} : alive[d] => token[d] # token[c]
  BY <1>1 DEF TokensDistinct
<1>5. QED
  BY <1>1, <1>2, <1>3, <1>4 DEF PrepareEnd, serverVars

-----------------------------------------------------------------------------
(* The parts about a client that does not take the step *)

\* A client that takes no step keeps its parts of the invariant: only a
\* statement dropped or made elsewhere could disturb them, and it is not its own.
LEMMA OthersStep ==
  ASSUME IInv, NEW c \in Conns, Call(c) \/ Resume(c), NEW d \in Conns \ {c}
  PROVE  /\ (IF alive[d] THEN token[d] # NULL ELSE EmptySlot(d))'
         /\ Control(d)' /\ Wire(d)' /\ ResetState(d)' /\ Argument(d)'
<1> USE DEF IInv
<1>1. Untouched(d)
  BY Frame
<1>2. Control(d)' /\ Wire(d)'
  BY <1>1 DEF Untouched, Control, Wire
<1>3. prepared[d] = Empty => prepared'[d] = Empty
  <2>1. ASSUME NEW s \in Stmts, DropValue(s), prepared[d] = Empty PROVE prepared'[d] = Empty
    BY <2>1, OrphanEmpty DEF DropValue
  <2>2. QED BY <2>1, StatementFrame, PrepareEndFacts
<1>4. (IF alive[d] THEN token[d] # NULL ELSE EmptySlot(d))'
  BY <1>1, <1>3 DEF Untouched, EmptySlot, Empty
<1>5. ResetState(d)' /\ Argument(d)'
  <2> USE DEF TypeOK, ClientTypeOK, FutureTypeOK
  <2>1. CASE stmt' = stmt
    BY <1>1, <1>3, <2>1 DEF Untouched, ResetState, Argument, Empty
  <2>2. ASSUME NEW s \in Stmts, DropValue(s), arg[d] # s PROVE ResetState(d)' /\ Argument(d)'
    BY <1>1, <1>3, <2>2 DEF DropValue, Untouched, ResetState, Argument, Empty
  <2>3. CASE PrepareEnd(c)
    <3>1. alive[d] \/ (kind[d] = NULL /\ arg[d] = NULL)
      BY DEF EmptySlot, Argument
    <3>2. PICK h \in Handles : stmt' = [stmt EXCEPT ![arg[c]] = [handle |-> h, token |-> token[c]]]
      BY <2>3, PrepareEndFacts
    <3>3. arg[c] \in Stmts /\ arg[d] # arg[c] /\ (alive[d] => token[d] # token[c])
      BY <2>3, PrepareEndFacts
    <3>4. \A s \in Stmts \ {arg[c]} : stmt'[s] = stmt[s]
      BY <3>2
    <3>5. stmt'[arg[c]].token = token[c]
      BY <3>2, <3>3
    <3>6. Argument(d)'
      BY <1>1, <3>3, <3>4 DEF Untouched, Argument
    <3>7. ResetState(d)'
      <4>1. CASE kind[d] # "reset"
        BY <1>1, <4>1 DEF Untouched, ResetState
      <4>2. CASE kind[d] = "reset"
        <5>1. alive[d]
          BY <3>1, <4>2, ConstantsAssumption DEF AllOps
        <5>2. pc[d] \in IO => \A s \in Stmts : stmt'[s] = NULL \/ stmt'[s].token # token[d]
          BY <3>3, <3>4, <3>5, <4>2, <5>1 DEF ResetState
        <5>3. (pc[d] = "draining" \/ outcome[d] = "ok")' => (session[d] = {} /\ prepared[d] = Empty)'
          BY <1>1, <1>3, <4>2 DEF Untouched, ResetState
        <5>4. QED BY <1>1, <4>2, <5>2, <5>3 DEF Untouched, ResetState
      <4>3. QED BY <4>1, <4>2
    <3>8. QED BY <3>6, <3>7
  <2>4. QED BY <2>1, <2>2, <2>3, StatementFrame
<1>6. QED BY <1>2, <1>4, <1>5

-----------------------------------------------------------------------------
(* The parts about several clients *)

\* Two calls have the same statement only by shared borrows: prepare takes a
\* fresh one, unprepare one nobody borrows, sp_execute one nobody owns.
LEMMA AliasingStep ==
  ASSUME IInv, NEW c \in Conns, Call(c) \/ Resume(c)
  PROVE  Aliasing'
<1> SUFFICES ASSUME NEW d \in Conns \ {c}, arg'[c] # NULL, arg'[c] = arg'[d]
             PROVE  kind'[c] = "query_prepared" /\ kind'[d] = "query_prepared"
  <2>1. \A d, e \in Conns \ {c} : arg'[d] = arg[d] /\ kind'[d] = kind[d] /\ arg'[e] = arg[e]
    BY Frame DEF Untouched
  <2>2. QED BY <2>1 DEF Aliasing, IInv
<1>0. arg'[d] = arg[d] /\ kind'[d] = kind[d]
  BY Frame DEF Untouched
<1>a. Idle(c) => arg[c] = NULL
  BY DEF IInv, Argument, Idle
<1> USE DEF IInv, TypeOK, FutureTypeOK, futureVars
<1>1. CASE Connect(c)
  BY <1>1, <1>0 DEF Connect, FreeTokens, Aliasing
<1>2. CASE Disconnect(c)
  BY <1>2, <1>0, <1>a DEF Disconnect, Aliasing
<1>3. CASE BeginRequest(c)
  BY <1>3, <1>0, <1>a DEF BeginRequest, Start, Return, Arm, Aliasing
<1>4. CASE BeginPrepare(c)
  BY <1>4, <1>0, ConstantsAssumption, <1>a DEF BeginPrepare, Start, Return,
                                               Arm, Held, Borrowed, Aliasing
<1>5. CASE BeginQueryPrepared(c)
  BY <1>5, <1>0, ConstantsAssumption, <1>a DEF BeginQueryPrepared, Start,
                                               Return, Arm, Held, Shared,
                                               SameSession, Aliasing
<1>6. CASE BeginUnprepare(c)
  BY <1>6, <1>0, ConstantsAssumption, <1>a DEF BeginUnprepare, Return, Arm,
                                               Held, Borrowed, SameSession,
                                               Aliasing
<1>7. CASE BeginReset(c)
  BY <1>7, <1>0, <1>a DEF BeginReset, Return, Arm, FreeTokens, Aliasing
<1>8. CASE BeginBulk(c)
  BY <1>8, <1>0, <1>a DEF BeginBulk, Start, Return, Arm, Aliasing
<1>9. CASE Ping(c)
  BY <1>9, <1>0, <1>a DEF Ping, Return, Aliasing
<1>10. CASE InnerMut(c)
  BY <1>10, <1>0, <1>a DEF InnerMut, Return, Aliasing
<1>11. CASE StreamPoll(c)
  BY <1>11, <1>0 DEF StreamPoll, At, Guarded, Aliasing
<1>12. CASE StreamDetach(c)
  BY <1>12, <1>0 DEF StreamDetach, At, End, Aliasing
<1>13. CASE Cancel(c)
  BY <1>13, <1>0 DEF Cancel, Abandon, End, DropArg, Aliasing
<1>14. CASE CloseQuery(c)
  BY <1>14, <1>0 DEF CloseQuery, At, Aliasing
<1>15. CASE CloseQueryError(c)
  BY <1>15, <1>0 DEF CloseQueryError, At, Fail, End, DropArg, Aliasing
<1>16. CASE DeclarationError(c)
  BY <1>16, <1>0 DEF DeclarationError, At, Fail, End, DropArg, Aliasing
<1>17. CASE QueryReply(c)
  BY <1>17, <1>0 DEF QueryReply, At, Goto, Aliasing
<1>18. CASE PrepareReply(c)
  BY <1>18, <1>0 DEF PrepareReply, At, Goto, Aliasing
<1>19. CASE UnprepareReply(c)
  BY <1>19, <1>0 DEF UnprepareReply, At, Goto, Aliasing
<1>20. CASE ResetReply(c)
  BY <1>20, <1>0 DEF ResetReply, At, Goto, Aliasing
<1>21. CASE BulkReply(c)
  BY <1>21, <1>0 DEF BulkReply, At, Complete, End, Aliasing
<1>22. CASE BulkRejected(c)
  BY <1>22, <1>0 DEF BulkRejected, At, Fail, End, Aliasing
<1>23. CASE CollectRow(c)
  BY <1>23, <1>0 DEF CollectRow, At, Aliasing
<1>24. CASE CollectEnd(c)
  BY <1>24, <1>0 DEF CollectEnd, At, Complete, End, Aliasing
<1>25. CASE PrepareEnd(c)
  BY <1>25, <1>0 DEF PrepareEnd, At, Complete, End, Aliasing
<1>26. CASE PrepareProtocolError(c)
  BY <1>26, <1>0 DEF PrepareProtocolError, At, Fail, End, DropArg, Aliasing
<1>27. CASE DrainEnd(c)
  BY <1>27, <1>0 DEF DrainEnd, At, Complete, End, DropArg, Aliasing
<1>28. CASE RequestError(c)
  BY <1>28, <1>0 DEF RequestError, Fail, End, DropArg, Aliasing
<1>29. CASE ConnectionError(c)
  BY <1>29, <1>0 DEF ConnectionError, End, DropArg, Aliasing
<1>30. CASE StreamReply(c)
  BY <1>30, <1>0 DEF StreamReply, At, Unguarded, Guarded, Aliasing
<1>31. CASE StreamRow(c)
  BY <1>31, <1>0 DEF StreamRow, At, Unguarded, Aliasing
<1>32. CASE StreamSetEnd(c)
  BY <1>32, <1>0 DEF StreamSetEnd, At, Guarded, Aliasing
<1>33. CASE StreamAdvanced(c)
  BY <1>33, <1>0 DEF StreamAdvanced, At, Unguarded, Aliasing
<1>34. CASE StreamExhausted(c)
  BY <1>34, <1>0 DEF StreamExhausted, At, Complete, End, Aliasing
<1>35. QED
  BY <1>1, <1>2, <1>3, <1>4, <1>5, <1>6, <1>7, <1>8, <1>9, <1>10, <1>11,
     <1>12, <1>13, <1>14, <1>15, <1>16, <1>17, <1>18, <1>19, <1>20, <1>21,
     <1>22, <1>23, <1>24, <1>25, <1>26, <1>27, <1>28, <1>29, <1>30, <1>31,
     <1>32, <1>33, <1>34 DEF Call, Resume

\* Connect and reset_session take an address no client has.
LEMMA TokensStep ==
  ASSUME IInv, NEW c \in Conns, Call(c) \/ Resume(c)
  PROVE  TokensDistinct'
<1>1. \A d \in Conns \ {c} : alive'[d] = alive[d] /\ token'[d] = token[d]
  BY Frame DEF Untouched
<1>2. \/ alive'[c] = alive[c] /\ token'[c] = token[c]
      \/ token'[c] \in FreeTokens
      \/ ~alive'[c]
  BY DEF IInv, TypeOK, ClientTypeOK, Call, Resume, clientVars, Connect,
     Disconnect, BeginRequest, BeginPrepare, BeginQueryPrepared,
     BeginUnprepare, BeginReset, BeginBulk, Ping, InnerMut, StreamPoll,
     StreamDetach, Cancel, CloseQuery, CloseQueryError, DeclarationError,
     QueryReply, PrepareReply, UnprepareReply, ResetReply, BulkReply,
     BulkRejected, CollectRow, CollectEnd, PrepareEnd, PrepareProtocolError,
     DrainEnd, RequestError, ConnectionError, StreamReply, StreamRow,
     StreamSetEnd, StreamAdvanced, StreamExhausted
<1>3. QED
  BY <1>1, <1>2 DEF IInv, TokensDistinct, FreeTokens

\* validate_session is sound: a statement with the client's current token is
\* on that client's server, under the handle the statement holds.
KnownTo(c, s) ==
  /\ alive[c] /\ stmt[s] # NULL /\ stmt[s].token = token[c]
  /\ ~(pc[c] = "draining" /\ arg[c] = s)
  => prepared[c][stmt[s].handle] = s

\* Dropping a statement leaves the others known.
LEMMA KnownDrop ==
  ASSUME IInv, NEW c \in Conns, NEW r \in Stmts, DropValue(r), NEW s \in Stmts,
         alive'[c] = alive[c], token'[c] = token[c],
         s = r \/ ~(pc[c] = "draining" /\ arg[c] = s)
  PROVE  KnownTo(c, s)'
<1> USE DEF IInv, TypeOK, ClientTypeOK, ServerTypeOK
<1>1. CASE s = r
  BY <1>1 DEF DropValue, KnownTo
<1>2. CASE s # r /\ stmt[s] # NULL
  <2>1. stmt'[s] = stmt[s] /\ stmt[s].handle \in Handles
    BY <1>2 DEF DropValue
  <2>2. prepared[c][stmt[s].handle] = s => prepared'[c][stmt[s].handle] = s
    BY <1>2, <2>1 DEF DropValue, Orphan
  <2>3. QED BY <1>2, <2>1, <2>2 DEF KnownTo, ServerKnows
<1>3. CASE s # r /\ stmt[s] = NULL
  BY <1>3 DEF DropValue, KnownTo
<1>4. QED BY <1>1, <1>2, <1>3

\* The same for the end of a call: what it drops is what it was executing.
LEMMA KnownDropArg ==
  ASSUME IInv, NEW c \in Conns, pc[c] \in IO, pc'[c] = "idle", DropArg(c), NEW s \in Stmts,
         alive'[c] = alive[c], token'[c] = token[c]
  PROVE  KnownTo(c, s)'
<1> USE DEF IInv
<1>1. CASE kind[c] \in {"prepare", "unprepare"}
  <2>1. arg[c] \in Stmts /\ DropValue(arg[c])
    BY <1>1 DEF DropArg, Argument, WithStatement, IO, TypeOK, FutureTypeOK
  <2>2. QED BY <2>1, KnownDrop
<1>2. CASE kind[c] \notin {"prepare", "unprepare"}
  <2>1. stmt' = stmt /\ prepared' = prepared
    BY <1>2 DEF DropArg
  <2>2. pc[c] = "draining" => arg[c] = NULL
    BY <1>2 DEF Argument, Control, WithStatement, IO
  <2>3. QED BY <2>1, <2>2, ConstantsAssumption DEF KnownTo, ServerKnows
<1>3. QED BY <1>1, <1>2

\* The same on the server of a client whose current call does not have it.
LEMMA KnownDropElsewhere ==
  ASSUME IInv, NEW d \in Conns, NEW r \in Stmts, DropValue(r), arg[d] # r, NEW s \in Stmts,
         alive'[d] = alive[d], token'[d] = token[d], pc'[d] = pc[d], arg'[d] = arg[d]
  PROVE  KnownTo(d, s)'
<1>1. CASE pc[d] = "draining" /\ arg[d] = s
  BY <1>1 DEF KnownTo
<1>2. CASE ~(pc[d] = "draining" /\ arg[d] = s)
  BY <1>2, KnownDrop
<1>3. QED BY <1>1, <1>2

\* The server knows every statement that passes validate_session: after
\* sp_prepare by its reply, after a reset because the new token is on none.
LEMMA KnownStep ==
  ASSUME IInv, NEW c \in Conns, Call(c) \/ Resume(c), NEW s \in Stmts
  PROVE  KnownTo(c, s)'
<1>0. KnownTo(c, s)
  BY DEF IInv, ServerKnows, KnownTo
<1> USE DEF IInv, TypeOK, ClientTypeOK, ServerTypeOK, FutureTypeOK,
            futureVars, clientVars, driverVars, serverVars
<1>1. CASE Connect(c)
  BY <1>1, <1>0 DEF Connect, FreeTokens, KnownTo, Held
<1>2. CASE Disconnect(c)
  BY <1>2, <1>0 DEF Disconnect, Idle, Empty, KnownTo
<1>3. CASE BeginRequest(c)
  BY <1>3, <1>0 DEF BeginRequest, Idle, Start, Return, Arm, KnownTo
<1>4. CASE BeginPrepare(c)
  BY <1>4, <1>0 DEF BeginPrepare, Idle, Start, Return, Arm, Held, Borrowed,
                    KnownTo
<1>5. CASE BeginQueryPrepared(c)
  BY <1>5, <1>0 DEF BeginQueryPrepared, Idle, Start, Return, Arm, Held,
                    Shared, SameSession, KnownTo
<1>6. CASE BeginUnprepare(c)
  <2>1. PICK r \in Held \ Borrowed :
          \/ pc'[c] = "closing" /\ UNCHANGED <<stmt, prepared>>
          \/ pc[c] = "idle" /\ DropValue(r)
    BY <1>6 DEF BeginUnprepare, Arm, Idle
  <2>2. CASE DropValue(r) /\ pc[c] = "idle"
    BY <1>6, <2>2, KnownDrop DEF BeginUnprepare, Held
  <2>3. CASE pc'[c] = "closing" /\ UNCHANGED <<stmt, prepared>>
    BY <1>6, <1>0, <2>3 DEF BeginUnprepare, Idle, KnownTo
  <2>4. QED BY <2>1, <2>2, <2>3
<1>7. CASE BeginReset(c)
  BY <1>7, <1>0 DEF BeginReset, Idle, Return, Arm, FreeTokens, KnownTo, Held
<1>8. CASE BeginBulk(c)
  BY <1>8, <1>0 DEF BeginBulk, Idle, Start, Return, Arm, KnownTo
<1>9. CASE Ping(c)
  BY <1>9, <1>0 DEF Ping, Idle, Return, KnownTo
<1>10. CASE InnerMut(c)
  BY <1>10, <1>0 DEF InnerMut, Idle, Return, UserEffect, KnownTo
<1>11. CASE StreamPoll(c)
  BY <1>11, <1>0 DEF StreamPoll, At, Guarded, KnownTo
<1>12. CASE StreamDetach(c)
  BY <1>12, <1>0 DEF StreamDetach, At, End, KnownTo
<1>13. CASE Cancel(c)
  BY <1>13, KnownDropArg DEF Cancel, Abandon, End, IO
<1>14. CASE CloseQuery(c)
  BY <1>14, <1>0 DEF CloseQuery, At, Drained, KnownTo
<1>15. CASE CloseQueryError(c)
  BY <1>15, KnownDropArg DEF CloseQueryError, At, Fail, End, IO
<1>16. CASE DeclarationError(c)
  BY <1>16, KnownDropArg DEF DeclarationError, At, Fail, End, IO
<1>17. CASE QueryReply(c)
  BY <1>17, <1>0 DEF QueryReply, At, Answered, UserEffect, Goto, KnownTo
<1>18. CASE PrepareReply(c)
  BY <1>18, <1>0, ConstantsAssumption DEF PrepareReply, At, Answered, Goto,
                                          KnownTo, Control, Argument,
                                          ResetState, WithStatement, IO
<1>19. CASE UnprepareReply(c)
  <2>1. arg[c] \in Stmts /\ stmt[arg[c]] # NULL /\ stmt[arg[c]].token = token[c] /\ alive[c]
    BY <1>19 DEF UnprepareReply, At, Argument, WithStatement, EmptySlot
  <2>2. prepared[c][stmt[arg[c]].handle] = arg[c]
    BY <1>19, <2>1 DEF UnprepareReply, At, ServerKnows
  <2>3. stmt' = stmt /\ pc'[c] = "draining" /\ arg' = arg /\ alive' = alive /\ token' = token
    BY <1>19 DEF UnprepareReply, Goto
  <2>4. ASSUME stmt[s] # NULL, s # arg[c] PROVE prepared'[c][stmt[s].handle] = prepared[c][stmt[s].handle] \/ prepared[c][stmt[s].handle] # s
    BY <1>19, <2>2, <2>4 DEF UnprepareReply
  <2>5. QED BY <1>19, <1>0, <2>3, <2>4 DEF UnprepareReply, At, KnownTo
<1>20. CASE ResetReply(c)
  BY <1>20, <1>0, ConstantsAssumption DEF ResetReply, At, Answered, Goto,
                                          Empty, KnownTo, Control, Argument,
                                          ResetState, WithStatement, IO
<1>21. CASE BulkReply(c)
  BY <1>21, <1>0 DEF BulkReply, At, Drained, Complete, End, KnownTo
<1>22. CASE BulkRejected(c)
  BY <1>22, <1>0 DEF BulkRejected, At, Fail, End, KnownTo
<1>23. CASE CollectRow(c)
  BY <1>23, <1>0 DEF CollectRow, At, KnownTo
<1>24. CASE CollectEnd(c)
  BY <1>24, <1>0 DEF CollectEnd, At, Drained, Complete, End, KnownTo
<1>25. CASE PrepareEnd(c)
  BY <1>25, <1>0, ConstantsAssumption DEF PrepareEnd, At, Drained, Complete,
                                          End, KnownTo, Control, Argument,
                                          ResetState, WithStatement, IO
<1>26. CASE PrepareProtocolError(c)
  BY <1>26, KnownDropArg DEF PrepareProtocolError, At, Fail, End, IO
<1>27. CASE DrainEnd(c)
  BY <1>27, KnownDropArg DEF DrainEnd, At, Complete, End, IO
<1>28. CASE RequestError(c)
  <2>1. CASE kind[c] # "reset"
    BY <1>28, <2>1, KnownDropArg DEF RequestError, Fail, End, IO
  <2>2. CASE kind[c] = "reset"
    <3>1. stmt'[s] = NULL \/ stmt'[s].token # token'[c]
      BY <1>28, <2>2 DEF RequestError, ResetState, IO
    <3>2. QED BY <3>1 DEF KnownTo
  <2>3. QED BY <2>1, <2>2
<1>29. CASE ConnectionError(c)
  BY <1>29, KnownDropArg DEF ConnectionError, End, IO
<1>30. CASE StreamReply(c)
  BY <1>30, <1>0 DEF StreamReply, At, Answered, UserEffect, Unguarded,
                     Guarded, KnownTo
<1>31. CASE StreamRow(c)
  BY <1>31, <1>0 DEF StreamRow, At, Unguarded, KnownTo
<1>32. CASE StreamSetEnd(c)
  BY <1>32, <1>0 DEF StreamSetEnd, At, Guarded, KnownTo
<1>33. CASE StreamAdvanced(c)
  BY <1>33, <1>0 DEF StreamAdvanced, At, Unguarded, KnownTo
<1>34. CASE StreamExhausted(c)
  BY <1>34, <1>0 DEF StreamExhausted, At, Drained, Complete, End, KnownTo
<1>35. QED
  BY <1>1, <1>2, <1>3, <1>4, <1>5, <1>6, <1>7, <1>8, <1>9, <1>10, <1>11,
     <1>12, <1>13, <1>14, <1>15, <1>16, <1>17, <1>18, <1>19, <1>20, <1>21,
     <1>22, <1>23, <1>24, <1>25, <1>26, <1>27, <1>28, <1>29, <1>30, <1>31,
     <1>32, <1>33, <1>34 DEF Call, Resume

-----------------------------------------------------------------------------
(* The whole invariant *)

\* A step of one client preserves the whole invariant.
LEMMA StepIInv ==
  ASSUME IInv, NEW c \in Conns, Call(c) \/ Resume(c)
  PROVE  IInv'
<1>1. TypeOK'
  BY TypeStep
<1>2. \A d \in Conns : /\ (IF alive[d] THEN token[d] # NULL ELSE EmptySlot(d))'
                       /\ Control(d)' /\ Wire(d)' /\ ResetState(d)' /\ Argument(d)'
  <2>1. TAKE d \in Conns
  <2>2. CASE d = c
    BY <2>2, SlotStep, ControlStep, WireStep, ResetStateStep, ArgumentStep
  <2>3. CASE d # c
    BY <2>3, OthersStep
  <2>4. QED BY <2>2, <2>3
<1>3. Aliasing' /\ TokensDistinct'
  BY AliasingStep, TokensStep
<1>4. ServerKnows'
  <2>1. ASSUME NEW d \in Conns, NEW s \in Stmts PROVE KnownTo(d, s)'
    <3>1. CASE d = c
      BY <3>1, KnownStep
    <3>2. CASE d # c
      <4>1. Untouched(d)
        BY <3>2, Frame
      <4>2. KnownTo(d, s)
        BY DEF IInv, ServerKnows, KnownTo
      <4>3. CASE stmt' = stmt /\ prepared'[d] = prepared[d]
        BY <4>1, <4>2, <4>3 DEF Untouched, KnownTo
      <4>4. ASSUME NEW r \in Stmts, DropValue(r), arg[d] # r PROVE KnownTo(d, s)'
        BY <4>1, <4>4, KnownDropElsewhere DEF Untouched
      <4>5. CASE PrepareEnd(c)
        <5>1. CASE s = arg[c]
          <6>1. alive[d] => stmt'[s].token # token[d]
            <7>1. PICK h \in Handles : stmt' = [stmt EXCEPT ![arg[c]] = [handle |-> h, token |-> token[c]]]
              BY <4>5, PrepareEndFacts
            <7>2. stmt'[s].token = token[c]
              BY <5>1, <7>1 DEF IInv, TypeOK, ClientTypeOK
            <7>3. QED BY <3>2, <4>5, <7>2, PrepareEndFacts
          <6>2. QED BY <4>1, <6>1 DEF Untouched, KnownTo
        <5>2. CASE s # arg[c]
          <6>1. stmt'[s] = stmt[s] /\ prepared' = prepared
            <7>1. PICK h \in Handles : stmt' = [stmt EXCEPT ![arg[c]] = [handle |-> h, token |-> token[c]]]
              BY <4>5, PrepareEndFacts
            <7>2. QED BY <4>5, <5>2, <7>1, PrepareEndFacts DEF IInv, TypeOK, ClientTypeOK
          <6>2. QED BY <4>1, <4>2, <6>1 DEF Untouched, KnownTo
        <5>3. QED BY <5>1, <5>2
      <4>6. QED BY <3>2, <4>3, <4>4, <4>5, StatementFrame
    <3>3. QED BY <3>1, <3>2
  <2>2. QED BY <2>1 DEF ServerKnows, KnownTo
<1>5. QED BY <1>1, <1>2, <1>3, <1>4 DEF IInv

\* The drop of a PreparedStatement nothing borrows preserves it.
LEMMA DropStatementIInv ==
  ASSUME IInv, NEW s \in Stmts, DropStatement(s)
  PROVE  IInv'
<1> USE DEF IInv
<1>1. DropValue(s) /\ UNCHANGED <<alive, token, dead, torn, wire, session>>
                   /\ UNCHANGED <<pc, kind, arg, guard, sent, got, outcome>>
  BY DEF DropStatement, clientVars, driverVars, futureVars
<1>2. \A c \in Conns : arg[c] # s
  BY DEF DropStatement, Borrowed
<1>3. \A c \in Conns : prepared[c] = Empty => prepared'[c] = Empty
  BY <1>1, OrphanEmpty DEF DropValue
<1>4. TypeOK'
  BY <1>1, DropTyped DEF TypeOK, DriverTypeOK, FutureTypeOK
<1>5. \A c \in Conns : Control(c)' /\ Wire(c)'
  BY <1>1 DEF Control, Wire
<1>6. \A c \in Conns : (IF alive[c] THEN token[c] # NULL ELSE EmptySlot(c))'
  BY <1>1, <1>3 DEF EmptySlot, Empty
<1>7. \A c \in Conns : ResetState(c)' /\ Argument(c)'
  <2>1. \A r \in Stmts : stmt'[r] = IF r = s THEN NULL ELSE stmt[r]
    BY <1>1 DEF DropValue, TypeOK, ClientTypeOK
  <2>2. \A c \in Conns : arg[c] \in Stmts \cup {NULL}
    BY DEF TypeOK, FutureTypeOK
  <2>3. TAKE c \in Conns
  <2>4. ResetState(c)'
    BY <1>1, <1>3, <2>1 DEF ResetState, Empty
  <2>5. Argument(c)'
    BY <1>1, <1>2, <2>1, <2>2 DEF Argument
  <2>6. QED BY <2>4, <2>5
<1>8. Aliasing' /\ TokensDistinct'
  BY <1>1 DEF Aliasing, TokensDistinct
<1>9. ServerKnows'
  <2>1. ASSUME NEW c \in Conns, NEW r \in Stmts PROVE KnownTo(c, r)'
    BY <1>1, <1>2, KnownDropElsewhere
  <2>2. QED BY <2>1 DEF ServerKnows, KnownTo
<1>10. QED BY <1>4, <1>5, <1>6, <1>7, <1>8, <1>9

\* So does every step, stuttering included.
LEMMA NextIInv == IInv /\ [Next]_vars => IInv'
<1>1. ASSUME IInv, Next PROVE IInv'
  BY <1>1, StepIInv, DropStatementIInv DEF Next
<1>2. ASSUME IInv, UNCHANGED vars PROVE IInv'
  BY <1>2 DEF vars, IInv, TypeOK, ClientTypeOK, DriverTypeOK, ServerTypeOK, FutureTypeOK,
     EmptySlot, Control, Wire, ResetState, Argument, Aliasing, TokensDistinct, ServerKnows, Empty
<1>3. QED BY <1>1, <1>2

\* The inductive invariant holds in every reachable state of the bridge.
THEOREM Invariance == Spec => []IInv
  BY InitIInv, NextIInv, PTL DEF Spec

-----------------------------------------------------------------------------
(* What follows *)

\* Every variable of the client, the driver and the futures keeps its type.
THEOREM TypeCorrect == Spec => []TypeOK
<1>1. IInv => TypeOK
  BY DEF IInv
<1>2. QED BY <1>1, Invariance, PTL

\* A future dropped at any await, of any call, leaves a connection that no
\* later call can use, and a stream dropped between two items does not (Drop
\* of Operation and of SessionReset).
THEOREM TornNeverReused == Spec => [](TornIsDead /\ IOIsGuarded /\ NoGuardAtRest)
<1>1. IInv => TornIsDead /\ IOIsGuarded /\ NoGuardAtRest
  BY DEF IInv, Control, TornIsDead, IOIsGuarded, NoGuardAtRest
<1>2. QED BY <1>1, Invariance, PTL

\* The handle sent by sp_execute and sp_unprepare is, on that server session,
\* the handle of the statement the caller passed (validate_session by address).
THEOREM HandlesSound == Spec => []HandleSound
<1>1. IInv => HandleSound
  <2>1. SUFFICES ASSUME IInv, NEW c \in Conns, pc[c] = "sending",
                        kind[c] \in {"query_prepared", "unprepare"}
                 PROVE  arg[c] \in Held /\ prepared[c][stmt[arg[c]].handle] = arg[c]
    BY DEF HandleSound
  <2>2. arg[c] \in Stmts /\ stmt[arg[c]] # NULL /\ stmt[arg[c]].token = token[c] /\ alive[c]
    BY <2>1 DEF IInv, Argument, EmptySlot, WithStatement, TypeOK, FutureTypeOK
  <2>3. QED BY <2>1, <2>2 DEF Held, IInv, ServerKnows
<1>2. QED BY <1>1, Invariance, PTL

\* Requests are handed over on a drained wire, at most once, and the rows a
\* call delivers are its own (close_query before every request).
THEOREM ResponsesMatch == Spec => [](RequestOnIdleWire /\ OwnRowsOnly /\ SentOnce)
<1>1. IInv => RequestOnIdleWire /\ OwnRowsOnly /\ SentOnce
  BY DEF IInv, Wire, RequestOnIdleWire, OwnRowsOnly, SentOnce
<1>2. QED BY <1>1, Invariance, PTL

\* In particular no call hands its request over twice, whatever it drains,
\* reads or fails at before (client.rs, prepared.rs: one execute per method).
THEOREM SentOnceAlways == Spec => []SentOnce
  BY ResponsesMatch, PTL

\* reset_session leaves a clean session or a dead connection, nothing between.
THEOREM ResetsCleanOrRetire == Spec => []ResetAllOrNothing
<1>1. IInv => ResetAllOrNothing
  BY DEF IInv, ResetState, Wire, ResetAllOrNothing
<1>2. QED BY <1>1, Invariance, PTL

\* Nothing clears the dead flag of a connection (Operation::complete never
\* revives): only a new connection in the slot is live again.
THEOREM DeadForever == Spec => DeadIsFinal
<1>1. IInv /\ [Next]_vars => [\A c \in Conns : dead[c] /\ alive'[c] => dead'[c]]_vars
  <2>1. SUFFICES ASSUME IInv, Next, NEW d \in Conns, dead[d], alive'[d] PROVE dead'[d]
    OBVIOUS
  <2>2. ASSUME NEW c \in Conns, Call(c) \/ Resume(c) PROVE dead'[d]
    <3>1. CASE d # c
      BY <2>1, <2>2, <3>1, Frame DEF Untouched
    <3>2. CASE d = c
      <4> USE DEF IInv, TypeOK, DriverTypeOK, ClientTypeOK, driverVars
      <4>1. alive[d]
        BY <2>1 DEF EmptySlot
      <4>2. QED
        BY <2>1, <2>2, <3>2, <4>1 DEF Call, Resume, Connect, Disconnect, BeginRequest,
           BeginPrepare, BeginQueryPrepared, BeginUnprepare, BeginReset,
           BeginBulk, Ping, InnerMut, StreamPoll, StreamDetach, Cancel,
           CloseQuery, CloseQueryError, DeclarationError, QueryReply,
           PrepareReply, UnprepareReply, ResetReply, BulkReply, BulkRejected,
           CollectRow, CollectEnd, PrepareEnd, PrepareProtocolError, DrainEnd,
           RequestError, ConnectionError, StreamReply, StreamRow,
           StreamSetEnd, StreamAdvanced, StreamExhausted, Complete, Fail,
           Abandon
    <3>3. QED BY <3>1, <3>2
  <2>3. ASSUME NEW s \in Stmts, DropStatement(s) PROVE dead'[d]
    BY <2>1, <2>3 DEF DropStatement, driverVars
  <2>4. QED BY <2>1, <2>2, <2>3 DEF Next
<1>2. QED BY <1>1, Invariance, PTL DEF DeadIsFinal, Spec
-----------------------------------------------------------------------------
(* What a user of several clients may rely on *)

\* Calls and their ends neither make a client nor close one.
LEMMA AliveFrame ==
  ASSUME NEW c \in Conns,
         \/ BeginRequest(c) \/ BeginPrepare(c) \/ BeginQueryPrepared(c)
         \/ BeginUnprepare(c) \/ BeginReset(c) \/ BeginBulk(c) \/ Ping(c) \/ InnerMut(c)
         \/ StreamPoll(c) \/ StreamDetach(c) \/ Cancel(c) \/ Resume(c)
  PROVE  alive' = alive
  BY DEF Resume, BeginRequest, BeginPrepare, BeginQueryPrepared, BeginUnprepare,
     BeginReset, BeginBulk, Ping, InnerMut, StreamPoll, StreamDetach, Cancel,
     CloseQuery, CloseQueryError, DeclarationError, QueryReply, PrepareReply,
     UnprepareReply, ResetReply, BulkReply, BulkRejected, CollectRow, CollectEnd,
     PrepareEnd, PrepareProtocolError, DrainEnd, RequestError, ConnectionError,
     StreamReply, StreamRow, StreamSetEnd, StreamAdvanced, StreamExhausted, clientVars

\* An await that resolves, or is dropped, belongs to a call under way, and
\* neither renames the call nor touches the Arc.
LEMMA AwaitFrame ==
  ASSUME IInv, NEW c \in Conns, Resume(c) \/ Cancel(c)
  PROVE  /\ pc[c] # "idle" /\ alive[c]
         /\ kind'[c] = kind[c] /\ token' = token /\ alive' = alive
<1> USE DEF IO, At, clientVars
<1>1. pc[c] # "idle" /\ alive' = alive /\ token' = token
  BY DEF Resume, Cancel, CloseQuery, CloseQueryError, DeclarationError, QueryReply,
     PrepareReply, UnprepareReply, ResetReply, BulkReply, BulkRejected, CollectRow,
     CollectEnd, PrepareEnd, PrepareProtocolError, DrainEnd, RequestError,
     ConnectionError, StreamReply, StreamRow, StreamSetEnd, StreamAdvanced, StreamExhausted
<1>2. kind' = kind
  BY DEF Resume, Cancel, CloseQuery, CloseQueryError, DeclarationError, QueryReply,
     PrepareReply, UnprepareReply, ResetReply, BulkReply, BulkRejected, CollectRow,
     CollectEnd, PrepareEnd, PrepareProtocolError, DrainEnd, RequestError,
     ConnectionError, StreamReply, StreamRow, StreamSetEnd, StreamAdvanced,
     StreamExhausted, Goto, Complete, Fail, Abandon, End, Guarded, Unguarded
<1>3. alive[c]
  BY <1>1 DEF IInv, EmptySlot
<1>4. QED BY <1>1, <1>2, <1>3

\* A statement comes into being at the end of a prepare only, with the token
\* of the client that prepared it.
LEMMA NewStatement ==
  ASSUME IInv, NEW c \in Conns, Call(c) \/ Resume(c), NEW s \in Stmts
  PROVE  \/ stmt'[s] = NULL \/ stmt'[s] = stmt[s]
         \/ /\ kind[c] = "prepare" /\ alive[c] /\ stmt'[s].token = token[c]
            /\ \A d \in Conns \ {c} : alive[d] => token[d] # token[c]
<1> USE DEF IInv, TypeOK, ClientTypeOK
<1>1. CASE stmt' = stmt
  BY <1>1
<1>2. ASSUME NEW r \in Stmts, DropValue(r) PROVE stmt'[s] \in {NULL, stmt[s]}
  BY <1>2 DEF DropValue
<1>3. CASE PrepareEnd(c)
  <2>1. PICK h \in Handles : stmt' = [stmt EXCEPT ![arg[c]] = [handle |-> h, token |-> token[c]]]
    BY <1>3, PrepareEndFacts
  <2>2. s = arg[c] => stmt'[s].token = token[c]
    BY <2>1
  <2>3. s # arg[c] => stmt'[s] = stmt[s]
    BY <2>1
  <2>4. QED BY <1>3, <2>2, <2>3, PrepareEndFacts
<1>4. QED BY <1>1, <1>2, <1>3, StatementFrame

-----------------------------------------------------------------------------
(* What a caller sees of a state *)

PhaseBar == [c \in Conns |-> phaseBar(c)]
UsingBar == [c \in Conns |-> usingBar(c)]
HomeBar == [s \in Stmts |-> homeBar(s)]

-----------------------------------------------------------------------------
(* Where a statement is usable *)

\* A statement's token is that of one client at most, and of a live one.
LEMMA OneSession ==
  ASSUME IInv, NEW s \in Stmts
  PROVE  /\ \A c \in Sessions(s) : alive[c]
         /\ \A c, d \in Sessions(s) : c = d
<1>1. \A c \in Sessions(s) : token[c] # NULL
  BY ConstantsAssumption DEF IInv, TypeOK, ClientTypeOK, Sessions, Held
<1>2. \A c \in Sessions(s) : alive[c]
  BY <1>1 DEF IInv, EmptySlot, Sessions
<1>3. QED BY <1>2 DEF IInv, TokensDistinct, Sessions

\* Hence that client is the statement's home.
LEMMA HomeIs ==
  ASSUME IInv, NEW s \in Stmts
  PROVE  /\ \A c \in Conns : homeBar(s) = c <=> c \in Sessions(s)
         /\ homeBar(s) = NULL <=> Sessions(s) = {}
<1>1. CASE Sessions(s) = {}
  BY <1>1, HomeAssumption DEF homeBar
<1>2. CASE Sessions(s) # {}
  <2>1. homeBar(s) \in Sessions(s)
    BY <1>2 DEF homeBar
  <2>2. Sessions(s) \subseteq Conns
    BY DEF Sessions
  <2>3. QED BY <1>2, <2>1, <2>2, OneSession, HomeAssumption
<1>3. QED BY <1>1, <1>2

\* The clients whose token it carries determine a statement's home.
LEMMA SameHome ==
  ASSUME NEW s \in Stmts, Sessions(s)' = Sessions(s)
  PROVE  homeBar(s)' = homeBar(s)
<1> DEFINE Home(S) == IF S = {} THEN NULL ELSE CHOOSE c \in S : TRUE
<1>1. homeBar(s) = Home(Sessions(s)) /\ homeBar(s)' = Home(Sessions(s)')
  BY DEF homeBar
<1> HIDE DEF Home
<1>2. QED BY <1>1

\* Nothing but statements and tokens decides where statements are usable.
LEMMA HomesStay ==
  ASSUME stmt' = stmt, token' = token
  PROVE  HomeBar' = HomeBar
  BY DEF HomeBar, homeBar, Sessions, Held

\* A dropped statement has no home; the others keep theirs.
LEMMA HomeDropped ==
  ASSUME IInv, NEW r \in Stmts, DropValue(r), token' = token
  PROVE  HomeBar' = [HomeBar EXCEPT ![r] = NULL]
<1>1. stmt' = [stmt EXCEPT ![r] = NULL] /\ DOMAIN stmt = Stmts
  BY DEF DropValue, IInv, TypeOK, ClientTypeOK
<1>2. Sessions(r)' = {}
  BY <1>1 DEF Sessions, Held
<1>3. \A s \in Stmts \ {r} : Sessions(s)' = Sessions(s)
  BY <1>1 DEF Sessions, Held
<1>4. homeBar(r)' = NULL
  BY <1>2 DEF homeBar
<1>5. \A s \in Stmts \ {r} : homeBar(s)' = homeBar(s)
  BY <1>3, SameHome
<1>6. QED BY <1>4, <1>5 DEF HomeBar

\* A client that gets an address nothing held, or loses its own, is no
\* longer the home of any statement.
LEMMA HomesLost ==
  ASSUME IInv, NEW c \in Conns, NEW t \in FreeTokens \cup {NULL}, stmt' = stmt,
         token' = [token EXCEPT ![c] = t]
  PROVE  HomeBar' = [s \in Stmts |-> IF HomeBar[s] = c THEN NULL ELSE HomeBar[s]]
<1> USE DEF IInv, TypeOK, ClientTypeOK
<1>1. SUFFICES ASSUME NEW s \in Stmts
               PROVE  homeBar(s)' = IF homeBar(s) = c THEN NULL ELSE homeBar(s)
  BY DEF HomeBar
<1>2. s \in Held => stmt[s].token # t
  BY ConstantsAssumption DEF FreeTokens, Held
<1>3. Sessions(s)' = Sessions(s) \ {c}
  BY <1>2 DEF Sessions, Held
<1>4. CASE c \in Sessions(s)
  <2>1. Sessions(s)' = {}
    BY <1>3, <1>4, OneSession
  <2>2. QED BY <1>4, <2>1, HomeIs DEF homeBar
<1>5. CASE c \notin Sessions(s)
  BY <1>3, <1>5, HomeIs, SameHome
<1>6. QED BY <1>4, <1>5

\* A statement that has been prepared is at home where it was.
LEMMA HomeGained ==
  ASSUME IInv, NEW c \in Conns, NEW r \in Stmts, r = arg[c], PrepareEnd(c)
  PROVE  /\ HomeBar[r] = NULL
         /\ HomeBar' = [HomeBar EXCEPT ![r] = c]
<1>1. PICK h \in Handles : stmt' = [stmt EXCEPT ![r] = [handle |-> h, token |-> token[c]]]
  BY PrepareEndFacts
<1>2. token' = token /\ alive[c] /\ kind[c] = "prepare"
  BY PrepareEndFacts DEF PrepareEnd, clientVars
<1>3. stmt[r] = NULL /\ DOMAIN stmt = Stmts /\ token[c] \in Tokens
  <2>1. arg[c] # NULL
    BY ConstantsAssumption
  <2>2. QED BY <1>2, <2>1 DEF IInv, Argument, TypeOK, ClientTypeOK
<1>4. stmt'[r] = [handle |-> h, token |-> token[c]] /\ stmt'[r] # NULL
  BY <1>1, <1>3, ConstantsAssumption
<1>5. \A d \in Conns \ {c} : token[d] # token[c]
  BY <1>2, <1>3, PrepareEndFacts, ConstantsAssumption DEF IInv, EmptySlot
<1>6. Sessions(r) = {}
  BY <1>3 DEF Sessions, Held
<1>7. Sessions(r)' = {c}
  <2>1. stmt'[r].token = token[c]
    BY <1>4
  <2>2. QED BY <1>2, <1>4, <1>5, <2>1 DEF Sessions, Held
<1>8. \A s \in Stmts \ {r} : Sessions(s)' = Sessions(s)
  BY <1>1, <1>2, <1>3 DEF Sessions, Held
<1>9. homeBar(r) = NULL /\ homeBar(r)' = c
  BY <1>6, <1>7 DEF homeBar
<1>10. \A s \in Stmts \ {r} : homeBar(s)' = homeBar(s)
  BY <1>8, SameHome
<1>11. QED BY <1>9, <1>10 DEF HomeBar

-----------------------------------------------------------------------------
(* What the caller of one client sees of a step *)

\* The clients that do not move look as they did.
LEMMA Seen ==
  ASSUME IInv, NEW c \in Conns, Call(c) \/ Resume(c),
         NEW p, NEW r, NEW u, phaseBar(c)' = p, outcome'[c] = r, usingBar(c)' = u
  PROVE  /\ Promise!Become(c, p, r) /\ Promise!Use(c, u)
         /\ u = usingBar(c) => UsingBar' = UsingBar
<1>1. \A d \in Conns \ {c} : phaseBar(d)' = phaseBar(d) /\ usingBar(d)' = usingBar(d)
  BY Frame DEF Untouched, phaseBar, usingBar
<1>2. \A d \in Conns \ {c} : outcome'[d] = outcome[d]
  BY Frame DEF Untouched
<1>3. outcome \in [Conns -> Outcomes] /\ outcome' \in [Conns -> Outcomes]
  BY TypeStep DEF IInv, TypeOK, FutureTypeOK
<1>4. outcome' = [outcome EXCEPT ![c] = r]
  BY <1>2, <1>3
<1>5. PhaseBar' = [PhaseBar EXCEPT ![c] = p]
  BY <1>1 DEF PhaseBar
<1>6. UsingBar' = [UsingBar EXCEPT ![c] = u]
  BY <1>1 DEF UsingBar
<1>7. u = usingBar(c) => UsingBar' = UsingBar
  BY <1>6 DEF UsingBar
<1>8. QED BY <1>4, <1>5, <1>6, <1>7 DEF Promise!Become, Promise!Use, PhaseBar, UsingBar

\* A caller sees nothing of a step that changes neither.
LEMMA Unseen ==
  ASSUME IInv, NEW c \in Conns, Call(c) \/ Resume(c), phaseBar(c)' = phaseBar(c),
         outcome'[c] = outcome[c], usingBar(c)' = usingBar(c), stmt' = stmt, token' = token
  PROVE  UNCHANGED Promise!vars
<1>1. \A d \in Conns : phaseBar(d)' = phaseBar(d) /\ usingBar(d)' = usingBar(d)
  <2>1. \A d \in Conns \ {c} : phaseBar(d)' = phaseBar(d) /\ usingBar(d)' = usingBar(d)
    <3>1. \A d \in Conns \ {c} : Untouched(d)
      BY Frame
    <3>2. QED BY ONLY <3>1 DEF Untouched, phaseBar, usingBar, IO
  <2>2. QED BY <2>1
<1>2. \A d \in Conns : outcome'[d] = outcome[d]
  BY Frame DEF Untouched
<1>3. outcome \in [Conns -> Outcomes] /\ outcome' \in [Conns -> Outcomes]
  BY TypeStep DEF IInv, TypeOK, FutureTypeOK
<1>4. outcome' = outcome
  BY <1>2, <1>3
<1>5. PhaseBar' = PhaseBar /\ UsingBar' = UsingBar
  BY <1>1 DEF PhaseBar, UsingBar
<1>6. QED BY <1>4, <1>5, HomesStay DEF Promise!vars, PhaseBar, UsingBar, HomeBar

\* A client at rest uses no statement, and is ready until it is dead.
LEMMA AtRest ==
  ASSUME IInv, NEW c \in Conns, Idle(c)
  PROVE  /\ phaseBar(c) = IF dead[c] THEN "retired" ELSE "ready"
         /\ arg[c] = NULL /\ usingBar(c) = NULL
  BY DEF Idle, IInv, Argument, phaseBar, usingBar, IO

\* A client in a call is busy or resetting, alive, and not dead.
LEMMA InCall ==
  ASSUME IInv, NEW c \in Conns, pc[c] \in IO
  PROVE  /\ alive[c] /\ ~dead[c]
         /\ phaseBar(c) = IF kind[c] = "reset" THEN "resetting" ELSE "busy"
         /\ usingBar(c) \in Stmts => usingBar(c) = arg[c]
  BY ConstantsAssumption DEF IInv, EmptySlot, Control, phaseBar, usingBar, IO

\* A call that has ended uses no statement.
LEMMA CallEnded ==
  ASSUME IInv, NEW c \in Conns, NEW out, End(c, out), alive'[c]
  PROVE  /\ phaseBar(c)' = IF dead'[c] THEN "retired" ELSE "ready"
         /\ usingBar(c)' = NULL /\ outcome'[c] = out
  BY DEF IInv, TypeOK, FutureTypeOK, End, phaseBar, usingBar, IO

\* A call drops no statement but the one it was given.
LEMMA ArgDropped ==
  ASSUME IInv, NEW c \in Conns, pc[c] \in IO, token' = token, DropArg(c) \/ stmt' = stmt
  PROVE  Promise!MayDrop({UsingBar[c]} \cap Stmts)
<1>1. CASE stmt' = stmt
  BY <1>1, HomesStay DEF Promise!MayDrop, HomeBar
<1>2. CASE kind[c] = "unprepare" /\ DropArg(c)
  <2>1. arg[c] \in Stmts /\ DropValue(arg[c])
    BY <1>2 DEF DropArg, IInv, Argument, WithStatement, IO, TypeOK, FutureTypeOK
  <2>2. PICK r \in Stmts : r = arg[c] /\ DropValue(r)
    BY <2>1
  <2>3. HomeBar' = [HomeBar EXCEPT ![r] = NULL]
    BY <2>2, HomeDropped
  <2>4. UsingBar[c] = r
    BY <1>2, <2>2 DEF UsingBar, usingBar
  <2>5. QED BY <2>3, <2>4 DEF Promise!MayDrop, HomeBar
<1>3. CASE kind[c] = "prepare" /\ DropArg(c)
  <2>1. arg[c] \in Stmts /\ stmt[arg[c]] = NULL /\ DropValue(arg[c])
    BY <1>3 DEF DropArg, IInv, Argument, WithStatement, IO, TypeOK, FutureTypeOK
  <2>2. stmt' = stmt
    BY <2>1 DEF DropValue, IInv, TypeOK, ClientTypeOK
  <2>3. QED BY <1>1, <2>2
<1>4. QED BY <1>1, <1>2, <1>3 DEF DropArg

-----------------------------------------------------------------------------
(* The first poll of a call *)

\* A call that returns at once leaves its client as it is.
LEMMA ReturnSeen ==
  ASSUME IInv, NEW c \in Conns, Call(c), Idle(c), NEW k, NEW out, Return(c, k, out),
         UNCHANGED <<alive, dead>>
  PROVE  /\ Promise!Become(c, phaseBar(c), out) /\ UsingBar' = UsingBar
         /\ PhaseBar[c] = IF dead[c] THEN "retired" ELSE "ready"
<1>1. phaseBar(c)' = phaseBar(c) /\ phaseBar(c) = IF dead[c] THEN "retired" ELSE "ready"
  BY AtRest DEF Return, Idle, phaseBar, IO
<1>2. usingBar(c)' = NULL /\ usingBar(c) = NULL
  BY AtRest DEF Return, usingBar
<1>3. outcome'[c] = out
  BY DEF Return, IInv, TypeOK, FutureTypeOK
<1>4. QED BY <1>1, <1>2, <1>3, Seen DEF PhaseBar

\* What a caller sees of call k, and of the statement s it is given.
Shown(k, p) == p = IF k = "reset" THEN "resetting" ELSE "busy"
Executes(k, s, u) == u = IF k \in {"query_prepared", "unprepare"} THEN s ELSE NULL

\* A call that reaches its first await makes its client busy with the
\* statement it executes.
LEMMA ArmSeen ==
  ASSUME IInv, NEW c \in Conns, Call(c), Idle(c), ~dead[c], NEW k \in AllOps,
         NEW s \in Stmts \cup {NULL}, NEW g, NEW await \in IO, Arm(c, k, s, g, await),
         alive' = alive,
         NEW p, Shown(k, p), NEW u, Executes(k, s, u)
  PROVE  /\ PhaseBar[c] = "ready"
         /\ Promise!Become(c, p, "none") /\ Promise!Use(c, u)
         /\ u = NULL => UsingBar' = UsingBar
<1> USE DEF IInv, TypeOK, FutureTypeOK
<1>1. pc'[c] = await /\ kind'[c] = k /\ arg'[c] = s /\ outcome'[c] = "none" /\ alive'[c]
  BY DEF Arm, Idle
<1>2. phaseBar(c)' = p
  BY <1>1 DEF phaseBar, IO, Shown
<1>3. usingBar(c)' = u
  BY <1>1 DEF usingBar, Executes
<1>4. phaseBar(c) = "ready" /\ usingBar(c) = NULL
  BY AtRest
<1>5. QED BY <1>1, <1>2, <1>3, <1>4, Seen DEF PhaseBar

\* Operation::new: retired clients refuse, live ones admit.
LEMMA StartSeen ==
  ASSUME IInv, NEW c \in Conns, Call(c), Idle(c), NEW k \in AllOps \ {"reset", "unprepare"},
         NEW s \in Stmts \cup {NULL}, NEW await \in IO, Start(c, k, s, await),
         k = "query_prepared" => s \in Held /\ (dead[c] \/ SameSession(c, s)),
         UNCHANGED <<alive, dead, token, stmt>>
  PROVE  Promise!RefuseRetired(c) \/ Promise!Call(c)
<1>1. HomeBar' = HomeBar
  BY HomesStay
<1>2. CASE dead[c] /\ Return(c, k, "closed")
  <2>1. /\ Promise!Become(c, "retired", "closed") /\ UsingBar' = UsingBar
        /\ PhaseBar[c] = "retired"
    BY <1>2, ReturnSeen, AtRest
  <2>2. QED BY <1>1, <2>1 DEF Promise!RefuseRetired, Promise!MayDrop, PhaseBar, UsingBar, HomeBar
<1>3. CASE ~dead[c] /\ Arm(c, k, s, "operation", await)
  <2>1. PICK u : Executes(k, s, u)
    BY DEF Executes
  <2>2. /\ Promise!Become(c, "busy", "none") /\ Promise!Use(c, u) /\ PhaseBar[c] = "ready"
    <3>1. Shown(k, "busy")
      BY DEF Shown
    <3>2. QED BY <1>3, <2>1, <3>1, ArmSeen
  <2>3. u \in {t \in Stmts : HomeBar[t] = c} \cup {NULL}
    <3>1. CASE k = "query_prepared"
      <4>1. s \in Stmts /\ c \in Sessions(s)
        BY <1>3, <3>1 DEF Held, Sessions, SameSession
      <4>2. QED BY <2>1, <3>1, <4>1, HomeIs DEF HomeBar, Executes
    <3>2. QED BY <2>1, <3>1 DEF Executes
  <2>4. QED BY <1>1, <2>2, <2>3 DEF Promise!Call, PhaseBar, UsingBar, HomeBar
<1>4. QED BY <1>2, <1>3 DEF Start

\* unprepare owns its statement: refused, it drops it.
LEMMA UnprepareSeen ==
  ASSUME IInv, NEW c \in Conns, Call(c), BeginUnprepare(c)
  PROVE  Promise!RefuseRetired(c) \/ Promise!RefuseStatement(c) \/ Promise!Call(c)
<1>1. /\ Idle(c) /\ UNCHANGED <<alive, dead, token>>
      /\ \E s \in Held \ Borrowed :
           \/ /\ ~dead[c] /\ SameSession(c, s)
              /\ Arm(c, "unprepare", s, "operation", "closing")
              /\ UNCHANGED <<stmt, prepared>>
           \/ /\ dead[c] \/ ~SameSession(c, s)
              /\ Return(c, "unprepare", IF dead[c] THEN "closed" ELSE "invalid")
              /\ DropValue(s)
  BY DEF BeginUnprepare, clientVars, driverVars
<1>2. PICK s \in Held \ Borrowed :
           \/ /\ ~dead[c] /\ SameSession(c, s)
              /\ Arm(c, "unprepare", s, "operation", "closing")
              /\ UNCHANGED <<stmt, prepared>>
           \/ /\ dead[c] \/ ~SameSession(c, s)
              /\ Return(c, "unprepare", IF dead[c] THEN "closed" ELSE "invalid")
              /\ DropValue(s)
  BY <1>1
<1>3. s \in Stmts /\ (SameSession(c, s) <=> HomeBar[s] = c)
  BY HomeIs DEF Held, Sessions, SameSession, HomeBar
<1>4. CASE ~dead[c] /\ SameSession(c, s) /\ Arm(c, "unprepare", s, "operation", "closing")
           /\ stmt' = stmt
  <2>1. /\ Promise!Become(c, "busy", "none") /\ Promise!Use(c, s) /\ PhaseBar[c] = "ready"
    <3>1. /\ Shown("unprepare", "busy") /\ Executes("unprepare", s, s)
          /\ "unprepare" \in AllOps /\ "closing" \in IO
      BY DEF Shown, Executes, AllOps, IO
    <3>2. QED BY <1>1, <1>3, <1>4, <3>1, ArmSeen
  <2>2. HomeBar' = HomeBar
    BY <1>1, <1>4, HomesStay
  <2>3. QED BY <1>3, <1>4, <2>1, <2>2 DEF Promise!Call, PhaseBar, UsingBar, HomeBar
<1>5. CASE /\ (dead[c] \/ ~SameSession(c, s)) /\ DropValue(s)
           /\ Return(c, "unprepare", IF dead[c] THEN "closed" ELSE "invalid")
  <2>1. HomeBar' = [HomeBar EXCEPT ![s] = NULL]
    BY <1>1, <1>3, <1>5, HomeDropped
  <2>2. /\ UsingBar' = UsingBar /\ PhaseBar[c] = IF dead[c] THEN "retired" ELSE "ready"
        /\ Promise!Become(c, IF dead[c] THEN "retired" ELSE "ready",
                             IF dead[c] THEN "closed" ELSE "invalid")
    BY <1>1, <1>5, ReturnSeen, AtRest
  <2>3. CASE dead[c]
    BY <1>3, <2>1, <2>2, <2>3
       DEF Promise!RefuseRetired, Promise!MayDrop, PhaseBar, UsingBar, HomeBar
  <2>4. CASE ~dead[c]
    <3>1. s \in {t \in Stmts : HomeBar[t] # c}
      BY <1>3, <1>5, <2>4
    <3>2. QED BY <2>1, <2>2, <2>4, <3>1
         DEF Promise!RefuseStatement, Promise!MayDrop, PhaseBar, UsingBar, HomeBar
  <2>5. QED BY <2>3, <2>4
<1>6. QED BY <1>2, <1>4, <1>5

\* The calls that execute no statement, or borrow one.
LEMMA BeginSeen ==
  ASSUME IInv, NEW c \in Conns, Call(c),
         BeginRequest(c) \/ BeginPrepare(c) \/ BeginQueryPrepared(c) \/ BeginBulk(c)
  PROVE  Promise!RefuseRetired(c) \/ Promise!RefuseStatement(c) \/ Promise!Call(c)
<1> USE DEF clientVars, driverVars, AllOps, IO
<1>1. Idle(c) /\ UNCHANGED <<alive, dead, token, stmt>>
  BY DEF BeginRequest, BeginPrepare, BeginQueryPrepared, BeginBulk
<1>2. ASSUME NEW k \in {"query", "stream", "prepare", "bulk"}, NEW s \in Stmts \cup {NULL},
             NEW await \in IO, Start(c, k, s, await)
      PROVE  Promise!RefuseRetired(c) \/ Promise!Call(c)
  BY <1>1, <1>2, StartSeen
<1>3. CASE BeginRequest(c)
  BY <1>2, <1>3 DEF BeginRequest
<1>4. CASE BeginPrepare(c)
  BY <1>2, <1>4 DEF BeginPrepare
<1>5. CASE BeginBulk(c)
  BY <1>2, <1>5 DEF BeginBulk
<1>6. CASE BeginQueryPrepared(c)
  <2>1. PICK s \in Held :
          \/ (dead[c] \/ SameSession(c, s)) /\ Start(c, "query_prepared", s, "closing")
          \/ ~dead[c] /\ ~SameSession(c, s) /\ Return(c, "query_prepared", "invalid")
    BY <1>6 DEF BeginQueryPrepared
  <2>2. CASE (dead[c] \/ SameSession(c, s)) /\ Start(c, "query_prepared", s, "closing")
    <3>1. s \in Stmts \cup {NULL}
      BY DEF Held
    <3>2. QED BY <1>1, <2>2, <3>1, StartSeen
  <2>3. CASE ~dead[c] /\ Return(c, "query_prepared", "invalid")
    <3>1. /\ Promise!Become(c, "ready", "invalid") /\ UsingBar' = UsingBar
          /\ PhaseBar[c] = "ready" /\ HomeBar' = HomeBar
      BY <1>1, <2>3, ReturnSeen, AtRest, HomesStay
    <3>2. QED BY <3>1
          DEF Promise!RefuseStatement, Promise!MayDrop, PhaseBar, UsingBar, HomeBar
  <2>4. QED BY <2>1, <2>2, <2>3
<1>7. QED BY <1>3, <1>4, <1>5, <1>6

\* A reset makes every statement of its client useless at once.
LEMMA ResetSeen ==
  ASSUME IInv, NEW c \in Conns, Call(c), BeginReset(c)
  PROVE  Promise!RefuseRetired(c) \/ Promise!CallReset(c)
<1>1. Idle(c) /\ UNCHANGED <<alive, dead, stmt>>
  BY DEF BeginReset, driverVars
<1>2. CASE dead[c] /\ Return(c, "reset", "closed") /\ token' = token
  <2>1. /\ Promise!Become(c, "retired", "closed") /\ UsingBar' = UsingBar
        /\ PhaseBar[c] = "retired" /\ HomeBar' = HomeBar
    BY <1>1, <1>2, ReturnSeen, AtRest, HomesStay
  <2>2. QED BY <2>1 DEF Promise!RefuseRetired, Promise!MayDrop, PhaseBar, UsingBar, HomeBar
<1>3. ASSUME ~dead[c], Arm(c, "reset", NULL, "reset", "closing"), NEW t \in FreeTokens,
             token' = [token EXCEPT ![c] = t]
      PROVE  Promise!CallReset(c)
  <2>1. /\ Shown("reset", "resetting") /\ Executes("reset", NULL, NULL)
        /\ "reset" \in AllOps /\ "closing" \in IO
    BY DEF Shown, Executes, AllOps, IO
  <2>2. /\ Promise!Become(c, "resetting", "none") /\ PhaseBar[c] = "ready"
        /\ UsingBar' = UsingBar
    BY <1>1, <1>3, <2>1, ArmSeen
  <2>3. HomeBar' = [s \in Stmts |-> IF HomeBar[s] = c THEN NULL ELSE HomeBar[s]]
    BY <1>1, <1>3, HomesLost
  <2>4. QED BY <2>2, <2>3 DEF Promise!CallReset, Promise!Invalidate, PhaseBar, UsingBar, HomeBar
<1>4. QED BY <1>2, <1>3 DEF BeginReset

\* ping and a use of inner_mut return at once.
LEMMA ImmediateSeen ==
  ASSUME IInv, NEW c \in Conns, Call(c), Ping(c) \/ InnerMut(c)
  PROVE  Promise!RefuseRetired(c) \/ Promise!Immediate(c)
<1>1. Idle(c) /\ UNCHANGED <<alive, dead, token, stmt>>
  BY DEF Ping, InnerMut, clientVars, driverVars
<1>2. HomeBar' = HomeBar
  BY <1>1, HomesStay
<1>3. CASE dead[c]
  <2>1. /\ Promise!Become(c, "retired", "closed") /\ UsingBar' = UsingBar
        /\ PhaseBar[c] = "retired"
    BY <1>1, <1>3, ReturnSeen, AtRest DEF Ping, InnerMut
  <2>2. QED
    BY <1>2, <2>1 DEF Promise!RefuseRetired, Promise!MayDrop, PhaseBar, UsingBar, HomeBar
<1>4. CASE ~dead[c]
  <2>1. /\ Promise!Become(c, "ready", "ok") /\ UsingBar' = UsingBar
        /\ PhaseBar[c] = "ready"
    BY <1>1, <1>4, ReturnSeen, AtRest DEF Ping, InnerMut
  <2>2. QED BY <1>2, <2>1 DEF Promise!Immediate, PhaseBar, UsingBar, HomeBar
<1>5. QED BY <1>3, <1>4

\* A new client is no statement's home, and a closed one no longer.
LEMMA ConnectSeen ==
  ASSUME IInv, NEW c \in Conns, Call(c), Connect(c)
  PROVE  Promise!Open(c)
<1> USE DEF IInv, TypeOK, ClientTypeOK
<1>1. EmptySlot(c) /\ ~alive[c] /\ arg[c] = NULL
  BY DEF Connect, EmptySlot, Argument
<1>2. /\ alive' = [alive EXCEPT ![c] = TRUE] /\ UNCHANGED <<stmt, dead, pc, kind, arg, outcome>>
      /\ \E t \in FreeTokens : token' = [token EXCEPT ![c] = t]
  BY DEF Connect, driverVars, futureVars
<1>3. phaseBar(c) = "none" /\ phaseBar(c)' = "ready" /\ outcome'[c] = "none"
  BY <1>1, <1>2 DEF phaseBar, EmptySlot, IO
<1>4. usingBar(c)' = usingBar(c)
  BY <1>2 DEF usingBar
<1>5. Promise!Become(c, "ready", "none") /\ UsingBar' = UsingBar /\ PhaseBar[c] = "none"
  BY <1>3, <1>4, Seen DEF PhaseBar
<1>6. HomeBar' = HomeBar
  <2>1. \A s \in Stmts : c \notin Sessions(s)
    BY <1>1, OneSession
  <2>2. HomeBar' = [s \in Stmts |-> IF HomeBar[s] = c THEN NULL ELSE HomeBar[s]]
    BY <1>2, HomesLost
  <2>3. \A s \in Stmts : HomeBar[s] # c
    BY <2>1, HomeIs DEF HomeBar
  <2>4. HomeBar = [s \in Stmts |-> HomeBar[s]]
    BY DEF HomeBar
  <2>5. QED BY <2>2, <2>3, <2>4
<1>7. QED BY <1>5, <1>6 DEF Promise!Open, PhaseBar, UsingBar, HomeBar

LEMMA DisconnectSeen ==
  ASSUME IInv, NEW c \in Conns, Call(c), Disconnect(c)
  PROVE  Promise!Close(c)
<1> USE DEF IInv, TypeOK, ClientTypeOK, FutureTypeOK
<1>1. /\ Idle(c) /\ ~alive'[c] /\ outcome'[c] = "none" /\ UNCHANGED <<stmt, arg>>
      /\ token' = [token EXCEPT ![c] = NULL]
  BY DEF Disconnect
<1>2. phaseBar(c)' = "none" /\ PhaseBar[c] \in {"ready", "retired"}
  BY <1>1, AtRest DEF phaseBar, PhaseBar
<1>3. usingBar(c)' = NULL /\ usingBar(c) = NULL
  BY <1>1, AtRest DEF usingBar
<1>4. Promise!Become(c, "none", "none") /\ UsingBar' = UsingBar
  BY <1>1, <1>2, <1>3, Seen
<1>5. HomeBar' = [s \in Stmts |-> IF HomeBar[s] = c THEN NULL ELSE HomeBar[s]]
  BY <1>1, HomesLost
<1>6. QED
  BY <1>2, <1>4, <1>5 DEF Promise!Close, Promise!Invalidate, PhaseBar, UsingBar, HomeBar

-----------------------------------------------------------------------------
(* The awaits *)

\* How a call that ends leaves its client.
LEMMA EndSeen ==
  ASSUME IInv, NEW c \in Conns, Call(c) \/ Resume(c), pc[c] \in IO, NEW out, End(c, out),
         alive' = alive,
         NEW p, p = IF dead'[c] THEN "retired" ELSE "ready"
  PROVE  /\ Promise!Become(c, p, out) /\ Promise!Use(c, NULL)
         /\ PhaseBar[c] = IF kind[c] = "reset" THEN "resetting" ELSE "busy"
<1>1. alive'[c]
  BY InCall
<1>2. phaseBar(c)' = p /\ usingBar(c)' = NULL /\ outcome'[c] = out
  BY <1>1, CallEnded
<1>3. QED BY <1>2, InCall, Seen DEF PhaseBar

\* An error ends a call, and retires the client of a reset.
LEMMA FailSeen ==
  ASSUME IInv, NEW c \in Conns, Resume(c), pc[c] \in IO, End(c, "err"),
         kind[c] = "reset" => dead'[c],
         UNCHANGED <<alive, token>>, DropArg(c) \/ stmt' = stmt
  PROVE  Promise!Fail(c)
<1>1. Promise!MayDrop({UsingBar[c]} \cap Stmts)
  BY ArgDropped
<1>2. PICK p : p = IF dead'[c] THEN "retired" ELSE "ready"
  OBVIOUS
<1>3. /\ Promise!Become(c, p, "err") /\ Promise!Use(c, NULL)
      /\ PhaseBar[c] = IF kind[c] = "reset" THEN "resetting" ELSE "busy"
  BY <1>2, EndSeen
<1>4. p \in {"ready", "retired"} /\ (kind[c] = "reset" => p = "retired")
  BY <1>2
<1>5. QED BY <1>1, <1>3, <1>4 DEF Promise!Fail, PhaseBar, UsingBar

\* A result ends a call and leaves its client ready.
LEMMA CompleteSeen ==
  ASSUME IInv, NEW c \in Conns, Resume(c), pc[c] \in IO, Complete(c),
         UNCHANGED <<alive, token>>, DropArg(c) \/ stmt' = stmt
  PROVE  Promise!Succeed(c)
<1>1. Promise!MayDrop({UsingBar[c]} \cap Stmts)
  BY ArgDropped
<1>2. ~dead'[c] /\ End(c, "ok")
  BY InCall DEF Complete
<1>3. /\ Promise!Become(c, "ready", "ok") /\ Promise!Use(c, NULL)
      /\ PhaseBar[c] \in {"busy", "resetting"}
  BY <1>2, EndSeen
<1>4. QED BY <1>1, <1>3 DEF Promise!Succeed, PhaseBar, UsingBar

\* prepare returns a statement at home with its client.
LEMMA PreparedSeen ==
  ASSUME IInv, NEW c \in Conns, Resume(c), PrepareEnd(c)
  PROVE  Promise!Succeed(c)
<1>1. /\ pc[c] \in IO /\ ~dead'[c] /\ End(c, "ok") /\ kind[c] = "prepare" /\ alive' = alive
  BY InCall DEF PrepareEnd, At, Complete, IO, clientVars
<1>2. /\ Promise!Become(c, "ready", "ok") /\ Promise!Use(c, NULL) /\ PhaseBar[c] = "busy"
  BY <1>1, EndSeen
<1>3. PICK r \in Stmts : r = arg[c]
  BY PrepareEndFacts
<1>4. HomeBar[r] = NULL /\ HomeBar' = [HomeBar EXCEPT ![r] = c]
  BY <1>3, HomeGained
<1>5. UsingBar[c] = NULL
  BY <1>1 DEF UsingBar, usingBar
<1>6. QED BY <1>2, <1>3, <1>4, <1>5 DEF Promise!Succeed, PhaseBar, UsingBar, HomeBar

\* The drop of a future in I/O retires its client.
LEMMA CancelSeen ==
  ASSUME IInv, NEW c \in Conns, Call(c), Cancel(c)
  PROVE  Promise!Abandon(c)
<1>1. /\ pc[c] \in IO /\ End(c, "cancelled") /\ DropArg(c) /\ UNCHANGED <<alive, token>>
      /\ dead' = [dead EXCEPT ![c] = @ \/ guard[c] # "none"]
  BY DEF Cancel, Abandon, clientVars
<1>2. dead'[c]
  BY <1>1 DEF IInv, Control, TypeOK, DriverTypeOK
<1>3. Promise!MayDrop({UsingBar[c]} \cap Stmts)
  BY <1>1, ArgDropped
<1>4. /\ Promise!Become(c, "retired", "cancelled") /\ Promise!Use(c, NULL)
      /\ PhaseBar[c] \in {"busy", "resetting"}
  BY <1>1, <1>2, EndSeen
<1>5. QED BY <1>3, <1>4 DEF Promise!Abandon, PhaseBar, UsingBar

\* The ends of calls with an error.
LEMMA ErrorsSeen ==
  ASSUME IInv, NEW c \in Conns, Resume(c),
         \/ CloseQueryError(c) \/ DeclarationError(c) \/ BulkRejected(c)
         \/ PrepareProtocolError(c) \/ RequestError(c) \/ ConnectionError(c)
  PROVE  Promise!Fail(c)
<1> USE DEF At, IO, clientVars, IInv, TypeOK, DriverTypeOK
<1>1. CASE ConnectionError(c)
  <2>1. dead'[c] /\ pc[c] \in IO /\ End(c, "err") /\ DropArg(c) /\ UNCHANGED <<alive, token>>
    BY <1>1 DEF ConnectionError
  <2>2. QED BY <2>1, FailSeen
<1>2. ASSUME pc[c] \in IO, Fail(c) PROVE kind[c] = "reset" => dead'[c]
  BY <1>2 DEF Fail, Control
<1>3. CASE CloseQueryError(c) \/ DeclarationError(c) \/ BulkRejected(c)
           \/ PrepareProtocolError(c) \/ RequestError(c)
  <2>1. /\ pc[c] \in IO /\ Fail(c) /\ UNCHANGED <<alive, token>> /\ (DropArg(c) \/ stmt' = stmt)
    BY <1>3 DEF CloseQueryError, DeclarationError, BulkRejected, PrepareProtocolError, RequestError
  <2>2. End(c, "err")
    BY <2>1 DEF Fail
  <2>3. QED BY <1>2, <2>1, <2>2, FailSeen
<1>4. QED BY <1>1, <1>3

\* The ends of calls with a result.
LEMMA ResultsSeen ==
  ASSUME IInv, NEW c \in Conns, Resume(c),
         BulkReply(c) \/ CollectEnd(c) \/ DrainEnd(c) \/ StreamExhausted(c)
  PROVE  Promise!Succeed(c)
<1>1. /\ pc[c] \in IO /\ Complete(c) /\ UNCHANGED <<alive, token>> /\ (DropArg(c) \/ stmt' = stmt)
  BY DEF BulkReply, CollectEnd, DrainEnd, StreamExhausted, At, IO, clientVars
<1>2. QED BY <1>1, CompleteSeen

\* A stream hands an item over, or is polled for the next.
LEMMA StreamSeen ==
  ASSUME IInv, NEW c \in Conns, Call(c) \/ Resume(c), kind[c] = "stream",
         UNCHANGED <<alive, token, stmt, kind, arg, outcome>>, pc[c] # "idle", alive[c]
  PROVE  /\ pc[c] \in IO /\ pc'[c] = "yielded" => Promise!Park(c)
         /\ pc[c] = "yielded" /\ pc'[c] \in IO => Promise!Unpark(c)
         /\ pc[c] \in IO /\ pc'[c] \in IO => UNCHANGED Promise!vars
<1> USE DEF IO
<1>1. outcome'[c] = "none" /\ outcome'[c] = outcome[c] /\ kind'[c] = kind[c] /\ alive'[c]
  BY DEF IInv, Control
<1>2. usingBar(c)' = usingBar(c) /\ HomeBar' = HomeBar
  BY HomesStay DEF usingBar
<1>3. /\ pc[c] \in IO => phaseBar(c) = "busy"
      /\ pc[c] = "yielded" => phaseBar(c) = "parked"
      /\ pc'[c] \in IO => phaseBar(c)' = "busy"
      /\ pc'[c] = "yielded" => phaseBar(c)' = "parked"
  BY <1>1 DEF phaseBar
<1>4. CASE pc[c] \in IO /\ pc'[c] = "yielded"
  <2>1. Promise!Become(c, "parked", "none") /\ UsingBar' = UsingBar /\ PhaseBar[c] = "busy"
    BY <1>1, <1>2, <1>3, <1>4, Seen DEF PhaseBar
  <2>2. QED BY <1>2, <1>4, <2>1 DEF Promise!Park, PhaseBar, UsingBar, HomeBar
<1>5. CASE pc[c] = "yielded" /\ pc'[c] \in IO
  <2>1. Promise!Become(c, "busy", "none") /\ UsingBar' = UsingBar /\ PhaseBar[c] = "parked"
    BY <1>1, <1>2, <1>3, <1>5, Seen DEF PhaseBar
  <2>2. QED BY <1>2, <1>5, <2>1 DEF Promise!Unpark, PhaseBar, UsingBar, HomeBar
<1>6. CASE pc[c] \in IO /\ pc'[c] \in IO
  BY <1>1, <1>2, <1>3, <1>6, Unseen
<1>7. QED BY <1>4, <1>5, <1>6

\* The steps of the generator before its end.
LEMMA GeneratorSeen ==
  ASSUME IInv, NEW c \in Conns, Call(c) \/ Resume(c),
         StreamReply(c) \/ StreamPoll(c) \/ StreamRow(c) \/ StreamSetEnd(c) \/ StreamAdvanced(c)
  PROVE  Promise!Park(c) \/ Promise!Unpark(c) \/ UNCHANGED Promise!vars
<1> USE DEF At, IO, clientVars, driverVars, IInv, TypeOK, FutureTypeOK
<1>1. UNCHANGED <<alive, token, stmt, kind, arg, outcome>>
  BY DEF StreamReply, StreamPoll, StreamRow, StreamSetEnd, StreamAdvanced, Guarded, Unguarded
<1>2. pc[c] \in {"sending", "yielded", "fetching", "advancing"} /\ kind[c] = "stream"
  BY DEF StreamReply, StreamPoll, StreamRow, StreamSetEnd, StreamAdvanced, Control
<1>3. alive[c]
  BY <1>2 DEF EmptySlot
<1>4. /\ pc[c] \in IO => pc'[c] \in IO \cup {"yielded"}
      /\ pc[c] = "yielded" => pc'[c] \in IO
  BY DEF StreamReply, StreamPoll, StreamRow, StreamSetEnd, StreamAdvanced, Guarded, Unguarded
<1>5. QED BY <1>1, <1>2, <1>3, <1>4, StreamSeen

\* A stream dropped between two items leaves its client ready.
LEMMA DetachSeen ==
  ASSUME IInv, NEW c \in Conns, Call(c), StreamDetach(c)
  PROVE  Promise!Detach(c)
<1> USE DEF IInv, TypeOK, FutureTypeOK, DriverTypeOK
<1>1. /\ pc[c] = "yielded" /\ End(c, "detached") /\ UNCHANGED <<alive, token, stmt>>
      /\ dead' = [dead EXCEPT ![c] = @ \/ guard[c] # "none"]
  BY DEF StreamDetach, At, clientVars
<1>2. alive[c] /\ ~dead'[c] /\ kind[c] = "stream"
  BY <1>1 DEF EmptySlot, Control, IO
<1>3. phaseBar(c)' = "ready" /\ usingBar(c)' = NULL /\ outcome'[c] = "detached"
  BY <1>1, <1>2, CallEnded
<1>4. phaseBar(c) = "parked" /\ usingBar(c) = NULL
  BY <1>1, <1>2 DEF phaseBar, usingBar, IO
<1>5. /\ Promise!Become(c, "ready", "detached") /\ UsingBar' = UsingBar
      /\ PhaseBar[c] = "parked" /\ HomeBar' = HomeBar
  BY <1>1, <1>3, <1>4, Seen, HomesStay DEF PhaseBar
<1>6. QED BY <1>5 DEF Promise!Detach, PhaseBar, UsingBar, HomeBar

\* The awaits in the middle of a call.
LEMMA AwaitsUnseen ==
  ASSUME IInv, NEW c \in Conns, Resume(c),
         \/ CloseQuery(c) \/ QueryReply(c) \/ PrepareReply(c) \/ UnprepareReply(c)
         \/ ResetReply(c) \/ CollectRow(c)
  PROVE  UNCHANGED Promise!vars
<1> USE DEF At, IO, clientVars, driverVars, IInv, TypeOK, FutureTypeOK
<1>1. UNCHANGED <<alive, token, stmt, kind, arg, outcome>>
  BY DEF CloseQuery, QueryReply, PrepareReply, UnprepareReply, ResetReply, CollectRow, Goto
<1>2. pc[c] \in IO /\ pc'[c] \in IO
  BY DEF CloseQuery, QueryReply, PrepareReply, UnprepareReply, ResetReply, CollectRow, Goto
<1>3. phaseBar(c)' = phaseBar(c) /\ usingBar(c)' = usingBar(c)
  BY <1>1, <1>2 DEF phaseBar, usingBar
<1>4. QED BY <1>1, <1>3, Unseen

-----------------------------------------------------------------------------
(* The refinement *)

\* Every step of one client is a step of the promise, or goes unseen.
LEMMA StepSeen ==
  ASSUME IInv, NEW c \in Conns, Call(c) \/ Resume(c)
  PROVE  Promise!Step(c) \/ UNCHANGED Promise!vars
<1> USE DEF Promise!Step
<1>1. CASE Call(c)
  <2>1. CASE Connect(c) \/ Disconnect(c)
    BY <1>1, <2>1, ConnectSeen, DisconnectSeen
  <2>2. CASE BeginRequest(c) \/ BeginPrepare(c) \/ BeginQueryPrepared(c) \/ BeginBulk(c)
    BY <1>1, <2>2, BeginSeen
  <2>3. CASE BeginUnprepare(c) \/ BeginReset(c)
    BY <1>1, <2>3, UnprepareSeen, ResetSeen
  <2>4. CASE Ping(c) \/ InnerMut(c)
    BY <1>1, <2>4, ImmediateSeen
  <2>5. CASE StreamPoll(c)
    BY <1>1, <2>5, GeneratorSeen
  <2>6. CASE StreamDetach(c) \/ Cancel(c)
    BY <1>1, <2>6, DetachSeen, CancelSeen
  <2>7. QED BY <1>1, <2>1, <2>2, <2>3, <2>4, <2>5, <2>6 DEF Call
<1>2. CASE Resume(c)
  <2>1. CASE CloseQuery(c) \/ QueryReply(c) \/ PrepareReply(c) \/ UnprepareReply(c)
             \/ ResetReply(c) \/ CollectRow(c)
    BY <1>2, <2>1, AwaitsUnseen
  <2>2. CASE CloseQueryError(c) \/ DeclarationError(c) \/ BulkRejected(c)
             \/ PrepareProtocolError(c) \/ RequestError(c) \/ ConnectionError(c)
    BY <1>2, <2>2, ErrorsSeen
  <2>3. CASE BulkReply(c) \/ CollectEnd(c) \/ DrainEnd(c) \/ StreamExhausted(c) \/ PrepareEnd(c)
    BY <1>2, <2>3, ResultsSeen, PreparedSeen
  <2>4. CASE StreamReply(c) \/ StreamRow(c) \/ StreamSetEnd(c) \/ StreamAdvanced(c)
    BY <1>2, <2>4, GeneratorSeen
  <2>5. QED BY <1>2, <2>1, <2>2, <2>3, <2>4 DEF Resume
<1>3. QED BY <1>1, <1>2

\* Init maps to the initial state of the promise.
LEMMA InitSeen == Init => Promise!Init
<1>1. SUFFICES ASSUME Init PROVE Promise!Init
  OBVIOUS
<1>2. \A s \in Stmts : homeBar(s) = NULL
  BY <1>1 DEF Init, homeBar, Sessions, Held
<1>3. \A c \in Conns : phaseBar(c) = "none" /\ usingBar(c) = NULL
  BY <1>1 DEF Init, phaseBar, usingBar
<1>4. QED BY <1>1, <1>2, <1>3 DEF Promise!Init, Init

\* So does every step.
LEMMA NextSeen == IInv /\ [Next]_vars => [Promise!Next]_(Promise!vars)
<1>1. ASSUME IInv, NEW c \in Conns, Call(c) \/ Resume(c) PROVE [Promise!Next]_(Promise!vars)
  BY <1>1, StepSeen DEF Promise!Next
<1>2. ASSUME IInv, NEW s \in Stmts, DropStatement(s) PROVE Promise!Next
  <2>1. DropValue(s) /\ UNCHANGED <<alive, token, dead, pc, kind, arg, outcome>>
    BY <1>2 DEF DropStatement, clientVars, driverVars, futureVars
  <2>2. HomeBar' = [HomeBar EXCEPT ![s] = NULL]
    BY <1>2, <2>1, HomeDropped
  <2>3. PhaseBar' = PhaseBar /\ UsingBar' = UsingBar
    BY <2>1 DEF PhaseBar, UsingBar, phaseBar, usingBar
  <2>4. QED
    BY <2>1, <2>2, <2>3 DEF Promise!Next, Promise!DropStatement, PhaseBar, UsingBar, HomeBar
<1>3. CASE UNCHANGED vars
  <2>1. UNCHANGED <<alive, token, stmt, dead, pc, kind, arg, outcome>>
    BY <1>3 DEF vars
  <2>2. HomeBar' = HomeBar
    BY <2>1, HomesStay
  <2>3. PhaseBar' = PhaseBar /\ UsingBar' = UsingBar
    BY <2>1 DEF PhaseBar, UsingBar, phaseBar, usingBar
  <2>4. QED BY <2>1, <2>2, <2>3 DEF Promise!vars, PhaseBar, UsingBar, HomeBar
<1>4. QED BY <1>1, <1>2, <1>3 DEF Next

\* Callers may rely on the contract of client.rs and prepared.rs alone: what
\* guards, session tokens and close_query do in between never shows.
THEOREM PromiseKept == Spec => KeepsPromise
  BY InitSeen, NextSeen, Invariance, PTL DEF Spec, KeepsPromise, Promise!Spec
=============================================================================
