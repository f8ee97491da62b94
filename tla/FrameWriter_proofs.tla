------------------------- MODULE FrameWriter_proofs -------------------------
(***************************************************************************)
(* Proofs about the write side of a connection, for any number of          *)
(* goroutines, any bound on their calls, and both ends of a connection:    *)
(* who writes a frame, then what is left in the buffer and on the wire,    *)
(* which context timeoutLoop watches, and last the order of the frames of  *)
(* messages, with which the write side implements FrameStream.             *)
(***************************************************************************)
EXTENDS FrameWriter, TLAPS

USE DEF mutexes, closeVars, bwVars, mwVars, hsVars, callVars

(* newConn leaves every variable with its type. *)
LEMMA TypeInit == Init => TypeOK
<1>. SUFFICES ASSUME Init PROVE TypeOK
  OBVIOUS
<1>1. pc \in [Procs -> Labels]
  BY DEF Init, Labels
<1>2. frame \in [Writers -> Frames]
  BY DEF Init, CloseFrame, Frames, Opcodes
<1>3. /\ call \in [Writers -> CallKinds \cup {"none"}]
      /\ fragments \in [Writers -> 0..MaxFragments]
      /\ failed \in [Writers -> BOOLEAN]
      /\ early \in [Writers -> BOOLEAN]
      /\ ctxDone \in [Writers -> BOOLEAN]
      /\ calls \in 0..MaxCalls
  BY BoundsAssumption DEF Init
<1>4. out \in Seq(Units) /\ sent \in 0..Len(out)
  BY DEF Init
<1>. QED
  BY <1>1, <1>2, <1>3, <1>4 DEF Init, TypeOK

(* A step of a goroutine's control keeps the type of pc. *)
LEMMA GotoType ==
    ASSUME TypeOK, NEW p \in Procs, NEW from, NEW to \in Labels,
           Goto(p, from, to)
    PROVE  pc' \in [Procs -> Labels]
BY DEF TypeOK, Goto

(* An error return keeps the types of pc and failed. *)
LEMMA FailToType ==
    ASSUME TypeOK, NEW g \in Writers, NEW from, NEW to \in Labels,
           FailTo(g, from, to)
    PROVE  pc' \in [Procs -> Labels] /\ failed' \in [Writers -> BOOLEAN]
<1>1. Goto(g, from, to)
  BY DEF FailTo
<1>2. g \in Procs
  BY DEF Procs
<1>. QED BY <1>1, <1>2, GotoType DEF TypeOK, FailTo

(* A call that begins keeps the types of the variables. *)
LEMMA BeginType ==
    ASSUME TypeOK, NEW g \in Writers, NEW kind \in CallKinds,
           NEW to \in Labels, Begin(g, kind, to),
           frame' \in [Writers -> Frames], closeReceived' \in BOOLEAN,
           UNCHANGED <<writeCtx, mutexes, closeVars, bwVars, mwVars, closeSent>>
    PROVE  TypeOK'
<1>1. pc' \in [Procs -> Labels]
  BY GotoType DEF Begin, Procs
<1>2. calls' \in 0..MaxCalls
  BY BoundsAssumption DEF Begin, TypeOK
<1>3. /\ call' \in [Writers -> CallKinds \cup {"none"}]
      /\ ctxDone' \in [Writers -> BOOLEAN]
      /\ failed' \in [Writers -> BOOLEAN]
      /\ early' \in [Writers -> BOOLEAN]
  BY DEF Begin, TypeOK
<1>4. fragments' \in [Writers -> 0..MaxFragments]
  BY BoundsAssumption DEF Begin, TypeOK
<1>5. /\ out' \in Seq(Units) /\ sent' \in 0..Len(out')
      /\ bwErr' \in BOOLEAN
  BY DEF TypeOK
<1>. QED BY <1>1, <1>2, <1>3, <1>4, <1>5 DEF TypeOK

(* Every step keeps the types of the variables. *)
LEMMA TypeStep == TypeOK /\ [Next]_vars => TypeOK'
<1>. SUFFICES ASSUME TypeOK, [Next]_vars PROVE TypeOK'
  OBVIOUS
<1>1. ASSUME NEW g \in Writers, NEW kind \in CallKinds, BeginMessage(g, kind)
      PROVE  TypeOK'
  <2>1. Begin(g, kind, "lockMessage") /\ "lockMessage" \in Labels
    BY <1>1 DEF BeginMessage, Labels
  <2>2. frame' \in [Writers -> Frames] /\ closeReceived' \in BOOLEAN
    BY <1>1 DEF BeginMessage, TypeOK
  <2>3. UNCHANGED <<writeCtx, mutexes, closeVars, bwVars, mwVars, closeSent>>
    BY <1>1 DEF BeginMessage
  <2>. QED BY <2>1, <2>2, <2>3, BeginType
<1>2. ASSUME NEW g \in Writers, NEW kind \in CallKinds, BeginControl(g, kind)
      PROVE  TypeOK'
  <2>1. Begin(g, kind, "lockFrame") /\ "lockFrame" \in Labels
    BY <1>2 DEF BeginControl, Labels
  <2>2. frame' \in [Writers -> Frames] /\ closeReceived' \in BOOLEAN
    BY <1>2 DEF BeginControl, CloseFrame, Frames, Opcodes, TypeOK
  <2>3. UNCHANGED <<writeCtx, mutexes, closeVars, bwVars, mwVars, closeSent>>
    BY <1>2 DEF BeginControl
  <2>. QED BY <2>1, <2>2, <2>3, BeginType
<1>3. ASSUME NEW g \in Writers, BeginRepeatClose(g)
      PROVE  TypeOK'
  <2>1. /\ Begin(g, "repeatClose", "lockWrite") /\ "lockWrite" \in Labels
        /\ "repeatClose" \in CallKinds
    BY <1>3 DEF BeginRepeatClose, Labels, CallKinds
  <2>2. frame' \in [Writers -> Frames] /\ closeReceived' \in BOOLEAN
    BY <1>3 DEF BeginRepeatClose, TypeOK
  <2>3. UNCHANGED <<writeCtx, mutexes, closeVars, bwVars, mwVars, closeSent>>
    BY <1>3 DEF BeginRepeatClose
  <2>. QED BY <2>1, <2>2, <2>3, BeginType
<1>4. ASSUME NEW g \in Writers, BeginCloseNow(g)
      PROVE  TypeOK'
  <2>1. /\ Begin(g, "closeNow", "close") /\ "close" \in Labels
        /\ "closeNow" \in CallKinds
    BY <1>4 DEF BeginCloseNow, Labels, CallKinds
  <2>2. frame' \in [Writers -> Frames] /\ closeReceived' \in BOOLEAN
    BY <1>4 DEF BeginCloseNow, TypeOK
  <2>3. UNCHANGED <<writeCtx, mutexes, closeVars, bwVars, mwVars, closeSent>>
    BY <1>4 DEF BeginCloseNow
  <2>. QED BY <2>1, <2>2, <2>3, BeginType
<1>5. ASSUME NEW g \in Writers, ReceiveClose(g)
      PROVE  TypeOK'
  <2>1. /\ \E to \in {"close", "lockFrame"} : Begin(g, "receiveClose", to)
        /\ {"close", "lockFrame"} \subseteq Labels
        /\ "receiveClose" \in CallKinds
    BY <1>5 DEF ReceiveClose, Labels, CallKinds
  <2>2. frame' \in [Writers -> Frames] /\ closeReceived' \in BOOLEAN
    BY <1>5 DEF ReceiveClose, CloseFrame, Frames, Opcodes, TypeOK
  <2>3. UNCHANGED <<writeCtx, mutexes, closeVars, bwVars, mwVars, closeSent>>
    BY <1>5 DEF ReceiveClose
  <2>. QED BY <2>1, <2>2, <2>3, BeginType
<1>. USE ProcsAssumption, BoundsAssumption, CallsAssumption
     DEF TypeOK, Procs, Labels
<1>6. ASSUME NEW g \in Writers, CtxDone(g)
      PROVE  TypeOK'
  BY <1>6 DEF CtxDone, Goto
<1>7. ASSUME NEW g \in Writers, LockMessage(g)
      PROVE  TypeOK'
  <2>1. pc' \in [Procs -> Labels]
    BY <1>7, GotoType DEF LockMessage
  <2>2. [op |-> "data", fin |-> TRUE] \in Frames
    BY DEF Frames, Opcodes
  <2>3. frame' \in [Writers -> Frames]
    BY <1>7, <2>2 DEF LockMessage
  <2>4. /\ mwMu' \in BOOLEAN /\ mwClosed' \in BOOLEAN
        /\ mwOpcode' \in {"data", "continuation"}
    BY <1>7 DEF LockMessage
  <2>5. UNCHANGED <<failed, early, writeCtx, writeMu, frameMu, once, onceDone,
                   closedFlag, closed, bwReturned, rwcClosed, bwErr, out,
                   sent, closeSent, closeReceived, call, fragments, ctxDone,
                   calls>>
    BY <1>7 DEF LockMessage
  <2>. QED BY <2>1, <2>3, <2>4, <2>5
<1>8. ASSUME NEW g \in Writers, WriteFragment(g)
      PROVE  TypeOK'
  <2>1. pc' \in [Procs -> Labels]
    BY <1>8, GotoType DEF WriteFragment, Frames
  <2>2. frame' \in [Writers -> Frames]
    BY <1>8 DEF WriteFragment, Frames
  <2>3. fragments' \in [Writers -> 0..MaxFragments]
    BY <1>8 DEF WriteFragment
  <2>4. UNCHANGED <<failed, early, writeCtx, mwMu, writeMu, frameMu, once,
                   onceDone, closedFlag, closed, bwReturned, rwcClosed,
                   bwErr, out, sent, mwClosed, mwOpcode, closeSent,
                   closeReceived, call, ctxDone, calls>>
    BY <1>8 DEF WriteFragment, Frames
  <2>. QED BY <2>1, <2>2, <2>3, <2>4
<1>9. ASSUME NEW g \in Writers, CloseMessage(g)
      PROVE  TypeOK'
  <2>1. pc' \in [Procs -> Labels]
    BY <1>9, GotoType DEF CloseMessage, Frames
  <2>2. frame' \in [Writers -> Frames]
    BY <1>9 DEF CloseMessage, Frames
  <2>4. failed' \in [Writers -> BOOLEAN]
    BY <1>9 DEF CloseMessage
  <2>3. UNCHANGED <<early, writeCtx, mwMu, writeMu, frameMu, once,
                   onceDone, closedFlag, closed, bwReturned, rwcClosed,
                   bwErr, out, sent, mwClosed, mwOpcode, closeSent,
                   closeReceived, call, fragments, ctxDone, calls>>
    BY <1>9 DEF CloseMessage, Frames
  <2>. QED BY <2>1, <2>2, <2>3, <2>4
<1>10. ASSUME NEW g \in Writers, Abandon(g)
      PROVE  TypeOK'
  BY <1>10 DEF Abandon, Goto
<1>11. ASSUME NEW g \in Writers, LockWrite(g)
      PROVE  TypeOK'
  <2>1. pc' \in [Procs -> Labels]
    BY <1>11, GotoType DEF LockWrite, Frames, Opcodes
  <2>2. mwOpcode \in Opcodes /\ frame' = [frame EXCEPT ![g].op = mwOpcode]
    BY <1>11 DEF LockWrite, Opcodes
  <2>3. frame' \in [Writers -> Frames]
    BY <2>2 DEF Frames
  <2>4. writeMu' \in BOOLEAN /\ mwClosed' \in BOOLEAN
    BY <1>11 DEF LockWrite, Frames
  <2>5. UNCHANGED <<failed, early, writeCtx, mwMu, frameMu, once, onceDone,
                   closedFlag, closed, bwReturned, rwcClosed, bwErr, out,
                   sent, mwOpcode, closeSent, closeReceived, call,
                   fragments, ctxDone, calls>>
    BY <1>11 DEF LockWrite, Frames, Opcodes
  <2>. QED BY <2>1, <2>2, <2>3, <2>4, <2>5
<1>12. ASSUME NEW g \in Writers, LockWriteClosed(g)
      PROVE  TypeOK'
  BY <1>12 DEF LockWriteClosed, Goto, FailTo
<1>13. ASSUME NEW g \in Writers, LockFailed(g)
      PROVE  TypeOK'
  <2>1. pc' \in [Procs -> Labels] /\ failed' \in [Writers -> BOOLEAN]
    BY <1>13, FailToType DEF LockFailed
  <2>2. UNCHANGED <<frame, early, writeCtx, mwMu, writeMu, frameMu, once,
                   onceDone, closedFlag, closed, bwReturned, rwcClosed,
                   bwErr, out, sent, mwClosed, mwOpcode, closeSent,
                   closeReceived, call, fragments, ctxDone, calls>>
    BY <1>13 DEF LockFailed
  <2>. QED BY <2>1, <2>2
<1>14. ASSUME NEW g \in Writers, LockFrame(g)
      PROVE  TypeOK'
  BY <1>14 DEF LockFrame, Goto
<1>15. ASSUME NEW g \in Writers, CheckSent(g)
      PROVE  TypeOK'
  <2>1. pc' \in [Procs -> Labels] /\ failed' \in [Writers -> BOOLEAN]
    BY <1>15, GotoType, FailToType DEF CheckSent
  <2>2. UNCHANGED <<frame, early, writeCtx, mwMu, writeMu, frameMu, once,
                   onceDone, closedFlag, closed, bwReturned, rwcClosed,
                   bwErr, out, sent, mwClosed, mwOpcode, closeSent,
                   closeReceived, call, fragments, ctxDone, calls>>
    BY <1>15 DEF CheckSent
  <2>. QED BY <2>1, <2>2
<1>16. ASSUME NEW g \in Writers, SendCtx(g)
      PROVE  TypeOK'
  <2>1. pc' \in [Procs -> Labels] /\ failed' \in [Writers -> BOOLEAN]
    BY <1>16, GotoType, FailToType DEF SendCtx
  <2>2. writeCtx' \in Writers \cup {NoOne}
    BY <1>16 DEF SendCtx
  <2>3. UNCHANGED <<frame, early, mwMu, writeMu, frameMu, once, onceDone,
                   closedFlag, closed, bwReturned, rwcClosed, bwErr, out,
                   sent, mwClosed, mwOpcode, closeSent, closeReceived, call,
                   fragments, ctxDone, calls>>
    BY <1>16 DEF SendCtx
  <2>. QED BY <2>1, <2>2, <2>3
<1>17. ASSUME NEW g \in Writers, WriteHeader(g)
      PROVE  TypeOK'
  <2>1. pc' \in [Procs -> Labels] /\ failed' \in [Writers -> BOOLEAN]
    BY <1>17, GotoType, FailToType DEF WriteHeader, Buffer
  <2>2. Unit(g, "header") \in Units
    BY DEF Unit, Units
  <2>3. out' \in Seq(Units) /\ sent' \in 0..Len(out')
    <3>1. out' = out \/ out' = Append(out, Unit(g, "header"))
      BY <1>17 DEF WriteHeader, Buffer
    <3>2. sent' = sent
      BY <1>17 DEF WriteHeader
    <3>3. CASE out' = out
      BY <3>2, <3>3
    <3>4. CASE out' = Append(out, Unit(g, "header"))
      BY <2>2, <3>2, <3>4
    <3>. QED BY <3>1, <3>3, <3>4
  <2>4. UNCHANGED <<frame, early, writeCtx, mwMu, writeMu, frameMu, once,
                   onceDone, closedFlag, closed, bwReturned, rwcClosed,
                   bwErr, mwClosed, mwOpcode, closeSent, closeReceived,
                   call, fragments, ctxDone, calls>>
    BY <1>17 DEF WriteHeader, Buffer
  <2>. QED BY <2>1, <2>2, <2>3, <2>4
<1>18. ASSUME NEW g \in Writers, WritePayload(g)
      PROVE  TypeOK'
  <2>1. pc' \in [Procs -> Labels] /\ failed' \in [Writers -> BOOLEAN]
    BY <1>18, GotoType, FailToType DEF WritePayload, Buffer
  <2>2. Unit(g, "payload") \in Units
    BY DEF Unit, Units
  <2>3. out' \in Seq(Units) /\ sent' \in 0..Len(out')
    BY <1>18, <2>2 DEF WritePayload, Buffer
  <2>4. UNCHANGED <<frame, early, writeCtx, mwMu, writeMu, frameMu, once,
                   onceDone, closedFlag, closed, bwReturned, rwcClosed,
                   bwErr, mwClosed, mwOpcode, closeSent, closeReceived,
                   call, fragments, ctxDone, calls>>
    BY <1>18 DEF WritePayload, Buffer
  <2>. QED BY <2>1, <2>2, <2>3, <2>4
<1>19. ASSUME NEW g \in Writers, CheckFlag(g)
      PROVE  TypeOK'
  <2>1. pc' \in [Procs -> Labels] /\ failed' \in [Writers -> BOOLEAN]
    BY <1>19, GotoType, FailToType DEF CheckFlag
  <2>2. UNCHANGED <<frame, early, writeCtx, mwMu, writeMu, frameMu, once,
                   onceDone, closedFlag, closed, bwReturned, rwcClosed,
                   bwErr, out, sent, mwClosed, mwOpcode, closeSent,
                   closeReceived, call, fragments, ctxDone, calls>>
    BY <1>19 DEF CheckFlag
  <2>. QED BY <2>1, <2>2
<1>20. ASSUME NEW g \in Writers, Flush(g)
      PROVE  TypeOK'
  <2>1. pc' \in [Procs -> Labels] /\ failed' \in [Writers -> BOOLEAN]
    BY <1>20, GotoType, FailToType DEF Flush
  <2>2. bwErr' \in BOOLEAN
    BY <1>20 DEF Flush
  <2>3. UNCHANGED <<frame, early, writeCtx, mwMu, writeMu, frameMu, once,
                   onceDone, closedFlag, closed, bwReturned, rwcClosed, out,
                   sent, mwClosed, mwOpcode, closeSent, closeReceived, call,
                   fragments, ctxDone, calls>>
    BY <1>20 DEF Flush
  <2>. QED BY <2>1, <2>2, <2>3
<1>21. ASSUME NEW g \in Writers, Transmit(g)
      PROVE  TypeOK'
  <2>1. pc' \in [Procs -> Labels] /\ failed' \in [Writers -> BOOLEAN]
    BY <1>21, GotoType, FailToType DEF Transmit, AfterFlush, AfterSpill
  <2>2. bwErr' \in BOOLEAN /\ sent' \in 0..Len(out)
    BY <1>21 DEF Transmit, AfterFlush, AfterSpill
  <2>3. UNCHANGED <<frame, early, writeCtx, mwMu, writeMu, frameMu, once,
                   onceDone, closedFlag, closed, bwReturned, rwcClosed, out,
                   mwClosed, mwOpcode, closeSent, closeReceived, call,
                   fragments, ctxDone, calls>>
    BY <1>21 DEF Transmit, AfterFlush, AfterSpill
  <2>. QED BY <2>1, <2>2, <2>3
<1>22. ASSUME NEW g \in Writers, TransmitError(g)
      PROVE  TypeOK'
  <2>1. pc' \in [Procs -> Labels] /\ failed' \in [Writers -> BOOLEAN]
    BY <1>22, FailToType DEF TransmitError
  <2>2. bwErr' \in BOOLEAN /\ sent' \in 0..Len(out)
    BY <1>22 DEF TransmitError
  <2>3. UNCHANGED <<frame, early, writeCtx, mwMu, writeMu, frameMu, once,
                   onceDone, closedFlag, closed, bwReturned, rwcClosed, out,
                   mwClosed, mwOpcode, closeSent, closeReceived, call,
                   fragments, ctxDone, calls>>
    BY <1>22 DEF TransmitError
  <2>. QED BY <2>1, <2>2, <2>3
<1>23. ASSUME NEW g \in Writers, MarkSent(g)
      PROVE  TypeOK'
  BY <1>23 DEF MarkSent, Goto
<1>24. ASSUME NEW g \in Writers, UnlockEarly(g)
      PROVE  TypeOK'
  <2>1. pc' \in [Procs -> Labels]
    BY <1>24, GotoType DEF UnlockEarly
  <2>2. frameMu' \in BOOLEAN /\ early' \in [Writers -> BOOLEAN]
    BY <1>24 DEF UnlockEarly
  <2>3. UNCHANGED <<frame, failed, writeCtx, mwMu, writeMu, once, onceDone,
                   closedFlag, closed, bwReturned, rwcClosed, bwErr, out,
                   sent, mwClosed, mwOpcode, closeSent, closeReceived, call,
                   fragments, ctxDone, calls>>
    BY <1>24 DEF UnlockEarly
  <2>. QED BY <2>1, <2>2, <2>3
<1>25. ASSUME NEW g \in Writers, ResetCtx(g)
      PROVE  TypeOK'
  BY <1>25 DEF ResetCtx, Goto
<1>26. ASSUME NEW g \in Writers, UnlockFrame(g)
      PROVE  TypeOK'
  <2>1. pc' \in [Procs -> Labels]
    BY <1>26, GotoType DEF UnlockFrame
  <2>2. frameMu' \in BOOLEAN
    BY <1>26 DEF UnlockFrame
  <2>3. UNCHANGED <<frame, failed, early, writeCtx, mwMu, writeMu, once,
                   onceDone, closedFlag, closed, bwReturned, rwcClosed,
                   bwErr, out, sent, mwClosed, mwOpcode, closeSent,
                   closeReceived, call, fragments, ctxDone, calls>>
    BY <1>26 DEF UnlockFrame
  <2>. QED BY <2>1, <2>2, <2>3
<1>27. ASSUME NEW g \in Writers, ReturnMessage(g)
      PROVE  TypeOK'
  <2>1. pc' \in [Procs -> Labels]
    BY <1>27, GotoType DEF ReturnMessage
  <2>2. mwMu' \in BOOLEAN
    BY <1>27 DEF ReturnMessage
  <2>3. UNCHANGED <<frame, failed, early, writeCtx, writeMu, frameMu, once,
                   onceDone, closedFlag, closed, bwReturned, rwcClosed,
                   bwErr, out, sent, mwClosed, mwOpcode, closeSent,
                   closeReceived, call, fragments, ctxDone, calls>>
    BY <1>27 DEF ReturnMessage
  <2>. QED BY <2>1, <2>2, <2>3
<1>28. ASSUME NEW g \in Writers, ReturnFragment(g)
      PROVE  TypeOK'
  <2>1. pc' \in [Procs -> Labels]
    BY <1>28, GotoType DEF ReturnFragment
  <2>2. writeMu' \in BOOLEAN /\ mwOpcode' \in {"data", "continuation"}
    BY <1>28 DEF ReturnFragment
  <2>3. UNCHANGED <<frame, failed, early, writeCtx, mwMu, frameMu, once,
                   onceDone, closedFlag, closed, bwReturned, rwcClosed,
                   bwErr, out, sent, mwClosed, closeSent, closeReceived,
                   call, fragments, ctxDone, calls>>
    BY <1>28 DEF ReturnFragment
  <2>. QED BY <2>1, <2>2, <2>3
<1>29. ASSUME NEW g \in Writers, ReturnLastFrame(g)
      PROVE  TypeOK'
  <2>1. pc' \in [Procs -> Labels]
    BY <1>29, GotoType DEF ReturnLastFrame
  <2>2. writeMu' \in BOOLEAN /\ mwMu' \in BOOLEAN
    BY <1>29 DEF ReturnLastFrame
  <2>3. UNCHANGED <<frame, failed, early, writeCtx, frameMu, once, onceDone,
                   closedFlag, closed, bwReturned, rwcClosed, bwErr, out,
                   sent, mwClosed, mwOpcode, closeSent, closeReceived, call,
                   fragments, ctxDone, calls>>
    BY <1>29 DEF ReturnLastFrame
  <2>. QED BY <2>1, <2>2, <2>3
<1>30. ASSUME NEW g \in Writers, ReturnControl(g)
      PROVE  TypeOK'
  BY <1>30 DEF ReturnControl, Goto
<1>31. ASSUME NEW g \in Writers, ReturnClose(g)
      PROVE  TypeOK'
  BY <1>31 DEF ReturnClose, Goto
<1>32. ASSUME NEW p \in Procs, CloseFlag(p)
      PROVE  TypeOK'
  BY <1>32 DEF CloseFlag, Goto
<1>33. ASSUME NEW p \in Procs, CloseChan(p)
      PROVE  TypeOK'
  BY <1>33 DEF CloseChan, Goto
<1>34. ASSUME NEW p \in Procs, PutBuffer(p)
      PROVE  TypeOK'
  BY <1>34 DEF PutBuffer, Goto
<1>35. ASSUME NEW p \in Procs, CloseTransport(p)
      PROVE  TypeOK'
  BY <1>35 DEF CloseTransport, Goto
<1>36. ASSUME NEW p \in Procs, CloseWriter(p)
      PROVE  TypeOK'
  BY <1>36 DEF CloseWriter, Goto, Resume
<1>37. ASSUME NEW p \in Procs, CloseAgain(p)
      PROVE  TypeOK'
  BY <1>37 DEF CloseAgain, Goto, Resume
<1>38. CASE TimeoutExpired
  BY <1>38 DEF TimeoutExpired, Goto
<1>39. CASE TimeoutLoopExits
  BY <1>39 DEF TimeoutLoopExits, Goto
<1>40. CASE UNCHANGED vars
  BY <1>40 DEF vars, mutexes, closeVars, bwVars, mwVars, hsVars, callVars
<1>41. QED
  BY <1>1, <1>2, <1>3, <1>4, <1>5, <1>6, <1>7, <1>8, <1>9, <1>10, <1>11,
     <1>12, <1>13, <1>14, <1>15, <1>16, <1>17, <1>18, <1>19, <1>20, <1>21,
     <1>22, <1>23, <1>24, <1>25, <1>26, <1>27, <1>28, <1>29, <1>30, <1>31,
     <1>32, <1>33, <1>34, <1>35, <1>36, <1>37, <1>38, <1>39, <1>40
     DEF Next, Start, Message, WriteFrame, Return, Close, Terminated

(* The variables of the write side keep their types in every behaviour.     *)
THEOREM TypeCorrect == Spec => []TypeOK
BY TypeInit, TypeStep, PTL DEF Spec

-----------------------------------------------------------------------------
(* The goroutines between their lock and their last unlock of writeFrameMu. *)
Holding(g) == Writing(g) \/ pc[g] \in {"checkSent", "unlockFrame"}

(* Those that may still add to the buffer or to the wire. *)
ByteWriting(g) == Writing(g) /\ pc[g] \notin {"unlockEarly", "resetCtx"}

(* Labels by what a goroutine at them may do: nothing, write bytes, write,  *)
(* close the connection.                                                    *)
OutsideLabels == {"idle", "lockMessage", "open", "lockWrite", "lockFrame",
                  "return", "select", "exited"}

ByteLabels == {"sendCtx", "header", "payload", "spill", "spilling",
               "written", "flush", "flushing", "markSent"}

WritingLabels == ByteLabels \cup {"unlockEarly", "resetCtx"}

ClosingLabels == {"close", "closeChan", "putBuffer", "closeTransport",
                  "closeWriter"}

(* Those that wrote a frame and have not finished with it. *)
Sender(g) == Writing(g) \/ (early[g] /\ pc[g] \in ClosingLabels)

(* Until closeSentErr is set, writeFrameMu is a mutex: who is between lock   *)
(* and unlock holds it alone.  Once it is set the mutex may be released      *)
(* under its holder, but nobody gets past the check of closeSentErr.         *)
WriterInv ==
    /\ ~closeSent => \A g \in Writers : ~early[g] /\ pc[g] # "unlockEarly"
    /\ ~closeSent => \A g \in Writers : Holding(g) => frameMu
    /\ ~closeSent => \A g, h \in Writers : Holding(g) /\ Holding(h) => g = h
    /\ closeSent => \A g \in Writers : ~ByteWriting(g)
    /\ \A g, h \in Writers : Sender(g) /\ Sender(h) => g = h

(* No goroutine of a new connection holds a mutex or writes. *)
LEMMA WriterInit == Init => WriterInv
BY ProcsAssumption
   DEF Init, WriterInv, Holding, ByteWriting, Sender, Writing, ClosingLabels,
       Procs

(* A step that only moves one goroutine keeps WriterInv, if it does not take *)
(* the goroutine into a class of labels it was not in.                      *)
LEMMA WriterMove ==
    ASSUME TypeOK, WriterInv, NEW p \in Procs, NEW from, NEW to \in Labels,
           Goto(p, from, to),
           UNCHANGED <<closeSent, early, frameMu>>,
           \/ to \in OutsideLabels
           \/ p \in Writers /\ from \in WritingLabels
                /\ to \in {"unlockFrame", "resetCtx"}
           \/ p \in Writers /\ from \in ByteLabels /\ to \in ByteLabels
           \/ to \in ClosingLabels
                /\ (p \in Writers => from \in ClosingLabels \/ ~early[p])
    PROVE  WriterInv'
<1>. USE ProcsAssumption
     DEF Procs, TypeOK, Holding, ByteWriting, Sender, Writing, ClosingLabels,
         OutsideLabels, ByteLabels, WritingLabels
<1>1. /\ pc[p] = from /\ pc'[p] = to
      /\ \A h \in Writers : h # p => pc'[h] = pc[h]
  BY DEF Goto
<1>2. CASE p \notin Writers
  BY <1>1, <1>2 DEF WriterInv
<1>3. CASE p \in Writers
  <2>1. /\ Holding(p)' => Holding(p)
        /\ ByteWriting(p)' => ByteWriting(p)
        /\ Sender(p)' => Sender(p)
        /\ to # "unlockEarly"
    BY <1>1, <1>3
  <2>2. \A h \in Writers : /\ Holding(h)' => Holding(h)
                           /\ ByteWriting(h)' => ByteWriting(h)
                           /\ Sender(h)' => Sender(h)
    BY <2>1, <1>1
  <2>3. ~closeSent => \A h \in Writers : pc'[h] # "unlockEarly"
    BY <1>1, <2>1 DEF WriterInv
  <2>. QED
    BY <2>2, <2>3 DEF WriterInv
<1>. QED BY <1>2, <1>3

(* A call that starts is outside the critical section, whatever its kind.   *)
LEMMA WriterBegin ==
    ASSUME TypeOK, WriterInv, NEW g \in Writers, NEW kind,
           NEW to \in {"lockMessage", "lockWrite", "lockFrame", "close"},
           Begin(g, kind, to), UNCHANGED <<closeSent, frameMu>>
    PROVE  WriterInv'
<1>. USE ProcsAssumption
     DEF Procs, TypeOK, Holding, ByteWriting, Sender, Writing, ClosingLabels
<1>1. /\ pc'[g] = to /\ ~early'[g]
      /\ \A h \in Writers : h # g => pc'[h] = pc[h] /\ early'[h] = early[h]
  BY DEF Begin, Goto
<1>2. \A h \in Writers : /\ Holding(h)' => Holding(h)
                         /\ ByteWriting(h)' => ByteWriting(h)
                         /\ Sender(h)' => Sender(h)
  BY <1>1
<1>3. ~closeSent
      => \A h \in Writers : ~early'[h] /\ pc'[h] # "unlockEarly"
  BY <1>1 DEF WriterInv
<1>. QED BY <1>2, <1>3 DEF WriterInv

(* Every step of the connection's goroutines keeps WriterInv: the early     *)
(* unlock of write.go:338 can let a second goroutine in, but only when      *)
(* closeSentErr is set and turns it away.                                   *)
LEMMA WriterStep == TypeOK /\ WriterInv /\ [Next]_vars => WriterInv'
<1>. SUFFICES ASSUME TypeOK, WriterInv, [Next]_vars PROVE WriterInv'
  OBVIOUS
<1>. USE ProcsAssumption
     DEF Procs, Labels, ClosingLabels, OutsideLabels, ByteLabels,
         WritingLabels
<1>1. ASSUME NEW g \in Writers, NEW kind \in CallKinds, BeginMessage(g, kind)
      PROVE  WriterInv'
  BY <1>1, WriterBegin DEF BeginMessage
<1>2. ASSUME NEW g \in Writers, NEW kind \in CallKinds, BeginControl(g, kind)
      PROVE  WriterInv'
  BY <1>2, WriterBegin DEF BeginControl
<1>3. ASSUME NEW g \in Writers, BeginRepeatClose(g)
      PROVE  WriterInv'
  BY <1>3, WriterBegin DEF BeginRepeatClose
<1>4. ASSUME NEW g \in Writers, BeginCloseNow(g)
      PROVE  WriterInv'
  BY <1>4, WriterBegin DEF BeginCloseNow
<1>5. ASSUME NEW g \in Writers, ReceiveClose(g)
      PROVE  WriterInv'
  BY <1>5, WriterBegin DEF ReceiveClose
<1>6. ASSUME NEW g \in Writers, CtxDone(g)
      PROVE  WriterInv'
  BY <1>6 DEF CtxDone, WriterInv, Holding, ByteWriting, Sender, Writing
<1>7. ASSUME NEW g \in Writers, LockMessage(g)
      PROVE  WriterInv'
  BY <1>7, WriterMove DEF LockMessage
<1>8. ASSUME NEW g \in Writers, WriteFragment(g)
      PROVE  WriterInv'
  BY <1>8, WriterMove DEF WriteFragment
<1>9. ASSUME NEW g \in Writers, CloseMessage(g)
      PROVE  WriterInv'
  BY <1>9, WriterMove DEF CloseMessage
<1>10. ASSUME NEW g \in Writers, Abandon(g)
      PROVE  WriterInv'
  BY <1>10, WriterMove DEF Abandon
<1>11. ASSUME NEW g \in Writers, LockWrite(g)
      PROVE  WriterInv'
  BY <1>11, WriterMove DEF LockWrite
<1>12. ASSUME NEW g \in Writers, LockWriteClosed(g)
      PROVE  WriterInv'
  BY <1>12, WriterMove DEF LockWriteClosed, FailTo
<1>13. ASSUME NEW g \in Writers, LockFailed(g)
      PROVE  WriterInv'
  BY <1>13, WriterMove DEF LockFailed, FailTo
<1>14. ASSUME NEW g \in Writers, LockFrame(g)
      PROVE  WriterInv'
  BY <1>14 DEF LockFrame, Goto, TypeOK, WriterInv, Holding,
         ByteWriting, Sender, Writing
<1>15. ASSUME NEW g \in Writers, CheckSent(g)
      PROVE  WriterInv'
  <2>1. CASE closeSent
    <3>1. pc[g] = "checkSent" /\ pc' = [pc EXCEPT ![g] = "unlockFrame"]
      BY <1>15, <2>1 DEF CheckSent, Goto, FailTo
    <3>2. UNCHANGED <<closeSent, early>>
      BY <1>15 DEF CheckSent
    <3>. QED BY <2>1, <3>1, <3>2 DEF TypeOK, WriterInv, Holding,
         ByteWriting, Sender, Writing
  <2>2. CASE ~closeSent
    <3>1. pc[g] = "checkSent" /\ pc' = [pc EXCEPT ![g] = "sendCtx"]
      BY <1>15, <2>2 DEF CheckSent, Goto
    <3>2. UNCHANGED <<closeSent, early, frameMu>>
      BY <1>15 DEF CheckSent
    <3>. QED BY <2>2, <3>1, <3>2 DEF TypeOK, WriterInv, Holding,
         ByteWriting, Sender, Writing
  <2>. QED BY <2>1, <2>2
<1>16. ASSUME NEW g \in Writers, SendCtx(g)
      PROVE  WriterInv'
  BY <1>16, WriterMove DEF SendCtx, FailTo
<1>17. ASSUME NEW g \in Writers, WriteHeader(g)
      PROVE  WriterInv'
  BY <1>17, WriterMove DEF WriteHeader, FailTo, Buffer
<1>18. ASSUME NEW g \in Writers, WritePayload(g)
      PROVE  WriterInv'
  BY <1>18, WriterMove DEF WritePayload, Buffer
<1>19. ASSUME NEW g \in Writers, CheckFlag(g)
      PROVE  WriterInv'
  BY <1>19, WriterMove DEF CheckFlag, FailTo
<1>20. ASSUME NEW g \in Writers, Flush(g)
      PROVE  WriterInv'
  BY <1>20, WriterMove DEF Flush, FailTo
<1>21. ASSUME NEW g \in Writers, Transmit(g)
      PROVE  WriterInv'
  BY <1>21, WriterMove DEF Transmit, FailTo, AfterFlush, AfterSpill
<1>22. ASSUME NEW g \in Writers, TransmitError(g)
      PROVE  WriterInv'
  BY <1>22, WriterMove DEF TransmitError, FailTo
<1>23. ASSUME NEW g \in Writers, MarkSent(g)
      PROVE  WriterInv'
  BY <1>23 DEF MarkSent, Goto, TypeOK, WriterInv, Holding,
         ByteWriting, Sender, Writing
<1>24. ASSUME NEW g \in Writers, UnlockEarly(g)
      PROVE  WriterInv'
  BY <1>24 DEF UnlockEarly, Goto, TypeOK, WriterInv, Holding,
         ByteWriting, Sender, Writing
<1>25. ASSUME NEW g \in Writers, ResetCtx(g)
      PROVE  WriterInv'
  BY <1>25, WriterMove DEF ResetCtx
<1>26. ASSUME NEW g \in Writers, UnlockFrame(g)
      PROVE  WriterInv'
  BY <1>26 DEF UnlockFrame, Goto, TypeOK, WriterInv, Holding,
         ByteWriting, Sender, Writing
<1>27. ASSUME NEW g \in Writers, ReturnMessage(g)
      PROVE  WriterInv'
  BY <1>27, WriterMove DEF ReturnMessage
<1>28. ASSUME NEW g \in Writers, ReturnFragment(g)
      PROVE  WriterInv'
  BY <1>28, WriterMove DEF ReturnFragment
<1>29. ASSUME NEW g \in Writers, ReturnLastFrame(g)
      PROVE  WriterInv'
  BY <1>29, WriterMove DEF ReturnLastFrame
<1>30. ASSUME NEW g \in Writers, ReturnControl(g)
      PROVE  WriterInv'
  BY <1>30, WriterMove DEF ReturnControl
<1>31. ASSUME NEW g \in Writers, ReturnClose(g)
      PROVE  WriterInv'
  BY <1>31 DEF ReturnClose, Goto, TypeOK, WriterInv, Holding,
         ByteWriting, Sender, Writing
<1>32. ASSUME NEW p \in Procs, CloseFlag(p)
      PROVE  WriterInv'
  BY <1>32, WriterMove DEF CloseFlag
<1>33. ASSUME NEW p \in Procs, CloseChan(p)
      PROVE  WriterInv'
  BY <1>33, WriterMove DEF CloseChan
<1>34. ASSUME NEW p \in Procs, PutBuffer(p)
      PROVE  WriterInv'
  BY <1>34, WriterMove DEF PutBuffer
<1>35. ASSUME NEW p \in Procs, CloseTransport(p)
      PROVE  WriterInv'
  BY <1>35, WriterMove DEF CloseTransport
<1>36. ASSUME NEW p \in Procs, CloseWriter(p)
      PROVE  WriterInv'
  <2>1. CASE p \in Writers /\ early[p]
    <3>1. pc' = [pc EXCEPT ![p] = "resetCtx"] /\ pc[p] \in ClosingLabels
      BY <1>36, <2>1 DEF CloseWriter, Goto, Resume
    <3>2. UNCHANGED <<closeSent, early, frameMu>>
      BY <1>36 DEF CloseWriter
    <3>. QED BY <2>1, <3>1, <3>2 DEF TypeOK, WriterInv, Holding,
         ByteWriting, Sender, Writing
  <2>2. CASE ~(p \in Writers /\ early[p])
    BY <1>36, <2>2, WriterMove DEF CloseWriter, Resume
  <2>. QED BY <2>1, <2>2
<1>37. ASSUME NEW p \in Procs, CloseAgain(p)
      PROVE  WriterInv'
  <2>1. CASE p \in Writers /\ early[p]
    <3>1. pc' = [pc EXCEPT ![p] = "resetCtx"] /\ pc[p] \in ClosingLabels
      BY <1>37, <2>1 DEF CloseAgain, Goto, Resume
    <3>2. UNCHANGED <<closeSent, early, frameMu>>
      BY <1>37 DEF CloseAgain
    <3>. QED BY <2>1, <3>1, <3>2 DEF TypeOK, WriterInv, Holding,
         ByteWriting, Sender, Writing
  <2>2. CASE ~(p \in Writers /\ early[p])
    BY <1>37, <2>2, WriterMove DEF CloseAgain, Resume
  <2>. QED BY <2>1, <2>2
<1>38. CASE TimeoutExpired
  BY <1>38, WriterMove DEF TimeoutExpired
<1>39. CASE TimeoutLoopExits
  BY <1>39, WriterMove DEF TimeoutLoopExits
<1>40. CASE UNCHANGED vars
  BY <1>40 DEF vars, WriterInv, Holding, ByteWriting, Sender, Writing
<1>. QED
  BY <1>1, <1>2, <1>3, <1>4, <1>5, <1>6, <1>7, <1>8, <1>9, <1>10, <1>11,
     <1>12, <1>13, <1>14, <1>15, <1>16, <1>17, <1>18, <1>19, <1>20, <1>21,
     <1>22, <1>23, <1>24, <1>25, <1>26, <1>27, <1>28, <1>29, <1>30, <1>31,
     <1>32, <1>33, <1>34, <1>35, <1>36, <1>37, <1>38, <1>39, <1>40
     DEF Next, Start, Message, WriteFrame, Return, Close, Terminated

(* No two goroutines write a frame at the same time, although a writer of    *)
(* the close frame may release a mutex it does not hold.                     *)
THEOREM FrameWriterExclusion == Spec => []OneFrameWriter
<1>1. WriterInv => OneFrameWriter
  BY DEF WriterInv, OneFrameWriter, Sender
<1>. QED
  BY TypeInit, TypeStep, WriterInit, WriterStep, <1>1, PTL DEF Spec

(* After the close frame was written, the connection is silent.              *)
THEOREM SilenceAfterClose == Spec => SilentAfterCloseSent
<1>1. ASSUME WriterInv, closeSent, Next
      PROVE  UNCHANGED <<out, sent>>
  <2>1. ASSUME NEW g \in Writers,
               \/ WriteHeader(g) \/ WritePayload(g)
               \/ Transmit(g) \/ TransmitError(g)
        PROVE  ByteWriting(g)
    BY <2>1 DEF WriteHeader, WritePayload, Transmit, TransmitError, Buffer,
                FailTo, Goto, ByteWriting, Writing
  <2>2. ASSUME NEW g \in Writers, NEW kind \in CallKinds,
               BeginMessage(g, kind) \/ BeginControl(g, kind)
        PROVE  UNCHANGED <<out, sent>>
    BY <2>2 DEF BeginMessage, BeginControl
  <2>3. ASSUME NEW g \in Writers,
               \/ BeginRepeatClose(g) \/ BeginCloseNow(g) \/ ReceiveClose(g)
               \/ CtxDone(g) \/ Message(g) \/ Return(g)
        PROVE  UNCHANGED <<out, sent>>
    BY <2>3 DEF BeginRepeatClose, BeginCloseNow, ReceiveClose, CtxDone,
                Message, LockMessage, WriteFragment, CloseMessage, Abandon,
                LockWrite, LockWriteClosed, LockFailed, Return, ReturnMessage,
                ReturnFragment, ReturnLastFrame, ReturnControl, ReturnClose
  <2>4. ASSUME NEW g \in Writers, WriteFrame(g), ~ByteWriting(g)
        PROVE  UNCHANGED <<out, sent>>
    BY <2>1, <2>4 DEF WriteFrame, LockFrame, CheckSent, SendCtx, CheckFlag,
                      Flush, MarkSent, UnlockEarly, ResetCtx, UnlockFrame
  <2>5. ASSUME NEW p \in Procs, Close(p)
        PROVE  UNCHANGED <<out, sent>>
    BY <2>5 DEF Close, CloseFlag, CloseChan, PutBuffer, CloseTransport,
                CloseWriter, CloseAgain
  <2>6. CASE TimeoutExpired \/ TimeoutLoopExits \/ Terminated
    BY <2>6 DEF TimeoutExpired, TimeoutLoopExits, Terminated, vars
  <2>7. \A g \in Writers : ~ByteWriting(g)
    BY <1>1 DEF WriterInv
  <2>. QED
    BY <1>1, <2>2, <2>3, <2>4, <2>5, <2>6, <2>7 DEF Next, Start
<1>2. WriterInv /\ [Next]_vars => [closeSent => UNCHANGED <<out, sent>>]_vars
  BY <1>1
<1>. QED
  BY TypeInit, TypeStep, WriterInit, WriterStep, <1>2, PTL
     DEF Spec, SilentAfterCloseSent

-----------------------------------------------------------------------------
(* What the write side leaves in its buffer and in timeoutLoop, for both   *)
(* ends of a connection unless a theorem names one.                        *)

-----------------------------------------------------------------------------
(* The context that is watched. *)

(* It is that of a goroutine that writes, or that closes the connection     *)
(* before its deferred reset; who has got that far has closed the channel.  *)
WatchInv ==
    /\ onceDone => closed
    /\ \A p \in Procs :
          pc[p] \in {"putBuffer", "closeTransport", "closeWriter"} => closed
    /\ writeCtx # NoOne /\ ~closed =>
          \/ Writing(writeCtx)
          \/ early[writeCtx] /\ pc[writeCtx] \in ClosingLabels

(* A context is taken by the goroutine that writes, and given up by it.     *)
LEMMA WatchStep ==
    TypeOK /\ WatchInv /\ [Next]_vars => WatchInv'
<1> SUFFICES ASSUME TypeOK, WatchInv, [Next]_vars PROVE WatchInv'
  OBVIOUS
<1> USE ProcsAssumption DEF Procs, TypeOK, WatchInv, Writing, ClosingLabels
<1>1. ASSUME NEW g \in Writers, NEW kind \in CallKinds, BeginMessage(g, kind)
      PROVE  WatchInv'
  BY <1>1 DEF BeginMessage, Begin, Goto
<1>2. ASSUME NEW g \in Writers, NEW kind \in CallKinds, BeginControl(g, kind)
      PROVE  WatchInv'
  BY <1>2 DEF BeginControl, Begin, Goto
<1>3. ASSUME NEW g \in Writers, BeginRepeatClose(g)
      PROVE  WatchInv'
  BY <1>3 DEF BeginRepeatClose, Begin, Goto
<1>4. ASSUME NEW g \in Writers, BeginCloseNow(g)
      PROVE  WatchInv'
  BY <1>4 DEF BeginCloseNow, Begin, Goto
<1>5. ASSUME NEW g \in Writers, ReceiveClose(g)
      PROVE  WatchInv'
  BY <1>5 DEF ReceiveClose, Begin, Goto
<1>6. ASSUME NEW g \in Writers, CtxDone(g)
      PROVE  WatchInv'
  BY <1>6 DEF CtxDone
<1>7. ASSUME NEW g \in Writers, LockMessage(g)
      PROVE  WatchInv'
  BY <1>7 DEF LockMessage, Goto
<1>8. ASSUME NEW g \in Writers, WriteFragment(g)
      PROVE  WatchInv'
  BY <1>8 DEF WriteFragment, Goto
<1>9. ASSUME NEW g \in Writers, CloseMessage(g)
      PROVE  WatchInv'
  BY <1>9 DEF CloseMessage, Goto
<1>10. ASSUME NEW g \in Writers, Abandon(g)
      PROVE  WatchInv'
  BY <1>10 DEF Abandon, Goto
<1>11. ASSUME NEW g \in Writers, LockWrite(g)
      PROVE  WatchInv'
  BY <1>11 DEF LockWrite, Goto
<1>12. ASSUME NEW g \in Writers, LockWriteClosed(g)
      PROVE  WatchInv'
  BY <1>12 DEF LockWriteClosed, FailTo, Goto
<1>13. ASSUME NEW g \in Writers, LockFailed(g)
      PROVE  WatchInv'
  BY <1>13 DEF LockFailed, FailTo, Goto
<1>14. ASSUME NEW g \in Writers, LockFrame(g)
      PROVE  WatchInv'
  BY <1>14 DEF LockFrame, Goto
<1>15. ASSUME NEW g \in Writers, CheckSent(g)
      PROVE  WatchInv'
  BY <1>15 DEF CheckSent, FailTo, Goto
<1>16. ASSUME NEW g \in Writers, SendCtx(g)
      PROVE  WatchInv'
  BY <1>16 DEF SendCtx, FailTo, Goto
<1>17. ASSUME NEW g \in Writers, WriteHeader(g)
      PROVE  WatchInv'
  BY <1>17 DEF WriteHeader, FailTo, Goto, Buffer
<1>18. ASSUME NEW g \in Writers, WritePayload(g)
      PROVE  WatchInv'
  BY <1>18 DEF WritePayload, Goto, Buffer
<1>19. ASSUME NEW g \in Writers, CheckFlag(g)
      PROVE  WatchInv'
  BY <1>19 DEF CheckFlag, FailTo, Goto
<1>20. ASSUME NEW g \in Writers, Flush(g)
      PROVE  WatchInv'
  BY <1>20 DEF Flush, FailTo, Goto
<1>21. ASSUME NEW g \in Writers, Transmit(g)
      PROVE  WatchInv'
  BY <1>21 DEF Transmit, FailTo, Goto, AfterFlush, AfterSpill
<1>22. ASSUME NEW g \in Writers, TransmitError(g)
      PROVE  WatchInv'
  BY <1>22 DEF TransmitError, FailTo, Goto
<1>23. ASSUME NEW g \in Writers, MarkSent(g)
      PROVE  WatchInv'
  BY <1>23 DEF MarkSent, Goto
<1>24. ASSUME NEW g \in Writers, UnlockEarly(g)
      PROVE  WatchInv'
  BY <1>24 DEF UnlockEarly, Goto
<1>25. ASSUME NEW g \in Writers, ResetCtx(g)
      PROVE  WatchInv'
  BY <1>25 DEF ResetCtx, Goto
<1>26. ASSUME NEW g \in Writers, UnlockFrame(g)
      PROVE  WatchInv'
  BY <1>26 DEF UnlockFrame, Goto
<1>27. ASSUME NEW g \in Writers, ReturnMessage(g)
      PROVE  WatchInv'
  BY <1>27 DEF ReturnMessage, Goto
<1>28. ASSUME NEW g \in Writers, ReturnFragment(g)
      PROVE  WatchInv'
  BY <1>28 DEF ReturnFragment, Goto
<1>29. ASSUME NEW g \in Writers, ReturnLastFrame(g)
      PROVE  WatchInv'
  BY <1>29 DEF ReturnLastFrame, Goto
<1>30. ASSUME NEW g \in Writers, ReturnControl(g)
      PROVE  WatchInv'
  BY <1>30 DEF ReturnControl, Goto
<1>31. ASSUME NEW g \in Writers, ReturnClose(g)
      PROVE  WatchInv'
  BY <1>31 DEF ReturnClose, Goto
<1>32. ASSUME NEW p \in Procs, CloseFlag(p)
      PROVE  WatchInv'
  BY <1>32 DEF CloseFlag, Goto
<1>33. ASSUME NEW p \in Procs, CloseChan(p)
      PROVE  WatchInv'
  BY <1>33 DEF CloseChan, Goto
<1>34. ASSUME NEW p \in Procs, PutBuffer(p)
      PROVE  WatchInv'
  BY <1>34 DEF PutBuffer, Goto
<1>35. ASSUME NEW p \in Procs, CloseTransport(p)
      PROVE  WatchInv'
  BY <1>35 DEF CloseTransport, Goto
<1>36. ASSUME NEW p \in Procs, CloseWriter(p)
      PROVE  WatchInv'
  BY <1>36 DEF CloseWriter, Goto, Resume
<1>37. ASSUME NEW p \in Procs, CloseAgain(p)
      PROVE  WatchInv'
  BY <1>37 DEF CloseAgain, Goto, Resume
<1>38. CASE TimeoutExpired
  BY <1>38 DEF TimeoutExpired, Goto
<1>39. CASE TimeoutLoopExits
  BY <1>39 DEF TimeoutLoopExits, Goto
<1>40. CASE UNCHANGED vars
  BY <1>40 DEF vars
<1>41. QED
  BY <1>1, <1>2, <1>3, <1>4, <1>5, <1>6, <1>7, <1>8, <1>9, <1>10, <1>11,
     <1>12, <1>13, <1>14, <1>15, <1>16, <1>17, <1>18, <1>19, <1>20, <1>21,
     <1>22, <1>23, <1>24, <1>25, <1>26, <1>27, <1>28, <1>29, <1>30, <1>31,
     <1>32, <1>33, <1>34, <1>35, <1>36, <1>37, <1>38, <1>39, <1>40
     DEF Next, Start, Message, WriteFrame, Return, Close, Terminated

(* The context timeoutLoop watches is that of a writeFrame in progress, so   *)
(* that one that expires late closes nothing (write.go:291-296).            *)
THEOREM WatchedContextIsInUseAlways == Spec => []WatchedContextIsInUse
<1>1. ASSUME Init PROVE WatchInv
  <2>1. \A p \in Procs : pc[p] \in {"select", "idle"}
    BY <1>1 DEF Init
  <2>2. ~onceDone /\ writeCtx = NoOne
    BY <1>1 DEF Init
  <2>3. QED
    BY <2>1, <2>2 DEF WatchInv
<1>2. TypeOK /\ WatchInv /\ [Next]_vars => WatchInv'
  BY WatchStep
<1>3. WatchInv => WatchedContextIsInUse
  BY DEF WatchInv, WatchedContextIsInUse
<1>4. QED
  BY <1>1, <1>2, <1>3, TypeCorrect, PTL DEF Spec

-----------------------------------------------------------------------------
(* The buffer. *)

Buffered == Len(out) > 0

(* Who spills, or has the payload in the buffer. *)
PayloadLabels == {"written", "flush", "flushing", "markSent"}
SpillLabels == {"spill", "spilling"}
InFrame == {"payload"} \cup SpillLabels \cup PayloadLabels

(* A close frame is a message's last frame. *)
FrameInv ==
    \A g \in Writers :
        /\ frame[g].op = "close" => frame[g].fin
        /\ pc[g] = "open" => frame[g].op # "close"

(* The last unit is of the goroutine that is writing, and nobody is once    *)
(* the bufio.Writer has an error, so that a header is never left behind.    *)
BufferInv ==
    /\ FramesWhole
    /\ bwErr => \A g \in Writers : pc[g] \notin InFrame
    /\ Buffered /\ out[Len(out)].part = "header" =>
          bwErr \/ \E g \in Writers : pc[g] \in {"payload"} \cup SpillLabels
    /\ \A g \in Writers :
          /\ pc[g] \in InFrame => Buffered
          /\ pc[g] = "payload" => out[Len(out)] = Unit(g, "header")
          /\ pc[g] \in PayloadLabels => out[Len(out)] = Unit(g, "payload")
          /\ pc[g] \in SpillLabels =>
                out[Len(out)] \in {Unit(g, "header"), Unit(g, "payload")}

CloseAt(i) == out[i].part = "payload" /\ out[i].frame.op = "close"

(* A close frame in the buffer of a client: if other units follow it, the   *)
(* connection is being closed and nothing is transmitted any more; if it is *)
(* the last unit, it is about to be transmitted, or nothing follows it, or  *)
(* the connection is being closed.                                         *)
CloseInv ==
    /\ \A i \in 1..Len(out)-1 : CloseAt(i) =>
          /\ closedFlag /\ sent <= i
          /\ \A g \in Writers : pc[g] \notin {"spilling", "flushing"}
    /\ Buffered /\ CloseAt(Len(out)) =>
          \/ closeSent \/ bwErr \/ closedFlag
          \/ \E g \in Writers : pc[g] \in SpillLabels \cup PayloadLabels

(* Only a Writer's fragments are not final, and they are data.              *)
LEMMA FrameStep ==
    TypeOK /\ FrameInv /\ [Next]_vars => FrameInv'
<1> SUFFICES ASSUME TypeOK, FrameInv, [Next]_vars PROVE FrameInv'
  OBVIOUS
<1> USE ProcsAssumption DEF Procs, TypeOK, FrameInv, CloseFrame, Frames,
    Opcodes
<1>1. ASSUME NEW g \in Writers, NEW kind \in CallKinds, BeginMessage(g, kind)
      PROVE  FrameInv'
  BY <1>1 DEF BeginMessage, Begin, Goto
<1>2. ASSUME NEW g \in Writers, NEW kind \in CallKinds, BeginControl(g, kind)
      PROVE  FrameInv'
  BY <1>2 DEF BeginControl, Begin, Goto
<1>3. ASSUME NEW g \in Writers, BeginRepeatClose(g)
      PROVE  FrameInv'
  BY <1>3 DEF BeginRepeatClose, Begin, Goto
<1>4. ASSUME NEW g \in Writers, BeginCloseNow(g)
      PROVE  FrameInv'
  BY <1>4 DEF BeginCloseNow, Begin, Goto
<1>5. ASSUME NEW g \in Writers, ReceiveClose(g)
      PROVE  FrameInv'
  BY <1>5 DEF ReceiveClose, Begin, Goto
<1>6. ASSUME NEW g \in Writers, CtxDone(g)
      PROVE  FrameInv'
  BY <1>6 DEF CtxDone
<1>7. ASSUME NEW g \in Writers, LockMessage(g)
      PROVE  FrameInv'
  BY <1>7 DEF LockMessage, Goto
<1>8. ASSUME NEW g \in Writers, WriteFragment(g)
      PROVE  FrameInv'
  BY <1>8 DEF WriteFragment, Goto
<1>9. ASSUME NEW g \in Writers, CloseMessage(g)
      PROVE  FrameInv'
  BY <1>9 DEF CloseMessage, Goto
<1>10. ASSUME NEW g \in Writers, Abandon(g)
      PROVE  FrameInv'
  BY <1>10 DEF Abandon, Goto
<1>11. ASSUME NEW g \in Writers, LockWrite(g)
      PROVE  FrameInv'
  BY <1>11 DEF LockWrite, Goto
<1>12. ASSUME NEW g \in Writers, LockWriteClosed(g)
      PROVE  FrameInv'
  BY <1>12 DEF LockWriteClosed, FailTo, Goto
<1>13. ASSUME NEW g \in Writers, LockFailed(g)
      PROVE  FrameInv'
  BY <1>13 DEF LockFailed, FailTo, Goto
<1>14. ASSUME NEW g \in Writers, LockFrame(g)
      PROVE  FrameInv'
  BY <1>14 DEF LockFrame, Goto
<1>15. ASSUME NEW g \in Writers, CheckSent(g)
      PROVE  FrameInv'
  BY <1>15 DEF CheckSent, FailTo, Goto
<1>16. ASSUME NEW g \in Writers, SendCtx(g)
      PROVE  FrameInv'
  BY <1>16 DEF SendCtx, FailTo, Goto
<1>17. ASSUME NEW g \in Writers, WriteHeader(g)
      PROVE  FrameInv'
  BY <1>17 DEF WriteHeader, FailTo, Goto, Buffer
<1>18. ASSUME NEW g \in Writers, WritePayload(g)
      PROVE  FrameInv'
  BY <1>18 DEF WritePayload, Goto, Buffer
<1>19. ASSUME NEW g \in Writers, CheckFlag(g)
      PROVE  FrameInv'
  BY <1>19 DEF CheckFlag, FailTo, Goto
<1>20. ASSUME NEW g \in Writers, Flush(g)
      PROVE  FrameInv'
  BY <1>20 DEF Flush, FailTo, Goto
<1>21. ASSUME NEW g \in Writers, Transmit(g)
      PROVE  FrameInv'
  BY <1>21 DEF Transmit, FailTo, Goto, AfterFlush, AfterSpill
<1>22. ASSUME NEW g \in Writers, TransmitError(g)
      PROVE  FrameInv'
  BY <1>22 DEF TransmitError, FailTo, Goto
<1>23. ASSUME NEW g \in Writers, MarkSent(g)
      PROVE  FrameInv'
  BY <1>23 DEF MarkSent, Goto
<1>24. ASSUME NEW g \in Writers, UnlockEarly(g)
      PROVE  FrameInv'
  BY <1>24 DEF UnlockEarly, Goto
<1>25. ASSUME NEW g \in Writers, ResetCtx(g)
      PROVE  FrameInv'
  BY <1>25 DEF ResetCtx, Goto
<1>26. ASSUME NEW g \in Writers, UnlockFrame(g)
      PROVE  FrameInv'
  BY <1>26 DEF UnlockFrame, Goto
<1>27. ASSUME NEW g \in Writers, ReturnMessage(g)
      PROVE  FrameInv'
  BY <1>27 DEF ReturnMessage, Goto
<1>28. ASSUME NEW g \in Writers, ReturnFragment(g)
      PROVE  FrameInv'
  BY <1>28 DEF ReturnFragment, Goto
<1>29. ASSUME NEW g \in Writers, ReturnLastFrame(g)
      PROVE  FrameInv'
  BY <1>29 DEF ReturnLastFrame, Goto
<1>30. ASSUME NEW g \in Writers, ReturnControl(g)
      PROVE  FrameInv'
  BY <1>30 DEF ReturnControl, Goto
<1>31. ASSUME NEW g \in Writers, ReturnClose(g)
      PROVE  FrameInv'
  BY <1>31 DEF ReturnClose, Goto
<1>32. ASSUME NEW p \in Procs, CloseFlag(p)
      PROVE  FrameInv'
  BY <1>32 DEF CloseFlag, Goto
<1>33. ASSUME NEW p \in Procs, CloseChan(p)
      PROVE  FrameInv'
  BY <1>33 DEF CloseChan, Goto
<1>34. ASSUME NEW p \in Procs, PutBuffer(p)
      PROVE  FrameInv'
  BY <1>34 DEF PutBuffer, Goto
<1>35. ASSUME NEW p \in Procs, CloseTransport(p)
      PROVE  FrameInv'
  BY <1>35 DEF CloseTransport, Goto
<1>36. ASSUME NEW p \in Procs, CloseWriter(p)
      PROVE  FrameInv'
  BY <1>36 DEF CloseWriter, Goto, Resume
<1>37. ASSUME NEW p \in Procs, CloseAgain(p)
      PROVE  FrameInv'
  BY <1>37 DEF CloseAgain, Goto, Resume
<1>38. CASE TimeoutExpired
  BY <1>38 DEF TimeoutExpired, Goto
<1>39. CASE TimeoutLoopExits
  BY <1>39 DEF TimeoutLoopExits, Goto
<1>40. CASE UNCHANGED vars
  BY <1>40 DEF vars
<1>41. QED
  BY <1>1, <1>2, <1>3, <1>4, <1>5, <1>6, <1>7, <1>8, <1>9, <1>10, <1>11,
     <1>12, <1>13, <1>14, <1>15, <1>16, <1>17, <1>18, <1>19, <1>20, <1>21,
     <1>22, <1>23, <1>24, <1>25, <1>26, <1>27, <1>28, <1>29, <1>30, <1>31,
     <1>32, <1>33, <1>34, <1>35, <1>36, <1>37, <1>38, <1>39, <1>40
     DEF Next, Start, Message, WriteFrame, Return, Close, Terminated

(* A step that leaves the buffer alone and moves nobody into or within a     *)
(* frame keeps BufferInv.                                                   *)
LEMMA BufferSkip ==
    ASSUME BufferInv, UNCHANGED <<out, bwErr>>,
           \A h \in Writers :
              /\ pc'[h] \in InFrame =>
                    pc'[h] = pc[h] /\ frame'[h] = frame[h]
              /\ pc[h] \in {"payload"} \cup SpillLabels => pc'[h] = pc[h]
    PROVE  BufferInv'
BY DEF BufferInv, FramesWhole, FrameWhole, Buffered, InFrame, SpillLabels, PayloadLabels,
       Unit

(* A number of units is that of whole frames, or of those and a header.     *)
LEMMA Halves ==
    ASSUME NEW n \in Nat
    PROVE  \E k \in Nat : /\ n \div 2 = k
                          /\ n = 2*k \/ n = 2*k + 1
<1>1. PICK k \in Nat : k = n \div 2 /\ 2*k <= n /\ n <= 2*k + 1
  OBVIOUS
<1>2. n = 2*k \/ n = 2*k + 1
  BY <1>1
<1>. QED BY <1>1, <1>2

(* The kind of the last unit tells how many there are.                      *)
LEMMA LastUnit ==
    ASSUME TypeOK, FramesWhole, Len(out) > 0
    PROVE  /\ out[Len(out)].part = "payload" =>
                 \E k \in Nat \ {0} : Len(out) = 2*k
           /\ out[Len(out)].part = "header" =>
                 \E k \in Nat : Len(out) = 2*k + 1
<1>1. Len(out) \in Nat
  BY DEF TypeOK
<1>2. PICK k \in Nat : Len(out) = 2*k \/ Len(out) = 2*k + 1
  BY <1>1, Halves
<1>3. CASE Len(out) = 2*k
  <2>1. k \in 1..Len(out) /\ 2*k - 1 \in 1..Len(out)
    BY <1>3
  <2>2. out[2*k] = [out[2*k-1] EXCEPT !.part = "payload"]
    BY <1>3, <2>1 DEF FramesWhole, FrameWhole
  <2>3. out[2*k-1] \in Units
    BY <2>1 DEF TypeOK
  <2>4. out[Len(out)].part = "payload"
    BY <1>3, <2>2, <2>3 DEF Units
  <2>. QED BY <1>3, <2>1, <2>4
<1>4. CASE Len(out) = 2*k + 1
  <2>1. k + 1 \in 1..Len(out) /\ 2*(k+1) - 1 = Len(out)
    BY <1>4
  <2>2. out[Len(out)].part = "header"
    <3>1. FrameWhole(k + 1)
      BY <2>1 DEF FramesWhole
    <3>2. QED
      BY <2>1, <3>1 DEF FrameWhole
  <2>. QED BY <1>4, <2>2
<1>. QED BY <1>2, <1>3, <1>4

(* What Append does to the buffer. *)
LEMMA AppendUnit ==
    ASSUME TypeOK, NEW u \in Units, out' = Append(out, u)
    PROVE  /\ Len(out) \in Nat /\ Len(out') = Len(out) + 1
           /\ out'[Len(out')] = u
           /\ \A i \in 1..Len(out) : out'[i] = out[i] /\ out[i] \in Units
BY DEF TypeOK

(* Every step keeps what is in the buffer in order.                         *)
LEMMA BufferStep ==
    TypeOK /\ WriterInv /\ BufferInv /\ [Next]_vars => BufferInv'
<1> SUFFICES ASSUME TypeOK, WriterInv, BufferInv, [Next]_vars PROVE
    BufferInv'
  OBVIOUS
<1> USE ProcsAssumption DEF Procs, TypeOK
<1>1. ASSUME NEW g \in Writers, NEW kind \in CallKinds, BeginMessage(g, kind)
      PROVE  BufferInv'
  BY <1>1, BufferSkip DEF BeginMessage, Begin, Goto, InFrame, SpillLabels,
     PayloadLabels
<1>2. ASSUME NEW g \in Writers, NEW kind \in CallKinds, BeginControl(g, kind)
      PROVE  BufferInv'
  BY <1>2, BufferSkip DEF BeginControl, Begin, Goto, InFrame, SpillLabels,
     PayloadLabels
<1>3. ASSUME NEW g \in Writers, BeginRepeatClose(g)
      PROVE  BufferInv'
  BY <1>3, BufferSkip DEF BeginRepeatClose, Begin, Goto, InFrame,
     SpillLabels, PayloadLabels
<1>4. ASSUME NEW g \in Writers, BeginCloseNow(g)
      PROVE  BufferInv'
  BY <1>4, BufferSkip DEF BeginCloseNow, Begin, Goto, InFrame, SpillLabels,
     PayloadLabels
<1>5. ASSUME NEW g \in Writers, ReceiveClose(g)
      PROVE  BufferInv'
  BY <1>5, BufferSkip DEF ReceiveClose, Begin, Goto, InFrame, SpillLabels,
     PayloadLabels
<1>6. ASSUME NEW g \in Writers, CtxDone(g)
      PROVE  BufferInv'
  BY <1>6, BufferSkip DEF CtxDone, InFrame, SpillLabels, PayloadLabels
<1>7. ASSUME NEW g \in Writers, LockMessage(g)
      PROVE  BufferInv'
  BY <1>7, BufferSkip DEF LockMessage, Goto, InFrame, SpillLabels,
     PayloadLabels
<1>8. ASSUME NEW g \in Writers, WriteFragment(g)
      PROVE  BufferInv'
  BY <1>8, BufferSkip DEF WriteFragment, Goto, InFrame, SpillLabels,
     PayloadLabels
<1>9. ASSUME NEW g \in Writers, CloseMessage(g)
      PROVE  BufferInv'
  BY <1>9, BufferSkip DEF CloseMessage, Goto, InFrame, SpillLabels,
     PayloadLabels
<1>10. ASSUME NEW g \in Writers, Abandon(g)
      PROVE  BufferInv'
  BY <1>10, BufferSkip DEF Abandon, Goto, InFrame, SpillLabels, PayloadLabels
<1>11. ASSUME NEW g \in Writers, LockWrite(g)
      PROVE  BufferInv'
  BY <1>11, BufferSkip DEF LockWrite, Goto, InFrame, SpillLabels,
     PayloadLabels
<1>12. ASSUME NEW g \in Writers, LockWriteClosed(g)
      PROVE  BufferInv'
  BY <1>12, BufferSkip DEF LockWriteClosed, FailTo, Goto, InFrame,
     SpillLabels, PayloadLabels
<1>13. ASSUME NEW g \in Writers, LockFailed(g)
      PROVE  BufferInv'
  BY <1>13, BufferSkip DEF LockFailed, FailTo, Goto, InFrame, SpillLabels,
     PayloadLabels
<1>14. ASSUME NEW g \in Writers, LockFrame(g)
      PROVE  BufferInv'
  BY <1>14, BufferSkip DEF LockFrame, Goto, InFrame, SpillLabels,
     PayloadLabels
<1>15. ASSUME NEW g \in Writers, CheckSent(g)
      PROVE  BufferInv'
  BY <1>15, BufferSkip DEF CheckSent, FailTo, Goto, InFrame, SpillLabels,
     PayloadLabels
<1>16. ASSUME NEW g \in Writers, SendCtx(g)
      PROVE  BufferInv'
  BY <1>16, BufferSkip DEF SendCtx, FailTo, Goto, InFrame, SpillLabels,
     PayloadLabels
<1>17. ASSUME NEW g \in Writers, WriteHeader(g)
      PROVE  BufferInv'
  <2>1. Writing(g) /\ \A h \in Writers : Writing(h) => h = g
    BY <1>17 DEF WriteHeader, Buffer, FailTo, Goto, WriterInv, Writing, Sender
  <2>2. CASE bwErr
    BY <1>17, <2>2, BufferSkip
       DEF WriteHeader, FailTo, Goto, InFrame, SpillLabels, PayloadLabels
  <2>3. CASE ~bwErr
    <3> DEFINE u == Unit(g, "header")
    <3>1. u \in Units /\ out' = Append(out, u)
      BY <1>17, <2>3 DEF WriteHeader, Buffer, Unit, Units
    <3>2. /\ Len(out) \in Nat /\ Len(out') = Len(out) + 1
          /\ out'[Len(out')] = u
          /\ \A i \in 1..Len(out) : out'[i] = out[i] /\ out[i] \in Units
      BY <3>1, AppendUnit
    <3>3. /\ pc[g] = "header" /\ pc'[g] \in {"payload", "spill"}
          /\ \A h \in Writers : h # g => pc'[h] = pc[h]
          /\ frame' = frame /\ bwErr' = bwErr
      BY <1>17, <2>3 DEF WriteHeader, Buffer, Goto
    <3>4. \A h \in Writers : h # g => pc[h] \notin InFrame
      BY <2>1 DEF Writing, InFrame, SpillLabels, PayloadLabels
    <3>5. Buffered => out[Len(out)].part = "payload"
      BY <2>3, <3>2, <3>3, <3>4
         DEF BufferInv, Buffered, InFrame, SpillLabels, PayloadLabels, Units
    <3>6. FramesWhole'
      <4>1. PICK k \in Nat : Len(out) = 2*k
        <5>1. CASE Buffered
          BY <3>5, <5>1, LastUnit DEF BufferInv, Buffered
        <5>2. CASE ~Buffered
          <6>1. Len(out) = 2*0
            BY <3>2, <5>2 DEF Buffered
          <6>2. QED
            BY <6>1
        <5>3. QED
          BY <5>1, <5>2
      <4>2. u.part = "header"
        BY DEF Unit
      <4>3. ASSUME NEW j \in 1..Len(out')
            PROVE  FrameWhole(j)'
        <5>1. CASE j <= k
          <6>1. 2*j \in 1..Len(out) /\ 2*j - 1 \in 1..Len(out)
                /\ j \in 1..Len(out)
            BY <3>2, <4>1, <5>1
          <6>2. /\ out[2*j-1].part = "header"
                /\ out[2*j] = [out[2*j-1] EXCEPT !.part = "payload"]
            BY <6>1 DEF BufferInv, FramesWhole, FrameWhole
          <6>3. QED
            BY <3>2, <6>1, <6>2 DEF FrameWhole
        <5>2. CASE j = k + 1
          BY <3>2, <4>1, <4>2, <5>2 DEF FrameWhole
        <5>3. CASE j > k + 1
          BY <3>2, <4>1, <5>3 DEF FrameWhole
        <5>4. QED
          BY <4>1, <5>1, <5>2, <5>3
      <4>4. QED
        BY <4>3 DEF FramesWhole
    <3>7. QED
      BY <2>3, <3>2, <3>3, <3>4, <3>6
         DEF BufferInv, Buffered, InFrame, SpillLabels, PayloadLabels, Unit
  <2>4. QED
    BY <2>2, <2>3
<1>18. ASSUME NEW g \in Writers, WritePayload(g)
      PROVE  BufferInv'
  <2> DEFINE u == Unit(g, "payload")
  <2>1. u \in Units /\ out' = Append(out, u)
    BY <1>18 DEF WritePayload, Buffer, Unit, Units
  <2>2. /\ Len(out) \in Nat /\ Len(out') = Len(out) + 1
        /\ out'[Len(out')] = u
        /\ \A i \in 1..Len(out) : out'[i] = out[i] /\ out[i] \in Units
    BY <2>1, AppendUnit
  <2>3. /\ pc[g] = "payload" /\ pc'[g] \in {"written", "spill"}
        /\ \A h \in Writers : h # g => pc'[h] = pc[h]
        /\ frame' = frame /\ bwErr' = bwErr
    BY <1>18 DEF WritePayload, Buffer, Goto
  <2>4. \A h \in Writers : h # g => pc[h] \notin InFrame
    BY <2>3 DEF WriterInv, Sender, Writing, InFrame, SpillLabels, PayloadLabels
  <2>5. ~bwErr /\ Buffered /\ out[Len(out)] = Unit(g, "header")
    BY <2>3 DEF BufferInv, InFrame
  <2>6. u = [out[Len(out)] EXCEPT !.part = "payload"]
    <3>1. u = [Unit(g, "header") EXCEPT !.part = "payload"]
      BY DEF Unit
    <3>2. QED
      BY <2>5, <3>1
  <2>7. FramesWhole'
    <3>1. PICK k \in Nat : Len(out) = 2*k + 1
      <4>1. out[Len(out)].part = "header"
        BY <2>5 DEF Unit
      <4>2. QED
        BY <2>5, <4>1, LastUnit DEF BufferInv, Buffered
    <3>0. Len(out) \in 1..Len(out)
      BY <2>2, <3>1
    <3>2. out'[Len(out)] = out[Len(out)]
      BY <2>2, <3>0
    <3>3. out'[Len(out)+1] = [out'[Len(out)] EXCEPT !.part = "payload"]
      BY <2>2, <2>6, <3>2
    <3>4. ASSUME NEW j \in 1..Len(out')
          PROVE  FrameWhole(j)'
      <4>1. CASE j <= k
        <5>1. 2*j \in 1..Len(out) /\ 2*j - 1 \in 1..Len(out)
              /\ j \in 1..Len(out)
          BY <2>2, <3>1, <4>1
        <5>2. /\ out[2*j-1].part = "header"
              /\ out[2*j] = [out[2*j-1] EXCEPT !.part = "payload"]
          BY <5>1 DEF BufferInv, FramesWhole, FrameWhole
        <5>3. QED
          BY <2>2, <5>1, <5>2 DEF FrameWhole
      <4>2. CASE j = k + 1
        <5>1. 2*j - 1 = Len(out) /\ 2*j = Len(out) + 1
          BY <3>1, <4>2
        <5>2. out[Len(out)].part = "header"
          BY <2>5 DEF Unit
        <5>3. QED
          BY <2>2, <3>2, <3>3, <5>1, <5>2 DEF FrameWhole
      <4>3. CASE j > k + 1
        BY <2>2, <3>1, <4>3 DEF FrameWhole
      <4>4. QED
        BY <3>1, <4>1, <4>2, <4>3
    <3>5. QED
      BY <3>4 DEF FramesWhole
  <2>8. u.part = "payload"
    BY DEF Unit
  <2>9. QED
    BY <2>2, <2>3, <2>4, <2>5, <2>7, <2>8
       DEF BufferInv, Buffered, InFrame, SpillLabels, PayloadLabels, Unit
<1>19. ASSUME NEW g \in Writers, CheckFlag(g)
      PROVE  BufferInv'
  <2>1. /\ pc[g] = "written" /\ pc'[g] \in {"flush", "resetCtx"}
        /\ \A h \in Writers : h # g => pc'[h] = pc[h]
        /\ frame' = frame /\ bwErr' = bwErr /\ out' = out
    BY <1>19 DEF CheckFlag, FailTo, Goto
  <2>2. FramesWhole'
    BY <2>1 DEF BufferInv, FramesWhole, FrameWhole
  <2>3. \A h \in Writers : /\ Unit(h, "header")' = Unit(h, "header")
                           /\ Unit(h, "payload")' = Unit(h, "payload")
    BY <2>1 DEF Unit
  <2>4. /\ Buffered' = Buffered /\ pc[g] \in InFrame /\ Buffered
        /\ out[Len(out)] = Unit(g, "payload") /\ ~bwErr
    BY <2>1 DEF BufferInv, Buffered, InFrame, SpillLabels, PayloadLabels
  <2>5. out[Len(out)].part # "header"
    BY <2>4 DEF Unit
  <2>7. ASSUME NEW h \in Writers
        PROVE  /\ pc'[h] \in InFrame => Buffered'
               /\ pc'[h] = "payload" => out'[Len(out')] = Unit(h, "header")'
               /\ pc'[h] \in PayloadLabels =>
                     out'[Len(out')] = Unit(h, "payload")'
               /\ pc'[h] \in SpillLabels =>
                     out'[Len(out')] \in
                        {Unit(h, "header")', Unit(h, "payload")'}
    <3>1. CASE h # g
      BY <2>1, <2>3, <2>4, <3>1 DEF BufferInv
    <3>2. CASE h = g
      BY <2>1, <2>3, <2>4, <3>2 DEF InFrame, SpillLabels, PayloadLabels
    <3>3. QED
      BY <3>1, <3>2
  <2>8. QED
    BY <2>1, <2>2, <2>4, <2>5, <2>7 DEF BufferInv
<1>20. ASSUME NEW g \in Writers, Flush(g)
      PROVE  BufferInv'
  <2>1. /\ \/ pc[g] = "flush" /\ pc'[g] = "flushing" /\ bwErr' = bwErr
           \/ pc[g] = "spill" /\ pc'[g] = "spilling" /\ bwErr' = bwErr
           \/ pc[g] \in {"flush", "spill"} /\ pc'[g] = "resetCtx" /\ bwErr'
        /\ \A h \in Writers : h # g => pc'[h] = pc[h]
        /\ frame' = frame /\ out' = out
    BY <1>20 DEF Flush, FailTo, Goto
  <2>2. \A h \in Writers : h # g => pc[h] \notin InFrame
    BY <2>1 DEF WriterInv, Sender, Writing, InFrame, SpillLabels, PayloadLabels
  <2>3. FramesWhole'
    BY <2>1 DEF BufferInv, FramesWhole, FrameWhole
  <2>4. \A h \in Writers : /\ Unit(h, "header")' = Unit(h, "header")
                           /\ Unit(h, "payload")' = Unit(h, "payload")
    BY <2>1 DEF Unit
  <2>5. Buffered' = Buffered /\ pc[g] \in InFrame
    BY <2>1 DEF Buffered, InFrame, SpillLabels, PayloadLabels
  <2>6. \A t \in {"header", "payload"} : Unit(g, t).part = t
    BY DEF Unit
  <2>7. out[Len(out)].part \in {"header", "payload"}
    BY <2>1, <2>6 DEF BufferInv, SpillLabels, PayloadLabels
  <2>8. bwErr' => \A h \in Writers : pc'[h] \notin InFrame
    BY <2>1, <2>2, <2>5 DEF BufferInv, InFrame, SpillLabels, PayloadLabels
  <2>9. Buffered' /\ out'[Len(out')].part = "header" =>
           bwErr' \/ \E h \in Writers : pc'[h] \in {"payload"} \cup SpillLabels
    BY <2>1, <2>2, <2>5, <2>6 DEF BufferInv, InFrame, SpillLabels, PayloadLabels
  <2>10. ASSUME NEW h \in Writers
         PROVE  /\ pc'[h] \in InFrame => Buffered'
                /\ pc'[h] = "payload" => out'[Len(out')] = Unit(h, "header")'
                /\ pc'[h] \in PayloadLabels =>
                      out'[Len(out')] = Unit(h, "payload")'
                /\ pc'[h] \in SpillLabels =>
                      out'[Len(out')] \in
                         {Unit(h, "header")', Unit(h, "payload")'}
    <3>1. CASE h # g
      BY <2>1, <2>2, <2>4, <3>1 DEF InFrame, SpillLabels, PayloadLabels
    <3>2. CASE h = g
      BY <2>1, <2>4, <2>5, <2>6, <3>2
         DEF BufferInv, InFrame, SpillLabels, PayloadLabels
    <3>3. QED
      BY <3>1, <3>2
  <2>11. QED
    BY <2>3, <2>8, <2>9, <2>10 DEF BufferInv
<1>21. ASSUME NEW g \in Writers, Transmit(g)
      PROVE  BufferInv'
  <2>1. /\ \/ /\ bwErr' /\ pc[g] \in {"flushing", "spilling"}
              /\ pc'[g] = "resetCtx"
           \/ /\ ~bwErr' /\ pc[g] = "flushing"
              /\ pc'[g] \in {"markSent", "resetCtx"}
           \/ /\ ~bwErr' /\ pc[g] = "spilling"
              /\ pc'[g] = IF out[Len(out)].part = "header" THEN "payload"
                                                           ELSE "written"
        /\ \A h \in Writers : h # g => pc'[h] = pc[h]
        /\ frame' = frame /\ out' = out
    BY <1>21 DEF Transmit, FailTo, Goto, AfterFlush, AfterSpill
  <2>2. \A h \in Writers : h # g => pc[h] \notin InFrame
    BY <2>1 DEF WriterInv, Sender, Writing, InFrame, SpillLabels, PayloadLabels
  <2>3. FramesWhole'
    BY <2>1 DEF BufferInv, FramesWhole, FrameWhole
  <2>4. \A h \in Writers : /\ Unit(h, "header")' = Unit(h, "header")
                           /\ Unit(h, "payload")' = Unit(h, "payload")
    BY <2>1 DEF Unit
  <2>5. Buffered' = Buffered /\ pc[g] \in InFrame
    BY <2>1 DEF Buffered, InFrame, SpillLabels, PayloadLabels
  <2>6. \A t \in {"header", "payload"} : Unit(g, t).part = t
    BY DEF Unit
  <2>7. out[Len(out)].part \in {"header", "payload"}
    BY <2>1, <2>6 DEF BufferInv, SpillLabels, PayloadLabels
  <2>8. bwErr' => \A h \in Writers : pc'[h] \notin InFrame
    BY <2>1, <2>2, <2>5 DEF BufferInv, InFrame, SpillLabels, PayloadLabels
  <2>9. Buffered' /\ out'[Len(out')].part = "header" =>
           bwErr' \/ \E h \in Writers : pc'[h] \in {"payload"} \cup SpillLabels
    BY <2>1, <2>2, <2>5, <2>6 DEF BufferInv, InFrame, SpillLabels, PayloadLabels
  <2>10. ASSUME NEW h \in Writers
         PROVE  /\ pc'[h] \in InFrame => Buffered'
                /\ pc'[h] = "payload" => out'[Len(out')] = Unit(h, "header")'
                /\ pc'[h] \in PayloadLabels =>
                      out'[Len(out')] = Unit(h, "payload")'
                /\ pc'[h] \in SpillLabels =>
                      out'[Len(out')] \in
                         {Unit(h, "header")', Unit(h, "payload")'}
    <3>1. CASE h # g
      BY <2>1, <2>2, <2>4, <3>1 DEF InFrame, SpillLabels, PayloadLabels
    <3>2. CASE h = g
      BY <2>1, <2>4, <2>5, <2>6, <3>2
         DEF BufferInv, InFrame, SpillLabels, PayloadLabels
    <3>3. QED
      BY <3>1, <3>2
  <2>11. QED
    BY <2>3, <2>8, <2>9, <2>10 DEF BufferInv
<1>22. ASSUME NEW g \in Writers, TransmitError(g)
      PROVE  BufferInv'
  <2>1. /\ bwErr' /\ pc[g] \in {"flushing", "spilling"}
        /\ pc'[g] = "resetCtx"
        /\ \A h \in Writers : h # g => pc'[h] = pc[h]
        /\ frame' = frame /\ out' = out
    BY <1>22 DEF TransmitError, FailTo, Goto
  <2>2. \A h \in Writers : h # g => pc[h] \notin InFrame
    BY <2>1 DEF WriterInv, Sender, Writing, InFrame, SpillLabels, PayloadLabels
  <2>3. QED
    BY <2>1, <2>2 DEF BufferInv, FramesWhole, FrameWhole, Buffered, InFrame, SpillLabels,
                      PayloadLabels, Unit
<1>23. ASSUME NEW g \in Writers, MarkSent(g)
      PROVE  BufferInv'
  BY <1>23, BufferSkip DEF MarkSent, Goto, InFrame, SpillLabels,
     PayloadLabels
<1>24. ASSUME NEW g \in Writers, UnlockEarly(g)
      PROVE  BufferInv'
  BY <1>24, BufferSkip DEF UnlockEarly, Goto, InFrame, SpillLabels,
     PayloadLabels
<1>25. ASSUME NEW g \in Writers, ResetCtx(g)
      PROVE  BufferInv'
  BY <1>25, BufferSkip DEF ResetCtx, Goto, InFrame, SpillLabels,
     PayloadLabels
<1>26. ASSUME NEW g \in Writers, UnlockFrame(g)
      PROVE  BufferInv'
  BY <1>26, BufferSkip DEF UnlockFrame, Goto, InFrame, SpillLabels,
     PayloadLabels
<1>27. ASSUME NEW g \in Writers, ReturnMessage(g)
      PROVE  BufferInv'
  BY <1>27, BufferSkip DEF ReturnMessage, Goto, InFrame, SpillLabels,
     PayloadLabels
<1>28. ASSUME NEW g \in Writers, ReturnFragment(g)
      PROVE  BufferInv'
  BY <1>28, BufferSkip DEF ReturnFragment, Goto, InFrame, SpillLabels,
     PayloadLabels
<1>29. ASSUME NEW g \in Writers, ReturnLastFrame(g)
      PROVE  BufferInv'
  BY <1>29, BufferSkip DEF ReturnLastFrame, Goto, InFrame, SpillLabels,
     PayloadLabels
<1>30. ASSUME NEW g \in Writers, ReturnControl(g)
      PROVE  BufferInv'
  BY <1>30, BufferSkip DEF ReturnControl, Goto, InFrame, SpillLabels,
     PayloadLabels
<1>31. ASSUME NEW g \in Writers, ReturnClose(g)
      PROVE  BufferInv'
  BY <1>31, BufferSkip DEF ReturnClose, Goto, InFrame, SpillLabels,
     PayloadLabels
<1>32. ASSUME NEW p \in Procs, CloseFlag(p)
      PROVE  BufferInv'
  BY <1>32, BufferSkip DEF CloseFlag, Goto, InFrame, SpillLabels,
     PayloadLabels
<1>33. ASSUME NEW p \in Procs, CloseChan(p)
      PROVE  BufferInv'
  BY <1>33, BufferSkip DEF CloseChan, Goto, InFrame, SpillLabels,
     PayloadLabels
<1>34. ASSUME NEW p \in Procs, PutBuffer(p)
      PROVE  BufferInv'
  BY <1>34, BufferSkip DEF PutBuffer, Goto, InFrame, SpillLabels,
     PayloadLabels
<1>35. ASSUME NEW p \in Procs, CloseTransport(p)
      PROVE  BufferInv'
  BY <1>35, BufferSkip DEF CloseTransport, Goto, InFrame, SpillLabels,
     PayloadLabels
<1>36. ASSUME NEW p \in Procs, CloseWriter(p)
      PROVE  BufferInv'
  BY <1>36, BufferSkip DEF CloseWriter, Goto, Resume, InFrame, SpillLabels,
     PayloadLabels
<1>37. ASSUME NEW p \in Procs, CloseAgain(p)
      PROVE  BufferInv'
  BY <1>37, BufferSkip DEF CloseAgain, Goto, Resume, InFrame, SpillLabels,
     PayloadLabels
<1>38. CASE TimeoutExpired
  BY <1>38, BufferSkip DEF TimeoutExpired, Goto, InFrame, SpillLabels,
     PayloadLabels
<1>39. CASE TimeoutLoopExits
  BY <1>39, BufferSkip DEF TimeoutLoopExits, Goto, InFrame, SpillLabels,
     PayloadLabels
<1>40. CASE UNCHANGED vars
  BY <1>40, BufferSkip DEF vars, InFrame, SpillLabels, PayloadLabels
<1>41. QED
  BY <1>1, <1>2, <1>3, <1>4, <1>5, <1>6, <1>7, <1>8, <1>9, <1>10, <1>11,
     <1>12, <1>13, <1>14, <1>15, <1>16, <1>17, <1>18, <1>19, <1>20, <1>21,
     <1>22, <1>23, <1>24, <1>25, <1>26, <1>27, <1>28, <1>29, <1>30, <1>31,
     <1>32, <1>33, <1>34, <1>35, <1>36, <1>37, <1>38, <1>39, <1>40
     DEF Next, Start, Message, WriteFrame, Return, Close, Terminated

-----------------------------------------------------------------------------
(* A step that transmits nothing and lets nobody begin to, and by which who *)
(* is about to transmit goes on or leaves for good, keeps CloseInv.         *)
LEMMA CloseSkip ==
    ASSUME CloseInv, UNCHANGED <<out, sent, bwErr>>,
           closedFlag => closedFlag', closeSent => closeSent',
           \A h \in Writers : pc'[h] \in {"spilling", "flushing"} =>
                                 pc'[h] = pc[h],
           \/ closeSent' \/ closedFlag'
           \/ \A h \in Writers : pc[h] \in SpillLabels \cup PayloadLabels =>
                                    pc'[h] \in SpillLabels \cup PayloadLabels
    PROVE  CloseInv'
BY DEF CloseInv, CloseAt, Buffered

(* On a client every step keeps what follows a close frame off the wire.    *)
LEMMA CloseStep ==
    Client /\ TypeOK /\ WriterInv /\ FrameInv /\ BufferInv /\ CloseInv
      /\ [Next]_vars => CloseInv'
<1> SUFFICES ASSUME Client, TypeOK, WriterInv, FrameInv, BufferInv, CloseInv,
    [Next]_vars PROVE CloseInv'
  BY Zenon
<1> USE ProcsAssumption DEF Procs, TypeOK
<1>1. ASSUME NEW g \in Writers, NEW kind \in CallKinds, BeginMessage(g, kind)
      PROVE  CloseInv'
  BY <1>1, CloseSkip DEF BeginMessage, Begin, Goto, SpillLabels,
     PayloadLabels
<1>2. ASSUME NEW g \in Writers, NEW kind \in CallKinds, BeginControl(g, kind)
      PROVE  CloseInv'
  BY <1>2, CloseSkip DEF BeginControl, Begin, Goto, SpillLabels,
     PayloadLabels
<1>3. ASSUME NEW g \in Writers, BeginRepeatClose(g)
      PROVE  CloseInv'
  BY <1>3, CloseSkip DEF BeginRepeatClose, Begin, Goto, SpillLabels,
     PayloadLabels
<1>4. ASSUME NEW g \in Writers, BeginCloseNow(g)
      PROVE  CloseInv'
  BY <1>4, CloseSkip DEF BeginCloseNow, Begin, Goto, SpillLabels,
     PayloadLabels
<1>5. ASSUME NEW g \in Writers, ReceiveClose(g)
      PROVE  CloseInv'
  BY <1>5, CloseSkip DEF ReceiveClose, Begin, Goto, SpillLabels,
     PayloadLabels
<1>6. ASSUME NEW g \in Writers, CtxDone(g)
      PROVE  CloseInv'
  BY <1>6, CloseSkip DEF CtxDone, SpillLabels, PayloadLabels
<1>7. ASSUME NEW g \in Writers, LockMessage(g)
      PROVE  CloseInv'
  BY <1>7, CloseSkip DEF LockMessage, Goto, SpillLabels, PayloadLabels
<1>8. ASSUME NEW g \in Writers, WriteFragment(g)
      PROVE  CloseInv'
  BY <1>8, CloseSkip DEF WriteFragment, Goto, SpillLabels, PayloadLabels
<1>9. ASSUME NEW g \in Writers, CloseMessage(g)
      PROVE  CloseInv'
  BY <1>9, CloseSkip DEF CloseMessage, Goto, SpillLabels, PayloadLabels
<1>10. ASSUME NEW g \in Writers, Abandon(g)
      PROVE  CloseInv'
  BY <1>10, CloseSkip DEF Abandon, Goto, SpillLabels, PayloadLabels
<1>11. ASSUME NEW g \in Writers, LockWrite(g)
      PROVE  CloseInv'
  BY <1>11, CloseSkip DEF LockWrite, Goto, SpillLabels, PayloadLabels
<1>12. ASSUME NEW g \in Writers, LockWriteClosed(g)
      PROVE  CloseInv'
  BY <1>12, CloseSkip DEF LockWriteClosed, FailTo, Goto, SpillLabels,
     PayloadLabels
<1>13. ASSUME NEW g \in Writers, LockFailed(g)
      PROVE  CloseInv'
  BY <1>13, CloseSkip DEF LockFailed, FailTo, Goto, SpillLabels,
     PayloadLabels
<1>14. ASSUME NEW g \in Writers, LockFrame(g)
      PROVE  CloseInv'
  BY <1>14, CloseSkip DEF LockFrame, Goto, SpillLabels, PayloadLabels
<1>15. ASSUME NEW g \in Writers, CheckSent(g)
      PROVE  CloseInv'
  BY <1>15, CloseSkip DEF CheckSent, FailTo, Goto, SpillLabels, PayloadLabels
<1>16. ASSUME NEW g \in Writers, SendCtx(g)
      PROVE  CloseInv'
  BY <1>16, CloseSkip DEF SendCtx, FailTo, Goto, SpillLabels, PayloadLabels
<1>17. ASSUME NEW g \in Writers, WriteHeader(g)
      PROVE  CloseInv'
  <2>1. CASE bwErr
    BY <1>17, <2>1, CloseSkip
       DEF WriteHeader, FailTo, Goto, SpillLabels, PayloadLabels
  <2>2. CASE ~bwErr
    <3>1. Unit(g, "header") \in Units /\ out' = Append(out, Unit(g, "header"))
      BY <1>17, <2>2 DEF WriteHeader, Buffer, Unit, Units
    <3>2. /\ Len(out) \in Nat /\ Len(out') = Len(out) + 1
          /\ out'[Len(out')] = Unit(g, "header")
          /\ \A i \in 1..Len(out) : out'[i] = out[i]
      BY <3>1, AppendUnit
    <3>3. /\ pc[g] = "header" /\ pc'[g] \in {"payload", "spill"}
          /\ \A h \in Writers : h # g => pc'[h] = pc[h]
          /\ UNCHANGED <<frame, bwErr, sent, closedFlag, closeSent>>
      BY <1>17, <2>2 DEF WriteHeader, Buffer, Goto
    <3>4. ~closeSent
      BY <3>3 DEF WriterInv, ByteWriting, Writing
    <3>5. /\ \A h \in Writers : pc[h] \notin SpillLabels \cup PayloadLabels
          /\ \A h \in Writers : pc'[h] \notin {"spilling", "flushing"}
      BY <3>3 DEF WriterInv, Sender, Writing, SpillLabels, PayloadLabels
    <3>6. Buffered /\ CloseAt(Len(out)) => closedFlag
      BY <2>2, <3>4, <3>5 DEF CloseInv
    <3>7. ASSUME NEW i \in 1..Len(out), CloseAt(i)'
          PROVE  closedFlag' /\ sent' <= i
      <4>1. CloseAt(i)
        BY <3>2, <3>7 DEF CloseAt
      <4>2. CASE i = Len(out)
        BY <3>2, <3>3, <3>6, <4>1, <4>2 DEF Buffered
      <4>3. CASE i # Len(out)
        BY <3>2, <3>3, <4>1, <4>3 DEF CloseInv
      <4>4. QED
        BY <4>2, <4>3
    <3>8. ~CloseAt(Len(out))'
      BY <3>2 DEF CloseAt, Unit
    <3>9. QED
      BY <3>2, <3>5, <3>7, <3>8 DEF CloseInv
  <2>3. QED
    BY <2>1, <2>2
<1>18. ASSUME NEW g \in Writers, WritePayload(g)
      PROVE  CloseInv'
  <2>1. Unit(g, "payload") \in Units /\ out' = Append(out, Unit(g, "payload"))
    BY <1>18 DEF WritePayload, Buffer, Unit, Units
  <2>2. /\ Len(out) \in Nat /\ Len(out') = Len(out) + 1
        /\ \A i \in 1..Len(out) : out'[i] = out[i]
    BY <2>1, AppendUnit
  <2>3. /\ pc[g] = "payload" /\ pc'[g] \in {"written", "spill"}
        /\ \A h \in Writers : h # g => pc'[h] = pc[h]
        /\ UNCHANGED <<frame, bwErr, sent, closedFlag, closeSent>>
    BY <1>18 DEF WritePayload, Buffer, Goto
  <2>4. \A h \in Writers : pc'[h] \notin {"spilling", "flushing"}
    BY <2>3 DEF WriterInv, Sender, Writing
  <2>5. ~CloseAt(Len(out))
    <3>1. out[Len(out)] = Unit(g, "header")
      BY <2>3 DEF BufferInv
    <3>2. QED
      BY <3>1 DEF CloseAt, Unit
  <2>6. ASSUME NEW i \in 1..Len(out), CloseAt(i)'
        PROVE  closedFlag' /\ sent' <= i
    <3>1. CloseAt(i) /\ i # Len(out)
      BY <2>2, <2>5, <2>6 DEF CloseAt
    <3>2. QED
      BY <2>2, <2>3, <3>1 DEF CloseInv
  <2>7. pc'[g] \in SpillLabels \cup PayloadLabels
    BY <2>3 DEF SpillLabels, PayloadLabels
  <2>8. QED
    BY <2>2, <2>4, <2>6, <2>7 DEF CloseInv
<1>19. ASSUME NEW g \in Writers, CheckFlag(g)
      PROVE  CloseInv'
  <2>1. /\ pc[g] = "written"
        /\ \A h \in Writers : h # g => pc'[h] = pc[h]
        /\ UNCHANGED <<frame, out, bwErr, sent, closedFlag, closeSent>>
        /\ \/ closedFlag /\ pc'[g] = "resetCtx"
           \/ pc'[g] = IF frame[g].fin THEN "flush" ELSE "resetCtx"
    BY <1>19 DEF CheckFlag, FailTo, Goto
  <2>2. CASE closedFlag \/ pc'[g] = "flush"
    BY <2>1, <2>2, CloseSkip DEF SpillLabels, PayloadLabels
  <2>3. CASE ~closedFlag /\ pc'[g] # "flush"
    <3>1. out[Len(out)] = Unit(g, "payload") /\ ~frame[g].fin
      BY <2>1, <2>3 DEF BufferInv, PayloadLabels
    <3>2. ~CloseAt(Len(out))
      BY <3>1 DEF CloseAt, Unit, FrameInv
    <3>3. \A h \in Writers : pc'[h] \in {"spilling", "flushing"} =>
                                pc'[h] = pc[h]
      BY <2>1, <2>3
    <3>4. QED
      BY <2>1, <3>2, <3>3 DEF CloseInv, CloseAt, Buffered
  <2>4. QED
    BY <2>2, <2>3
<1>20. ASSUME NEW g \in Writers, Flush(g)
      PROVE  CloseInv'
  <2>1. /\ pc[g] \in {"flush", "spill"}
        /\ \A h \in Writers : h # g => pc'[h] = pc[h]
        /\ UNCHANGED <<frame, out, sent, closedFlag, closeSent>>
        /\ \/ closedFlag /\ bwErr' /\ pc'[g] = "resetCtx"
           \/ ~closedFlag /\ pc'[g] \in {"flushing", "spilling"}
    BY <1>20 DEF Flush, FailTo, Goto
  <2>2. CASE closedFlag
    BY <2>1, <2>2 DEF CloseInv, CloseAt, Buffered
  <2>3. CASE ~closedFlag
    <3>1. pc'[g] \in SpillLabels \cup PayloadLabels
      BY <2>1, <2>3 DEF SpillLabels, PayloadLabels
    <3>2. \A i \in 1..Len(out)-1 : ~CloseAt(i)'
      BY <2>1, <2>3 DEF CloseInv, CloseAt
    <3>3. QED
      BY <2>1, <3>1, <3>2 DEF CloseInv
  <2>4. QED
    BY <2>2, <2>3
<1>21. ASSUME NEW g \in Writers, Transmit(g)
      PROVE  CloseInv'
  <2>1. /\ pc[g] \in {"flushing", "spilling"}
        /\ UNCHANGED <<frame, out, closedFlag, closeSent>>
    BY <1>21 DEF Transmit, FailTo, Goto
  <2>2. \A i \in 1..Len(out)-1 : ~CloseAt(i)'
    BY <2>1 DEF CloseInv, CloseAt
  <2>3. CASE bwErr'
    BY <2>1, <2>2, <2>3 DEF CloseInv
  <2>4. CASE ~bwErr' /\ CloseAt(Len(out))
    <3>1. /\ out[Len(out)].part = "payload"
          /\ pc[g] = "flushing" => frame[g].op = "close"
      <4>1. pc[g] = "flushing" => out[Len(out)] = Unit(g, "payload")
        BY DEF BufferInv, PayloadLabels
      <4>2. QED
        BY <2>4, <4>1 DEF CloseAt, Unit
    <3>2. pc'[g] \in {"markSent", "written"}
      BY <1>21, <2>4, <3>1 DEF Transmit, Goto, AfterFlush, AfterSpill
    <3>3. pc'[g] \in PayloadLabels
      BY <3>2 DEF PayloadLabels
    <3>4. QED
      BY <2>1, <2>2, <3>3 DEF CloseInv
  <2>5. CASE ~CloseAt(Len(out))
    BY <2>1, <2>2, <2>5 DEF CloseInv, CloseAt
  <2>6. QED
    BY <2>3, <2>4, <2>5
<1>22. ASSUME NEW g \in Writers, TransmitError(g)
      PROVE  CloseInv'
  <2>1. /\ pc[g] \in {"flushing", "spilling"} /\ bwErr'
        /\ UNCHANGED <<out, closedFlag, closeSent>>
    BY <1>22 DEF TransmitError, FailTo, Goto
  <2>2. \A i \in 1..Len(out)-1 : ~CloseAt(i)'
    BY <2>1 DEF CloseInv, CloseAt
  <2>3. QED
    BY <2>1, <2>2 DEF CloseInv
<1>23. ASSUME NEW g \in Writers, MarkSent(g)
      PROVE  CloseInv'
  BY <1>23, CloseSkip DEF MarkSent, Goto, SpillLabels, PayloadLabels
<1>24. ASSUME NEW g \in Writers, UnlockEarly(g)
      PROVE  CloseInv'
  BY <1>24, CloseSkip DEF UnlockEarly, Goto, SpillLabels, PayloadLabels
<1>25. ASSUME NEW g \in Writers, ResetCtx(g)
      PROVE  CloseInv'
  BY <1>25, CloseSkip DEF ResetCtx, Goto, SpillLabels, PayloadLabels
<1>26. ASSUME NEW g \in Writers, UnlockFrame(g)
      PROVE  CloseInv'
  BY <1>26, CloseSkip DEF UnlockFrame, Goto, SpillLabels, PayloadLabels
<1>27. ASSUME NEW g \in Writers, ReturnMessage(g)
      PROVE  CloseInv'
  BY <1>27, CloseSkip DEF ReturnMessage, Goto, SpillLabels, PayloadLabels
<1>28. ASSUME NEW g \in Writers, ReturnFragment(g)
      PROVE  CloseInv'
  BY <1>28, CloseSkip DEF ReturnFragment, Goto, SpillLabels, PayloadLabels
<1>29. ASSUME NEW g \in Writers, ReturnLastFrame(g)
      PROVE  CloseInv'
  BY <1>29, CloseSkip DEF ReturnLastFrame, Goto, SpillLabels, PayloadLabels
<1>30. ASSUME NEW g \in Writers, ReturnControl(g)
      PROVE  CloseInv'
  BY <1>30, CloseSkip DEF ReturnControl, Goto, SpillLabels, PayloadLabels
<1>31. ASSUME NEW g \in Writers, ReturnClose(g)
      PROVE  CloseInv'
  BY <1>31, CloseSkip DEF ReturnClose, Goto, SpillLabels, PayloadLabels
<1>32. ASSUME NEW p \in Procs, CloseFlag(p)
      PROVE  CloseInv'
  BY <1>32, CloseSkip DEF CloseFlag, Goto, SpillLabels, PayloadLabels
<1>33. ASSUME NEW p \in Procs, CloseChan(p)
      PROVE  CloseInv'
  BY <1>33, CloseSkip DEF CloseChan, Goto, SpillLabels, PayloadLabels
<1>34. ASSUME NEW p \in Procs, PutBuffer(p)
      PROVE  CloseInv'
  BY <1>34, CloseSkip DEF PutBuffer, Goto, SpillLabels, PayloadLabels
<1>35. ASSUME NEW p \in Procs, CloseTransport(p)
      PROVE  CloseInv'
  BY <1>35, CloseSkip DEF CloseTransport, Goto, SpillLabels, PayloadLabels
<1>36. ASSUME NEW p \in Procs, CloseWriter(p)
      PROVE  CloseInv'
  BY <1>36, CloseSkip DEF CloseWriter, Goto, Resume, SpillLabels,
     PayloadLabels
<1>37. ASSUME NEW p \in Procs, CloseAgain(p)
      PROVE  CloseInv'
  BY <1>37, CloseSkip DEF CloseAgain, Goto, Resume, SpillLabels,
     PayloadLabels
<1>38. CASE TimeoutExpired
  BY <1>38, CloseSkip DEF TimeoutExpired, Goto, SpillLabels, PayloadLabels
<1>39. CASE TimeoutLoopExits
  BY <1>39, CloseSkip DEF TimeoutLoopExits, Goto, SpillLabels, PayloadLabels
<1>40. CASE UNCHANGED vars
  BY <1>40, CloseSkip DEF vars, SpillLabels, PayloadLabels
<1>41. QED
  BY <1>1, <1>2, <1>3, <1>4, <1>5, <1>6, <1>7, <1>8, <1>9, <1>10, <1>11,
     <1>12, <1>13, <1>14, <1>15, <1>16, <1>17, <1>18, <1>19, <1>20, <1>21,
     <1>22, <1>23, <1>24, <1>25, <1>26, <1>27, <1>28, <1>29, <1>30, <1>31,
     <1>32, <1>33, <1>34, <1>35, <1>36, <1>37, <1>38, <1>39, <1>40
     DEF Next, Start, Message, WriteFrame, Return, Close, Terminated

-----------------------------------------------------------------------------
(* The invariants of the buffer hold always. *)
LEMMA BufferInvariant ==
    Spec => [](TypeOK /\ WriterInv /\ FrameInv /\ BufferInv)
<1>1. ASSUME Init PROVE FrameInv /\ BufferInv
  <2>1. /\ \A g \in Writers : pc[g] \in {"select", "idle"}
        /\ \A g \in Writers : frame[g] = CloseFrame
        /\ Len(out) = 0
    BY <1>1 DEF Init, Procs
  <2>2. FrameInv
    <3>1. ASSUME NEW g \in Writers
          PROVE  (frame[g].op = "close" => frame[g].fin)
                 /\ (pc[g] = "open" => frame[g].op # "close")
      <4>1. frame[g] = [op |-> "close", fin |-> TRUE] /\ pc[g] # "open"
        BY <2>1 DEF CloseFrame
      <4>2. frame[g].fin
        BY <4>1
      <4>3. QED
        BY <4>1, <4>2
    <3>2. QED
      BY <3>1, Zenon DEF FrameInv
  <2>3. QED
    BY <2>1, <2>2 DEF BufferInv, FramesWhole, FrameWhole, Buffered, InFrame, SpillLabels,
                      PayloadLabels
<1>2. TypeOK /\ WriterInv /\ FrameInv /\ BufferInv /\ [Next]_vars
      => (TypeOK /\ WriterInv /\ FrameInv /\ BufferInv)'
  BY TypeStep, WriterStep, FrameStep, BufferStep
<1>3. QED
  BY <1>1, <1>2, TypeInit, WriterInit, PTL DEF Spec

(* A frame's payload follows its header at once, whichever writes failed,   *)
(* and a frame whose payload is missing is the last one (write.go:306-321). *)
THEOREM FramesWholeAlways == Spec => []FramesWhole
<1>1. BufferInv => FramesWhole
  BY DEF BufferInv
<1>2. QED
  BY <1>1, BufferInvariant, PTL

(* On a client nothing reaches the transport after a close frame, whoever   *)
(* wrote it and whatever failed (write.go:279-284, conn.go:224).            *)
THEOREM CloseFrameLastOnClient ==
    ASSUME Client PROVE Spec => []CloseFrameLast
<1>1. Init => CloseInv
  BY DEF Init, CloseInv, Buffered
<1>2. TypeOK /\ WriterInv /\ FrameInv /\ BufferInv /\ CloseInv /\ [Next]_vars
      => CloseInv'
  BY CloseStep
<1>3. TypeOK /\ CloseInv => CloseFrameLast
  <2>1. SUFFICES ASSUME TypeOK, CloseInv, NEW i \in 1..sent, CloseAt(i)
                 PROVE  i = sent
    BY DEF CloseFrameLast, CloseAt
  <2>2. Len(out) \in Nat /\ sent \in 0..Len(out) /\ i \in 1..Len(out)
    BY <2>1 DEF TypeOK
  <2>3. CASE i = Len(out)
    BY <2>1, <2>2, <2>3
  <2>4. CASE i # Len(out)
    <3>1. sent <= i
      BY <2>1, <2>2, <2>4 DEF CloseInv
    <3>2. QED
      BY <2>1, <2>2, <3>1
  <2>5. QED
    BY <2>3, <2>4
<1>4. QED
  BY <1>1, <1>2, <1>3, BufferInvariant, PTL DEF Spec

-----------------------------------------------------------------------------
(* The order of the frames. *)

(* What MayFollow asks of the frames of messages.                           *)
DataOrder(s, f) ==
    /\ f.frame.op = "data" => Stream!NoMessage(s)
    /\ f.frame.op = "continuation" => Stream!MessageOf(s, f.writer)

(* Every frame among the first n units is in order.                         *)
InOrder(units, n) ==
    \A k \in Nat \ {0} :
        2*k <= n => DataOrder(WholeFrames(units, 2*k - 1), units[2*k])

(* Whole frames of the first n units, whichever follow.                     *)
LEMMA SameFrames ==
    ASSUME NEW s, NEW t, NEW n \in Nat, \A i \in 1..n : t[i] = s[i]
    PROVE  WholeFrames(t, n) = WholeFrames(s, n)
<1>1. \A k \in 1..n \div 2 : 2*k \in 1..n
  <2>1. PICK h \in Nat : h = n \div 2 /\ (n = 2*h \/ n = 2*h + 1)
    BY Halves
  <2>. QED BY <2>1
<1>. QED BY <1>1 DEF WholeFrames

(* A header alone is no frame.                                              *)
LEMMA HeaderFrames ==
    ASSUME NEW s, NEW k \in Nat
    PROVE  WholeFrames(s, 2*k + 1) = WholeFrames(s, 2*k)
<1>1. (2*k + 1) \div 2 = k /\ (2*k) \div 2 = k
  OBVIOUS
<1>. QED BY <1>1 DEF WholeFrames

(* The payload completes the frame.                                         *)
LEMMA PayloadFrames ==
    ASSUME NEW s, NEW k \in Nat \ {0}
    PROVE  WholeFrames(s, 2*k) = Append(WholeFrames(s, 2*k - 1), s[2*k])
<1>1. (2*k) \div 2 = k /\ (2*k - 1) \div 2 = k - 1 /\ k - 1 \in Nat
  <2>1. PICK h \in Nat : h = k - 1
    OBVIOUS
  <2>2. 2*k - 1 = 2*h + 1 /\ (2*h + 1) \div 2 = h
    BY <2>1
  <2>. QED BY <2>1, <2>2
<1>2. WholeFrames(s, 2*k) = [i \in 1..k |-> s[2*i]]
  BY <1>1 DEF WholeFrames
<1>3. WholeFrames(s, 2*k - 1) = [i \in 1..(k-1) |-> s[2*i]]
  BY <1>1 DEF WholeFrames
<1>4. Len([i \in 1..(k-1) |-> s[2*i]]) = k - 1
  BY <1>1
<1>5. Append([i \in 1..(k-1) |-> s[2*i]], s[2*k])
      = [i \in 1..k |-> IF i <= k-1 THEN s[2*i] ELSE s[2*k]]
  BY <1>1, <1>4
<1>6. [i \in 1..k |-> IF i <= k-1 THEN s[2*i] ELSE s[2*k]]
      = [i \in 1..k |-> s[2*i]]
  <2>1. \A i \in 1..k : ~(i <= k-1) => i = k
    OBVIOUS
  <2>. QED BY <2>1
<1>. QED BY <1>2, <1>3, <1>5, <1>6

(* It is a sequence of one frame for two units.                             *)
LEMMA FramesSeq ==
    ASSUME NEW s, NEW n \in Nat
    PROVE  /\ WholeFrames(s, n) \in Seq({s[2*i] : i \in 1..n \div 2})
           /\ Len(WholeFrames(s, n)) = n \div 2
           /\ DOMAIN WholeFrames(s, n) = 1..n \div 2
           /\ \A i \in 1..n \div 2 : WholeFrames(s, n)[i] = s[2*i]
<1> DEFINE S == {s[2*i] : i \in 1..n \div 2}
<1>1. PICK h \in Nat : h = n \div 2
  OBVIOUS
<1>2. \A i \in 1..h : s[2*i] \in S
  BY <1>1
<1>3. WholeFrames(s, n) = [i \in 1..h |-> s[2*i]]
  BY <1>1 DEF WholeFrames
<1>. HIDE DEF S
<1>4. [i \in 1..h |-> s[2*i]] \in Seq(S)
  BY <1>2
<1>5. WholeFrames(s, n) \in Seq(S)
  BY <1>3, <1>4
<1>6. Len(WholeFrames(s, n)) = h /\ DOMAIN WholeFrames(s, n) = 1..h
  BY <1>3
<1>7. \A i \in 1..h : WholeFrames(s, n)[i] = s[2*i]
  BY <1>3
<1>. QED BY <1>1, <1>5, <1>6, <1>7 DEF S

(* What one more frame does to the open message of a stream.                *)
LEMMA AppendFrame ==
    ASSUME NEW S, NEW s \in Seq(S), NEW f, NEW w
    PROVE  /\ Stream!IsData(f) =>
                 /\ Stream!NoMessage(Append(s, f)) <=> f.frame.fin
                 /\ Stream!MessageOf(Append(s, f), w) <=>
                       ~f.frame.fin /\ f.writer = w
           /\ ~Stream!IsData(f) =>
                 /\ Stream!NoMessage(Append(s, f)) <=> Stream!NoMessage(s)
                 /\ Stream!MessageOf(Append(s, f), w) <=> Stream!MessageOf(s, w)
<1> DEFINE t == Append(s, f)
<1>1. PICK n \in Nat : n = Len(s) + 1
  OBVIOUS
<1>2. /\ DOMAIN s = 1..(n-1) /\ DOMAIN t = 1..n
      /\ \A i \in 1..(n-1) : t[i] = s[i]
      /\ t[n] = f
  BY <1>1
<1>. HIDE DEF t
<1>3. CASE Stream!IsData(f)
  <2>1. n \in Stream!Data(t) /\ \A i \in Stream!Data(t) : i \in 1..n
    BY <1>1, <1>2, <1>3 DEF Stream!Data
  <2>2. n \in Stream!LastData(t)
    BY <2>1 DEF Stream!LastData
  <2>3. \A i \in Stream!LastData(t) : i = n
    BY <2>1 DEF Stream!LastData
  <2>. QED
    BY <1>2, <1>3, <2>2, <2>3 DEF Stream!NoMessage, Stream!MessageOf, t
<1>4. CASE ~Stream!IsData(f)
  <2>1. \A i : i \in Stream!Data(t) <=> i \in Stream!Data(s)
    <3>1. \A i \in Stream!Data(t) : i # n
      BY <1>2, <1>4 DEF Stream!Data
    <3>2. \A i \in 1..n : i # n => i \in 1..(n-1)
      OBVIOUS
    <3>3. \A i \in 1..(n-1) : i \in 1..n
      OBVIOUS
    <3>. QED BY <1>2, <3>1, <3>2, <3>3 DEF Stream!Data
  <2>2. Stream!LastData(t) = Stream!LastData(s)
    BY <2>1 DEF Stream!LastData
  <2>3. \A i \in Stream!LastData(s) : t[i] = s[i]
    BY <1>2 DEF Stream!LastData, Stream!Data
  <2>. QED
    BY <1>4, <2>2, <2>3 DEF Stream!NoMessage, Stream!MessageOf, t
<1>. QED BY <1>3, <1>4

(* Fewer units are in order too.                                            *)
LEMMA OrderLess ==
    ASSUME NEW s, NEW n \in Nat, NEW m \in 0..n, InOrder(s, n)
    PROVE  InOrder(s, m)
BY DEF InOrder

(* Order depends on the units up to n only.                                 *)
LEMMA OrderSame ==
    ASSUME NEW s, NEW t, NEW n \in Nat, \A i \in 1..n : t[i] = s[i],
           InOrder(s, n)
    PROVE  InOrder(t, n)
<1>. SUFFICES ASSUME NEW k \in Nat \ {0}, 2*k <= n
              PROVE  DataOrder(WholeFrames(t, 2*k - 1), t[2*k])
  BY DEF InOrder
<1>1. 2*k - 1 \in Nat /\ 2*k \in 1..n
  OBVIOUS
<1>2. \A i \in 1..(2*k - 1) : t[i] = s[i]
  BY <1>1
<1>3. WholeFrames(t, 2*k - 1) = WholeFrames(s, 2*k - 1)
  BY <1>1, <1>2, SameFrames
<1>4. DataOrder(WholeFrames(s, 2*k - 1), s[2*k])
  BY <1>1 DEF InOrder
<1>. QED BY <1>1, <1>3, <1>4

(* A header brings no frame; a payload brings the one it completes.         *)
LEMMA OrderHeader ==
    ASSUME NEW s, NEW k \in Nat, InOrder(s, 2*k)
    PROVE  InOrder(s, 2*k + 1)
<1>1. \A j \in Nat : 2*j <= 2*k + 1 => 2*j <= 2*k
  OBVIOUS
<1>. QED BY <1>1 DEF InOrder

LEMMA OrderPayload ==
    ASSUME NEW s, NEW k \in Nat \ {0}, InOrder(s, 2*k - 1),
           DataOrder(WholeFrames(s, 2*k - 1), s[2*k])
    PROVE  InOrder(s, 2*k)
<1>1. \A j \in Nat : 2*j <= 2*k => j = k \/ 2*j <= 2*k - 1
  OBVIOUS
<1>. QED BY <1>1 DEF InOrder

-----------------------------------------------------------------------------
(* Who has the message. *)

MessageCall(g) == call[g] \in {"message", "compressed", "stream"}
ControlCall(g) == call[g] \in {"control", "error", "close", "receiveClose"}

(* From its lock of msgWriter.mu to its return, a goroutine has the message. *)
InMessage(g) == MessageCall(g) /\ pc[g] \notin {"idle", "lockMessage"}

FrameLabels == {"lockFrame", "checkSent", "sendCtx", "header", "payload",
                "spill", "spilling", "written", "flush", "flushing",
                "resetCtx", "unlockFrame", "return"}

(* Until it gets there a writeFrame has met no error.                       *)
SoundLabels == {"lockMessage", "lockWrite", "lockFrame", "checkSent",
                "sendCtx", "header", "payload", "spill", "spilling",
                "written", "flush", "flushing", "markSent"}

(* A goroutine with the message holds msgWriter.mu and writes a frame with  *)
(* msgWriter's opcode; the other calls write control and close frames.      *)
Shape(g) ==
    /\ call[g] \in Calls \cup {"none"}
    /\ call[g] = "none" => pc[g] = "idle"
    /\ pc[g] = "lockMessage" => MessageCall(g)
    /\ pc[g] \in {"open", "lockWrite"} => call[g] \in {"compressed", "stream"}
    /\ call[g] = "closeNow" =>
          pc[g] \in ClosingLabels \cup {"idle"} /\ ~early[g]
    /\ ControlCall(g) => frame[g].op \in {"control", "close"}
    /\ pc[g] \in SoundLabels => ~failed[g]
    /\ InMessage(g) =>
          /\ mwMu
          /\ pc[g] \in FrameLabels \cup {"open", "lockWrite"}
          /\ pc[g] \in FrameLabels => frame[g].op = mwOpcode
          /\ call[g] = "message" =>
                pc[g] \in FrameLabels /\ frame[g].fin /\ mwOpcode = "data"

ShapeInv ==
    /\ \A g \in Writers : Shape(g)
    /\ \A g, h \in Writers : InMessage(g) /\ InMessage(h) => g = h

-----------------------------------------------------------------------------
(* Where the message is. *)

AllFrames == WholeFrames(out, Len(out))

(* The payload of its present frame is in the buffer.                       *)
PayloadIn(g) ==
    /\ ~failed[g]
    /\ \/ pc[g] \in PayloadLabels \cup {"resetCtx", "unlockFrame", "return"}
       \/ pc[g] \in SpillLabels /\ out[Len(out)].part = "payload"

(* Its message has frames in the buffer and its last one is not among them. *)
Begun(g) == IF PayloadIn(g) THEN ~frame[g].fin ELSE mwOpcode = "continuation"

Transmitting == \E g \in Writers : pc[g] \in {"spilling", "flushing"}

(* While the connection is open and the buffer takes units, they are in     *)
(* order, and msgWriter knows how far the message is; what is transmitted   *)
(* and what is about to be is in order.                                     *)
OrderInv ==
    /\ ~bwErr /\ ~closedFlag =>
          /\ InOrder(out, Len(out))
          /\ Stream!NoMessage(AllFrames) \/ mwMu
          /\ \A g \in Writers : InMessage(g) =>
                IF Begun(g) THEN Stream!MessageOf(AllFrames, g)
                            ELSE Stream!NoMessage(AllFrames)
    /\ Transmitting => InOrder(out, Len(out))
    /\ InOrder(out, sent)

(* A step of one goroutine that has the message, gets it, or leaves         *)
(* msgWriter alone keeps ShapeInv if that goroutine keeps its shape.         *)
LEMMA ShapeLocal ==
    ASSUME ShapeInv, NEW g \in Writers, Shape(g)',
           \A h \in Writers : h # g =>
              /\ pc'[h] = pc[h] /\ call'[h] = call[h] /\ frame'[h] = frame[h]
              /\ failed'[h] = failed[h] /\ early'[h] = early[h],
           \/ /\ mwMu' = mwMu /\ mwOpcode' = mwOpcode
              /\ InMessage(g)' => InMessage(g)
           \/ InMessage(g)
           \/ ~mwMu
    PROVE  ShapeInv'
<1>. USE DEF MessageCall, ControlCall
<1>1. \A h \in Writers : h # g => (InMessage(h)' <=> InMessage(h))
  BY DEF InMessage
<1>2. \A h \in Writers : ~mwMu => ~InMessage(h)
  BY DEF ShapeInv, Shape
<1>3. ASSUME NEW h \in Writers, h # g PROVE Shape(h)'
  <2>1. Shape(h)
    BY DEF ShapeInv
  <2>2. CASE InMessage(h)
    <3>1. mwMu' = mwMu /\ mwOpcode' = mwOpcode
      BY <1>2, <1>3, <2>2 DEF ShapeInv
    <3>. QED BY <1>1, <1>3, <2>1, <3>1 DEF Shape
  <2>3. CASE ~InMessage(h)
    BY <1>1, <1>3, <2>1, <2>3 DEF Shape
  <2>. QED BY <2>2, <2>3
<1>4. \A h, k \in Writers : InMessage(h)' /\ InMessage(k)' => h = k
  BY <1>1, <1>2 DEF ShapeInv
<1>. QED BY <1>3, <1>4 DEF ShapeInv

(* A goroutine that is not a writer changes no shape.                       *)
LEMMA ShapeSame ==
    ASSUME ShapeInv, UNCHANGED <<call, frame, failed, early, mwMu, mwOpcode>>,
           \A h \in Writers : pc'[h] = pc[h]
    PROVE  ShapeInv'
BY DEF ShapeInv, Shape, InMessage, MessageCall, ControlCall

(* Every step keeps who has the message, and its frame.                     *)
LEMMA ShapeStep ==
    ASSUME "repeatClose" \notin Calls
    PROVE  TypeOK /\ FrameInv /\ ShapeInv /\ [Next]_vars => ShapeInv'
<1>. SUFFICES ASSUME TypeOK, FrameInv, ShapeInv, [Next]_vars PROVE ShapeInv'
  OBVIOUS
<1>. USE ProcsAssumption DEF Procs, MessageCall, ControlCall
<1>1. ASSUME NEW g \in Writers, NEW kind \in CallKinds, BeginMessage(g, kind)
      PROVE  ShapeInv'
  <2>1. \A h \in Writers : h # g =>
          /\ pc'[h] = pc[h] /\ call'[h] = call[h] /\ frame'[h] = frame[h]
          /\ failed'[h] = failed[h] /\ early'[h] = early[h]
    BY <1>1 DEF BeginMessage, Begin, Goto, TypeOK
  <2>2. Shape(g)
    BY DEF ShapeInv
  <2>3. Shape(g)'
    BY <1>1, <2>2
       DEF BeginMessage, Begin, Goto, TypeOK, Shape, InMessage, FrameLabels,
           SoundLabels, ClosingLabels
  <2>4. /\ mwMu' = mwMu /\ mwOpcode' = mwOpcode
        /\ InMessage(g)' => InMessage(g)
    BY <1>1, <2>2
       DEF BeginMessage, Begin, Goto, TypeOK, InMessage, Shape, FrameLabels,
           SoundLabels, ClosingLabels
  <2>. QED BY <2>1, <2>3, <2>4, ShapeLocal
<1>2. ASSUME NEW g \in Writers, NEW kind \in CallKinds, BeginControl(g, kind)
      PROVE  ShapeInv'
  <2>1. \A h \in Writers : h # g =>
          /\ pc'[h] = pc[h] /\ call'[h] = call[h] /\ frame'[h] = frame[h]
          /\ failed'[h] = failed[h] /\ early'[h] = early[h]
    BY <1>2 DEF BeginControl, Begin, Goto, CloseFrame, TypeOK
  <2>2. Shape(g)
    BY DEF ShapeInv
  <2>3. Shape(g)'
    BY <1>2, <2>2
       DEF BeginControl, Begin, Goto, CloseFrame, TypeOK, Shape, InMessage,
           FrameLabels, SoundLabels, ClosingLabels
  <2>4. /\ mwMu' = mwMu /\ mwOpcode' = mwOpcode
        /\ InMessage(g)' => InMessage(g)
    BY <1>2, <2>2
       DEF BeginControl, Begin, Goto, CloseFrame, TypeOK, InMessage, Shape,
           FrameLabels, SoundLabels, ClosingLabels
  <2>. QED BY <2>1, <2>3, <2>4, ShapeLocal
<1>3. ASSUME NEW g \in Writers, BeginRepeatClose(g)
      PROVE  ShapeInv'
  BY <1>3 DEF BeginRepeatClose, Begin
<1>4. ASSUME NEW g \in Writers, BeginCloseNow(g)
      PROVE  ShapeInv'
  <2>1. \A h \in Writers : h # g =>
          /\ pc'[h] = pc[h] /\ call'[h] = call[h] /\ frame'[h] = frame[h]
          /\ failed'[h] = failed[h] /\ early'[h] = early[h]
    BY <1>4 DEF BeginCloseNow, Begin, Goto, TypeOK
  <2>2. Shape(g)
    BY DEF ShapeInv
  <2>3. Shape(g)'
    BY <1>4, <2>2
       DEF BeginCloseNow, Begin, Goto, TypeOK, Shape, InMessage, FrameLabels,
           SoundLabels, ClosingLabels
  <2>4. /\ mwMu' = mwMu /\ mwOpcode' = mwOpcode
        /\ InMessage(g)' => InMessage(g)
    BY <1>4, <2>2
       DEF BeginCloseNow, Begin, Goto, TypeOK, InMessage, Shape, FrameLabels,
           SoundLabels, ClosingLabels
  <2>. QED BY <2>1, <2>3, <2>4, ShapeLocal
<1>5. ASSUME NEW g \in Writers, ReceiveClose(g)
      PROVE  ShapeInv'
  <2>1. \A h \in Writers : h # g =>
          /\ pc'[h] = pc[h] /\ call'[h] = call[h] /\ frame'[h] = frame[h]
          /\ failed'[h] = failed[h] /\ early'[h] = early[h]
    BY <1>5 DEF ReceiveClose, Begin, Goto, CloseFrame, TypeOK
  <2>2. Shape(g)
    BY DEF ShapeInv
  <2>3. Shape(g)'
    BY <1>5, <2>2
       DEF ReceiveClose, Begin, Goto, CloseFrame, TypeOK, Shape, InMessage,
           FrameLabels, SoundLabels, ClosingLabels
  <2>4. /\ mwMu' = mwMu /\ mwOpcode' = mwOpcode
        /\ InMessage(g)' => InMessage(g)
    BY <1>5, <2>2
       DEF ReceiveClose, Begin, Goto, CloseFrame, TypeOK, InMessage, Shape,
           FrameLabels, SoundLabels, ClosingLabels
  <2>. QED BY <2>1, <2>3, <2>4, ShapeLocal
<1>6. ASSUME NEW g \in Writers, CtxDone(g)
      PROVE  ShapeInv'
  <2>1. \A h \in Writers : h # g =>
          /\ pc'[h] = pc[h] /\ call'[h] = call[h] /\ frame'[h] = frame[h]
          /\ failed'[h] = failed[h] /\ early'[h] = early[h]
    BY <1>6 DEF CtxDone, TypeOK
  <2>2. Shape(g)
    BY DEF ShapeInv
  <2>3. Shape(g)'
    BY <1>6, <2>2
       DEF CtxDone, TypeOK, Shape, InMessage, FrameLabels, SoundLabels,
           ClosingLabels
  <2>4. /\ mwMu' = mwMu /\ mwOpcode' = mwOpcode
        /\ InMessage(g)' => InMessage(g)
    BY <1>6, <2>2
       DEF CtxDone, TypeOK, InMessage, Shape, FrameLabels, SoundLabels,
           ClosingLabels
  <2>. QED BY <2>1, <2>3, <2>4, ShapeLocal
<1>7. ASSUME NEW g \in Writers, LockMessage(g)
      PROVE  ShapeInv'
  <2>1. \A h \in Writers : h # g =>
          /\ pc'[h] = pc[h] /\ call'[h] = call[h] /\ frame'[h] = frame[h]
          /\ failed'[h] = failed[h] /\ early'[h] = early[h]
    BY <1>7 DEF LockMessage, Goto, TypeOK
  <2>2. Shape(g)
    BY DEF ShapeInv
  <2>3. Shape(g)'
    BY <1>7, <2>2
       DEF LockMessage, Goto, TypeOK, Shape, InMessage, FrameLabels,
           SoundLabels, ClosingLabels
  <2>4. ~mwMu
    BY <1>7 DEF LockMessage, Goto
  <2>. QED BY <2>1, <2>3, <2>4, ShapeLocal
<1>8. ASSUME NEW g \in Writers, WriteFragment(g)
      PROVE  ShapeInv'
  <2>1. \A h \in Writers : h # g =>
          /\ pc'[h] = pc[h] /\ call'[h] = call[h] /\ frame'[h] = frame[h]
          /\ failed'[h] = failed[h] /\ early'[h] = early[h]
    BY <1>8 DEF WriteFragment, Goto, TypeOK
  <2>2. Shape(g)
    BY DEF ShapeInv
  <2>3. Shape(g)'
    BY <1>8, <2>2
       DEF WriteFragment, Goto, TypeOK, Shape, InMessage, FrameLabels,
           SoundLabels, ClosingLabels
  <2>4. /\ mwMu' = mwMu /\ mwOpcode' = mwOpcode
        /\ InMessage(g)' => InMessage(g)
    BY <1>8, <2>2
       DEF WriteFragment, Goto, TypeOK, InMessage, Shape, FrameLabels,
           SoundLabels, ClosingLabels
  <2>. QED BY <2>1, <2>3, <2>4, ShapeLocal
<1>9. ASSUME NEW g \in Writers, CloseMessage(g)
      PROVE  ShapeInv'
  <2>1. \A h \in Writers : h # g =>
          /\ pc'[h] = pc[h] /\ call'[h] = call[h] /\ frame'[h] = frame[h]
          /\ failed'[h] = failed[h] /\ early'[h] = early[h]
    BY <1>9 DEF CloseMessage, Goto, TypeOK
  <2>2. Shape(g)
    BY DEF ShapeInv
  <2>3. Shape(g)'
    BY <1>9, <2>2
       DEF CloseMessage, Goto, TypeOK, Shape, InMessage, FrameLabels,
           SoundLabels, ClosingLabels
  <2>4. /\ mwMu' = mwMu /\ mwOpcode' = mwOpcode
        /\ InMessage(g)' => InMessage(g)
    BY <1>9, <2>2
       DEF CloseMessage, Goto, TypeOK, InMessage, Shape, FrameLabels,
           SoundLabels, ClosingLabels
  <2>. QED BY <2>1, <2>3, <2>4, ShapeLocal
<1>10. ASSUME NEW g \in Writers, Abandon(g)
      PROVE  ShapeInv'
  <2>1. \A h \in Writers : h # g =>
          /\ pc'[h] = pc[h] /\ call'[h] = call[h] /\ frame'[h] = frame[h]
          /\ failed'[h] = failed[h] /\ early'[h] = early[h]
    BY <1>10 DEF Abandon, Goto, TypeOK
  <2>2. Shape(g)
    BY DEF ShapeInv
  <2>3. Shape(g)'
    BY <1>10, <2>2
       DEF Abandon, Goto, TypeOK, Shape, InMessage, FrameLabels, SoundLabels,
           ClosingLabels
  <2>4. /\ mwMu' = mwMu /\ mwOpcode' = mwOpcode
        /\ InMessage(g)' => InMessage(g)
    BY <1>10, <2>2
       DEF Abandon, Goto, TypeOK, InMessage, Shape, FrameLabels, SoundLabels,
           ClosingLabels
  <2>. QED BY <2>1, <2>3, <2>4, ShapeLocal
<1>11. ASSUME NEW g \in Writers, LockWrite(g)
      PROVE  ShapeInv'
  <2>1. \A h \in Writers : h # g =>
          /\ pc'[h] = pc[h] /\ call'[h] = call[h] /\ frame'[h] = frame[h]
          /\ failed'[h] = failed[h] /\ early'[h] = early[h]
    BY <1>11 DEF LockWrite, Goto, TypeOK
  <2>2. Shape(g)
    BY DEF ShapeInv
  <2>3. Shape(g)'
    BY <1>11, <2>2
       DEF LockWrite, Goto, TypeOK, Shape, InMessage, FrameLabels, SoundLabels,
           ClosingLabels
  <2>4. /\ mwMu' = mwMu /\ mwOpcode' = mwOpcode
        /\ InMessage(g)' => InMessage(g)
    BY <1>11, <2>2
       DEF LockWrite, Goto, TypeOK, InMessage, Shape, FrameLabels, SoundLabels,
           ClosingLabels
  <2>. QED BY <2>1, <2>3, <2>4, ShapeLocal
<1>12. ASSUME NEW g \in Writers, LockWriteClosed(g)
      PROVE  ShapeInv'
  <2>1. \A h \in Writers : h # g =>
          /\ pc'[h] = pc[h] /\ call'[h] = call[h] /\ frame'[h] = frame[h]
          /\ failed'[h] = failed[h] /\ early'[h] = early[h]
    BY <1>12 DEF LockWriteClosed, Goto, FailTo, TypeOK
  <2>2. Shape(g)
    BY DEF ShapeInv
  <2>3. Shape(g)'
    BY <1>12, <2>2
       DEF LockWriteClosed, Goto, FailTo, TypeOK, Shape, InMessage,
           FrameLabels, SoundLabels, ClosingLabels
  <2>4. /\ mwMu' = mwMu /\ mwOpcode' = mwOpcode
        /\ InMessage(g)' => InMessage(g)
    BY <1>12, <2>2
       DEF LockWriteClosed, Goto, FailTo, TypeOK, InMessage, Shape,
           FrameLabels, SoundLabels, ClosingLabels
  <2>. QED BY <2>1, <2>3, <2>4, ShapeLocal
<1>13. ASSUME NEW g \in Writers, LockFailed(g)
      PROVE  ShapeInv'
  <2>1. \A h \in Writers : h # g =>
          /\ pc'[h] = pc[h] /\ call'[h] = call[h] /\ frame'[h] = frame[h]
          /\ failed'[h] = failed[h] /\ early'[h] = early[h]
    BY <1>13 DEF LockFailed, Goto, FailTo, TypeOK
  <2>2. Shape(g)
    BY DEF ShapeInv
  <2>3. Shape(g)'
    BY <1>13, <2>2
       DEF LockFailed, Goto, FailTo, TypeOK, Shape, InMessage, FrameLabels,
           SoundLabels, ClosingLabels
  <2>4. /\ mwMu' = mwMu /\ mwOpcode' = mwOpcode
        /\ InMessage(g)' => InMessage(g)
    BY <1>13, <2>2
       DEF LockFailed, Goto, FailTo, TypeOK, InMessage, Shape, FrameLabels,
           SoundLabels, ClosingLabels
  <2>. QED BY <2>1, <2>3, <2>4, ShapeLocal
<1>14. ASSUME NEW g \in Writers, LockFrame(g)
      PROVE  ShapeInv'
  <2>1. \A h \in Writers : h # g =>
          /\ pc'[h] = pc[h] /\ call'[h] = call[h] /\ frame'[h] = frame[h]
          /\ failed'[h] = failed[h] /\ early'[h] = early[h]
    BY <1>14 DEF LockFrame, Goto, TypeOK
  <2>2. Shape(g)
    BY DEF ShapeInv
  <2>3. Shape(g)'
    BY <1>14, <2>2
       DEF LockFrame, Goto, TypeOK, Shape, InMessage, FrameLabels, SoundLabels,
           ClosingLabels
  <2>4. /\ mwMu' = mwMu /\ mwOpcode' = mwOpcode
        /\ InMessage(g)' => InMessage(g)
    BY <1>14, <2>2
       DEF LockFrame, Goto, TypeOK, InMessage, Shape, FrameLabels, SoundLabels,
           ClosingLabels
  <2>. QED BY <2>1, <2>3, <2>4, ShapeLocal
<1>15. ASSUME NEW g \in Writers, CheckSent(g)
      PROVE  ShapeInv'
  <2>1. \A h \in Writers : h # g =>
          /\ pc'[h] = pc[h] /\ call'[h] = call[h] /\ frame'[h] = frame[h]
          /\ failed'[h] = failed[h] /\ early'[h] = early[h]
    BY <1>15 DEF CheckSent, Goto, FailTo, TypeOK
  <2>2. Shape(g)
    BY DEF ShapeInv
  <2>3. Shape(g)'
    BY <1>15, <2>2
       DEF CheckSent, Goto, FailTo, TypeOK, Shape, InMessage, FrameLabels,
           SoundLabels, ClosingLabels
  <2>4. /\ mwMu' = mwMu /\ mwOpcode' = mwOpcode
        /\ InMessage(g)' => InMessage(g)
    BY <1>15, <2>2
       DEF CheckSent, Goto, FailTo, TypeOK, InMessage, Shape, FrameLabels,
           SoundLabels, ClosingLabels
  <2>. QED BY <2>1, <2>3, <2>4, ShapeLocal
<1>16. ASSUME NEW g \in Writers, SendCtx(g)
      PROVE  ShapeInv'
  <2>1. \A h \in Writers : h # g =>
          /\ pc'[h] = pc[h] /\ call'[h] = call[h] /\ frame'[h] = frame[h]
          /\ failed'[h] = failed[h] /\ early'[h] = early[h]
    BY <1>16 DEF SendCtx, Goto, FailTo, TypeOK
  <2>2. Shape(g)
    BY DEF ShapeInv
  <2>3. Shape(g)'
    BY <1>16, <2>2
       DEF SendCtx, Goto, FailTo, TypeOK, Shape, InMessage, FrameLabels,
           SoundLabels, ClosingLabels
  <2>4. /\ mwMu' = mwMu /\ mwOpcode' = mwOpcode
        /\ InMessage(g)' => InMessage(g)
    BY <1>16, <2>2
       DEF SendCtx, Goto, FailTo, TypeOK, InMessage, Shape, FrameLabels,
           SoundLabels, ClosingLabels
  <2>. QED BY <2>1, <2>3, <2>4, ShapeLocal
<1>17. ASSUME NEW g \in Writers, WriteHeader(g)
      PROVE  ShapeInv'
  <2>1. \A h \in Writers : h # g =>
          /\ pc'[h] = pc[h] /\ call'[h] = call[h] /\ frame'[h] = frame[h]
          /\ failed'[h] = failed[h] /\ early'[h] = early[h]
    BY <1>17 DEF WriteHeader, Goto, FailTo, Buffer, TypeOK
  <2>2. Shape(g)
    BY DEF ShapeInv
  <2>3. Shape(g)'
    BY <1>17, <2>2
       DEF WriteHeader, Goto, FailTo, Buffer, TypeOK, Shape, InMessage,
           FrameLabels, SoundLabels, ClosingLabels
  <2>4. /\ mwMu' = mwMu /\ mwOpcode' = mwOpcode
        /\ InMessage(g)' => InMessage(g)
    BY <1>17, <2>2
       DEF WriteHeader, Goto, FailTo, Buffer, TypeOK, InMessage, Shape,
           FrameLabels, SoundLabels, ClosingLabels
  <2>. QED BY <2>1, <2>3, <2>4, ShapeLocal
<1>18. ASSUME NEW g \in Writers, WritePayload(g)
      PROVE  ShapeInv'
  <2>1. \A h \in Writers : h # g =>
          /\ pc'[h] = pc[h] /\ call'[h] = call[h] /\ frame'[h] = frame[h]
          /\ failed'[h] = failed[h] /\ early'[h] = early[h]
    BY <1>18 DEF WritePayload, Goto, Buffer, TypeOK
  <2>2. Shape(g)
    BY DEF ShapeInv
  <2>3. Shape(g)'
    BY <1>18, <2>2
       DEF WritePayload, Goto, Buffer, TypeOK, Shape, InMessage, FrameLabels,
           SoundLabels, ClosingLabels
  <2>4. /\ mwMu' = mwMu /\ mwOpcode' = mwOpcode
        /\ InMessage(g)' => InMessage(g)
    BY <1>18, <2>2
       DEF WritePayload, Goto, Buffer, TypeOK, InMessage, Shape, FrameLabels,
           SoundLabels, ClosingLabels
  <2>. QED BY <2>1, <2>3, <2>4, ShapeLocal
<1>19. ASSUME NEW g \in Writers, CheckFlag(g)
      PROVE  ShapeInv'
  <2>1. \A h \in Writers : h # g =>
          /\ pc'[h] = pc[h] /\ call'[h] = call[h] /\ frame'[h] = frame[h]
          /\ failed'[h] = failed[h] /\ early'[h] = early[h]
    BY <1>19 DEF CheckFlag, Goto, FailTo, TypeOK
  <2>2. Shape(g)
    BY DEF ShapeInv
  <2>3. Shape(g)'
    BY <1>19, <2>2
       DEF CheckFlag, Goto, FailTo, TypeOK, Shape, InMessage, FrameLabels,
           SoundLabels, ClosingLabels
  <2>4. /\ mwMu' = mwMu /\ mwOpcode' = mwOpcode
        /\ InMessage(g)' => InMessage(g)
    BY <1>19, <2>2
       DEF CheckFlag, Goto, FailTo, TypeOK, InMessage, Shape, FrameLabels,
           SoundLabels, ClosingLabels
  <2>. QED BY <2>1, <2>3, <2>4, ShapeLocal
<1>20. ASSUME NEW g \in Writers, Flush(g)
      PROVE  ShapeInv'
  <2>1. \A h \in Writers : h # g =>
          /\ pc'[h] = pc[h] /\ call'[h] = call[h] /\ frame'[h] = frame[h]
          /\ failed'[h] = failed[h] /\ early'[h] = early[h]
    BY <1>20 DEF Flush, Goto, FailTo, TypeOK
  <2>2. Shape(g)
    BY DEF ShapeInv
  <2>3. Shape(g)'
    BY <1>20, <2>2
       DEF Flush, Goto, FailTo, TypeOK, Shape, InMessage, FrameLabels,
           SoundLabels, ClosingLabels
  <2>4. /\ mwMu' = mwMu /\ mwOpcode' = mwOpcode
        /\ InMessage(g)' => InMessage(g)
    BY <1>20, <2>2
       DEF Flush, Goto, FailTo, TypeOK, InMessage, Shape, FrameLabels,
           SoundLabels, ClosingLabels
  <2>. QED BY <2>1, <2>3, <2>4, ShapeLocal
<1>21. ASSUME NEW g \in Writers, Transmit(g)
      PROVE  ShapeInv'
  <2>1. \A h \in Writers : h # g =>
          /\ pc'[h] = pc[h] /\ call'[h] = call[h] /\ frame'[h] = frame[h]
          /\ failed'[h] = failed[h] /\ early'[h] = early[h]
    BY <1>21 DEF Transmit, Goto, FailTo, AfterFlush, AfterSpill, TypeOK
  <2>2. Shape(g)
    BY DEF ShapeInv
  <2>3. Shape(g)'
    BY <1>21, <2>2
       DEF Transmit, Goto, FailTo, AfterFlush, AfterSpill, TypeOK, Shape,
           InMessage, FrameLabels, SoundLabels, ClosingLabels
  <2>4. /\ mwMu' = mwMu /\ mwOpcode' = mwOpcode
        /\ InMessage(g)' => InMessage(g)
    BY <1>21, <2>2
       DEF Transmit, Goto, FailTo, AfterFlush, AfterSpill, TypeOK, InMessage,
           Shape, FrameLabels, SoundLabels, ClosingLabels
  <2>. QED BY <2>1, <2>3, <2>4, ShapeLocal
<1>22. ASSUME NEW g \in Writers, TransmitError(g)
      PROVE  ShapeInv'
  <2>1. \A h \in Writers : h # g =>
          /\ pc'[h] = pc[h] /\ call'[h] = call[h] /\ frame'[h] = frame[h]
          /\ failed'[h] = failed[h] /\ early'[h] = early[h]
    BY <1>22 DEF TransmitError, Goto, FailTo, TypeOK
  <2>2. Shape(g)
    BY DEF ShapeInv
  <2>3. Shape(g)'
    BY <1>22, <2>2
       DEF TransmitError, Goto, FailTo, TypeOK, Shape, InMessage, FrameLabels,
           SoundLabels, ClosingLabels
  <2>4. /\ mwMu' = mwMu /\ mwOpcode' = mwOpcode
        /\ InMessage(g)' => InMessage(g)
    BY <1>22, <2>2
       DEF TransmitError, Goto, FailTo, TypeOK, InMessage, Shape, FrameLabels,
           SoundLabels, ClosingLabels
  <2>. QED BY <2>1, <2>3, <2>4, ShapeLocal
<1>23. ASSUME NEW g \in Writers, MarkSent(g)
      PROVE  ShapeInv'
  <2>1. \A h \in Writers : h # g =>
          /\ pc'[h] = pc[h] /\ call'[h] = call[h] /\ frame'[h] = frame[h]
          /\ failed'[h] = failed[h] /\ early'[h] = early[h]
    BY <1>23 DEF MarkSent, Goto, TypeOK
  <2>2. Shape(g)
    BY DEF ShapeInv
  <2>3. Shape(g)'
    BY <1>23, <2>2
       DEF MarkSent, Goto, TypeOK, Shape, InMessage, FrameLabels, SoundLabels,
           ClosingLabels
  <2>4. /\ mwMu' = mwMu /\ mwOpcode' = mwOpcode
        /\ InMessage(g)' => InMessage(g)
    BY <1>23, <2>2
       DEF MarkSent, Goto, TypeOK, InMessage, Shape, FrameLabels, SoundLabels,
           ClosingLabels
  <2>. QED BY <2>1, <2>3, <2>4, ShapeLocal
<1>24. ASSUME NEW g \in Writers, UnlockEarly(g)
      PROVE  ShapeInv'
  <2>1. \A h \in Writers : h # g =>
          /\ pc'[h] = pc[h] /\ call'[h] = call[h] /\ frame'[h] = frame[h]
          /\ failed'[h] = failed[h] /\ early'[h] = early[h]
    BY <1>24 DEF UnlockEarly, Goto, TypeOK
  <2>2. Shape(g)
    BY DEF ShapeInv
  <2>3. Shape(g)'
    BY <1>24, <2>2
       DEF UnlockEarly, Goto, TypeOK, Shape, InMessage, FrameLabels,
           SoundLabels, ClosingLabels
  <2>4. /\ mwMu' = mwMu /\ mwOpcode' = mwOpcode
        /\ InMessage(g)' => InMessage(g)
    BY <1>24, <2>2
       DEF UnlockEarly, Goto, TypeOK, InMessage, Shape, FrameLabels,
           SoundLabels, ClosingLabels
  <2>. QED BY <2>1, <2>3, <2>4, ShapeLocal
<1>25. ASSUME NEW g \in Writers, ResetCtx(g)
      PROVE  ShapeInv'
  <2>1. \A h \in Writers : h # g =>
          /\ pc'[h] = pc[h] /\ call'[h] = call[h] /\ frame'[h] = frame[h]
          /\ failed'[h] = failed[h] /\ early'[h] = early[h]
    BY <1>25 DEF ResetCtx, Goto, TypeOK
  <2>2. Shape(g)
    BY DEF ShapeInv
  <2>3. Shape(g)'
    BY <1>25, <2>2
       DEF ResetCtx, Goto, TypeOK, Shape, InMessage, FrameLabels, SoundLabels,
           ClosingLabels
  <2>4. /\ mwMu' = mwMu /\ mwOpcode' = mwOpcode
        /\ InMessage(g)' => InMessage(g)
    BY <1>25, <2>2
       DEF ResetCtx, Goto, TypeOK, InMessage, Shape, FrameLabels, SoundLabels,
           ClosingLabels
  <2>. QED BY <2>1, <2>3, <2>4, ShapeLocal
<1>26. ASSUME NEW g \in Writers, UnlockFrame(g)
      PROVE  ShapeInv'
  <2>1. \A h \in Writers : h # g =>
          /\ pc'[h] = pc[h] /\ call'[h] = call[h] /\ frame'[h] = frame[h]
          /\ failed'[h] = failed[h] /\ early'[h] = early[h]
    BY <1>26 DEF UnlockFrame, Goto, TypeOK
  <2>2. Shape(g)
    BY DEF ShapeInv
  <2>3. Shape(g)'
    BY <1>26, <2>2
       DEF UnlockFrame, Goto, TypeOK, Shape, InMessage, FrameLabels,
           SoundLabels, ClosingLabels
  <2>4. /\ mwMu' = mwMu /\ mwOpcode' = mwOpcode
        /\ InMessage(g)' => InMessage(g)
    BY <1>26, <2>2
       DEF UnlockFrame, Goto, TypeOK, InMessage, Shape, FrameLabels,
           SoundLabels, ClosingLabels
  <2>. QED BY <2>1, <2>3, <2>4, ShapeLocal
<1>27. ASSUME NEW g \in Writers, ReturnMessage(g)
      PROVE  ShapeInv'
  <2>1. \A h \in Writers : h # g =>
          /\ pc'[h] = pc[h] /\ call'[h] = call[h] /\ frame'[h] = frame[h]
          /\ failed'[h] = failed[h] /\ early'[h] = early[h]
    BY <1>27 DEF ReturnMessage, Goto, TypeOK
  <2>2. Shape(g)
    BY DEF ShapeInv
  <2>3. Shape(g)'
    BY <1>27, <2>2
       DEF ReturnMessage, Goto, TypeOK, Shape, InMessage, FrameLabels,
           SoundLabels, ClosingLabels
  <2>4. InMessage(g)
    BY <1>27, <2>2 DEF ReturnMessage, Goto, InMessage, Shape
  <2>. QED BY <2>1, <2>3, <2>4, ShapeLocal
<1>28. ASSUME NEW g \in Writers, ReturnFragment(g)
      PROVE  ShapeInv'
  <2>1. \A h \in Writers : h # g =>
          /\ pc'[h] = pc[h] /\ call'[h] = call[h] /\ frame'[h] = frame[h]
          /\ failed'[h] = failed[h] /\ early'[h] = early[h]
    BY <1>28 DEF ReturnFragment, Goto, TypeOK
  <2>2. Shape(g)
    BY DEF ShapeInv
  <2>3. Shape(g)'
    BY <1>28, <2>2
       DEF ReturnFragment, Goto, TypeOK, Shape, InMessage, FrameLabels,
           SoundLabels, ClosingLabels
  <2>4. InMessage(g)
    BY <1>28, <2>2 DEF ReturnFragment, Goto, InMessage, Shape
  <2>. QED BY <2>1, <2>3, <2>4, ShapeLocal
<1>29. ASSUME NEW g \in Writers, ReturnLastFrame(g)
      PROVE  ShapeInv'
  <2>1. \A h \in Writers : h # g =>
          /\ pc'[h] = pc[h] /\ call'[h] = call[h] /\ frame'[h] = frame[h]
          /\ failed'[h] = failed[h] /\ early'[h] = early[h]
    BY <1>29 DEF ReturnLastFrame, Goto, TypeOK
  <2>2. Shape(g)
    BY DEF ShapeInv
  <2>3. Shape(g)'
    BY <1>29, <2>2
       DEF ReturnLastFrame, Goto, TypeOK, Shape, InMessage, FrameLabels,
           SoundLabels, ClosingLabels
  <2>4. InMessage(g)
    BY <1>29, <2>2 DEF ReturnLastFrame, Goto, InMessage, Shape
  <2>. QED BY <2>1, <2>3, <2>4, ShapeLocal
<1>30. ASSUME NEW g \in Writers, ReturnControl(g)
      PROVE  ShapeInv'
  <2>1. \A h \in Writers : h # g =>
          /\ pc'[h] = pc[h] /\ call'[h] = call[h] /\ frame'[h] = frame[h]
          /\ failed'[h] = failed[h] /\ early'[h] = early[h]
    BY <1>30 DEF ReturnControl, Goto, TypeOK
  <2>2. Shape(g)
    BY DEF ShapeInv
  <2>3. Shape(g)'
    BY <1>30, <2>2
       DEF ReturnControl, Goto, TypeOK, Shape, InMessage, FrameLabels,
           SoundLabels, ClosingLabels
  <2>4. /\ mwMu' = mwMu /\ mwOpcode' = mwOpcode
        /\ InMessage(g)' => InMessage(g)
    BY <1>30, <2>2
       DEF ReturnControl, Goto, TypeOK, InMessage, Shape, FrameLabels,
           SoundLabels, ClosingLabels
  <2>. QED BY <2>1, <2>3, <2>4, ShapeLocal
<1>31. ASSUME NEW g \in Writers, ReturnClose(g)
      PROVE  ShapeInv'
  <2>1. \A h \in Writers : h # g =>
          /\ pc'[h] = pc[h] /\ call'[h] = call[h] /\ frame'[h] = frame[h]
          /\ failed'[h] = failed[h] /\ early'[h] = early[h]
    BY <1>31 DEF ReturnClose, Goto, TypeOK
  <2>2. Shape(g)
    BY DEF ShapeInv
  <2>3. Shape(g)'
    BY <1>31, <2>2
       DEF ReturnClose, Goto, TypeOK, Shape, InMessage, FrameLabels,
           SoundLabels, ClosingLabels
  <2>4. /\ mwMu' = mwMu /\ mwOpcode' = mwOpcode
        /\ InMessage(g)' => InMessage(g)
    BY <1>31, <2>2
       DEF ReturnClose, Goto, TypeOK, InMessage, Shape, FrameLabels,
           SoundLabels, ClosingLabels
  <2>. QED BY <2>1, <2>3, <2>4, ShapeLocal
<1>32. ASSUME NEW g \in Procs, CloseFlag(g)
      PROVE  ShapeInv'
  <2>1. CASE g = TimeoutLoop
    BY <1>32, <2>1, ShapeSame DEF CloseFlag, Goto
  <2>2. CASE g \in Writers
    <3>1. \A h \in Writers : h # g =>
            /\ pc'[h] = pc[h] /\ call'[h] = call[h] /\ frame'[h] = frame[h]
            /\ failed'[h] = failed[h] /\ early'[h] = early[h]
      BY <1>32, <2>2 DEF CloseFlag, Goto, TypeOK
    <3>2. Shape(g)
      BY <2>2 DEF ShapeInv
    <3>3. Shape(g)'
      BY <1>32, <3>2, <2>2
         DEF CloseFlag, Goto, TypeOK, Shape, InMessage, FrameLabels,
             SoundLabels, ClosingLabels
    <3>4. /\ mwMu' = mwMu /\ mwOpcode' = mwOpcode
          /\ InMessage(g)' => InMessage(g)
      BY <1>32, <3>2, <2>2
         DEF CloseFlag, Goto, TypeOK, InMessage, Shape, FrameLabels,
             SoundLabels, ClosingLabels
    <3>. QED BY <3>1, <3>3, <3>4, <2>2, ShapeLocal
  <2>. QED BY <1>32, <2>1, <2>2
<1>33. ASSUME NEW g \in Procs, CloseChan(g)
      PROVE  ShapeInv'
  <2>1. CASE g = TimeoutLoop
    BY <1>33, <2>1, ShapeSame DEF CloseChan, Goto
  <2>2. CASE g \in Writers
    <3>1. \A h \in Writers : h # g =>
            /\ pc'[h] = pc[h] /\ call'[h] = call[h] /\ frame'[h] = frame[h]
            /\ failed'[h] = failed[h] /\ early'[h] = early[h]
      BY <1>33, <2>2 DEF CloseChan, Goto, TypeOK
    <3>2. Shape(g)
      BY <2>2 DEF ShapeInv
    <3>3. Shape(g)'
      BY <1>33, <3>2, <2>2
         DEF CloseChan, Goto, TypeOK, Shape, InMessage, FrameLabels,
             SoundLabels, ClosingLabels
    <3>4. /\ mwMu' = mwMu /\ mwOpcode' = mwOpcode
          /\ InMessage(g)' => InMessage(g)
      BY <1>33, <3>2, <2>2
         DEF CloseChan, Goto, TypeOK, InMessage, Shape, FrameLabels,
             SoundLabels, ClosingLabels
    <3>. QED BY <3>1, <3>3, <3>4, <2>2, ShapeLocal
  <2>. QED BY <1>33, <2>1, <2>2
<1>34. ASSUME NEW g \in Procs, PutBuffer(g)
      PROVE  ShapeInv'
  <2>1. CASE g = TimeoutLoop
    BY <1>34, <2>1, ShapeSame DEF PutBuffer, Goto
  <2>2. CASE g \in Writers
    <3>1. \A h \in Writers : h # g =>
            /\ pc'[h] = pc[h] /\ call'[h] = call[h] /\ frame'[h] = frame[h]
            /\ failed'[h] = failed[h] /\ early'[h] = early[h]
      BY <1>34, <2>2 DEF PutBuffer, Goto, TypeOK
    <3>2. Shape(g)
      BY <2>2 DEF ShapeInv
    <3>3. Shape(g)'
      BY <1>34, <3>2, <2>2
         DEF PutBuffer, Goto, TypeOK, Shape, InMessage, FrameLabels,
             SoundLabels, ClosingLabels
    <3>4. /\ mwMu' = mwMu /\ mwOpcode' = mwOpcode
          /\ InMessage(g)' => InMessage(g)
      BY <1>34, <3>2, <2>2
         DEF PutBuffer, Goto, TypeOK, InMessage, Shape, FrameLabels,
             SoundLabels, ClosingLabels
    <3>. QED BY <3>1, <3>3, <3>4, <2>2, ShapeLocal
  <2>. QED BY <1>34, <2>1, <2>2
<1>35. ASSUME NEW g \in Procs, CloseTransport(g)
      PROVE  ShapeInv'
  <2>1. CASE g = TimeoutLoop
    BY <1>35, <2>1, ShapeSame DEF CloseTransport, Goto
  <2>2. CASE g \in Writers
    <3>1. \A h \in Writers : h # g =>
            /\ pc'[h] = pc[h] /\ call'[h] = call[h] /\ frame'[h] = frame[h]
            /\ failed'[h] = failed[h] /\ early'[h] = early[h]
      BY <1>35, <2>2 DEF CloseTransport, Goto, TypeOK
    <3>2. Shape(g)
      BY <2>2 DEF ShapeInv
    <3>3. Shape(g)'
      BY <1>35, <3>2, <2>2
         DEF CloseTransport, Goto, TypeOK, Shape, InMessage, FrameLabels,
             SoundLabels, ClosingLabels
    <3>4. /\ mwMu' = mwMu /\ mwOpcode' = mwOpcode
          /\ InMessage(g)' => InMessage(g)
      BY <1>35, <3>2, <2>2
         DEF CloseTransport, Goto, TypeOK, InMessage, Shape, FrameLabels,
             SoundLabels, ClosingLabels
    <3>. QED BY <3>1, <3>3, <3>4, <2>2, ShapeLocal
  <2>. QED BY <1>35, <2>1, <2>2
<1>36. ASSUME NEW g \in Procs, CloseWriter(g)
      PROVE  ShapeInv'
  <2>1. CASE g = TimeoutLoop
    BY <1>36, <2>1, ShapeSame DEF CloseWriter, Goto, Resume
  <2>2. CASE g \in Writers
    <3>1. \A h \in Writers : h # g =>
            /\ pc'[h] = pc[h] /\ call'[h] = call[h] /\ frame'[h] = frame[h]
            /\ failed'[h] = failed[h] /\ early'[h] = early[h]
      BY <1>36, <2>2 DEF CloseWriter, Goto, Resume, TypeOK
    <3>2. Shape(g)
      BY <2>2 DEF ShapeInv
    <3>3. Shape(g)'
      BY <1>36, <3>2, <2>2
         DEF CloseWriter, Goto, Resume, TypeOK, Shape, InMessage, FrameLabels,
             SoundLabels, ClosingLabels
    <3>4. /\ mwMu' = mwMu /\ mwOpcode' = mwOpcode
          /\ InMessage(g)' => InMessage(g)
      BY <1>36, <3>2, <2>2
         DEF CloseWriter, Goto, Resume, TypeOK, InMessage, Shape, FrameLabels,
             SoundLabels, ClosingLabels
    <3>. QED BY <3>1, <3>3, <3>4, <2>2, ShapeLocal
  <2>. QED BY <1>36, <2>1, <2>2
<1>37. ASSUME NEW g \in Procs, CloseAgain(g)
      PROVE  ShapeInv'
  <2>1. CASE g = TimeoutLoop
    BY <1>37, <2>1, ShapeSame DEF CloseAgain, Goto, Resume
  <2>2. CASE g \in Writers
    <3>1. \A h \in Writers : h # g =>
            /\ pc'[h] = pc[h] /\ call'[h] = call[h] /\ frame'[h] = frame[h]
            /\ failed'[h] = failed[h] /\ early'[h] = early[h]
      BY <1>37, <2>2 DEF CloseAgain, Goto, Resume, TypeOK
    <3>2. Shape(g)
      BY <2>2 DEF ShapeInv
    <3>3. Shape(g)'
      BY <1>37, <3>2, <2>2
         DEF CloseAgain, Goto, Resume, TypeOK, Shape, InMessage, FrameLabels,
             SoundLabels, ClosingLabels
    <3>4. /\ mwMu' = mwMu /\ mwOpcode' = mwOpcode
          /\ InMessage(g)' => InMessage(g)
      BY <1>37, <3>2, <2>2
         DEF CloseAgain, Goto, Resume, TypeOK, InMessage, Shape, FrameLabels,
             SoundLabels, ClosingLabels
    <3>. QED BY <3>1, <3>3, <3>4, <2>2, ShapeLocal
  <2>. QED BY <1>37, <2>1, <2>2
<1>38. CASE TimeoutExpired
  BY <1>38, ShapeSame DEF TimeoutExpired, Goto
<1>39. CASE TimeoutLoopExits
  BY <1>39, ShapeSame DEF TimeoutLoopExits, Goto
<1>40. CASE UNCHANGED vars
  BY <1>40, ShapeSame DEF vars
<1>. QED
  BY <1>1, <1>2, <1>3, <1>4, <1>5, <1>6, <1>7, <1>8, <1>9, <1>10, <1>11,
     <1>12, <1>13, <1>14, <1>15, <1>16, <1>17, <1>18, <1>19, <1>20,
     <1>21, <1>22, <1>23, <1>24, <1>25, <1>26, <1>27, <1>28, <1>29,
     <1>30, <1>31, <1>32, <1>33, <1>34, <1>35, <1>36, <1>37, <1>38,
     <1>39, <1>40
     DEF Next, Start, Message, WriteFrame, Return, Close, Terminated

-----------------------------------------------------------------------------
(* How the steps keep the order of the frames. *)

(* The buffer takes units.                                                  *)
Writable == ~bwErr /\ ~closedFlag

(* A step of g changes nothing of the other goroutines.                      *)
OthersStay(g) ==
    \A h \in Writers : h # g =>
        /\ pc'[h] = pc[h] /\ call'[h] = call[h] /\ frame'[h] = frame[h]
        /\ failed'[h] = failed[h]

(* It adds nothing to the buffer, and moves it on only while transmitting.   *)
BufferStays ==
    /\ out' = out
    /\ sent' = sent \/ (Transmitting /\ sent' \in 0..Len(out))

(* Nobody begins to transmit once the connection is being closed.            *)
TransmitOpen(g) ==
    /\ Writable' => Writable
    /\ pc'[g] \in {"spilling", "flushing"} => pc'[g] = pc[g] \/ Writable

(* What g knows of its message stays, or it gets the message, or leaves it.  *)
MessageStays(g) ==
    \/ /\ mwMu' = mwMu /\ mwOpcode' = mwOpcode
       /\ Writable' /\ InMessage(g)' =>
             InMessage(g) /\ (Begun(g)' <=> Begun(g))
    \/ /\ InMessage(g) /\ mwMu' = mwMu
       /\ Writable' => (Begun(g)' <=> Begun(g))
    \/ ~mwMu /\ mwMu' /\ ~Begun(g)'
    \/ /\ InMessage(g) /\ ~InMessage(g)'
       /\ mwMu' = mwMu \/ (Writable => ~Begun(g))

(* A step of one goroutine that adds nothing to the buffer keeps OrderInv if *)
(* msgWriter knows as before how far the message is, and if nobody begins    *)
(* to transmit once the connection is being closed.                          *)
LEMMA OrderLocal ==
    ASSUME TypeOK, ShapeInv, OrderInv, NEW g \in Writers, OthersStay(g),
           BufferStays, TransmitOpen(g), MessageStays(g)
    PROVE  OrderInv'
<1>. USE DEF OthersStay, BufferStays, TransmitOpen, MessageStays
<1>1. Len(out) \in Nat
  BY DEF TypeOK
<1>2. InOrder(out', sent')
  <2>1. CASE sent' = sent
    BY <2>1 DEF OrderInv
  <2>2. CASE Transmitting /\ sent' \in 0..Len(out)
    <3>1. InOrder(out, Len(out))
      BY <2>2 DEF OrderInv
    <3>. QED BY <1>1, <2>2, <3>1, OrderLess
  <2>. QED BY <2>1, <2>2
<1>3. Transmitting' => InOrder(out', Len(out'))
  <2>1. Transmitting' => Transmitting \/ Writable
    BY DEF Transmitting
  <2>. QED BY <2>1 DEF OrderInv, Writable
<1>4. AllFrames' = AllFrames
  BY DEF AllFrames
<1>5. ASSUME NEW h \in Writers, h # g, InMessage(h)'
      PROVE  InMessage(h) /\ mwMu /\ ~InMessage(g)
  <2>1. InMessage(h)
    BY <1>5 DEF InMessage, MessageCall
  <2>. QED BY <1>5, <2>1 DEF ShapeInv, Shape
<1>6. ASSUME NEW h \in Writers, h # g, mwOpcode' = mwOpcode
      PROVE  Begun(h)' <=> Begun(h)
  <2>1. PayloadIn(h)' <=> PayloadIn(h)
    BY <1>6 DEF PayloadIn, PayloadLabels, SpillLabels
  <2>. QED BY <1>6, <2>1 DEF Begun
<1>7. ASSUME Writable', NEW h \in Writers, h # g, InMessage(h)'
      PROVE  InMessage(h) /\ mwOpcode' = mwOpcode
  BY <1>5, <1>7
<1>8. ASSUME Writable'
      PROVE  /\ InOrder(out', Len(out'))
             /\ Stream!NoMessage(AllFrames)' \/ mwMu'
             /\ \A h \in Writers : InMessage(h)' =>
                   IF Begun(h)' THEN Stream!MessageOf(AllFrames, h)'
                               ELSE Stream!NoMessage(AllFrames)'
  <2>1. /\ InOrder(out, Len(out))
        /\ Stream!NoMessage(AllFrames) \/ mwMu
        /\ \A h \in Writers : InMessage(h) =>
              IF Begun(h) THEN Stream!MessageOf(AllFrames, h)
                          ELSE Stream!NoMessage(AllFrames)
    BY <1>8 DEF OrderInv, Writable
  <2>2. Stream!NoMessage(AllFrames)' <=> Stream!NoMessage(AllFrames)
    BY <1>4 DEF Stream!NoMessage, Stream!LastData, Stream!Data, Stream!IsData
  <2>3. \A h \in Writers :
           Stream!MessageOf(AllFrames, h)' <=> Stream!MessageOf(AllFrames, h)
    BY <1>4 DEF Stream!MessageOf, Stream!LastData, Stream!Data, Stream!IsData
  <2>4. Stream!NoMessage(AllFrames)' \/ mwMu'
    BY <1>8, <2>1, <2>2
  <2>5. ASSUME NEW h \in Writers, InMessage(h)'
        PROVE  IF Begun(h)' THEN Stream!MessageOf(AllFrames, h)
                            ELSE Stream!NoMessage(AllFrames)
    <3>1. CASE h = g
      BY <1>8, <2>1, <2>5, <3>1
    <3>2. CASE h # g
      BY <1>6, <1>7, <1>8, <2>1, <2>5, <3>2
    <3>. QED BY <3>1, <3>2
  <2>. QED BY <2>1, <2>2, <2>3, <2>4, <2>5
<1>. QED BY <1>2, <1>3, <1>8 DEF OrderInv, Writable

(* A goroutine that is not a writer transmits nothing.                       *)
LEMMA OrderIdle ==
    ASSUME OrderInv, UNCHANGED <<call, frame, failed, mwMu, mwOpcode, out, sent>>,
           Writable' => Writable, \A h \in Writers : pc'[h] = pc[h]
    PROVE  OrderInv'
<1>1. \A h \in Writers : /\ InMessage(h)' <=> InMessage(h)
                         /\ Begun(h)' <=> Begun(h)
  BY DEF InMessage, MessageCall, Begun, PayloadIn
<1>2. AllFrames' = AllFrames
  BY DEF AllFrames
<1>3. Transmitting' <=> Transmitting
  BY DEF Transmitting
<1>4. Stream!NoMessage(AllFrames)' <=> Stream!NoMessage(AllFrames)
  BY <1>2 DEF Stream!NoMessage, Stream!LastData, Stream!Data, Stream!IsData
<1>5. \A h \in Writers :
         Stream!MessageOf(AllFrames, h)' <=> Stream!MessageOf(AllFrames, h)
  BY <1>2 DEF Stream!MessageOf, Stream!LastData, Stream!Data, Stream!IsData
<1>. QED BY <1>1, <1>3, <1>4, <1>5 DEF OrderInv, Writable

(* A header that enters the buffer completes no frame.                       *)
LEMMA WriteHeaderOrder ==
    ASSUME TypeOK, WriterInv, BufferInv, ShapeInv, OrderInv,
           NEW g \in Writers, WriteHeader(g)
    PROVE  OrderInv'
<1>. USE ProcsAssumption DEF Procs
<1>0. Shape(g)
  BY DEF ShapeInv
<1>1. CASE bwErr
  <2>1. OthersStay(g) /\ BufferStays
    BY <1>1 DEF WriteHeader, Goto, FailTo, TypeOK, OthersStay, BufferStays
  <2>2. TransmitOpen(g) /\ MessageStays(g)
    BY <1>1 DEF WriteHeader, Goto, FailTo, TypeOK, Writable, TransmitOpen,
                MessageStays
  <2>. QED BY <2>1, <2>2, OrderLocal
<1>2. CASE ~bwErr
  <2> DEFINE u == Unit(g, "header")
  <2>1. u \in Units /\ out' = Append(out, u)
    BY <1>2 DEF WriteHeader, Buffer, Unit, Units, TypeOK
  <2>2. /\ Len(out) \in Nat /\ Len(out') = Len(out) + 1
        /\ out'[Len(out')] = u
        /\ \A i \in 1..Len(out) : out'[i] = out[i] /\ out[i] \in Units
    BY <2>1, AppendUnit
  <2>3. /\ pc[g] = "header" /\ pc'[g] \in {"payload", "spill"}
        /\ \A h \in Writers : h # g => pc'[h] = pc[h]
        /\ UNCHANGED <<call, frame, failed, mwMu, mwOpcode, sent, bwErr,
                       closedFlag>>
    BY <1>2 DEF WriteHeader, Buffer, Goto, TypeOK
  <2>4. \A h \in Writers : h # g => pc[h] \notin InFrame
    BY <2>3 DEF WriterInv, Sender, Writing, InFrame, SpillLabels, PayloadLabels
  <2>5. PICK k \in Nat : Len(out) = 2*k
    <3>1. CASE Buffered
      <4>1. out[Len(out)].part = "payload"
        <5>1. out[Len(out)].part # "header"
          BY <1>2, <2>3, <2>4, <3>1
             DEF BufferInv, InFrame, SpillLabels, PayloadLabels
        <5>2. out[Len(out)] \in Units
          BY <2>2, <3>1 DEF Buffered
        <5>. QED BY <5>1, <5>2 DEF Units
      <4>. QED BY <3>1, <4>1, LastUnit DEF BufferInv, Buffered
    <3>2. CASE ~Buffered
      <4>1. Len(out) = 2*0
        BY <2>2, <3>2 DEF Buffered
      <4>. QED BY <4>1
    <3>. QED BY <3>1, <3>2
  <2>6. AllFrames' = AllFrames
    <3>1. WholeFrames(out', 2*k + 1) = WholeFrames(out', 2*k)
      BY <2>5, HeaderFrames
    <3>2. WholeFrames(out', 2*k) = WholeFrames(out, 2*k)
      BY <2>2, <2>5, SameFrames
    <3>. QED BY <2>2, <2>5, <3>1, <3>2 DEF AllFrames
  <2>7. ASSUME InOrder(out, Len(out)) PROVE InOrder(out', Len(out'))
    <3>1. InOrder(out', 2*k)
      BY <2>2, <2>5, <2>7, OrderSame
    <3>. QED BY <2>2, <2>5, <3>1, OrderHeader
  <2>8. InOrder(out', sent')
    <3>1. sent \in Nat /\ \A i \in 1..sent : out'[i] = out[i]
      BY <2>2 DEF TypeOK
    <3>. QED BY <2>3, <3>1, OrderSame DEF OrderInv
  <2>9. ~Transmitting'
    BY <2>3, <2>4 DEF Transmitting, InFrame, SpillLabels, PayloadLabels
  <2>10. ASSUME NEW h \in Writers, InMessage(h)'
         PROVE  InMessage(h) /\ (Begun(h)' <=> Begun(h))
    <3>1. CASE h = g
      BY <2>2, <2>3, <2>10, <3>1
         DEF InMessage, MessageCall, Begun, PayloadIn, PayloadLabels,
             SpillLabels, Unit
    <3>2. CASE h # g
      BY <2>3, <2>4, <2>10, <3>2
         DEF InMessage, MessageCall, Begun, PayloadIn, InFrame, PayloadLabels,
             SpillLabels
    <3>. QED BY <3>1, <3>2
  <2>11. /\ Stream!NoMessage(AllFrames)' <=> Stream!NoMessage(AllFrames)
         /\ \A h \in Writers :
              Stream!MessageOf(AllFrames, h)' <=> Stream!MessageOf(AllFrames, h)
    BY <2>6 DEF Stream!NoMessage, Stream!MessageOf, Stream!LastData,
                Stream!Data, Stream!IsData
  <2>. QED
    BY <2>3, <2>7, <2>8, <2>9, <2>10, <2>11 DEF OrderInv
<1>. QED BY <1>1, <1>2

(* A payload that enters the buffer completes a frame that may follow.       *)
LEMMA WritePayloadOrder ==
    ASSUME TypeOK, WriterInv, BufferInv, ShapeInv, OrderInv,
           "repeatClose" \notin Calls, NEW g \in Writers, WritePayload(g)
    PROVE  OrderInv'
<1>. USE ProcsAssumption DEF Procs
<1> DEFINE u == Unit(g, "payload")
<1>1. u \in Units /\ out' = Append(out, u)
  BY DEF WritePayload, Buffer, Unit, Units, TypeOK
<1>2. /\ Len(out) \in Nat /\ Len(out') = Len(out) + 1
      /\ out'[Len(out')] = u
      /\ \A i \in 1..Len(out) : out'[i] = out[i] /\ out[i] \in Units
  BY <1>1, AppendUnit
<1>3. /\ pc[g] = "payload" /\ pc'[g] \in {"written", "spill"}
      /\ \A h \in Writers : h # g => pc'[h] = pc[h]
      /\ UNCHANGED <<call, frame, failed, mwMu, mwOpcode, sent, bwErr,
                     closedFlag>>
  BY DEF WritePayload, Buffer, Goto, TypeOK
<1>4. \A h \in Writers : h # g => pc[h] \notin InFrame
  BY <1>3 DEF WriterInv, Sender, Writing, InFrame, SpillLabels, PayloadLabels
<1>5. PICK k \in Nat \ {0} : Len(out) = 2*k - 1 /\ Len(out') = 2*k
  <2>1. out[Len(out)].part = "header" /\ Buffered
    <3>1. out[Len(out)] = Unit(g, "header") /\ Buffered
      BY <1>3 DEF BufferInv, InFrame
    <3>. QED BY <3>1 DEF Unit
  <2>2. PICK j \in Nat : Len(out) = 2*j + 1
    BY <2>1, LastUnit DEF BufferInv, Buffered
  <2>3. j + 1 \in Nat \ {0} /\ Len(out) = 2*(j+1) - 1 /\ Len(out') = 2*(j+1)
    BY <1>2, <2>2
  <2>. QED BY <2>3
<1>6. InOrder(out', sent')
  <2>1. sent \in Nat /\ \A i \in 1..sent : out'[i] = out[i]
    BY <1>2 DEF TypeOK
  <2>. QED BY <1>3, <2>1, OrderSame DEF OrderInv
<1>7. ~Transmitting'
  BY <1>3, <1>4 DEF Transmitting, InFrame, SpillLabels, PayloadLabels
<1>8. AllFrames' = Append(AllFrames, u)
  <2>1. WholeFrames(out', 2*k) = Append(WholeFrames(out', 2*k - 1), out'[2*k])
    BY <1>5, PayloadFrames
  <2>2. WholeFrames(out', 2*k - 1) = WholeFrames(out, 2*k - 1)
    BY <1>2, <1>5, SameFrames
  <2>. QED BY <1>2, <1>5, <2>1, <2>2 DEF AllFrames
<1>9. /\ InMessage(g) => /\ mwMu /\ frame[g].op = mwOpcode
                         /\ Begun(g) <=> mwOpcode = "continuation"
                         /\ Begun(g)' <=> ~frame[g].fin
      /\ ~InMessage(g) => frame[g].op \in {"control", "close"}
  <2>1. Shape(g)
    BY DEF ShapeInv
  <2>2. ~PayloadIn(g)
    BY <1>3 DEF PayloadIn, PayloadLabels, SpillLabels
  <2>3. u.part = "payload" /\ ~failed[g]
    BY <1>3, <2>1 DEF Unit, Shape, SoundLabels
  <2>4. PayloadIn(g)'
    BY <1>2, <1>3, <2>3 DEF PayloadIn, PayloadLabels, SpillLabels
  <2>5. InMessage(g) => mwMu /\ frame[g].op = mwOpcode
    BY <1>3, <2>1 DEF Shape, FrameLabels
  <2>6. ~InMessage(g) => frame[g].op \in {"control", "close"}
    <3>1. call[g] \in CallKinds /\ call[g] # "repeatClose" /\ call[g] # "closeNow"
      BY <1>3, <2>1, CallsAssumption
         DEF Shape, ClosingLabels, TypeOK
    <3>. QED BY <1>3, <2>1, <3>1
            DEF Shape, InMessage, MessageCall, ControlCall, CallKinds
  <2>. QED BY <1>3, <2>2, <2>4, <2>5, <2>6 DEF Begun
<1>10. /\ Stream!IsData(u) <=> InMessage(g)
       /\ u.writer = g /\ u.frame = frame[g]
  <2>1. InMessage(g) => mwOpcode \in {"data", "continuation"}
    BY DEF TypeOK
  <2>. QED BY <1>9, <2>1 DEF Unit, Stream!IsData
<1>11. AllFrames \in Seq({out[2*i] : i \in 1..Len(out) \div 2})
  BY <1>2, FramesSeq DEF AllFrames
<1>12. ASSUME NEW w
       PROVE  /\ InMessage(g) =>
                    /\ Stream!NoMessage(Append(AllFrames, u)) <=> frame[g].fin
                    /\ Stream!MessageOf(Append(AllFrames, u), w) <=>
                          ~frame[g].fin /\ w = g
              /\ ~InMessage(g) =>
                    /\ Stream!NoMessage(Append(AllFrames, u)) <=>
                          Stream!NoMessage(AllFrames)
                    /\ Stream!MessageOf(Append(AllFrames, u), w) <=>
                          Stream!MessageOf(AllFrames, w)
  <2> HIDE DEF u
  <2>. QED BY <1>10, <1>11, AppendFrame
<1>. HIDE DEF u
<1>13. Stream!NoMessage(AllFrames)' <=> Stream!NoMessage(Append(AllFrames, u))
  BY <1>8 DEF Stream!NoMessage, Stream!LastData, Stream!Data, Stream!IsData
<1>14. \A w : Stream!MessageOf(AllFrames, w)' <=>
                 Stream!MessageOf(Append(AllFrames, u), w)
  BY <1>8 DEF Stream!MessageOf, Stream!LastData, Stream!Data, Stream!IsData
<1>15. ASSUME bwErr = FALSE, closedFlag = FALSE
       PROVE  /\ InOrder(out', Len(out'))
              /\ Stream!NoMessage(AllFrames)' \/ mwMu'
              /\ \A h \in Writers : InMessage(h)' =>
                    IF Begun(h)' THEN Stream!MessageOf(AllFrames, h)'
                                ELSE Stream!NoMessage(AllFrames)'
  <2>1. /\ InOrder(out, Len(out))
        /\ Stream!NoMessage(AllFrames) \/ mwMu
        /\ \A h \in Writers : InMessage(h) =>
              IF Begun(h) THEN Stream!MessageOf(AllFrames, h)
                          ELSE Stream!NoMessage(AllFrames)
    BY <1>15 DEF OrderInv
  <2>2. DataOrder(AllFrames, u)
    <3>1. CASE InMessage(g)
      BY <1>9, <1>10, <2>1, <3>1 DEF DataOrder
    <3>2. CASE ~InMessage(g)
      BY <1>9, <1>10, <3>2 DEF DataOrder
    <3>. QED BY <3>1, <3>2
  <2>3. InOrder(out', Len(out'))
    <3>1. WholeFrames(out', 2*k - 1) = AllFrames
      BY <1>2, <1>5, SameFrames DEF AllFrames
    <3>2. InOrder(out', 2*k - 1)
      BY <1>2, <1>5, <2>1, OrderSame
    <3>3. out'[2*k] = u
      BY <1>2, <1>5 DEF u
    <3>. QED BY <1>5, <2>2, <3>1, <3>2, <3>3, OrderPayload
  <2>4. CASE InMessage(g)
    <3>1. mwMu'
      BY <1>3, <1>9, <2>4
    <3>2. ASSUME NEW h \in Writers, InMessage(h)'
          PROVE  IF Begun(h)' THEN Stream!MessageOf(AllFrames, h)'
                              ELSE Stream!NoMessage(AllFrames)'
      <4>1. h = g
        BY <1>3, <2>4, <3>2 DEF ShapeInv, InMessage, MessageCall
      <4>. QED BY <1>9, <1>12, <1>13, <1>14, <2>4, <4>1
    <3>. QED BY <2>3, <3>1, <3>2
  <2>5. CASE ~InMessage(g)
    <3>1. Stream!NoMessage(AllFrames)' \/ mwMu'
      BY <1>3, <1>12, <1>13, <2>1, <2>5
    <3>2. ASSUME NEW h \in Writers, InMessage(h)'
          PROVE  IF Begun(h)' THEN Stream!MessageOf(AllFrames, h)'
                              ELSE Stream!NoMessage(AllFrames)'
      <4>1. h # g /\ InMessage(h)
        BY <1>3, <2>5, <3>2 DEF InMessage, MessageCall
      <4>2. Begun(h)' <=> Begun(h)
        BY <1>3, <1>4, <4>1 DEF Begun, PayloadIn, InFrame, PayloadLabels,
                                SpillLabels
      <4>. QED BY <1>12, <1>13, <1>14, <2>1, <2>5, <4>1, <4>2
    <3>. QED BY <2>3, <3>1, <3>2
  <2>. QED BY <2>4, <2>5
<1>16. ~bwErr' /\ ~closedFlag' => bwErr = FALSE /\ closedFlag = FALSE
  BY <1>3 DEF TypeOK
<1>. QED BY <1>6, <1>7, <1>15, <1>16 DEF OrderInv

(* Every step of a client keeps its frames in order.                        *)
LEMMA OrderStep ==
    ASSUME Client, "repeatClose" \notin Calls
    PROVE  TypeOK /\ WriterInv /\ FrameInv /\ BufferInv /\ ShapeInv /\ OrderInv
             /\ [Next]_vars => OrderInv'
<1>. SUFFICES ASSUME TypeOK, WriterInv, FrameInv, BufferInv, ShapeInv, OrderInv,
                     [Next]_vars
              PROVE OrderInv'
  BY Zenon
<1>. USE ProcsAssumption DEF Procs, MessageCall, ControlCall
<1>1. ASSUME NEW g \in Writers, NEW kind \in CallKinds, BeginMessage(g, kind)
      PROVE  OrderInv'
  <2>1. OthersStay(g) /\ BufferStays
    BY <1>1 DEF BeginMessage, Begin, Goto, TypeOK, OthersStay, BufferStays
  <2>2. Shape(g)
    BY DEF ShapeInv
  <2>3. TransmitOpen(g)
    BY <1>1 DEF BeginMessage, Begin, Goto, TypeOK, TransmitOpen, Writable
  <2>4. MessageStays(g)
    BY <1>1, <2>2
       DEF BeginMessage, Begin, Goto, MessageStays, TypeOK, Shape, InMessage,
           Begun, PayloadIn, PayloadLabels, SpillLabels, FrameLabels,
           SoundLabels, ClosingLabels, Writable
  <2>. QED BY <2>1, <2>3, <2>4, OrderLocal
<1>2. ASSUME NEW g \in Writers, NEW kind \in CallKinds, BeginControl(g, kind)
      PROVE  OrderInv'
  <2>1. OthersStay(g) /\ BufferStays
    BY <1>2
       DEF BeginControl, Begin, Goto, CloseFrame, TypeOK, OthersStay,
           BufferStays
  <2>2. Shape(g)
    BY DEF ShapeInv
  <2>3. TransmitOpen(g)
    BY <1>2
       DEF BeginControl, Begin, Goto, CloseFrame, TypeOK, TransmitOpen,
           Writable
  <2>4. MessageStays(g)
    BY <1>2, <2>2
       DEF BeginControl, Begin, Goto, CloseFrame, MessageStays, TypeOK, Shape,
           InMessage, Begun, PayloadIn, PayloadLabels, SpillLabels,
           FrameLabels, SoundLabels, ClosingLabels, Writable
  <2>. QED BY <2>1, <2>3, <2>4, OrderLocal
<1>3. ASSUME NEW g \in Writers, BeginRepeatClose(g)
      PROVE  OrderInv'
  BY <1>3 DEF BeginRepeatClose, Begin
<1>4. ASSUME NEW g \in Writers, BeginCloseNow(g)
      PROVE  OrderInv'
  <2>1. OthersStay(g) /\ BufferStays
    BY <1>4 DEF BeginCloseNow, Begin, Goto, TypeOK, OthersStay, BufferStays
  <2>2. Shape(g)
    BY DEF ShapeInv
  <2>3. TransmitOpen(g)
    BY <1>4 DEF BeginCloseNow, Begin, Goto, TypeOK, TransmitOpen, Writable
  <2>4. MessageStays(g)
    BY <1>4, <2>2
       DEF BeginCloseNow, Begin, Goto, MessageStays, TypeOK, Shape, InMessage,
           Begun, PayloadIn, PayloadLabels, SpillLabels, FrameLabels,
           SoundLabels, ClosingLabels, Writable
  <2>. QED BY <2>1, <2>3, <2>4, OrderLocal
<1>5. ASSUME NEW g \in Writers, ReceiveClose(g)
      PROVE  OrderInv'
  <2>1. OthersStay(g) /\ BufferStays
    BY <1>5
       DEF ReceiveClose, Begin, Goto, CloseFrame, TypeOK, OthersStay,
           BufferStays
  <2>2. Shape(g)
    BY DEF ShapeInv
  <2>3. TransmitOpen(g)
    BY <1>5
       DEF ReceiveClose, Begin, Goto, CloseFrame, TypeOK, TransmitOpen,
           Writable
  <2>4. MessageStays(g)
    BY <1>5, <2>2
       DEF ReceiveClose, Begin, Goto, CloseFrame, MessageStays, TypeOK, Shape,
           InMessage, Begun, PayloadIn, PayloadLabels, SpillLabels,
           FrameLabels, SoundLabels, ClosingLabels, Writable
  <2>. QED BY <2>1, <2>3, <2>4, OrderLocal
<1>6. ASSUME NEW g \in Writers, CtxDone(g)
      PROVE  OrderInv'
  <2>1. OthersStay(g) /\ BufferStays
    BY <1>6 DEF CtxDone, TypeOK, OthersStay, BufferStays
  <2>2. Shape(g)
    BY DEF ShapeInv
  <2>3. TransmitOpen(g)
    BY <1>6 DEF CtxDone, TypeOK, TransmitOpen, Writable
  <2>4. MessageStays(g)
    BY <1>6, <2>2
       DEF CtxDone, MessageStays, TypeOK, Shape, InMessage, Begun, PayloadIn,
           PayloadLabels, SpillLabels, FrameLabels, SoundLabels, ClosingLabels,
           Writable
  <2>. QED BY <2>1, <2>3, <2>4, OrderLocal
<1>7. ASSUME NEW g \in Writers, LockMessage(g)
      PROVE  OrderInv'
  <2>1. OthersStay(g) /\ BufferStays
    BY <1>7 DEF LockMessage, Goto, TypeOK, OthersStay, BufferStays
  <2>2. Shape(g)
    BY DEF ShapeInv
  <2>3. TransmitOpen(g)
    BY <1>7 DEF LockMessage, Goto, TypeOK, TransmitOpen, Writable
  <2>4. MessageStays(g)
    BY <1>7, <2>2
       DEF LockMessage, Goto, MessageStays, TypeOK, Shape, InMessage, Begun,
           PayloadIn, PayloadLabels, SpillLabels, FrameLabels, SoundLabels,
           ClosingLabels, Writable
  <2>. QED BY <2>1, <2>3, <2>4, OrderLocal
<1>8. ASSUME NEW g \in Writers, WriteFragment(g)
      PROVE  OrderInv'
  <2>1. OthersStay(g) /\ BufferStays
    BY <1>8 DEF WriteFragment, Goto, TypeOK, OthersStay, BufferStays
  <2>2. Shape(g)
    BY DEF ShapeInv
  <2>3. TransmitOpen(g)
    BY <1>8 DEF WriteFragment, Goto, TypeOK, TransmitOpen, Writable
  <2>4. MessageStays(g)
    BY <1>8, <2>2
       DEF WriteFragment, Goto, MessageStays, TypeOK, Shape, InMessage, Begun,
           PayloadIn, PayloadLabels, SpillLabels, FrameLabels, SoundLabels,
           ClosingLabels, Writable
  <2>. QED BY <2>1, <2>3, <2>4, OrderLocal
<1>9. ASSUME NEW g \in Writers, CloseMessage(g)
      PROVE  OrderInv'
  <2>1. OthersStay(g) /\ BufferStays
    BY <1>9 DEF CloseMessage, Goto, TypeOK, OthersStay, BufferStays
  <2>2. Shape(g)
    BY DEF ShapeInv
  <2>3. TransmitOpen(g)
    BY <1>9 DEF CloseMessage, Goto, TypeOK, TransmitOpen, Writable
  <2>4. MessageStays(g)
    BY <1>9, <2>2
       DEF CloseMessage, Goto, MessageStays, TypeOK, Shape, InMessage, Begun,
           PayloadIn, PayloadLabels, SpillLabels, FrameLabels, SoundLabels,
           ClosingLabels, Writable
  <2>. QED BY <2>1, <2>3, <2>4, OrderLocal
<1>10. ASSUME NEW g \in Writers, Abandon(g)
      PROVE  OrderInv'
  <2>1. OthersStay(g) /\ BufferStays
    BY <1>10 DEF Abandon, Goto, TypeOK, OthersStay, BufferStays
  <2>2. Shape(g)
    BY DEF ShapeInv
  <2>3. TransmitOpen(g)
    BY <1>10 DEF Abandon, Goto, TypeOK, TransmitOpen, Writable
  <2>4. MessageStays(g)
    BY <1>10, <2>2
       DEF Abandon, Goto, MessageStays, TypeOK, Shape, InMessage, Begun,
           PayloadIn, PayloadLabels, SpillLabels, FrameLabels, SoundLabels,
           ClosingLabels, Writable
  <2>. QED BY <2>1, <2>3, <2>4, OrderLocal
<1>11. ASSUME NEW g \in Writers, LockWrite(g)
      PROVE  OrderInv'
  <2>1. OthersStay(g) /\ BufferStays
    BY <1>11 DEF LockWrite, Goto, TypeOK, OthersStay, BufferStays
  <2>2. Shape(g)
    BY DEF ShapeInv
  <2>3. TransmitOpen(g)
    BY <1>11 DEF LockWrite, Goto, TypeOK, TransmitOpen, Writable
  <2>4. MessageStays(g)
    BY <1>11, <2>2
       DEF LockWrite, Goto, MessageStays, TypeOK, Shape, InMessage, Begun,
           PayloadIn, PayloadLabels, SpillLabels, FrameLabels, SoundLabels,
           ClosingLabels, Writable
  <2>. QED BY <2>1, <2>3, <2>4, OrderLocal
<1>12. ASSUME NEW g \in Writers, LockWriteClosed(g)
      PROVE  OrderInv'
  <2>1. OthersStay(g) /\ BufferStays
    BY <1>12 DEF LockWriteClosed, Goto, FailTo, TypeOK, OthersStay, BufferStays
  <2>2. Shape(g)
    BY DEF ShapeInv
  <2>3. TransmitOpen(g)
    BY <1>12 DEF LockWriteClosed, Goto, FailTo, TypeOK, TransmitOpen, Writable
  <2>4. MessageStays(g)
    BY <1>12, <2>2
       DEF LockWriteClosed, Goto, FailTo, MessageStays, TypeOK, Shape,
           InMessage, Begun, PayloadIn, PayloadLabels, SpillLabels,
           FrameLabels, SoundLabels, ClosingLabels, Writable
  <2>. QED BY <2>1, <2>3, <2>4, OrderLocal
<1>13. ASSUME NEW g \in Writers, LockFailed(g)
      PROVE  OrderInv'
  <2>1. OthersStay(g) /\ BufferStays
    BY <1>13 DEF LockFailed, Goto, FailTo, TypeOK, OthersStay, BufferStays
  <2>2. Shape(g)
    BY DEF ShapeInv
  <2>3. TransmitOpen(g)
    BY <1>13 DEF LockFailed, Goto, FailTo, TypeOK, TransmitOpen, Writable
  <2>4. MessageStays(g)
    BY <1>13, <2>2
       DEF LockFailed, Goto, FailTo, MessageStays, TypeOK, Shape, InMessage,
           Begun, PayloadIn, PayloadLabels, SpillLabels, FrameLabels,
           SoundLabels, ClosingLabels, Writable
  <2>. QED BY <2>1, <2>3, <2>4, OrderLocal
<1>14. ASSUME NEW g \in Writers, LockFrame(g)
      PROVE  OrderInv'
  <2>1. OthersStay(g) /\ BufferStays
    BY <1>14 DEF LockFrame, Goto, TypeOK, OthersStay, BufferStays
  <2>2. Shape(g)
    BY DEF ShapeInv
  <2>3. TransmitOpen(g)
    BY <1>14 DEF LockFrame, Goto, TypeOK, TransmitOpen, Writable
  <2>4. MessageStays(g)
    BY <1>14, <2>2
       DEF LockFrame, Goto, MessageStays, TypeOK, Shape, InMessage, Begun,
           PayloadIn, PayloadLabels, SpillLabels, FrameLabels, SoundLabels,
           ClosingLabels, Writable
  <2>. QED BY <2>1, <2>3, <2>4, OrderLocal
<1>15. ASSUME NEW g \in Writers, CheckSent(g)
      PROVE  OrderInv'
  <2>1. OthersStay(g) /\ BufferStays
    BY <1>15 DEF CheckSent, Goto, FailTo, TypeOK, OthersStay, BufferStays
  <2>2. Shape(g)
    BY DEF ShapeInv
  <2>3. TransmitOpen(g)
    BY <1>15 DEF CheckSent, Goto, FailTo, TypeOK, TransmitOpen, Writable
  <2>4. MessageStays(g)
    BY <1>15, <2>2
       DEF CheckSent, Goto, FailTo, MessageStays, TypeOK, Shape, InMessage,
           Begun, PayloadIn, PayloadLabels, SpillLabels, FrameLabels,
           SoundLabels, ClosingLabels, Writable
  <2>. QED BY <2>1, <2>3, <2>4, OrderLocal
<1>16. ASSUME NEW g \in Writers, SendCtx(g)
      PROVE  OrderInv'
  <2>1. OthersStay(g) /\ BufferStays
    BY <1>16 DEF SendCtx, Goto, FailTo, TypeOK, OthersStay, BufferStays
  <2>2. Shape(g)
    BY DEF ShapeInv
  <2>3. TransmitOpen(g)
    BY <1>16 DEF SendCtx, Goto, FailTo, TypeOK, TransmitOpen, Writable
  <2>4. MessageStays(g)
    BY <1>16, <2>2
       DEF SendCtx, Goto, FailTo, MessageStays, TypeOK, Shape, InMessage,
           Begun, PayloadIn, PayloadLabels, SpillLabels, FrameLabels,
           SoundLabels, ClosingLabels, Writable
  <2>. QED BY <2>1, <2>3, <2>4, OrderLocal
<1>17. ASSUME NEW g \in Writers, WriteHeader(g)
      PROVE  OrderInv'
  BY <1>17, WriteHeaderOrder
<1>18. ASSUME NEW g \in Writers, WritePayload(g)
      PROVE  OrderInv'
  BY <1>18, WritePayloadOrder
<1>19. ASSUME NEW g \in Writers, CheckFlag(g)
      PROVE  OrderInv'
  <2>1. OthersStay(g) /\ BufferStays
    BY <1>19 DEF CheckFlag, Goto, FailTo, TypeOK, OthersStay, BufferStays
  <2>2. Shape(g)
    BY DEF ShapeInv
  <2>3. TransmitOpen(g)
    BY <1>19 DEF CheckFlag, Goto, FailTo, TypeOK, TransmitOpen, Writable
  <2>4. MessageStays(g)
    BY <1>19, <2>2
       DEF CheckFlag, Goto, FailTo, MessageStays, TypeOK, Shape, InMessage,
           Begun, PayloadIn, PayloadLabels, SpillLabels, FrameLabels,
           SoundLabels, ClosingLabels, Writable
  <2>. QED BY <2>1, <2>3, <2>4, OrderLocal
<1>20. ASSUME NEW g \in Writers, Flush(g)
      PROVE  OrderInv'
  <2>1. OthersStay(g) /\ BufferStays
    BY <1>20 DEF Flush, Goto, FailTo, TypeOK, OthersStay, BufferStays
  <2>2. Shape(g)
    BY DEF ShapeInv
  <2>3. TransmitOpen(g)
    BY <1>20
       DEF Flush, Goto, FailTo, TypeOK, TransmitOpen, Writable, BufferInv,
           InFrame, PayloadLabels, SpillLabels
  <2>4. MessageStays(g)
    BY <1>20, <2>2
       DEF Flush, Goto, FailTo, MessageStays, TypeOK, Shape, InMessage, Begun,
           PayloadIn, PayloadLabels, SpillLabels, FrameLabels, SoundLabels,
           ClosingLabels, Writable
  <2>. QED BY <2>1, <2>3, <2>4, OrderLocal
<1>21. ASSUME NEW g \in Writers, Transmit(g)
      PROVE  OrderInv'
  <2>1. OthersStay(g) /\ BufferStays
    BY <1>21 DEF Transmit, Goto, FailTo, AfterFlush, AfterSpill, TypeOK,
           OthersStay, BufferStays, Transmitting
  <2>2. Shape(g)
    BY DEF ShapeInv
  <2>3. /\ \/ pc'[g] = "resetCtx" /\ bwErr'
           \/ /\ ~bwErr' /\ pc[g] = "flushing"
              /\ pc'[g] = IF frame[g].op = "close" THEN "markSent"
                                                  ELSE "resetCtx"
              /\ failed' = failed
           \/ /\ ~bwErr' /\ pc[g] = "spilling"
              /\ pc'[g] = IF out[Len(out)].part = "header" THEN "payload"
                                                           ELSE "written"
              /\ failed' = failed
        /\ pc[g] \in {"flushing", "spilling"}
        /\ UNCHANGED <<call, frame, mwMu, mwOpcode, out, closedFlag>>
    BY <1>21 DEF Transmit, Goto, FailTo, AfterFlush, AfterSpill, TypeOK
  <2>4. ~bwErr
    BY <2>3 DEF BufferInv, InFrame, SpillLabels, PayloadLabels
  <2>5. TransmitOpen(g)
    BY <2>3, <2>4 DEF TransmitOpen, Writable
  <2>6. Writable' /\ InMessage(g)' =>
          InMessage(g) /\ (Begun(g)' <=> Begun(g))
    <3>1. InMessage(g)' => InMessage(g)
      BY <2>3 DEF InMessage
    <3>2. CASE pc[g] = "flushing"
      BY <2>3, <3>2 DEF Writable, InMessage, Begun, PayloadIn, PayloadLabels,
                        SpillLabels
    <3>3. CASE pc[g] = "spilling"
      <4>1. out[Len(out)].part \in {"header", "payload"}
        <5>1. out[Len(out)] \in {Unit(g, "header"), Unit(g, "payload")}
          BY <3>3 DEF BufferInv, SpillLabels
        <5>. QED BY <5>1 DEF Unit
      <4>. QED BY <2>3, <3>3, <4>1 DEF Writable, InMessage, Begun, PayloadIn,
                 PayloadLabels, SpillLabels
    <3>. QED BY <2>3, <3>1, <3>2, <3>3
  <2>7. MessageStays(g)
    BY <2>3, <2>6 DEF MessageStays
  <2>. QED BY <2>1, <2>5, <2>7, OrderLocal
<1>22. ASSUME NEW g \in Writers, TransmitError(g)
      PROVE  OrderInv'
  <2>1. OthersStay(g) /\ BufferStays
    BY <1>22
       DEF TransmitError, Goto, FailTo, TypeOK, OthersStay, BufferStays,
           Transmitting
  <2>2. Shape(g)
    BY DEF ShapeInv
  <2>3. TransmitOpen(g)
    BY <1>22 DEF TransmitError, Goto, FailTo, TypeOK, TransmitOpen, Writable
  <2>4. MessageStays(g)
    BY <1>22, <2>2
       DEF TransmitError, Goto, FailTo, MessageStays, TypeOK, Shape, InMessage,
           Begun, PayloadIn, PayloadLabels, SpillLabels, FrameLabels,
           SoundLabels, ClosingLabels, Writable
  <2>. QED BY <2>1, <2>3, <2>4, OrderLocal
<1>23. ASSUME NEW g \in Writers, MarkSent(g)
      PROVE  OrderInv'
  <2>1. OthersStay(g) /\ BufferStays
    BY <1>23 DEF MarkSent, Goto, TypeOK, OthersStay, BufferStays
  <2>2. Shape(g)
    BY DEF ShapeInv
  <2>3. TransmitOpen(g)
    BY <1>23 DEF MarkSent, Goto, TypeOK, TransmitOpen, Writable
  <2>4. MessageStays(g)
    BY <1>23, <2>2
       DEF MarkSent, Goto, MessageStays, TypeOK, Shape, InMessage, Begun,
           PayloadIn, PayloadLabels, SpillLabels, FrameLabels, SoundLabels,
           ClosingLabels, Writable
  <2>. QED BY <2>1, <2>3, <2>4, OrderLocal
<1>24. ASSUME NEW g \in Writers, UnlockEarly(g)
      PROVE  OrderInv'
  <2>1. OthersStay(g) /\ BufferStays
    BY <1>24 DEF UnlockEarly, Goto, TypeOK, OthersStay, BufferStays
  <2>2. Shape(g)
    BY DEF ShapeInv
  <2>3. TransmitOpen(g)
    BY <1>24 DEF UnlockEarly, Goto, TypeOK, TransmitOpen, Writable
  <2>4. MessageStays(g)
    BY <1>24, <2>2
       DEF UnlockEarly, Goto, MessageStays, TypeOK, Shape, InMessage, Begun,
           PayloadIn, PayloadLabels, SpillLabels, FrameLabels, SoundLabels,
           ClosingLabels, Writable
  <2>. QED BY <2>1, <2>3, <2>4, OrderLocal
<1>25. ASSUME NEW g \in Writers, ResetCtx(g)
      PROVE  OrderInv'
  <2>1. OthersStay(g) /\ BufferStays
    BY <1>25 DEF ResetCtx, Goto, TypeOK, OthersStay, BufferStays
  <2>2. Shape(g)
    BY DEF ShapeInv
  <2>3. TransmitOpen(g)
    BY <1>25 DEF ResetCtx, Goto, TypeOK, TransmitOpen, Writable
  <2>4. MessageStays(g)
    BY <1>25, <2>2
       DEF ResetCtx, Goto, MessageStays, TypeOK, Shape, InMessage, Begun,
           PayloadIn, PayloadLabels, SpillLabels, FrameLabels, SoundLabels,
           ClosingLabels, Writable
  <2>. QED BY <2>1, <2>3, <2>4, OrderLocal
<1>26. ASSUME NEW g \in Writers, UnlockFrame(g)
      PROVE  OrderInv'
  <2>1. OthersStay(g) /\ BufferStays
    BY <1>26 DEF UnlockFrame, Goto, TypeOK, OthersStay, BufferStays
  <2>2. Shape(g)
    BY DEF ShapeInv
  <2>3. TransmitOpen(g)
    BY <1>26 DEF UnlockFrame, Goto, TypeOK, TransmitOpen, Writable
  <2>4. MessageStays(g)
    BY <1>26, <2>2
       DEF UnlockFrame, Goto, MessageStays, TypeOK, Shape, InMessage, Begun,
           PayloadIn, PayloadLabels, SpillLabels, FrameLabels, SoundLabels,
           ClosingLabels, Writable
  <2>. QED BY <2>1, <2>3, <2>4, OrderLocal
<1>27. ASSUME NEW g \in Writers, ReturnMessage(g)
      PROVE  OrderInv'
  <2>1. OthersStay(g) /\ BufferStays
    BY <1>27 DEF ReturnMessage, Goto, TypeOK, OthersStay, BufferStays
  <2>2. Shape(g)
    BY DEF ShapeInv
  <2>3. TransmitOpen(g)
    BY <1>27 DEF ReturnMessage, Goto, TypeOK, TransmitOpen, Writable
  <2>4. MessageStays(g)
    BY <1>27, <2>2
       DEF ReturnMessage, Goto, MessageStays, TypeOK, Shape, InMessage, Begun,
           PayloadIn, PayloadLabels, SpillLabels, FrameLabels, SoundLabels,
           ClosingLabels, Writable
  <2>. QED BY <2>1, <2>3, <2>4, OrderLocal
<1>28. ASSUME NEW g \in Writers, ReturnFragment(g)
      PROVE  OrderInv'
  <2>1. OthersStay(g) /\ BufferStays
    BY <1>28 DEF ReturnFragment, Goto, TypeOK, OthersStay, BufferStays
  <2>2. Shape(g)
    BY DEF ShapeInv
  <2>3. TransmitOpen(g)
    BY <1>28 DEF ReturnFragment, Goto, TypeOK, TransmitOpen, Writable
  <2>4. MessageStays(g)
    BY <1>28, <2>2
       DEF ReturnFragment, Goto, MessageStays, TypeOK, Shape, InMessage, Begun,
           PayloadIn, PayloadLabels, SpillLabels, FrameLabels, SoundLabels,
           ClosingLabels, Writable
  <2>. QED BY <2>1, <2>3, <2>4, OrderLocal
<1>29. ASSUME NEW g \in Writers, ReturnLastFrame(g)
      PROVE  OrderInv'
  <2>1. OthersStay(g) /\ BufferStays
    BY <1>29 DEF ReturnLastFrame, Goto, TypeOK, OthersStay, BufferStays
  <2>2. Shape(g)
    BY DEF ShapeInv
  <2>3. TransmitOpen(g)
    BY <1>29 DEF ReturnLastFrame, Goto, TypeOK, TransmitOpen, Writable
  <2>4. MessageStays(g)
    BY <1>29, <2>2
       DEF ReturnLastFrame, Goto, MessageStays, TypeOK, Shape, InMessage,
           Begun, PayloadIn, PayloadLabels, SpillLabels, FrameLabels,
           SoundLabels, ClosingLabels, Writable
  <2>. QED BY <2>1, <2>3, <2>4, OrderLocal
<1>30. ASSUME NEW g \in Writers, ReturnControl(g)
      PROVE  OrderInv'
  <2>1. OthersStay(g) /\ BufferStays
    BY <1>30 DEF ReturnControl, Goto, TypeOK, OthersStay, BufferStays
  <2>2. Shape(g)
    BY DEF ShapeInv
  <2>3. TransmitOpen(g)
    BY <1>30 DEF ReturnControl, Goto, TypeOK, TransmitOpen, Writable
  <2>4. MessageStays(g)
    BY <1>30, <2>2
       DEF ReturnControl, Goto, MessageStays, TypeOK, Shape, InMessage, Begun,
           PayloadIn, PayloadLabels, SpillLabels, FrameLabels, SoundLabels,
           ClosingLabels, Writable
  <2>. QED BY <2>1, <2>3, <2>4, OrderLocal
<1>31. ASSUME NEW g \in Writers, ReturnClose(g)
      PROVE  OrderInv'
  <2>1. OthersStay(g) /\ BufferStays
    BY <1>31 DEF ReturnClose, Goto, TypeOK, OthersStay, BufferStays
  <2>2. Shape(g)
    BY DEF ShapeInv
  <2>3. TransmitOpen(g)
    BY <1>31 DEF ReturnClose, Goto, TypeOK, TransmitOpen, Writable
  <2>4. MessageStays(g)
    BY <1>31, <2>2
       DEF ReturnClose, Goto, MessageStays, TypeOK, Shape, InMessage, Begun,
           PayloadIn, PayloadLabels, SpillLabels, FrameLabels, SoundLabels,
           ClosingLabels, Writable
  <2>. QED BY <2>1, <2>3, <2>4, OrderLocal
<1>32. ASSUME NEW g \in Procs, CloseFlag(g)
      PROVE  OrderInv'
  <2>1. CASE g = TimeoutLoop
    BY <1>32, <2>1, OrderIdle DEF CloseFlag, Goto, Writable
  <2>2. CASE g \in Writers
    <3>1. OthersStay(g) /\ BufferStays
      BY <1>32, <2>2 DEF CloseFlag, Goto, TypeOK, OthersStay, BufferStays
    <3>2. Shape(g)
      BY <2>2 DEF ShapeInv
    <3>3. TransmitOpen(g)
      BY <1>32, <2>2 DEF CloseFlag, Goto, TypeOK, TransmitOpen, Writable
    <3>4. MessageStays(g)
      BY <1>32, <3>2, <2>2
         DEF CloseFlag, Goto, MessageStays, TypeOK, Shape, InMessage, Begun,
             PayloadIn, PayloadLabels, SpillLabels, FrameLabels, SoundLabels,
             ClosingLabels, Writable
    <3>. QED BY <3>1, <3>3, <3>4, <2>2, OrderLocal
  <2>. QED BY <1>32, <2>1, <2>2
<1>33. ASSUME NEW g \in Procs, CloseChan(g)
      PROVE  OrderInv'
  <2>1. CASE g = TimeoutLoop
    BY <1>33, <2>1, OrderIdle DEF CloseChan, Goto, Writable
  <2>2. CASE g \in Writers
    <3>1. OthersStay(g) /\ BufferStays
      BY <1>33, <2>2 DEF CloseChan, Goto, TypeOK, OthersStay, BufferStays
    <3>2. Shape(g)
      BY <2>2 DEF ShapeInv
    <3>3. TransmitOpen(g)
      BY <1>33, <2>2 DEF CloseChan, Goto, TypeOK, TransmitOpen, Writable
    <3>4. MessageStays(g)
      BY <1>33, <3>2, <2>2
         DEF CloseChan, Goto, MessageStays, TypeOK, Shape, InMessage, Begun,
             PayloadIn, PayloadLabels, SpillLabels, FrameLabels, SoundLabels,
             ClosingLabels, Writable
    <3>. QED BY <3>1, <3>3, <3>4, <2>2, OrderLocal
  <2>. QED BY <1>33, <2>1, <2>2
<1>34. ASSUME NEW g \in Procs, PutBuffer(g)
      PROVE  OrderInv'
  <2>1. CASE g = TimeoutLoop
    BY <1>34, <2>1, OrderIdle DEF PutBuffer, Goto, Writable
  <2>2. CASE g \in Writers
    <3>1. OthersStay(g) /\ BufferStays
      BY <1>34, <2>2 DEF PutBuffer, Goto, TypeOK, OthersStay, BufferStays
    <3>2. Shape(g)
      BY <2>2 DEF ShapeInv
    <3>3. TransmitOpen(g)
      BY <1>34, <2>2 DEF PutBuffer, Goto, TypeOK, TransmitOpen, Writable
    <3>4. MessageStays(g)
      BY <1>34, <3>2, <2>2
         DEF PutBuffer, Goto, MessageStays, TypeOK, Shape, InMessage, Begun,
             PayloadIn, PayloadLabels, SpillLabels, FrameLabels, SoundLabels,
             ClosingLabels, Writable
    <3>. QED BY <3>1, <3>3, <3>4, <2>2, OrderLocal
  <2>. QED BY <1>34, <2>1, <2>2
<1>35. ASSUME NEW g \in Procs, CloseTransport(g)
      PROVE  OrderInv'
  <2>1. CASE g = TimeoutLoop
    BY <1>35, <2>1, OrderIdle DEF CloseTransport, Goto, Writable
  <2>2. CASE g \in Writers
    <3>1. OthersStay(g) /\ BufferStays
      BY <1>35, <2>2 DEF CloseTransport, Goto, TypeOK, OthersStay, BufferStays
    <3>2. Shape(g)
      BY <2>2 DEF ShapeInv
    <3>3. TransmitOpen(g)
      BY <1>35, <2>2 DEF CloseTransport, Goto, TypeOK, TransmitOpen, Writable
    <3>4. MessageStays(g)
      BY <1>35, <3>2, <2>2
         DEF CloseTransport, Goto, MessageStays, TypeOK, Shape, InMessage,
             Begun, PayloadIn, PayloadLabels, SpillLabels, FrameLabels,
             SoundLabels, ClosingLabels, Writable
    <3>. QED BY <3>1, <3>3, <3>4, <2>2, OrderLocal
  <2>. QED BY <1>35, <2>1, <2>2
<1>36. ASSUME NEW g \in Procs, CloseWriter(g)
      PROVE  OrderInv'
  <2>1. CASE g = TimeoutLoop
    BY <1>36, <2>1, OrderIdle DEF CloseWriter, Goto, Resume, Writable
  <2>2. CASE g \in Writers
    <3>1. OthersStay(g) /\ BufferStays
      BY <1>36, <2>2
         DEF CloseWriter, Goto, Resume, TypeOK, OthersStay, BufferStays
    <3>2. Shape(g)
      BY <2>2 DEF ShapeInv
    <3>3. TransmitOpen(g)
      BY <1>36, <2>2
         DEF CloseWriter, Goto, Resume, TypeOK, TransmitOpen, Writable
    <3>4. MessageStays(g)
      BY <1>36, <3>2, <2>2
         DEF CloseWriter, Goto, Resume, MessageStays, TypeOK, Shape, InMessage,
             Begun, PayloadIn, PayloadLabels, SpillLabels, FrameLabels,
             SoundLabels, ClosingLabels, Writable
    <3>. QED BY <3>1, <3>3, <3>4, <2>2, OrderLocal
  <2>. QED BY <1>36, <2>1, <2>2
<1>37. ASSUME NEW g \in Procs, CloseAgain(g)
      PROVE  OrderInv'
  <2>1. CASE g = TimeoutLoop
    BY <1>37, <2>1, OrderIdle DEF CloseAgain, Goto, Resume, Writable
  <2>2. CASE g \in Writers
    <3>1. OthersStay(g) /\ BufferStays
      BY <1>37, <2>2
         DEF CloseAgain, Goto, Resume, TypeOK, OthersStay, BufferStays
    <3>2. Shape(g)
      BY <2>2 DEF ShapeInv
    <3>3. TransmitOpen(g)
      BY <1>37, <2>2
         DEF CloseAgain, Goto, Resume, TypeOK, TransmitOpen, Writable
    <3>4. MessageStays(g)
      BY <1>37, <3>2, <2>2
         DEF CloseAgain, Goto, Resume, MessageStays, TypeOK, Shape, InMessage,
             Begun, PayloadIn, PayloadLabels, SpillLabels, FrameLabels,
             SoundLabels, ClosingLabels, Writable
    <3>. QED BY <3>1, <3>3, <3>4, <2>2, OrderLocal
  <2>. QED BY <1>37, <2>1, <2>2
<1>38. CASE TimeoutExpired
  BY <1>38, OrderIdle DEF TimeoutExpired, Goto, Writable
<1>39. CASE TimeoutLoopExits
  BY <1>39, OrderIdle DEF TimeoutLoopExits, Goto, Writable
<1>40. CASE UNCHANGED vars
  BY <1>40, OrderIdle DEF vars, Writable
<1>. QED
  BY <1>1, <1>2, <1>3, <1>4, <1>5, <1>6, <1>7, <1>8, <1>9, <1>10, <1>11,
     <1>12, <1>13, <1>14, <1>15, <1>16, <1>17, <1>18, <1>19, <1>20,
     <1>21, <1>22, <1>23, <1>24, <1>25, <1>26, <1>27, <1>28, <1>29,
     <1>30, <1>31, <1>32, <1>33, <1>34, <1>35, <1>36, <1>37, <1>38,
     <1>39, <1>40
     DEF Next, Start, Message, WriteFrame, Return, Close, Terminated

-----------------------------------------------------------------------------
(* What the client promises. *)

(* A new connection has neither a message nor a frame.                      *)
LEMMA OrderInit == Init => ShapeInv /\ OrderInv
<1>. SUFFICES ASSUME Init PROVE ShapeInv /\ OrderInv
  OBVIOUS
<1>1. \A g \in Writers : pc[g] = "idle" /\ call[g] = "none"
  BY ProcsAssumption DEF Init, Procs
<1>2. ShapeInv
  BY <1>1 DEF ShapeInv, Shape, InMessage, MessageCall, ControlCall,
              SoundLabels
<1>3. out = <<>> /\ Len(out) = 0 /\ sent = 0
  BY DEF Init
<1>4. InOrder(out, 0)
  BY DEF InOrder
<1>5. Stream!NoMessage(AllFrames)
  <2>1. DOMAIN AllFrames = {}
    <3>1. 0 \div 2 = 0
      OBVIOUS
    <3>. QED BY <1>3, <3>1 DEF AllFrames, WholeFrames
  <2>. QED BY <2>1 DEF Stream!NoMessage, Stream!LastData, Stream!Data
<1>. QED BY <1>1, <1>2, <1>3, <1>4, <1>5 DEF OrderInv, InMessage, Transmitting

(* Who has the message, and the order of the frames, on a client that       *)
(* closes each Writer once.                                                 *)
LEMMA OrderInvariant ==
    ASSUME Client, "repeatClose" \notin Calls
    PROVE  Spec => []OrderInv
<1>1. TypeOK /\ FrameInv /\ ShapeInv /\ [Next]_vars => ShapeInv'
  BY ShapeStep
<1>2. TypeOK /\ WriterInv /\ FrameInv /\ BufferInv /\ ShapeInv /\ OrderInv
      /\ [Next]_vars => OrderInv'
  BY OrderStep
<1>. QED
  BY <1>1, <1>2, OrderInit, BufferInvariant, PTL DEF Spec

(* The frames before frame i of the wire.                                   *)
LEMMA WirePrefix ==
    ASSUME TypeOK, NEW i \in 1..Len(WireFrames)
    PROVE  /\ 2*i \in 1..sent /\ WireFrames[i] = out[2*i]
           /\ SubSeq(WireFrames, 1, i - 1) = WholeFrames(out, 2*i - 1)
<1>1. sent \in Nat
  BY DEF TypeOK
<1>2. PICK h \in Nat : h = sent \div 2 /\ (sent = 2*h \/ sent = 2*h + 1)
  BY <1>1, Halves
<1>3. /\ Len(WireFrames) = h /\ DOMAIN WireFrames = 1..h
      /\ \A j \in 1..h : WireFrames[j] = out[2*j]
  BY <1>1, <1>2, FramesSeq DEF WireFrames
<1>4. i \in 1..h /\ 2*i \in 1..sent
  BY <1>2, <1>3
<1>5. WholeFrames(out, 2*i - 1) = [j \in 1..(i-1) |-> out[2*j]]
  <2>1. PICK k \in Nat : k = i - 1 /\ 2*i - 1 = 2*k + 1
    BY <1>4
  <2>2. (2*k + 1) \div 2 = k
    OBVIOUS
  <2>. QED BY <2>1, <2>2 DEF WholeFrames
<1>6. SubSeq(WireFrames, 1, i - 1) = [j \in 1..(i-1) |-> WireFrames[j]]
  BY <1>4
<1>7. \A j \in 1..(i-1) : WireFrames[j] = out[2*j]
  BY <1>3, <1>4
<1>. QED BY <1>3, <1>4, <1>5, <1>6, <1>7

(* "Only one writer can be open at a time" (write.go:25): on a client the   *)
(* frames of a message are not mixed with another's, unless a Writer is     *)
(* closed twice.                                                            *)
THEOREM MessagesWholeOnClient ==
    ASSUME Client, "repeatClose" \notin Calls
    PROVE  Spec => []MessagesWhole
<1>1. ASSUME TypeOK, FramesWhole, CloseFrameLast, InOrder(out, sent)
      PROVE  MessagesWhole
  <2>1. SUFFICES ASSUME NEW i \in 1..Len(WireFrames)
                 PROVE  Stream!MayFollow(SubSeq(WireFrames, 1, i - 1),
                                         WireFrames[i])
    BY DEF MessagesWhole
  <2>2. /\ 2*i \in 1..sent /\ WireFrames[i] = out[2*i]
        /\ SubSeq(WireFrames, 1, i - 1) = WholeFrames(out, 2*i - 1)
    BY <1>1, WirePrefix
  <2>3. Len(out) \in Nat /\ sent \in 0..Len(out) /\ i \in Nat \ {0}
    BY <1>1, <2>2 DEF TypeOK
  <2>4. DataOrder(WholeFrames(out, 2*i - 1), out[2*i])
    BY <1>1, <2>2, <2>3 DEF InOrder
  <2>5. ASSUME NEW j \in DOMAIN WholeFrames(out, 2*i - 1)
        PROVE  WholeFrames(out, 2*i - 1)[j].frame.op # "close"
    <3>1. PICK k \in Nat : k = i - 1 /\ 2*i - 1 = 2*k + 1
                           /\ (2*k + 1) \div 2 = k
      BY <2>3
    <3>2. j \in 1..k /\ WholeFrames(out, 2*i - 1)[j] = out[2*j]
      BY <2>5, <3>1 DEF WholeFrames
    <3>3. /\ 2*j \in 1..sent /\ 2*j # sent /\ 2*j <= Len(out)
          /\ 2*j - 1 \in 1..Len(out) /\ j \in 1..Len(out)
      BY <2>2, <2>3, <3>1, <3>2
    <3>4. out[2*j].part = "payload"
      <4>1. out[2*j] = [out[2*j-1] EXCEPT !.part = "payload"]
        BY <1>1, <3>3 DEF FramesWhole, FrameWhole
      <4>2. out[2*j-1] \in Units
        BY <1>1, <3>3 DEF TypeOK
      <4>. QED BY <4>1, <4>2 DEF Units
    <3>. QED BY <1>1, <3>2, <3>3, <3>4 DEF CloseFrameLast
  <2>. QED BY <2>2, <2>4, <2>5 DEF Stream!MayFollow, DataOrder
<1>2. OrderInv => InOrder(out, sent)
  BY DEF OrderInv
<1>. QED
  BY <1>1, <1>2, TypeCorrect, FramesWholeAlways, CloseFrameLastOnClient,
     OrderInvariant, PTL

(* The buffer only grows, and so does what was transmitted of it.           *)
LEMMA OutGrows ==
    ASSUME TypeOK, [Next]_vars
    PROVE  /\ \A i \in 1..Len(out) : out'[i] = out[i]
           /\ sent' \in Nat /\ sent <= sent'
<1>1. Len(out) \in Nat /\ sent \in 0..Len(out)
  BY DEF TypeOK
<1>2. ASSUME UNCHANGED <<out, sent>>
      PROVE  /\ \A i \in 1..Len(out) : out'[i] = out[i]
             /\ sent' \in Nat /\ sent <= sent'
  BY <1>1, <1>2
<1>3. ASSUME NEW g \in Writers, WriteHeader(g) \/ WritePayload(g)
      PROVE  /\ \A i \in 1..Len(out) : out'[i] = out[i]
             /\ sent' \in Nat /\ sent <= sent'
  <2>1. PICK t \in {"header", "payload"} :
           out' = out \/ out' = Append(out, Unit(g, t))
    BY <1>3 DEF WriteHeader, WritePayload, Buffer
  <2>2. Unit(g, t) \in Units /\ sent' = sent
    BY <1>3 DEF WriteHeader, WritePayload, Unit, Units, TypeOK
  <2>3. \A i \in 1..Len(out) : out'[i] = out[i]
    BY <2>1, <2>2, AppendUnit
  <2>. QED BY <1>1, <2>2, <2>3
<1>4. ASSUME NEW g \in Writers, Transmit(g) \/ TransmitError(g)
      PROVE  /\ \A i \in 1..Len(out) : out'[i] = out[i]
             /\ sent' \in Nat /\ sent <= sent'
  <2>1. out' = out /\ sent' \in sent..Len(out)
    BY <1>1, <1>4 DEF Transmit, TransmitError
  <2>. QED BY <1>1, <2>1
<1>5. ASSUME NEW g \in Writers, NEW kind \in CallKinds,
             BeginMessage(g, kind) \/ BeginControl(g, kind)
      PROVE  UNCHANGED <<out, sent>>
  BY <1>5 DEF BeginMessage, BeginControl
<1>6. ASSUME NEW g \in Writers,
             \/ BeginRepeatClose(g) \/ BeginCloseNow(g) \/ ReceiveClose(g)
             \/ CtxDone(g) \/ Message(g) \/ Return(g)
      PROVE  UNCHANGED <<out, sent>>
  BY <1>6 DEF BeginRepeatClose, BeginCloseNow, ReceiveClose, CtxDone,
              Message, LockMessage, WriteFragment, CloseMessage, Abandon,
              LockWrite, LockWriteClosed, LockFailed, Return, ReturnMessage,
              ReturnFragment, ReturnLastFrame, ReturnControl, ReturnClose
<1>7. ASSUME NEW g \in Writers, WriteFrame(g),
             ~(WriteHeader(g) \/ WritePayload(g)),
             ~(Transmit(g) \/ TransmitError(g))
      PROVE  UNCHANGED <<out, sent>>
  BY <1>7 DEF WriteFrame, LockFrame, CheckSent, SendCtx, CheckFlag, Flush,
              MarkSent, UnlockEarly, ResetCtx, UnlockFrame
<1>8. ASSUME NEW p \in Procs, Close(p)
      PROVE  UNCHANGED <<out, sent>>
  BY <1>8 DEF Close, CloseFlag, CloseChan, PutBuffer, CloseTransport,
              CloseWriter, CloseAgain
<1>9. CASE TimeoutExpired \/ TimeoutLoopExits \/ Terminated \/ UNCHANGED vars
  BY <1>2, <1>9 DEF TimeoutExpired, TimeoutLoopExits, Terminated, vars
<1>. QED
  BY <1>2, <1>3, <1>4, <1>5, <1>6, <1>7, <1>8, <1>9 DEF Next, Start

(* The write side of a client implements the stream of frames its peer may  *)
(* rely on: every step that transmits adds whole frames, each of which may  *)
(* follow the ones before it.                                               *)
THEOREM StreamImplemented ==
    ASSUME Client, "repeatClose" \notin Calls
    PROVE  Spec => ImplementsStream
<1>1. Init => Stream!Init
  <2>1. 0 \div 2 = 0
    OBVIOUS
  <2>. QED BY <2>1 DEF Init, Stream!Init, WireFrames, WholeFrames
<1>2. ASSUME TypeOK, MessagesWhole', [Next]_vars
      PROVE  [Stream!Deliver]_WireFrames
  <2>. SUFFICES ASSUME WireFrames' # WireFrames PROVE Stream!Deliver
    OBVIOUS
  <2>1. /\ \A i \in 1..Len(out) : out'[i] = out[i]
        /\ sent' \in Nat /\ sent <= sent'
        /\ sent \in Nat /\ sent <= Len(out) /\ Len(out) \in Nat
    BY <1>2, OutGrows DEF TypeOK
  <2>2. PICK h \in Nat : h = sent \div 2 /\ (sent = 2*h \/ sent = 2*h + 1)
    BY <2>1, Halves
  <2>3. PICK k \in Nat : k = sent' \div 2 /\ (sent' = 2*k \/ sent' = 2*k + 1)
    BY <2>1, Halves
  <2>4. /\ WireFrames = [i \in 1..h |-> out[2*i]]
        /\ WireFrames' = [i \in 1..k |-> out'[2*i]]
    BY <2>2, <2>3 DEF WireFrames, WholeFrames
  <2>5. h <= k /\ Len(WireFrames) = h /\ Len(WireFrames') = k
    <3>1. 2*h <= sent /\ sent' <= 2*k + 1
      <4>1. sent = 2*h \/ sent = 2*h + 1
        BY <2>2
      <4>2. sent' = 2*k \/ sent' = 2*k + 1
        BY <2>3
      <4>. QED BY <4>1, <4>2
    <3>2. 2*h <= 2*k + 1
      BY <2>1, <3>1
    <3>3. h <= k
      BY <3>2
    <3>4. Len(WireFrames) = h /\ Len(WireFrames') = k
      BY <2>2, <2>3, <2>4
    <3>. QED BY <3>3, <3>4
  <2>6. Stream!IsStrictPrefix(WireFrames, WireFrames')
    <3>1. \A i \in 1..h : out'[2*i] = out[2*i]
      BY <2>1, <2>2
    <3>2. SubSeq(WireFrames, 1, h) = [i \in 1..h |-> out[2*i]]
      BY <2>4, <2>5
    <3>3. SubSeq(WireFrames', 1, h) = [i \in 1..h |-> out'[2*i]]
      BY <2>4, <2>5
    <3>4. SubSeq(WireFrames, 1, h) = SubSeq(WireFrames', 1, h)
      BY <3>1, <3>2, <3>3
    <3>. QED BY <2>5, <3>4 DEF Stream!IsStrictPrefix, Stream!IsPrefix
  <2>7. \A i \in 1..Len(WireFrames') :
           Stream!MayFollow(SubSeq(WireFrames', 1, i - 1), WireFrames'[i])
    BY <1>2 DEF MessagesWhole, Stream!MayFollow, Stream!NoMessage,
                Stream!MessageOf, Stream!LastData, Stream!Data, Stream!IsData
  <2>8. \A i \in Len(WireFrames)+1..Len(WireFrames') :
           i \in 1..Len(WireFrames')
    BY <2>5
  <2>. QED BY <2>6, <2>7, <2>8 DEF Stream!Deliver
<1>. QED
  BY <1>1, <1>2, TypeCorrect, MessagesWholeOnClient, PTL
     DEF Spec, ImplementsStream, Stream!Spec
=============================================================================
