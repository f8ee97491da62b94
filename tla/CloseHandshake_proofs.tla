------------------------ MODULE CloseHandshake_proofs ------------------------
(***************************************************************************)
(* Proofs about the read side of a connection, for one reader, any number  *)
(* of goroutines that close it, any bound on calls and frames, and both    *)
(* ends of a connection.                                                   *)
(***************************************************************************)
EXTENDS CloseHandshake, TLAPS

USE DEF callVars, msgVars, hsVars, closeVars, peerVars

(* newConn leaves every variable with its type. *)
LEMMA TypeInit == Init => TypeOK
<1> SUFFICES ASSUME Init PROVE TypeOK
  OBVIOUS
<1>1. /\ pc \in [Procs -> Labels] /\ ret \in [Procs -> Labels]
      /\ call \in [Callers -> CallKinds]
      /\ frame \in [Callers -> FrameKinds \cup {"none", "payload"}]
  BY DEF Init, Labels, CallKinds
<1>2. failed \in [Callers -> BOOLEAN] /\ ctxDone \in [Callers -> BOOLEAN]
  BY DEF Init
<1>3. /\ calls \in 0..MaxCalls /\ frames \in 0..MaxFrames /\ readMu \in 0..1
      /\ once \in Procs \cup {NoOne} /\ readCtx \in Callers \cup {NoOne}
  BY BoundsAssumption DEF Init
<1>4. /\ fin \in BOOLEAN /\ pending \in BOOLEAN /\ closeSent \in BOOLEAN
      /\ closeReceived \in BOOLEAN /\ onceDone \in BOOLEAN
      /\ closed \in BOOLEAN /\ rwcClosed \in BOOLEAN
      /\ readerClosed \in BOOLEAN /\ peerClosed \in BOOLEAN
  BY DEF Init
<1>5. QED
  BY <1>1, <1>2, <1>3, <1>4 DEF TypeOK

-----------------------------------------------------------------------------
(* The inductive invariant. *)

(* Where a goroutine got readMu and has not released it, *)
Locked == {"prepare", "checkReceived", "reading", "readDone", "dispatch",
           "pong", "writeError", "discard", "gotClose"}

(* or where its next step releases it, *)
Owner(g) == pc[g] \in Locked \cup {"unlock1", "unlock2", "unlockRead"}

(* and where it is to return to ret. *)
Waits == {"writeClose", "close", "closeTransport", "closeReader"}

(* The call a goroutine is in, and where it returns to. *)
CallInv ==
    \A g \in Callers :
        /\ call[g] \in {"reader", "read"} => g \in Readers
        /\ call[g] = "close" => g \in Closers
        /\ pc[g] \in Locked \cup {"lockRead"} =>
              call[g] \in {"reader", "read", "close"}
        /\ pc[g] \in Waits =>
              ret[g] \in {"lockRead", "unlock2", "unlockRead",
                         "waitGoroutines"}
        /\ pc[g] = "writeClose" => ret[g] \in {"lockRead", "unlock2"}
        /\ pc[g] \in Waits /\ ret[g] = "lockRead" => call[g] = "close"

(* Close reads only when a close frame was sent. *)
SentInv ==
    \A g \in Callers :
        /\ pc[g] \in Waits \ {"writeClose"} /\ ret[g] = "lockRead" => closeSent
        /\ pc[g] = "lockRead" /\ call[g] = "close" => closeSent \/ closed
        /\ pc[g] \in Locked /\ call[g] = "close" => closeSent

(* A frame that a reader has read leaves no payload pending before it. *)
FrameInv ==
    \A g \in Callers :
        /\ frame[g] # "none" => pc[g] \in {"readDone", "dispatch"}
        /\ failed[g] => pc[g] = "readDone" /\ frame[g] = "none"
        /\ call[g] = "reader" /\ pc[g] \in Locked \cup {"lockRead"} => ~pending
        /\ g \in Readers /\ frame[g] \notin {"none", "payload"} => ~pending
        /\ g \in Readers /\ pc[g] = "gotClose" => ~pending

(* What closeOnce's function has done. *)
OnceInv ==
    /\ onceDone => readerClosed
    /\ readerClosed => closed
    /\ \A p \in Procs : pc[p] \in {"closeTransport", "closeReader"} => closed

(* The goroutine that handles the peer's close frame exists only once the   *)
(* frame is marked; then no frame is read or handled, and the release of    *)
(* readMu before the answer happens only if no payload is pending.  If one  *)
(* is, an additional Close may still discard it, but holds readMu.          *)
ReceivedInv ==
    \A g \in Callers :
        /\ ~closeReceived =>
              /\ pc[g] \notin {"unlock1", "unlock2"}
              /\ pc[g] \in Waits => ret[g] \notin {"unlock2", "unlockRead"}
        /\ closeReceived =>
              /\ pc[g] \notin {"reading", "dispatch", "pong", "writeError",
                               "gotClose"}
              /\ pc[g] = "readDone" => failed[g]
        /\ closeReceived /\ pending =>
              /\ pc[g] # "unlock1"
              /\ pc[g] \in Waits => ret[g] # "unlock2"
        /\ closeReceived /\ ~pending => pc[g] # "discard"

(* Until the early release, readMu keeps its owners apart. *)
OwnerInv ==
    ~readerClosed /\ (~closeReceived \/ pending) =>
        /\ \A g \in Callers : Owner(g) => readMu = 1
        /\ \A g, h \in Callers : Owner(g) /\ Owner(h) => g = h

(* After msgReader.close nobody reads or gets to. *)
ClosedInv ==
    readerClosed =>
        \A g \in Callers :
            /\ ~Reading(g)
            /\ ~closeReceived => pc[g] \notin Locked

ReadInv ==
    /\ CallInv /\ SentInv /\ FrameInv /\ OnceInv
    /\ ReceivedInv /\ OwnerInv /\ ClosedInv

(* Every step keeps the types of the variables. *)
LEMMA TypeStep ==
    TypeOK /\ CallInv /\ [Next]_vars => TypeOK'
<1> SUFFICES ASSUME TypeOK, CallInv, [Next]_vars PROVE TypeOK'
  OBVIOUS
<1> USE ProcsAssumption, BoundsAssumption, FrameKindsAssumption DEF Procs,
    TypeOK, Labels, CallKinds
<1>1. ASSUME NEW g \in Callers, BeginReader(g)
      PROVE  TypeOK'
  BY <1>1 DEF BeginReader, Begin, Goto, MessageRead
<1>2. ASSUME NEW g \in Callers, BeginRead(g)
      PROVE  TypeOK'
  BY <1>2 DEF BeginRead, Begin, Goto, MessageRead
<1>3. ASSUME NEW g \in Callers, BeginClose(g)
      PROVE  TypeOK'
  BY <1>3 DEF BeginClose, Begin, Goto, ReturnTo
<1>4. ASSUME NEW g \in Callers, BeginCloseNow(g)
      PROVE  TypeOK'
  BY <1>4 DEF BeginCloseNow, Begin, Goto, ReturnTo
<1>5. ASSUME NEW g \in Callers, CtxDone(g)
      PROVE  TypeOK'
  BY <1>5 DEF CtxDone
<1>6. ASSUME NEW g \in Callers, LockRead(g)
      PROVE  TypeOK'
  BY <1>6 DEF LockRead, Goto
<1>7. ASSUME NEW g \in Callers, LockReadFails(g)
      PROVE  TypeOK'
  BY <1>7 DEF LockReadFails, Goto, ReturnTo
<1>8. ASSUME NEW g \in Callers, Prepare(g)
      PROVE  TypeOK'
  BY <1>8 DEF Prepare, Goto
<1>9. ASSUME NEW g \in Callers, CheckReceived(g)
      PROVE  TypeOK'
  <2>1. pc' \in [Procs -> Labels]
    BY <1>9 DEF CheckReceived, Goto
  <2>2. failed' \in [Callers -> BOOLEAN]
    BY <1>9 DEF CheckReceived, Fail
  <2>3. QED
    BY <1>9, <2>1, <2>2 DEF CheckReceived
<1>10. ASSUME NEW g \in Callers, ReadDone(g)
      PROVE  TypeOK'
  BY <1>10 DEF ReadDone, Goto
<1>11. ASSUME NEW g \in Callers, DispatchPayload(g)
      PROVE  TypeOK'
  BY <1>11 DEF DispatchPayload, Goto
<1>12. ASSUME NEW g \in Callers, DispatchData(g)
      PROVE  TypeOK'
  <2>1. call[g] \in {"reader", "read", "close"}
    BY <1>12 DEF DispatchData, Goto, CallInv, Locked
  <2>2. pc' \in [Procs -> Labels]
    BY <1>12, <2>1 DEF DispatchData, Goto
  <2>3. fin' \in BOOLEAN /\ pending' \in BOOLEAN
    BY <1>12 DEF DispatchData
  <2>4. frame' \in [Callers -> FrameKinds \cup {"none", "payload"}]
    BY <1>12 DEF DispatchData
  <2>5. UNCHANGED <<failed, ret, readMu, readCtx, callVars, hsVars, closeVars,
                    peerVars>>
    BY <1>12 DEF DispatchData
  <2>6. QED
    BY <2>2, <2>3, <2>4, <2>5 DEF callVars, hsVars, closeVars, peerVars
<1>13. ASSUME NEW g \in Callers, DispatchControl(g)
      PROVE  TypeOK'
  BY <1>13 DEF DispatchControl, Goto
<1>14. ASSUME NEW g \in Callers, Pong(g)
      PROVE  TypeOK'
  BY <1>14 DEF Pong, Goto
<1>15. ASSUME NEW g \in Callers, WriteError(g)
      PROVE  TypeOK'
  <2>1. pc' \in [Procs -> Labels] /\ closeSent' \in BOOLEAN
    BY <1>15 DEF WriteError, Goto
  <2>2. QED
    BY <1>15, <2>1 DEF WriteError
<1>16. ASSUME NEW g \in Callers, GotClose(g)
      PROVE  TypeOK'
  BY <1>16 DEF GotClose, Goto
<1>17. ASSUME NEW g \in Callers, Unlock1(g)
      PROVE  TypeOK'
  BY <1>17 DEF Unlock1, Goto, ReturnTo
<1>18. ASSUME NEW g \in Callers, Unlock2(g)
      PROVE  TypeOK'
  BY <1>18 DEF Unlock2, Goto, ReturnTo
<1>19. ASSUME NEW g \in Callers, UnlockRead(g)
      PROVE  TypeOK'
  BY <1>19 DEF UnlockRead, Goto, ReturnTo
<1>20. ASSUME NEW g \in Callers, ReadHeader(g)
      PROVE  TypeOK'
  BY <1>20 DEF ReadHeader, Goto, WantsPayload
<1>21. ASSUME NEW g \in Callers, ReadPayload(g)
      PROVE  TypeOK'
  <2>1. pc' \in [Procs -> Labels]
    BY <1>21 DEF ReadPayload, Goto
  <2>2. frame' \in [Callers -> FrameKinds \cup {"none", "payload"}]
    BY <1>21 DEF ReadPayload
  <2>3. UNCHANGED <<failed, ret, readMu, readCtx, callVars, fin, hsVars,
                    closeVars, peerVars>> /\ pending' \in BOOLEAN
    BY <1>21 DEF ReadPayload
  <2>4. QED
    BY <2>1, <2>2, <2>3
<1>22. ASSUME NEW g \in Callers, ReadFails(g)
      PROVE  TypeOK'
  BY <1>22 DEF ReadFails, Goto, Fail
<1>23. ASSUME NEW g \in Callers, Discard(g)
      PROVE  TypeOK'
  BY <1>23 DEF Discard, Goto
<1>24. ASSUME NEW g \in Callers, DiscardFails(g)
      PROVE  TypeOK'
  BY <1>24 DEF DiscardFails, Goto
<1>25. ASSUME NEW g \in Callers, WriteCloseIgnored(g)
      PROVE  TypeOK'
  BY <1>25 DEF WriteCloseIgnored, Goto
<1>26. ASSUME NEW g \in Callers, WriteCloseSent(g)
      PROVE  TypeOK'
  BY <1>26 DEF WriteCloseSent, Goto
<1>27. ASSUME NEW g \in Callers, WriteCloseFails(g)
      PROVE  TypeOK'
  BY <1>27 DEF WriteCloseFails, Goto, ReturnTo
<1>28. ASSUME NEW g \in Callers, WaitGoroutines(g)
      PROVE  TypeOK'
  BY <1>28 DEF WaitGoroutines, Goto
<1>29. ASSUME NEW p \in Procs, CloseBegin(p)
      PROVE  TypeOK'
  BY <1>29 DEF CloseBegin, Goto
<1>30. ASSUME NEW p \in Procs, CloseTransport(p)
      PROVE  TypeOK'
  BY <1>30 DEF CloseTransport, Goto
<1>31. ASSUME NEW p \in Procs, CloseReader(p)
      PROVE  TypeOK'
  BY <1>31 DEF CloseReader, Goto
<1>32. ASSUME NEW p \in Procs, CloseAgain(p)
      PROVE  TypeOK'
  BY <1>32 DEF CloseAgain, Goto
<1>33. CASE TimeoutExpired
  BY <1>33 DEF TimeoutExpired, Goto
<1>34. CASE TimeoutLoopExits
  BY <1>34 DEF TimeoutLoopExits, Goto
<1>35. CASE UNCHANGED vars
  BY <1>35 DEF vars
<1>36. QED
  BY <1>1, <1>2, <1>3, <1>4, <1>5, <1>6, <1>7, <1>8, <1>9, <1>10, <1>11, <1>12,
     <1>13, <1>14, <1>15, <1>16, <1>17, <1>18, <1>19, <1>20, <1>21, <1>22,
     <1>23, <1>24, <1>25, <1>26, <1>27, <1>28, <1>29, <1>30, <1>31, <1>32,
     <1>33, <1>34, <1>35
     DEF Next, Start, Read, Receive, WriteClose, Close, Terminated

(* A goroutine stays in its call. *)
LEMMA CallStep ==
    TypeOK /\ CallInv /\ [Next]_vars => CallInv'
<1> SUFFICES ASSUME TypeOK, CallInv, [Next]_vars PROVE CallInv'
  OBVIOUS
<1> USE ProcsAssumption DEF Procs, TypeOK, Locked, Waits, CallInv
<1>1. ASSUME NEW g \in Callers, BeginReader(g)
      PROVE  CallInv'
  BY <1>1 DEF BeginReader, Begin, Goto, MessageRead
<1>2. ASSUME NEW g \in Callers, BeginRead(g)
      PROVE  CallInv'
  BY <1>2 DEF BeginRead, Begin, Goto, MessageRead
<1>3. ASSUME NEW g \in Callers, BeginClose(g)
      PROVE  CallInv'
  BY <1>3 DEF BeginClose, Begin, Goto, ReturnTo
<1>4. ASSUME NEW g \in Callers, BeginCloseNow(g)
      PROVE  CallInv'
  BY <1>4 DEF BeginCloseNow, Begin, Goto, ReturnTo
<1>5. ASSUME NEW g \in Callers, CtxDone(g)
      PROVE  CallInv'
  BY <1>5 DEF CtxDone
<1>6. ASSUME NEW g \in Callers, LockRead(g)
      PROVE  CallInv'
  BY <1>6 DEF LockRead, Goto
<1>7. ASSUME NEW g \in Callers, LockReadFails(g)
      PROVE  CallInv'
  BY <1>7 DEF LockReadFails, Goto, ReturnTo
<1>8. ASSUME NEW g \in Callers, Prepare(g)
      PROVE  CallInv'
  BY <1>8 DEF Prepare, Goto
<1>9. ASSUME NEW g \in Callers, CheckReceived(g)
      PROVE  CallInv'
  BY <1>9 DEF CheckReceived, Goto, Fail
<1>10. ASSUME NEW g \in Callers, ReadDone(g)
      PROVE  CallInv'
  BY <1>10 DEF ReadDone, Goto
<1>11. ASSUME NEW g \in Callers, DispatchPayload(g)
      PROVE  CallInv'
  BY <1>11 DEF DispatchPayload, Goto
<1>12. ASSUME NEW g \in Callers, DispatchData(g)
      PROVE  CallInv'
  BY <1>12 DEF DispatchData, Goto
<1>13. ASSUME NEW g \in Callers, DispatchControl(g)
      PROVE  CallInv'
  BY <1>13 DEF DispatchControl, Goto
<1>14. ASSUME NEW g \in Callers, Pong(g)
      PROVE  CallInv'
  BY <1>14 DEF Pong, Goto
<1>15. ASSUME NEW g \in Callers, WriteError(g)
      PROVE  CallInv'
  BY <1>15 DEF WriteError, Goto
<1>16. ASSUME NEW g \in Callers, GotClose(g)
      PROVE  CallInv'
  BY <1>16 DEF GotClose, Goto
<1>17. ASSUME NEW g \in Callers, Unlock1(g)
      PROVE  CallInv'
  BY <1>17 DEF Unlock1, Goto, ReturnTo
<1>18. ASSUME NEW g \in Callers, Unlock2(g)
      PROVE  CallInv'
  BY <1>18 DEF Unlock2, Goto, ReturnTo
<1>19. ASSUME NEW g \in Callers, UnlockRead(g)
      PROVE  CallInv'
  BY <1>19 DEF UnlockRead, Goto, ReturnTo
<1>20. ASSUME NEW g \in Callers, ReadHeader(g)
      PROVE  CallInv'
  BY <1>20 DEF ReadHeader, Goto, WantsPayload
<1>21. ASSUME NEW g \in Callers, ReadPayload(g)
      PROVE  CallInv'
  BY <1>21 DEF ReadPayload, Goto, WantsPayload
<1>22. ASSUME NEW g \in Callers, ReadFails(g)
      PROVE  CallInv'
  BY <1>22 DEF ReadFails, Goto, Fail
<1>23. ASSUME NEW g \in Callers, Discard(g)
      PROVE  CallInv'
  BY <1>23 DEF Discard, Goto
<1>24. ASSUME NEW g \in Callers, DiscardFails(g)
      PROVE  CallInv'
  BY <1>24 DEF DiscardFails, Goto
<1>25. ASSUME NEW g \in Callers, WriteCloseIgnored(g)
      PROVE  CallInv'
  BY <1>25 DEF WriteCloseIgnored, Goto
<1>26. ASSUME NEW g \in Callers, WriteCloseSent(g)
      PROVE  CallInv'
  BY <1>26 DEF WriteCloseSent, Goto
<1>27. ASSUME NEW g \in Callers, WriteCloseFails(g)
      PROVE  CallInv'
  BY <1>27 DEF WriteCloseFails, Goto, ReturnTo
<1>28. ASSUME NEW g \in Callers, WaitGoroutines(g)
      PROVE  CallInv'
  BY <1>28 DEF WaitGoroutines, Goto
<1>29. ASSUME NEW p \in Procs, CloseBegin(p)
      PROVE  CallInv'
  BY <1>29 DEF CloseBegin, Goto
<1>30. ASSUME NEW p \in Procs, CloseTransport(p)
      PROVE  CallInv'
  BY <1>30 DEF CloseTransport, Goto
<1>31. ASSUME NEW p \in Procs, CloseReader(p)
      PROVE  CallInv'
  BY <1>31 DEF CloseReader, Goto
<1>32. ASSUME NEW p \in Procs, CloseAgain(p)
      PROVE  CallInv'
  BY <1>32 DEF CloseAgain, Goto
<1>33. CASE TimeoutExpired
  BY <1>33 DEF TimeoutExpired, Goto
<1>34. CASE TimeoutLoopExits
  BY <1>34 DEF TimeoutLoopExits, Goto
<1>35. CASE UNCHANGED vars
  BY <1>35 DEF vars
<1>36. QED
  BY <1>1, <1>2, <1>3, <1>4, <1>5, <1>6, <1>7, <1>8, <1>9, <1>10, <1>11, <1>12,
     <1>13, <1>14, <1>15, <1>16, <1>17, <1>18, <1>19, <1>20, <1>21, <1>22,
     <1>23, <1>24, <1>25, <1>26, <1>27, <1>28, <1>29, <1>30, <1>31, <1>32,
     <1>33, <1>34, <1>35
     DEF Next, Start, Read, Receive, WriteClose, Close, Terminated

(* Close sends before it reads. *)
LEMMA SentStep ==
    TypeOK /\ CallInv /\ SentInv /\ [Next]_vars => SentInv'
<1> SUFFICES ASSUME TypeOK, CallInv, SentInv, [Next]_vars PROVE SentInv'
  OBVIOUS
<1> USE ProcsAssumption DEF Procs, TypeOK, Locked, Waits, CallInv, SentInv
<1>1. ASSUME NEW g \in Callers, BeginReader(g)
      PROVE  SentInv'
  BY <1>1 DEF BeginReader, Begin, Goto, MessageRead
<1>2. ASSUME NEW g \in Callers, BeginRead(g)
      PROVE  SentInv'
  BY <1>2 DEF BeginRead, Begin, Goto, MessageRead
<1>3. ASSUME NEW g \in Callers, BeginClose(g)
      PROVE  SentInv'
  BY <1>3 DEF BeginClose, Begin, Goto, ReturnTo
<1>4. ASSUME NEW g \in Callers, BeginCloseNow(g)
      PROVE  SentInv'
  BY <1>4 DEF BeginCloseNow, Begin, Goto, ReturnTo
<1>5. ASSUME NEW g \in Callers, CtxDone(g)
      PROVE  SentInv'
  BY <1>5 DEF CtxDone
<1>6. ASSUME NEW g \in Callers, LockRead(g)
      PROVE  SentInv'
  BY <1>6 DEF LockRead, Goto
<1>7. ASSUME NEW g \in Callers, LockReadFails(g)
      PROVE  SentInv'
  BY <1>7 DEF LockReadFails, Goto, ReturnTo
<1>8. ASSUME NEW g \in Callers, Prepare(g)
      PROVE  SentInv'
  BY <1>8 DEF Prepare, Goto
<1>9. ASSUME NEW g \in Callers, CheckReceived(g)
      PROVE  SentInv'
  BY <1>9 DEF CheckReceived, Goto, Fail
<1>10. ASSUME NEW g \in Callers, ReadDone(g)
      PROVE  SentInv'
  BY <1>10 DEF ReadDone, Goto
<1>11. ASSUME NEW g \in Callers, DispatchPayload(g)
      PROVE  SentInv'
  BY <1>11 DEF DispatchPayload, Goto
<1>12. ASSUME NEW g \in Callers, DispatchData(g)
      PROVE  SentInv'
  BY <1>12 DEF DispatchData, Goto
<1>13. ASSUME NEW g \in Callers, DispatchControl(g)
      PROVE  SentInv'
  BY <1>13 DEF DispatchControl, Goto
<1>14. ASSUME NEW g \in Callers, Pong(g)
      PROVE  SentInv'
  BY <1>14 DEF Pong, Goto
<1>15. ASSUME NEW g \in Callers, WriteError(g)
      PROVE  SentInv'
  BY <1>15 DEF WriteError, Goto
<1>16. ASSUME NEW g \in Callers, GotClose(g)
      PROVE  SentInv'
  BY <1>16 DEF GotClose, Goto
<1>17. ASSUME NEW g \in Callers, Unlock1(g)
      PROVE  SentInv'
  BY <1>17 DEF Unlock1, Goto, ReturnTo
<1>18. ASSUME NEW g \in Callers, Unlock2(g)
      PROVE  SentInv'
  BY <1>18 DEF Unlock2, Goto, ReturnTo
<1>19. ASSUME NEW g \in Callers, UnlockRead(g)
      PROVE  SentInv'
  BY <1>19 DEF UnlockRead, Goto, ReturnTo
<1>20. ASSUME NEW g \in Callers, ReadHeader(g)
      PROVE  SentInv'
  BY <1>20 DEF ReadHeader, Goto, WantsPayload
<1>21. ASSUME NEW g \in Callers, ReadPayload(g)
      PROVE  SentInv'
  BY <1>21 DEF ReadPayload, Goto, WantsPayload
<1>22. ASSUME NEW g \in Callers, ReadFails(g)
      PROVE  SentInv'
  BY <1>22 DEF ReadFails, Goto, Fail
<1>23. ASSUME NEW g \in Callers, Discard(g)
      PROVE  SentInv'
  BY <1>23 DEF Discard, Goto
<1>24. ASSUME NEW g \in Callers, DiscardFails(g)
      PROVE  SentInv'
  BY <1>24 DEF DiscardFails, Goto
<1>25. ASSUME NEW g \in Callers, WriteCloseIgnored(g)
      PROVE  SentInv'
  BY <1>25 DEF WriteCloseIgnored, Goto
<1>26. ASSUME NEW g \in Callers, WriteCloseSent(g)
      PROVE  SentInv'
  BY <1>26 DEF WriteCloseSent, Goto
<1>27. ASSUME NEW g \in Callers, WriteCloseFails(g)
      PROVE  SentInv'
  BY <1>27 DEF WriteCloseFails, Goto, ReturnTo
<1>28. ASSUME NEW g \in Callers, WaitGoroutines(g)
      PROVE  SentInv'
  BY <1>28 DEF WaitGoroutines, Goto
<1>29. ASSUME NEW p \in Procs, CloseBegin(p)
      PROVE  SentInv'
  BY <1>29 DEF CloseBegin, Goto
<1>30. ASSUME NEW p \in Procs, CloseTransport(p)
      PROVE  SentInv'
  BY <1>30 DEF CloseTransport, Goto
<1>31. ASSUME NEW p \in Procs, CloseReader(p)
      PROVE  SentInv'
  BY <1>31 DEF CloseReader, Goto
<1>32. ASSUME NEW p \in Procs, CloseAgain(p)
      PROVE  SentInv'
  BY <1>32 DEF CloseAgain, Goto
<1>33. CASE TimeoutExpired
  BY <1>33 DEF TimeoutExpired, Goto
<1>34. CASE TimeoutLoopExits
  BY <1>34 DEF TimeoutLoopExits, Goto
<1>35. CASE UNCHANGED vars
  BY <1>35 DEF vars
<1>36. QED
  BY <1>1, <1>2, <1>3, <1>4, <1>5, <1>6, <1>7, <1>8, <1>9, <1>10, <1>11, <1>12,
     <1>13, <1>14, <1>15, <1>16, <1>17, <1>18, <1>19, <1>20, <1>21, <1>22,
     <1>23, <1>24, <1>25, <1>26, <1>27, <1>28, <1>29, <1>30, <1>31, <1>32,
     <1>33, <1>34, <1>35
     DEF Next, Start, Read, Receive, WriteClose, Close, Terminated

(* A reader reads a payload before the next header. *)
LEMMA FrameStep ==
    TypeOK /\ CallInv /\ FrameInv /\ [Next]_vars => FrameInv'
<1> SUFFICES ASSUME TypeOK, CallInv, FrameInv, [Next]_vars PROVE FrameInv'
  OBVIOUS
<1> USE ReadersAssumption, FrameKindsAssumption, ProcsAssumption DEF Procs,
    TypeOK, Locked, Waits, CallInv, FrameInv
<1>1. ASSUME NEW g \in Callers, BeginReader(g)
      PROVE  FrameInv'
  BY <1>1 DEF BeginReader, Begin, Goto, MessageRead
<1>2. ASSUME NEW g \in Callers, BeginRead(g)
      PROVE  FrameInv'
  BY <1>2 DEF BeginRead, Begin, Goto, MessageRead
<1>3. ASSUME NEW g \in Callers, BeginClose(g)
      PROVE  FrameInv'
  BY <1>3 DEF BeginClose, Begin, Goto, ReturnTo
<1>4. ASSUME NEW g \in Callers, BeginCloseNow(g)
      PROVE  FrameInv'
  BY <1>4 DEF BeginCloseNow, Begin, Goto, ReturnTo
<1>5. ASSUME NEW g \in Callers, CtxDone(g)
      PROVE  FrameInv'
  BY <1>5 DEF CtxDone
<1>6. ASSUME NEW g \in Callers, LockRead(g)
      PROVE  FrameInv'
  BY <1>6 DEF LockRead, Goto
<1>7. ASSUME NEW g \in Callers, LockReadFails(g)
      PROVE  FrameInv'
  BY <1>7 DEF LockReadFails, Goto, ReturnTo
<1>8. ASSUME NEW g \in Callers, Prepare(g)
      PROVE  FrameInv'
  BY <1>8 DEF Prepare, Goto
<1>9. ASSUME NEW g \in Callers, CheckReceived(g)
      PROVE  FrameInv'
  BY <1>9 DEF CheckReceived, Goto, Fail
<1>10. ASSUME NEW g \in Callers, ReadDone(g)
      PROVE  FrameInv'
  BY <1>10 DEF ReadDone, Goto
<1>11. ASSUME NEW g \in Callers, DispatchPayload(g)
      PROVE  FrameInv'
  BY <1>11 DEF DispatchPayload, Goto
<1>12. ASSUME NEW g \in Callers, DispatchData(g)
      PROVE  FrameInv'
  BY <1>12 DEF DispatchData, Goto
<1>13. ASSUME NEW g \in Callers, DispatchControl(g)
      PROVE  FrameInv'
  BY <1>13 DEF DispatchControl, Goto
<1>14. ASSUME NEW g \in Callers, Pong(g)
      PROVE  FrameInv'
  BY <1>14 DEF Pong, Goto
<1>15. ASSUME NEW g \in Callers, WriteError(g)
      PROVE  FrameInv'
  BY <1>15 DEF WriteError, Goto
<1>16. ASSUME NEW g \in Callers, GotClose(g)
      PROVE  FrameInv'
  BY <1>16 DEF GotClose, Goto
<1>17. ASSUME NEW g \in Callers, Unlock1(g)
      PROVE  FrameInv'
  BY <1>17 DEF Unlock1, Goto, ReturnTo
<1>18. ASSUME NEW g \in Callers, Unlock2(g)
      PROVE  FrameInv'
  BY <1>18 DEF Unlock2, Goto, ReturnTo
<1>19. ASSUME NEW g \in Callers, UnlockRead(g)
      PROVE  FrameInv'
  BY <1>19 DEF UnlockRead, Goto, ReturnTo
<1>20. ASSUME NEW g \in Callers, ReadHeader(g)
      PROVE  FrameInv'
  BY <1>20 DEF ReadHeader, Goto, WantsPayload
<1>21. ASSUME NEW g \in Callers, ReadPayload(g)
      PROVE  FrameInv'
  BY <1>21 DEF ReadPayload, Goto, WantsPayload
<1>22. ASSUME NEW g \in Callers, ReadFails(g)
      PROVE  FrameInv'
  BY <1>22 DEF ReadFails, Goto, Fail
<1>23. ASSUME NEW g \in Callers, Discard(g)
      PROVE  FrameInv'
  BY <1>23 DEF Discard, Goto
<1>24. ASSUME NEW g \in Callers, DiscardFails(g)
      PROVE  FrameInv'
  BY <1>24 DEF DiscardFails, Goto
<1>25. ASSUME NEW g \in Callers, WriteCloseIgnored(g)
      PROVE  FrameInv'
  BY <1>25 DEF WriteCloseIgnored, Goto
<1>26. ASSUME NEW g \in Callers, WriteCloseSent(g)
      PROVE  FrameInv'
  BY <1>26 DEF WriteCloseSent, Goto
<1>27. ASSUME NEW g \in Callers, WriteCloseFails(g)
      PROVE  FrameInv'
  BY <1>27 DEF WriteCloseFails, Goto, ReturnTo
<1>28. ASSUME NEW g \in Callers, WaitGoroutines(g)
      PROVE  FrameInv'
  BY <1>28 DEF WaitGoroutines, Goto
<1>29. ASSUME NEW p \in Procs, CloseBegin(p)
      PROVE  FrameInv'
  BY <1>29 DEF CloseBegin, Goto
<1>30. ASSUME NEW p \in Procs, CloseTransport(p)
      PROVE  FrameInv'
  BY <1>30 DEF CloseTransport, Goto
<1>31. ASSUME NEW p \in Procs, CloseReader(p)
      PROVE  FrameInv'
  BY <1>31 DEF CloseReader, Goto
<1>32. ASSUME NEW p \in Procs, CloseAgain(p)
      PROVE  FrameInv'
  BY <1>32 DEF CloseAgain, Goto
<1>33. CASE TimeoutExpired
  BY <1>33 DEF TimeoutExpired, Goto
<1>34. CASE TimeoutLoopExits
  BY <1>34 DEF TimeoutLoopExits, Goto
<1>35. CASE UNCHANGED vars
  BY <1>35 DEF vars
<1>36. QED
  BY <1>1, <1>2, <1>3, <1>4, <1>5, <1>6, <1>7, <1>8, <1>9, <1>10, <1>11, <1>12,
     <1>13, <1>14, <1>15, <1>16, <1>17, <1>18, <1>19, <1>20, <1>21, <1>22,
     <1>23, <1>24, <1>25, <1>26, <1>27, <1>28, <1>29, <1>30, <1>31, <1>32,
     <1>33, <1>34, <1>35
     DEF Next, Start, Read, Receive, WriteClose, Close, Terminated

(* closeOnce's function goes on in order. *)
LEMMA OnceStep ==
    TypeOK /\ CallInv /\ OnceInv /\ [Next]_vars => OnceInv'
<1> SUFFICES ASSUME TypeOK, CallInv, OnceInv, [Next]_vars PROVE OnceInv'
  OBVIOUS
<1> USE ProcsAssumption DEF Procs, TypeOK, Locked, Waits, CallInv, OnceInv
<1>1. ASSUME NEW g \in Callers, BeginReader(g)
      PROVE  OnceInv'
  BY <1>1 DEF BeginReader, Begin, Goto, MessageRead
<1>2. ASSUME NEW g \in Callers, BeginRead(g)
      PROVE  OnceInv'
  BY <1>2 DEF BeginRead, Begin, Goto, MessageRead
<1>3. ASSUME NEW g \in Callers, BeginClose(g)
      PROVE  OnceInv'
  BY <1>3 DEF BeginClose, Begin, Goto, ReturnTo
<1>4. ASSUME NEW g \in Callers, BeginCloseNow(g)
      PROVE  OnceInv'
  BY <1>4 DEF BeginCloseNow, Begin, Goto, ReturnTo
<1>5. ASSUME NEW g \in Callers, CtxDone(g)
      PROVE  OnceInv'
  BY <1>5 DEF CtxDone
<1>6. ASSUME NEW g \in Callers, LockRead(g)
      PROVE  OnceInv'
  BY <1>6 DEF LockRead, Goto
<1>7. ASSUME NEW g \in Callers, LockReadFails(g)
      PROVE  OnceInv'
  BY <1>7 DEF LockReadFails, Goto, ReturnTo
<1>8. ASSUME NEW g \in Callers, Prepare(g)
      PROVE  OnceInv'
  BY <1>8 DEF Prepare, Goto
<1>9. ASSUME NEW g \in Callers, CheckReceived(g)
      PROVE  OnceInv'
  BY <1>9 DEF CheckReceived, Goto, Fail
<1>10. ASSUME NEW g \in Callers, ReadDone(g)
      PROVE  OnceInv'
  BY <1>10 DEF ReadDone, Goto
<1>11. ASSUME NEW g \in Callers, DispatchPayload(g)
      PROVE  OnceInv'
  BY <1>11 DEF DispatchPayload, Goto
<1>12. ASSUME NEW g \in Callers, DispatchData(g)
      PROVE  OnceInv'
  BY <1>12 DEF DispatchData, Goto
<1>13. ASSUME NEW g \in Callers, DispatchControl(g)
      PROVE  OnceInv'
  BY <1>13 DEF DispatchControl, Goto
<1>14. ASSUME NEW g \in Callers, Pong(g)
      PROVE  OnceInv'
  BY <1>14 DEF Pong, Goto
<1>15. ASSUME NEW g \in Callers, WriteError(g)
      PROVE  OnceInv'
  BY <1>15 DEF WriteError, Goto
<1>16. ASSUME NEW g \in Callers, GotClose(g)
      PROVE  OnceInv'
  BY <1>16 DEF GotClose, Goto
<1>17. ASSUME NEW g \in Callers, Unlock1(g)
      PROVE  OnceInv'
  BY <1>17 DEF Unlock1, Goto, ReturnTo
<1>18. ASSUME NEW g \in Callers, Unlock2(g)
      PROVE  OnceInv'
  BY <1>18 DEF Unlock2, Goto, ReturnTo
<1>19. ASSUME NEW g \in Callers, UnlockRead(g)
      PROVE  OnceInv'
  BY <1>19 DEF UnlockRead, Goto, ReturnTo
<1>20. ASSUME NEW g \in Callers, ReadHeader(g)
      PROVE  OnceInv'
  BY <1>20 DEF ReadHeader, Goto, WantsPayload
<1>21. ASSUME NEW g \in Callers, ReadPayload(g)
      PROVE  OnceInv'
  BY <1>21 DEF ReadPayload, Goto, WantsPayload
<1>22. ASSUME NEW g \in Callers, ReadFails(g)
      PROVE  OnceInv'
  BY <1>22 DEF ReadFails, Goto, Fail
<1>23. ASSUME NEW g \in Callers, Discard(g)
      PROVE  OnceInv'
  BY <1>23 DEF Discard, Goto
<1>24. ASSUME NEW g \in Callers, DiscardFails(g)
      PROVE  OnceInv'
  BY <1>24 DEF DiscardFails, Goto
<1>25. ASSUME NEW g \in Callers, WriteCloseIgnored(g)
      PROVE  OnceInv'
  BY <1>25 DEF WriteCloseIgnored, Goto
<1>26. ASSUME NEW g \in Callers, WriteCloseSent(g)
      PROVE  OnceInv'
  BY <1>26 DEF WriteCloseSent, Goto
<1>27. ASSUME NEW g \in Callers, WriteCloseFails(g)
      PROVE  OnceInv'
  BY <1>27 DEF WriteCloseFails, Goto, ReturnTo
<1>28. ASSUME NEW g \in Callers, WaitGoroutines(g)
      PROVE  OnceInv'
  BY <1>28 DEF WaitGoroutines, Goto
<1>29. ASSUME NEW p \in Procs, CloseBegin(p)
      PROVE  OnceInv'
  BY <1>29 DEF CloseBegin, Goto
<1>30. ASSUME NEW p \in Procs, CloseTransport(p)
      PROVE  OnceInv'
  BY <1>30 DEF CloseTransport, Goto
<1>31. ASSUME NEW p \in Procs, CloseReader(p)
      PROVE  OnceInv'
  BY <1>31 DEF CloseReader, Goto
<1>32. ASSUME NEW p \in Procs, CloseAgain(p)
      PROVE  OnceInv'
  BY <1>32 DEF CloseAgain, Goto
<1>33. CASE TimeoutExpired
  BY <1>33 DEF TimeoutExpired, Goto
<1>34. CASE TimeoutLoopExits
  BY <1>34 DEF TimeoutLoopExits, Goto
<1>35. CASE UNCHANGED vars
  BY <1>35 DEF vars
<1>36. QED
  BY <1>1, <1>2, <1>3, <1>4, <1>5, <1>6, <1>7, <1>8, <1>9, <1>10, <1>11, <1>12,
     <1>13, <1>14, <1>15, <1>16, <1>17, <1>18, <1>19, <1>20, <1>21, <1>22,
     <1>23, <1>24, <1>25, <1>26, <1>27, <1>28, <1>29, <1>30, <1>31, <1>32,
     <1>33, <1>34, <1>35
     DEF Next, Start, Read, Receive, WriteClose, Close, Terminated

(* The goroutine that marks the peer's close frame read it with readMu held, *)
(* and sends the answer only when no close frame was sent.                   *)
LEMMA ReceivedStep ==
    TypeOK /\ ReadInv /\ [Next]_vars => ReceivedInv'
<1> SUFFICES ASSUME TypeOK, ReadInv, [Next]_vars PROVE ReceivedInv'
  OBVIOUS
<1> USE ProcsAssumption DEF Procs, TypeOK, Locked, Waits, ReadInv, CallInv,
    SentInv, FrameInv, ReceivedInv, OwnerInv, ClosedInv, OnceInv, Owner,
    Reading
<1>1. ASSUME NEW g \in Callers, BeginReader(g)
      PROVE  ReceivedInv'
  BY <1>1 DEF BeginReader, Begin, Goto, MessageRead
<1>2. ASSUME NEW g \in Callers, BeginRead(g)
      PROVE  ReceivedInv'
  BY <1>2 DEF BeginRead, Begin, Goto, MessageRead
<1>3. ASSUME NEW g \in Callers, BeginClose(g)
      PROVE  ReceivedInv'
  BY <1>3 DEF BeginClose, Begin, Goto, ReturnTo
<1>4. ASSUME NEW g \in Callers, BeginCloseNow(g)
      PROVE  ReceivedInv'
  BY <1>4 DEF BeginCloseNow, Begin, Goto, ReturnTo
<1>5. ASSUME NEW g \in Callers, CtxDone(g)
      PROVE  ReceivedInv'
  BY <1>5 DEF CtxDone
<1>6. ASSUME NEW g \in Callers, LockRead(g)
      PROVE  ReceivedInv'
  BY <1>6 DEF LockRead, Goto
<1>7. ASSUME NEW g \in Callers, LockReadFails(g)
      PROVE  ReceivedInv'
  BY <1>7 DEF LockReadFails, Goto, ReturnTo
<1>8. ASSUME NEW g \in Callers, Prepare(g)
      PROVE  ReceivedInv'
  BY <1>8 DEF Prepare, Goto
<1>9. ASSUME NEW g \in Callers, CheckReceived(g)
      PROVE  ReceivedInv'
  BY <1>9 DEF CheckReceived, Goto, Fail
<1>10. ASSUME NEW g \in Callers, ReadDone(g)
      PROVE  ReceivedInv'
  BY <1>10 DEF ReadDone, Goto
<1>11. ASSUME NEW g \in Callers, DispatchPayload(g)
      PROVE  ReceivedInv'
  BY <1>11 DEF DispatchPayload, Goto
<1>12. ASSUME NEW g \in Callers, DispatchData(g)
      PROVE  ReceivedInv'
  BY <1>12 DEF DispatchData, Goto
<1>13. ASSUME NEW g \in Callers, DispatchControl(g)
      PROVE  ReceivedInv'
  BY <1>13 DEF DispatchControl, Goto
<1>14. ASSUME NEW g \in Callers, Pong(g)
      PROVE  ReceivedInv'
  BY <1>14 DEF Pong, Goto
<1>15. ASSUME NEW g \in Callers, WriteError(g)
      PROVE  ReceivedInv'
  BY <1>15 DEF WriteError, Goto
<1>16. ASSUME NEW g \in Callers, GotClose(g)
      PROVE  ReceivedInv'
  BY <1>16 DEF GotClose, Goto
<1>17. ASSUME NEW g \in Callers, Unlock1(g)
      PROVE  ReceivedInv'
  BY <1>17 DEF Unlock1, Goto, ReturnTo
<1>18. ASSUME NEW g \in Callers, Unlock2(g)
      PROVE  ReceivedInv'
  BY <1>18 DEF Unlock2, Goto, ReturnTo
<1>19. ASSUME NEW g \in Callers, UnlockRead(g)
      PROVE  ReceivedInv'
  BY <1>19 DEF UnlockRead, Goto, ReturnTo
<1>20. ASSUME NEW g \in Callers, ReadHeader(g)
      PROVE  ReceivedInv'
  BY <1>20 DEF ReadHeader, Goto, WantsPayload
<1>21. ASSUME NEW g \in Callers, ReadPayload(g)
      PROVE  ReceivedInv'
  BY <1>21 DEF ReadPayload, Goto, WantsPayload
<1>22. ASSUME NEW g \in Callers, ReadFails(g)
      PROVE  ReceivedInv'
  BY <1>22 DEF ReadFails, Goto, Fail
<1>23. ASSUME NEW g \in Callers, Discard(g)
      PROVE  ReceivedInv'
  BY <1>23 DEF Discard, Goto
<1>24. ASSUME NEW g \in Callers, DiscardFails(g)
      PROVE  ReceivedInv'
  BY <1>24 DEF DiscardFails, Goto
<1>25. ASSUME NEW g \in Callers, WriteCloseIgnored(g)
      PROVE  ReceivedInv'
  BY <1>25 DEF WriteCloseIgnored, Goto
<1>26. ASSUME NEW g \in Callers, WriteCloseSent(g)
      PROVE  ReceivedInv'
  BY <1>26 DEF WriteCloseSent, Goto
<1>27. ASSUME NEW g \in Callers, WriteCloseFails(g)
      PROVE  ReceivedInv'
  BY <1>27 DEF WriteCloseFails, Goto, ReturnTo
<1>28. ASSUME NEW g \in Callers, WaitGoroutines(g)
      PROVE  ReceivedInv'
  BY <1>28 DEF WaitGoroutines, Goto
<1>29. ASSUME NEW p \in Procs, CloseBegin(p)
      PROVE  ReceivedInv'
  BY <1>29 DEF CloseBegin, Goto
<1>30. ASSUME NEW p \in Procs, CloseTransport(p)
      PROVE  ReceivedInv'
  BY <1>30 DEF CloseTransport, Goto
<1>31. ASSUME NEW p \in Procs, CloseReader(p)
      PROVE  ReceivedInv'
  BY <1>31 DEF CloseReader, Goto
<1>32. ASSUME NEW p \in Procs, CloseAgain(p)
      PROVE  ReceivedInv'
  BY <1>32 DEF CloseAgain, Goto
<1>33. CASE TimeoutExpired
  BY <1>33 DEF TimeoutExpired, Goto
<1>34. CASE TimeoutLoopExits
  BY <1>34 DEF TimeoutLoopExits, Goto
<1>35. CASE UNCHANGED vars
  BY <1>35 DEF vars
<1>36. QED
  BY <1>1, <1>2, <1>3, <1>4, <1>5, <1>6, <1>7, <1>8, <1>9, <1>10, <1>11, <1>12,
     <1>13, <1>14, <1>15, <1>16, <1>17, <1>18, <1>19, <1>20, <1>21, <1>22,
     <1>23, <1>24, <1>25, <1>26, <1>27, <1>28, <1>29, <1>30, <1>31, <1>32,
     <1>33, <1>34, <1>35
     DEF Next, Start, Read, Receive, WriteClose, Close, Terminated

(* Only an owner releases readMu, until the peer's close frame is marked     *)
(* and the message before it read.                                           *)
LEMMA OwnerStep ==
    TypeOK /\ ReadInv /\ [Next]_vars => OwnerInv'
<1> SUFFICES ASSUME TypeOK, ReadInv, [Next]_vars PROVE OwnerInv'
  OBVIOUS
<1> USE ProcsAssumption DEF Procs, TypeOK, Locked, Waits, ReadInv, CallInv,
    ReceivedInv, OwnerInv, ClosedInv, OnceInv, Owner, Reading
<1>1. ASSUME NEW g \in Callers, BeginReader(g)
      PROVE  OwnerInv'
  BY <1>1 DEF BeginReader, Begin, Goto, MessageRead
<1>2. ASSUME NEW g \in Callers, BeginRead(g)
      PROVE  OwnerInv'
  BY <1>2 DEF BeginRead, Begin, Goto, MessageRead
<1>3. ASSUME NEW g \in Callers, BeginClose(g)
      PROVE  OwnerInv'
  BY <1>3 DEF BeginClose, Begin, Goto, ReturnTo
<1>4. ASSUME NEW g \in Callers, BeginCloseNow(g)
      PROVE  OwnerInv'
  BY <1>4 DEF BeginCloseNow, Begin, Goto, ReturnTo
<1>5. ASSUME NEW g \in Callers, CtxDone(g)
      PROVE  OwnerInv'
  BY <1>5 DEF CtxDone
<1>6. ASSUME NEW g \in Callers, LockRead(g)
      PROVE  OwnerInv'
  BY <1>6 DEF LockRead, Goto
<1>7. ASSUME NEW g \in Callers, LockReadFails(g)
      PROVE  OwnerInv'
  BY <1>7 DEF LockReadFails, Goto, ReturnTo
<1>8. ASSUME NEW g \in Callers, Prepare(g)
      PROVE  OwnerInv'
  BY <1>8 DEF Prepare, Goto
<1>9. ASSUME NEW g \in Callers, CheckReceived(g)
      PROVE  OwnerInv'
  BY <1>9 DEF CheckReceived, Goto, Fail
<1>10. ASSUME NEW g \in Callers, ReadDone(g)
      PROVE  OwnerInv'
  BY <1>10 DEF ReadDone, Goto
<1>11. ASSUME NEW g \in Callers, DispatchPayload(g)
      PROVE  OwnerInv'
  BY <1>11 DEF DispatchPayload, Goto
<1>12. ASSUME NEW g \in Callers, DispatchData(g)
      PROVE  OwnerInv'
  BY <1>12 DEF DispatchData, Goto
<1>13. ASSUME NEW g \in Callers, DispatchControl(g)
      PROVE  OwnerInv'
  BY <1>13 DEF DispatchControl, Goto
<1>14. ASSUME NEW g \in Callers, Pong(g)
      PROVE  OwnerInv'
  BY <1>14 DEF Pong, Goto
<1>15. ASSUME NEW g \in Callers, WriteError(g)
      PROVE  OwnerInv'
  BY <1>15 DEF WriteError, Goto
<1>16. ASSUME NEW g \in Callers, GotClose(g)
      PROVE  OwnerInv'
  BY <1>16 DEF GotClose, Goto
<1>17. ASSUME NEW g \in Callers, Unlock1(g)
      PROVE  OwnerInv'
  BY <1>17 DEF Unlock1, Goto, ReturnTo
<1>18. ASSUME NEW g \in Callers, Unlock2(g)
      PROVE  OwnerInv'
  BY <1>18 DEF Unlock2, Goto, ReturnTo
<1>19. ASSUME NEW g \in Callers, UnlockRead(g)
      PROVE  OwnerInv'
  BY <1>19 DEF UnlockRead, Goto, ReturnTo
<1>20. ASSUME NEW g \in Callers, ReadHeader(g)
      PROVE  OwnerInv'
  BY <1>20 DEF ReadHeader, Goto, WantsPayload
<1>21. ASSUME NEW g \in Callers, ReadPayload(g)
      PROVE  OwnerInv'
  BY <1>21 DEF ReadPayload, Goto, WantsPayload
<1>22. ASSUME NEW g \in Callers, ReadFails(g)
      PROVE  OwnerInv'
  BY <1>22 DEF ReadFails, Goto, Fail
<1>23. ASSUME NEW g \in Callers, Discard(g)
      PROVE  OwnerInv'
  BY <1>23 DEF Discard, Goto
<1>24. ASSUME NEW g \in Callers, DiscardFails(g)
      PROVE  OwnerInv'
  BY <1>24 DEF DiscardFails, Goto
<1>25. ASSUME NEW g \in Callers, WriteCloseIgnored(g)
      PROVE  OwnerInv'
  BY <1>25 DEF WriteCloseIgnored, Goto
<1>26. ASSUME NEW g \in Callers, WriteCloseSent(g)
      PROVE  OwnerInv'
  BY <1>26 DEF WriteCloseSent, Goto
<1>27. ASSUME NEW g \in Callers, WriteCloseFails(g)
      PROVE  OwnerInv'
  BY <1>27 DEF WriteCloseFails, Goto, ReturnTo
<1>28. ASSUME NEW g \in Callers, WaitGoroutines(g)
      PROVE  OwnerInv'
  BY <1>28 DEF WaitGoroutines, Goto
<1>29. ASSUME NEW p \in Procs, CloseBegin(p)
      PROVE  OwnerInv'
  BY <1>29 DEF CloseBegin, Goto
<1>30. ASSUME NEW p \in Procs, CloseTransport(p)
      PROVE  OwnerInv'
  BY <1>30 DEF CloseTransport, Goto
<1>31. ASSUME NEW p \in Procs, CloseReader(p)
      PROVE  OwnerInv'
  BY <1>31 DEF CloseReader, Goto
<1>32. ASSUME NEW p \in Procs, CloseAgain(p)
      PROVE  OwnerInv'
  BY <1>32 DEF CloseAgain, Goto
<1>33. CASE TimeoutExpired
  BY <1>33 DEF TimeoutExpired, Goto
<1>34. CASE TimeoutLoopExits
  BY <1>34 DEF TimeoutLoopExits, Goto
<1>35. CASE UNCHANGED vars
  BY <1>35 DEF vars
<1>36. QED
  BY <1>1, <1>2, <1>3, <1>4, <1>5, <1>6, <1>7, <1>8, <1>9, <1>10, <1>11, <1>12,
     <1>13, <1>14, <1>15, <1>16, <1>17, <1>18, <1>19, <1>20, <1>21, <1>22,
     <1>23, <1>24, <1>25, <1>26, <1>27, <1>28, <1>29, <1>30, <1>31, <1>32,
     <1>33, <1>34, <1>35
     DEF Next, Start, Read, Receive, WriteClose, Close, Terminated

(* msgReader.close waits for readMu, which no goroutine locks once the       *)
(* connection is closed.                                                     *)
LEMMA ClosedStep ==
    TypeOK /\ ReadInv /\ [Next]_vars => ClosedInv'
<1> SUFFICES ASSUME TypeOK, ReadInv, [Next]_vars PROVE ClosedInv'
  OBVIOUS
<1> USE ProcsAssumption DEF Procs, TypeOK, Locked, Waits, ReadInv, CallInv,
    ReceivedInv, OwnerInv, ClosedInv, OnceInv, Owner, Reading
<1>1. ASSUME NEW g \in Callers, BeginReader(g)
      PROVE  ClosedInv'
  BY <1>1 DEF BeginReader, Begin, Goto, MessageRead
<1>2. ASSUME NEW g \in Callers, BeginRead(g)
      PROVE  ClosedInv'
  BY <1>2 DEF BeginRead, Begin, Goto, MessageRead
<1>3. ASSUME NEW g \in Callers, BeginClose(g)
      PROVE  ClosedInv'
  BY <1>3 DEF BeginClose, Begin, Goto, ReturnTo
<1>4. ASSUME NEW g \in Callers, BeginCloseNow(g)
      PROVE  ClosedInv'
  BY <1>4 DEF BeginCloseNow, Begin, Goto, ReturnTo
<1>5. ASSUME NEW g \in Callers, CtxDone(g)
      PROVE  ClosedInv'
  BY <1>5 DEF CtxDone
<1>6. ASSUME NEW g \in Callers, LockRead(g)
      PROVE  ClosedInv'
  BY <1>6 DEF LockRead, Goto
<1>7. ASSUME NEW g \in Callers, LockReadFails(g)
      PROVE  ClosedInv'
  BY <1>7 DEF LockReadFails, Goto, ReturnTo
<1>8. ASSUME NEW g \in Callers, Prepare(g)
      PROVE  ClosedInv'
  BY <1>8 DEF Prepare, Goto
<1>9. ASSUME NEW g \in Callers, CheckReceived(g)
      PROVE  ClosedInv'
  BY <1>9 DEF CheckReceived, Goto, Fail
<1>10. ASSUME NEW g \in Callers, ReadDone(g)
      PROVE  ClosedInv'
  BY <1>10 DEF ReadDone, Goto
<1>11. ASSUME NEW g \in Callers, DispatchPayload(g)
      PROVE  ClosedInv'
  BY <1>11 DEF DispatchPayload, Goto
<1>12. ASSUME NEW g \in Callers, DispatchData(g)
      PROVE  ClosedInv'
  BY <1>12 DEF DispatchData, Goto
<1>13. ASSUME NEW g \in Callers, DispatchControl(g)
      PROVE  ClosedInv'
  BY <1>13 DEF DispatchControl, Goto
<1>14. ASSUME NEW g \in Callers, Pong(g)
      PROVE  ClosedInv'
  BY <1>14 DEF Pong, Goto
<1>15. ASSUME NEW g \in Callers, WriteError(g)
      PROVE  ClosedInv'
  BY <1>15 DEF WriteError, Goto
<1>16. ASSUME NEW g \in Callers, GotClose(g)
      PROVE  ClosedInv'
  BY <1>16 DEF GotClose, Goto
<1>17. ASSUME NEW g \in Callers, Unlock1(g)
      PROVE  ClosedInv'
  BY <1>17 DEF Unlock1, Goto, ReturnTo
<1>18. ASSUME NEW g \in Callers, Unlock2(g)
      PROVE  ClosedInv'
  BY <1>18 DEF Unlock2, Goto, ReturnTo
<1>19. ASSUME NEW g \in Callers, UnlockRead(g)
      PROVE  ClosedInv'
  BY <1>19 DEF UnlockRead, Goto, ReturnTo
<1>20. ASSUME NEW g \in Callers, ReadHeader(g)
      PROVE  ClosedInv'
  BY <1>20 DEF ReadHeader, Goto, WantsPayload
<1>21. ASSUME NEW g \in Callers, ReadPayload(g)
      PROVE  ClosedInv'
  BY <1>21 DEF ReadPayload, Goto, WantsPayload
<1>22. ASSUME NEW g \in Callers, ReadFails(g)
      PROVE  ClosedInv'
  BY <1>22 DEF ReadFails, Goto, Fail
<1>23. ASSUME NEW g \in Callers, Discard(g)
      PROVE  ClosedInv'
  BY <1>23 DEF Discard, Goto
<1>24. ASSUME NEW g \in Callers, DiscardFails(g)
      PROVE  ClosedInv'
  BY <1>24 DEF DiscardFails, Goto
<1>25. ASSUME NEW g \in Callers, WriteCloseIgnored(g)
      PROVE  ClosedInv'
  BY <1>25 DEF WriteCloseIgnored, Goto
<1>26. ASSUME NEW g \in Callers, WriteCloseSent(g)
      PROVE  ClosedInv'
  BY <1>26 DEF WriteCloseSent, Goto
<1>27. ASSUME NEW g \in Callers, WriteCloseFails(g)
      PROVE  ClosedInv'
  BY <1>27 DEF WriteCloseFails, Goto, ReturnTo
<1>28. ASSUME NEW g \in Callers, WaitGoroutines(g)
      PROVE  ClosedInv'
  BY <1>28 DEF WaitGoroutines, Goto
<1>29. ASSUME NEW p \in Procs, CloseBegin(p)
      PROVE  ClosedInv'
  BY <1>29 DEF CloseBegin, Goto
<1>30. ASSUME NEW p \in Procs, CloseTransport(p)
      PROVE  ClosedInv'
  BY <1>30 DEF CloseTransport, Goto
<1>31. ASSUME NEW p \in Procs, CloseReader(p)
      PROVE  ClosedInv'
  BY <1>31 DEF CloseReader, Goto
<1>32. ASSUME NEW p \in Procs, CloseAgain(p)
      PROVE  ClosedInv'
  BY <1>32 DEF CloseAgain, Goto
<1>33. CASE TimeoutExpired
  BY <1>33 DEF TimeoutExpired, Goto
<1>34. CASE TimeoutLoopExits
  BY <1>34 DEF TimeoutLoopExits, Goto
<1>35. CASE UNCHANGED vars
  BY <1>35 DEF vars
<1>36. QED
  BY <1>1, <1>2, <1>3, <1>4, <1>5, <1>6, <1>7, <1>8, <1>9, <1>10, <1>11, <1>12,
     <1>13, <1>14, <1>15, <1>16, <1>17, <1>18, <1>19, <1>20, <1>21, <1>22,
     <1>23, <1>24, <1>25, <1>26, <1>27, <1>28, <1>29, <1>30, <1>31, <1>32,
     <1>33, <1>34, <1>35
     DEF Next, Start, Read, Receive, WriteClose, Close, Terminated

(* newConn establishes the invariant: nobody is in a call. *)
LEMMA ReadInvInit == Init => ReadInv
BY ProcsAssumption
   DEF Init, ReadInv, CallInv, SentInv, FrameInv, OnceInv, ReceivedInv,
       OwnerInv, ClosedInv, Owner, Locked, Waits, Reading, Procs

(* Every step keeps the types and the invariant. *)
LEMMA ReadInvStep ==
    TypeOK /\ ReadInv /\ [Next]_vars => TypeOK' /\ ReadInv'
<1> SUFFICES ASSUME TypeOK, ReadInv, [Next]_vars PROVE TypeOK' /\ ReadInv'
  OBVIOUS
<1>1. CallInv /\ SentInv /\ FrameInv /\ OnceInv
  BY DEF ReadInv
<1>2. TypeOK'
  BY <1>1, TypeStep
<1>3. CallInv' /\ SentInv' /\ FrameInv' /\ OnceInv'
  BY <1>1, CallStep, SentStep, FrameStep, OnceStep
<1>4. ReceivedInv' /\ OwnerInv' /\ ClosedInv'
  BY ReceivedStep, OwnerStep, ClosedStep
<1>5. QED
  BY <1>2, <1>3, <1>4 DEF ReadInv

(* Both hold always. *)
LEMMA ReadInvariant == Spec => [](TypeOK /\ ReadInv)
<1>1. Init => TypeOK /\ ReadInv
  BY TypeInit, ReadInvInit
<1>2. TypeOK /\ ReadInv /\ [Next]_vars => (TypeOK /\ ReadInv)'
  BY ReadInvStep
<1>3. QED
  BY <1>1, <1>2, PTL DEF Spec

-----------------------------------------------------------------------------
(* No two goroutines read from br at the same time (read.go:424,427 release *)
(* readMu early): readMu keeps them apart until the peer's close frame is   *)
(* marked and nothing is pending, or msgReader.close ran, and from then on  *)
(* nobody reads at all.                                                     *)
THEOREM OneReaderAlways == Spec => []OneReader
<1>1. ASSUME TypeOK, ReadInv PROVE OneReader
  <2>1. SUFFICES ASSUME NEW g \in Callers, NEW h \in Callers,
                        Reading(g), Reading(h)
                 PROVE  g = h
    BY <1>1 DEF OneReader
  <2>2. ~readerClosed
    BY <1>1, <2>1 DEF ReadInv, ClosedInv
  <2>3. ~closeReceived \/ pending
    BY <1>1, <2>1 DEF ReadInv, ReceivedInv, Reading
  <2>4. Owner(g) /\ Owner(h)
    BY <2>1 DEF Reading, Owner, Locked
  <2>5. QED
    BY <1>1, <2>2, <2>3, <2>4 DEF ReadInv, OwnerInv
<1>2. QED
  BY <1>1, ReadInvariant, PTL

(* Whoever reads from br does not see msgReader.close give it back          *)
(* (conn.go:335).                                                           *)
THEOREM ReaderClosedUnusedAlways == Spec => []ReaderClosedUnused
<1>1. ReadInv => ReaderClosedUnused
  BY DEF ReadInv, ClosedInv, ReaderClosedUnused
<1>2. QED
  BY <1>1, ReadInvariant, PTL

(* The peer's close frame is the last frame that is read or handled, by     *)
(* readers, by Close and by additional Closes (read.go:291,417).            *)
THEOREM CloseFrameIsLastAlways == Spec => []CloseFrameIsLast
<1>1. TypeOK /\ ReadInv => CloseFrameIsLast
  <2> SUFFICES ASSUME ReadInv, closeReceived, NEW g \in Callers
               PROVE  /\ pc[g] \notin {"reading", "dispatch", "pong",
                                       "writeError", "gotClose"}
                      /\ frame[g] = "none"
    BY DEF CloseFrameIsLast
  <2>1. /\ pc[g] \notin {"reading", "dispatch", "pong", "writeError",
                         "gotClose"}
        /\ pc[g] = "readDone" => failed[g]
    BY DEF ReadInv, ReceivedInv
  <2>2. /\ frame[g] # "none" => pc[g] \in {"readDone", "dispatch"}
        /\ failed[g] => frame[g] = "none"
    BY DEF ReadInv, FrameInv
  <2> QED
    BY <2>1, <2>2
<1>2. QED
  BY <1>1, ReadInvariant, PTL

(* A context is watched from prepareRead to done(). *)
LEMMA WatchStep ==
    TypeOK /\ WatchedContextIsReading /\ [Next]_vars =>
        WatchedContextIsReading'
<1> SUFFICES ASSUME TypeOK, WatchedContextIsReading, [Next]_vars PROVE
    WatchedContextIsReading'
  OBVIOUS
<1> USE ProcsAssumption DEF Procs, TypeOK, WatchedContextIsReading
<1>1. ASSUME NEW g \in Callers, BeginReader(g)
      PROVE  WatchedContextIsReading'
  BY <1>1 DEF BeginReader, Begin, Goto, MessageRead
<1>2. ASSUME NEW g \in Callers, BeginRead(g)
      PROVE  WatchedContextIsReading'
  BY <1>2 DEF BeginRead, Begin, Goto, MessageRead
<1>3. ASSUME NEW g \in Callers, BeginClose(g)
      PROVE  WatchedContextIsReading'
  BY <1>3 DEF BeginClose, Begin, Goto, ReturnTo
<1>4. ASSUME NEW g \in Callers, BeginCloseNow(g)
      PROVE  WatchedContextIsReading'
  BY <1>4 DEF BeginCloseNow, Begin, Goto, ReturnTo
<1>5. ASSUME NEW g \in Callers, CtxDone(g)
      PROVE  WatchedContextIsReading'
  BY <1>5 DEF CtxDone
<1>6. ASSUME NEW g \in Callers, LockRead(g)
      PROVE  WatchedContextIsReading'
  BY <1>6 DEF LockRead, Goto
<1>7. ASSUME NEW g \in Callers, LockReadFails(g)
      PROVE  WatchedContextIsReading'
  BY <1>7 DEF LockReadFails, Goto, ReturnTo
<1>8. ASSUME NEW g \in Callers, Prepare(g)
      PROVE  WatchedContextIsReading'
  BY <1>8 DEF Prepare, Goto
<1>9. ASSUME NEW g \in Callers, CheckReceived(g)
      PROVE  WatchedContextIsReading'
  BY <1>9 DEF CheckReceived, Goto, Fail
<1>10. ASSUME NEW g \in Callers, ReadDone(g)
      PROVE  WatchedContextIsReading'
  BY <1>10 DEF ReadDone, Goto
<1>11. ASSUME NEW g \in Callers, DispatchPayload(g)
      PROVE  WatchedContextIsReading'
  BY <1>11 DEF DispatchPayload, Goto
<1>12. ASSUME NEW g \in Callers, DispatchData(g)
      PROVE  WatchedContextIsReading'
  BY <1>12 DEF DispatchData, Goto
<1>13. ASSUME NEW g \in Callers, DispatchControl(g)
      PROVE  WatchedContextIsReading'
  BY <1>13 DEF DispatchControl, Goto
<1>14. ASSUME NEW g \in Callers, Pong(g)
      PROVE  WatchedContextIsReading'
  BY <1>14 DEF Pong, Goto
<1>15. ASSUME NEW g \in Callers, WriteError(g)
      PROVE  WatchedContextIsReading'
  BY <1>15 DEF WriteError, Goto
<1>16. ASSUME NEW g \in Callers, GotClose(g)
      PROVE  WatchedContextIsReading'
  BY <1>16 DEF GotClose, Goto
<1>17. ASSUME NEW g \in Callers, Unlock1(g)
      PROVE  WatchedContextIsReading'
  BY <1>17 DEF Unlock1, Goto, ReturnTo
<1>18. ASSUME NEW g \in Callers, Unlock2(g)
      PROVE  WatchedContextIsReading'
  BY <1>18 DEF Unlock2, Goto, ReturnTo
<1>19. ASSUME NEW g \in Callers, UnlockRead(g)
      PROVE  WatchedContextIsReading'
  BY <1>19 DEF UnlockRead, Goto, ReturnTo
<1>20. ASSUME NEW g \in Callers, ReadHeader(g)
      PROVE  WatchedContextIsReading'
  BY <1>20 DEF ReadHeader, Goto, WantsPayload
<1>21. ASSUME NEW g \in Callers, ReadPayload(g)
      PROVE  WatchedContextIsReading'
  BY <1>21 DEF ReadPayload, Goto, WantsPayload
<1>22. ASSUME NEW g \in Callers, ReadFails(g)
      PROVE  WatchedContextIsReading'
  BY <1>22 DEF ReadFails, Goto, Fail
<1>23. ASSUME NEW g \in Callers, Discard(g)
      PROVE  WatchedContextIsReading'
  BY <1>23 DEF Discard, Goto
<1>24. ASSUME NEW g \in Callers, DiscardFails(g)
      PROVE  WatchedContextIsReading'
  BY <1>24 DEF DiscardFails, Goto
<1>25. ASSUME NEW g \in Callers, WriteCloseIgnored(g)
      PROVE  WatchedContextIsReading'
  BY <1>25 DEF WriteCloseIgnored, Goto
<1>26. ASSUME NEW g \in Callers, WriteCloseSent(g)
      PROVE  WatchedContextIsReading'
  BY <1>26 DEF WriteCloseSent, Goto
<1>27. ASSUME NEW g \in Callers, WriteCloseFails(g)
      PROVE  WatchedContextIsReading'
  BY <1>27 DEF WriteCloseFails, Goto, ReturnTo
<1>28. ASSUME NEW g \in Callers, WaitGoroutines(g)
      PROVE  WatchedContextIsReading'
  BY <1>28 DEF WaitGoroutines, Goto
<1>29. ASSUME NEW p \in Procs, CloseBegin(p)
      PROVE  WatchedContextIsReading'
  BY <1>29 DEF CloseBegin, Goto
<1>30. ASSUME NEW p \in Procs, CloseTransport(p)
      PROVE  WatchedContextIsReading'
  BY <1>30 DEF CloseTransport, Goto
<1>31. ASSUME NEW p \in Procs, CloseReader(p)
      PROVE  WatchedContextIsReading'
  BY <1>31 DEF CloseReader, Goto
<1>32. ASSUME NEW p \in Procs, CloseAgain(p)
      PROVE  WatchedContextIsReading'
  BY <1>32 DEF CloseAgain, Goto
<1>33. CASE TimeoutExpired
  BY <1>33 DEF TimeoutExpired, Goto
<1>34. CASE TimeoutLoopExits
  BY <1>34 DEF TimeoutLoopExits, Goto
<1>35. CASE UNCHANGED vars
  BY <1>35 DEF vars
<1>36. QED
  BY <1>1, <1>2, <1>3, <1>4, <1>5, <1>6, <1>7, <1>8, <1>9, <1>10, <1>11, <1>12,
     <1>13, <1>14, <1>15, <1>16, <1>17, <1>18, <1>19, <1>20, <1>21, <1>22,
     <1>23, <1>24, <1>25, <1>26, <1>27, <1>28, <1>29, <1>30, <1>31, <1>32,
     <1>33, <1>34, <1>35
     DEF Next, Start, Read, Receive, WriteClose, Close, Terminated

(* The context timeoutLoop watches is that of a read in progress            *)
(* (read.go:279-289).                                                       *)
THEOREM WatchedContextIsReadingAlways == Spec => []WatchedContextIsReading
<1>1. Init => WatchedContextIsReading
  BY DEF Init, WatchedContextIsReading
<1>2. TypeOK /\ WatchedContextIsReading /\ [Next]_vars
      => WatchedContextIsReading'
  BY WatchStep
<1>3. QED
  BY <1>1, <1>2, ReadInvariant, PTL DEF Spec
=============================================================================
