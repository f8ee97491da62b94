--------------------------- MODULE CloseHandshake ---------------------------
(***************************************************************************)
(* The read side of a connection and its closing handshake: read.go        *)
(* (reader, msgReader, readLoop, prepareRead, handleControl), close.go      *)
(* (Close, CloseNow, waitCloseHandshake, waitGoroutines), the read timeout  *)
(* of conn.go's timeoutLoop and conn.go's close().                          *)
(*                                                                         *)
(* A reader calls Reader and reads its message to the end; Closers call     *)
(* Close or CloseNow.  Whoever reads a control frame handles it, so all of  *)
(* them run the same steps of readLoop, from "lockRead" to "unlockRead".    *)
(* The write of a frame is one step here (FrameWriter has its steps), and   *)
(* the peer sends any frame at any time until its close frame.              *)
(*                                                                         *)
(* readMu is a channel of capacity one: unlock releases it whoever holds it *)
(* or does nothing (conn.go:458).  A goroutine's locals last as long as     *)
(* they are used, and the error a call returns is not kept.                 *)
(***************************************************************************)
EXTENDS Integers

CONSTANTS Readers,      \* the goroutine that calls Reader and reads messages
          Closers,      \* goroutines that call Close or CloseNow
          TimeoutLoop,  \* the goroutine of timeoutLoop
          NoOne,        \* no goroutine; as a context, context.Background()
          MaxFrames,    \* bound: frames the peer sends
          MaxCalls,     \* bound: calls made on the connection
          FrameKinds,   \* the kinds of frame the peer sends
          Client,       \* whether the connection is a client's
          Takeover      \* messages are compressed, with context takeover

Callers == Readers \cup Closers
Procs == Callers \cup {TimeoutLoop}

ASSUME ProcsAssumption ==
    /\ Readers \cap Closers = {}
    /\ TimeoutLoop \notin Callers
    /\ NoOne \notin Procs
(* "All methods may be called concurrently except for Reader and Read"      *)
(* (conn.go:33): at most one goroutine calls them.                          *)
ASSUME ReadersAssumption == \A g, h \in Readers : g = h
ASSUME BoundsAssumption == MaxFrames \in Nat /\ MaxCalls \in Nat
ASSUME FrameKindsAssumption ==
    FrameKinds \subseteq {"data", "ping", "close", "bad"}
ASSUME FlagsAssumption == Client \in BOOLEAN /\ Takeover \in BOOLEAN

VARIABLES
    pc,             \* where each goroutine is
    call,           \* the call a goroutine is in
    frame,          \* what it has read: a frame, or a payload
    failed,         \* whether the read it is in met an error
    ctxDone,        \* the context of its call has expired or was cancelled
    ret,            \* where it goes on after writeClose or close()
    calls,          \* calls made so far (bounded by MaxCalls)
    readMu,         \* the tokens in the channel of Conn.readMu
    fin,            \* msgReader.fin
    pending,        \* msgReader.payloadLength > 0
    closeSent,      \* closeSentErr != nil
    closeReceived,  \* closeReceivedErr != nil
    once,           \* the goroutine that runs closeOnce's function
    onceDone,       \* closeOnce's function has returned
    closed,         \* the channel closed is closed, closedFlag is set
    rwcClosed,      \* the transport is closed
    readerClosed,   \* msgReader.close ran: br is nil on a client, dict is nil
    readCtx,        \* timeoutLoop's readCtx: whose context it watches
    frames,         \* frames the peer has sent (bounded by MaxFrames)
    peerClosed      \* its last frame was a close frame

callVars == <<call, ctxDone, calls>>
msgVars == <<fin, pending>>
hsVars == <<closeSent, closeReceived>>
closeVars == <<once, onceDone, closed, rwcClosed, readerClosed>>
peerVars == <<frames, peerClosed>>
vars == <<pc, frame, failed, ret, readMu, readCtx, callVars, msgVars, hsVars,
          closeVars, peerVars>>

Labels == {"idle", "lockRead", "prepare", "checkReceived", "reading",
           "readDone", "dispatch", "pong", "writeError", "discard",
           "gotClose", "unlock1", "writeClose", "unlock2", "unlockRead",
           "close", "closeTransport", "closeReader", "waitGoroutines",
           "select", "exited"}
CallKinds == {"none", "reader", "read", "close", "closeNow"}

TypeOK ==
    /\ pc \in [Procs -> Labels]
    /\ call \in [Callers -> CallKinds]
    /\ frame \in [Callers -> FrameKinds \cup {"none", "payload"}]
    /\ failed \in [Callers -> BOOLEAN]
    /\ ctxDone \in [Callers -> BOOLEAN]
    /\ ret \in [Procs -> Labels]
    /\ calls \in 0..MaxCalls
    /\ readMu \in 0..1 /\ fin \in BOOLEAN /\ pending \in BOOLEAN
    /\ closeSent \in BOOLEAN /\ closeReceived \in BOOLEAN
    /\ once \in Procs \cup {NoOne} /\ onceDone \in BOOLEAN
    /\ closed \in BOOLEAN /\ rwcClosed \in BOOLEAN
    /\ readerClosed \in BOOLEAN
    /\ readCtx \in Callers \cup {NoOne}
    /\ frames \in 0..MaxFrames /\ peerClosed \in BOOLEAN

Init ==
    /\ pc = [p \in Procs |-> IF p = TimeoutLoop THEN "select" ELSE "idle"]
    /\ call = [g \in Callers |-> "none"]
    /\ frame = [g \in Callers |-> "none"]
    /\ failed = [g \in Callers |-> FALSE]
    /\ ctxDone = [g \in Callers |-> FALSE]
    /\ ret = [p \in Procs |-> IF p = TimeoutLoop THEN "exited" ELSE "idle"]
    /\ calls = 0
    /\ readMu = 0 /\ fin = TRUE /\ pending = FALSE
    /\ closeSent = FALSE /\ closeReceived = FALSE
    /\ once = NoOne /\ onceDone = FALSE
    /\ closed = FALSE /\ rwcClosed = FALSE /\ readerClosed = FALSE
    /\ readCtx = NoOne
    /\ frames = 0 /\ peerClosed = FALSE

-----------------------------------------------------------------------------
(* Control of a goroutine. *)

Goto(p, from, to) == pc[p] = from /\ pc' = [pc EXCEPT ![p] = to]
Fail(g) == failed' = [failed EXCEPT ![g] = TRUE]
ReturnTo(p, label) == ret' = [ret EXCEPT ![p] = label]

Begin(g, kind, label) ==
    /\ calls < MaxCalls
    /\ Goto(g, "idle", label)
    /\ calls' = calls + 1
    /\ call' = [call EXCEPT ![g] = kind]
    /\ UNCHANGED <<frame, failed, ctxDone, readMu, readCtx, msgVars, hsVars,
                   closeVars, peerVars>>

MessageRead == fin /\ ~pending

(* Reader, once the previous message was read; msgReader.Read until then.   *)
BeginReader(g) ==
    /\ g \in Readers /\ MessageRead
    /\ Begin(g, "reader", "lockRead") /\ UNCHANGED ret

BeginRead(g) ==
    /\ g \in Readers /\ ~MessageRead
    /\ Begin(g, "read", "lockRead") /\ UNCHANGED ret

(* Close writes a close frame first; an error other than a closed           *)
(* connection ends the handshake.                                           *)
BeginClose(g) ==
    /\ g \in Closers
    /\ Begin(g, "close", "writeClose") /\ ReturnTo(g, "lockRead")

BeginCloseNow(g) ==
    /\ g \in Closers
    /\ Begin(g, "closeNow", "close") /\ ReturnTo(g, "waitGoroutines")

(* The context of a read expires or is cancelled; Close gives its handshake *)
(* five seconds.                                                            *)
CtxDone(g) ==
    /\ pc[g] \in {"lockRead", "prepare", "checkReceived", "reading",
                  "readDone", "discard"}
    /\ ~ctxDone[g]
    /\ ctxDone' = [ctxDone EXCEPT ![g] = TRUE]
    /\ UNCHANGED <<pc, frame, failed, ret, readMu, readCtx, call, calls,
                   msgVars, hsVars, closeVars, peerVars>>

-----------------------------------------------------------------------------
(* waitCloseHandshake discards the rest of the message first; payloadLength *)
(* keeps its value (close.go:181).                                          *)
LockRead(g) ==
    /\ Goto(g, "lockRead",
            IF call[g] = "close" /\ pending THEN "discard" ELSE "prepare")
    /\ readMu = 0 /\ ~closed
    /\ readMu' = 1
    /\ UNCHANGED <<failed, frame, ret, readCtx, callVars, msgVars, hsVars,
                   closeVars, peerVars>>

(* Mutant: lock does not look at the context. *)
LockReadFailsClosedOnly(g) ==
    /\ closed
    /\ Goto(g, "lockRead", IF call[g] = "close" THEN "close" ELSE "idle")
    /\ ReturnTo(g, IF call[g] = "close" THEN "waitGoroutines" ELSE "idle")
    /\ ctxDone' = [ctxDone EXCEPT ![g] = FALSE]
    /\ UNCHANGED <<failed, frame, readMu, readCtx, call, calls, msgVars,
                   hsVars, closeVars, peerVars>>

LockReadFails(g) ==
    /\ closed \/ ctxDone[g]
    /\ Goto(g, "lockRead", IF call[g] = "close" THEN "close" ELSE "idle")
    /\ ReturnTo(g, IF call[g] = "close" THEN "waitGoroutines" ELSE "idle")
    /\ ctxDone' = [ctxDone EXCEPT ![g] = FALSE]
    /\ UNCHANGED <<failed, frame, readMu, readCtx, call, calls, msgVars,
                   hsVars, closeVars, peerVars>>

(* prepareRead: timeoutLoop takes the context, or the connection is closed. *)
Prepare(g) ==
    /\ \/ /\ Goto(g, "prepare", "checkReceived")
          /\ pc[TimeoutLoop] = "select"
          /\ readCtx' = g
       \/ /\ Goto(g, "prepare", "unlockRead")
          /\ closed
          /\ UNCHANGED readCtx
    /\ UNCHANGED <<failed, frame, ret, readMu, callVars, msgVars, hsVars,
                   closeVars, peerVars>>

(* Mutant: prepareRead does not look at closeReceivedErr. *)
CheckReceivedSkipped(g) ==
    /\ Goto(g, "checkReceived", "reading")
    /\ UNCHANGED <<failed, frame, ret, readMu, readCtx, callVars, msgVars,
                   hsVars, closeVars, peerVars>>

CheckReceived(g) ==
    /\ IF closeReceived
       THEN Goto(g, "checkReceived", "readDone") /\ Fail(g)
       ELSE Goto(g, "checkReceived", "reading") /\ UNCHANGED failed
    /\ UNCHANGED <<frame, ret, readMu, readCtx, callVars, msgVars, hsVars,
                   closeVars, peerVars>>

(* What a goroutine that is reading waits for: the payload of the message,  *)
(* or a header (a control frame arrives with its payload).                  *)
WantsPayload(g) == call[g] = "read" /\ pending

ReadHeader(g) ==
    /\ ~WantsPayload(g) /\ ~peerClosed /\ frames < MaxFrames
    /\ Goto(g, "reading", "readDone")
    /\ \E f \in FrameKinds :
          /\ frame' = [frame EXCEPT ![g] = f]
          /\ peerClosed' = (f = "close")
    /\ frames' = frames + 1
    /\ UNCHANGED <<failed, ret, readMu, readCtx, callVars, msgVars, hsVars,
                   closeVars>>

ReadPayload(g) ==
    /\ WantsPayload(g)
    /\ Goto(g, "reading", "readDone")
    /\ frame' = [frame EXCEPT ![g] = "payload"]
    /\ pending' = FALSE
    /\ UNCHANGED <<failed, ret, readMu, readCtx, callVars, fin, hsVars,
                   closeVars, peerVars>>

(* The peer is gone, or close() closed the transport under the read. *)
ReadFails(g) ==
    /\ Goto(g, "reading", "readDone")
    /\ Fail(g)
    /\ UNCHANGED <<frame, ret, readMu, readCtx, callVars, msgVars, hsVars,
                   closeVars, peerVars>>

(* Mutant: timeoutLoop keeps watching the context. *)
ReadDoneForgotten(g) ==
    /\ Goto(g, "readDone", IF failed[g] THEN "unlockRead" ELSE "dispatch")
    /\ failed' = [failed EXCEPT ![g] = FALSE]
    /\ UNCHANGED <<frame, ret, readMu, readCtx, callVars, msgVars, hsVars,
                   closeVars, peerVars>>

(* done(): timeoutLoop stops watching the context of this read. *)
ReadDone(g) ==
    /\ Goto(g, "readDone", IF failed[g] THEN "unlockRead" ELSE "dispatch")
    /\ \/ pc[TimeoutLoop] = "select" /\ readCtx' = NoOne
       \/ closed /\ UNCHANGED readCtx
    /\ failed' = [failed EXCEPT ![g] = FALSE]
    /\ UNCHANGED <<frame, ret, readMu, callVars, msgVars, hsVars, closeVars,
                   peerVars>>

-----------------------------------------------------------------------------
(* readLoop and handleControl, with readMu held. *)

(* msgReader.read returns the payload to its user. *)
DispatchPayload(g) ==
    /\ frame[g] = "payload"
    /\ Goto(g, "dispatch", "unlockRead")
    /\ frame' = [frame EXCEPT ![g] = "none"]
    /\ UNCHANGED <<failed, ret, readMu, readCtx, callVars, msgVars, hsVars,
                   closeVars, peerVars>>

(* A data frame begins a message for Reader, continues it for Read (whose   *)
(* loop goes on to the payload), and is discarded by Close.                 *)
DispatchData(g) ==
    /\ frame[g] = "data"
    /\ Goto(g, "dispatch", CASE call[g] = "reader" -> "unlockRead"
                             [] call[g] = "read" -> "prepare"
                             [] call[g] = "close" -> "discard")
    /\ IF call[g] = "close" THEN UNCHANGED msgVars
                            ELSE pending' = TRUE /\ fin' \in BOOLEAN
    /\ frame' = [frame EXCEPT ![g] = "none"]
    /\ UNCHANGED <<failed, ret, readMu, readCtx, callVars, hsVars, closeVars,
                   peerVars>>

DispatchControl(g) ==
    /\ \/ frame[g] = "ping" /\ Goto(g, "dispatch", "pong")
       \/ frame[g] = "bad" /\ Goto(g, "dispatch", "writeError")
       \/ frame[g] = "close" /\ Goto(g, "dispatch", "gotClose")
    /\ frame' = [frame EXCEPT ![g] = "none"]
    /\ UNCHANGED <<failed, ret, readMu, readCtx, callVars, msgVars, hsVars,
                   closeVars, peerVars>>

(* A pong is written, or its write fails and ends the call. *)
Pong(g) ==
    /\ \/ Goto(g, "pong", "prepare") /\ ~closed /\ ~closeSent
       \/ Goto(g, "pong", "unlockRead")
    /\ UNCHANGED <<failed, frame, ret, readMu, readCtx, callVars, msgVars,
                   hsVars, closeVars, peerVars>>

(* A frame that violates the protocol: a close frame is written, if it can  *)
(* be, and the call fails.                                                  *)
WriteError(g) ==
    /\ Goto(g, "writeError", "unlockRead")
    /\ closeSent' \in {closeSent, closeSent \/ ~closed}
    /\ UNCHANGED <<failed, frame, ret, readMu, readCtx, callVars, msgVars,
                   closeReceived, closeVars, peerVars>>

(* Close reads a payload byte by byte from br, without prepareRead. *)
Discard(g) ==
    /\ Goto(g, "discard", "prepare")
    /\ ~rwcClosed
    /\ UNCHANGED <<failed, frame, ret, readMu, readCtx, callVars, msgVars,
                   hsVars, closeVars, peerVars>>

DiscardFails(g) ==
    /\ Goto(g, "discard", "unlockRead")
    /\ UNCHANGED <<failed, frame, ret, readMu, readCtx, callVars, msgVars,
                   hsVars, closeVars, peerVars>>

(* Mutant: closeReceivedErr is not set. *)
GotCloseUnmarked(g) ==
    /\ Goto(g, "gotClose", IF closeSent THEN "unlock2" ELSE "unlock1")
    /\ UNCHANGED <<failed, frame, ret, readMu, readCtx, callVars, msgVars,
                   hsVars, closeVars, peerVars>>

(* A close frame: closeReceivedErr is set and closeSentErr read in one      *)
(* critical section of closeStateMu.                                        *)
GotClose(g) ==
    /\ Goto(g, "gotClose", IF closeSent THEN "unlock2" ELSE "unlock1")
    /\ closeReceived' = TRUE
    /\ UNCHANGED <<failed, frame, ret, readMu, readCtx, callVars, msgVars,
                   closeSent, closeVars, peerVars>>

(* readMu is released because close(), which writeClose may call, locks it. *)
Unlock1(g) ==
    /\ Goto(g, "unlock1", "writeClose")
    /\ readMu' = 0
    /\ ReturnTo(g, "unlock2")
    /\ UNCHANGED <<failed, frame, readCtx, callVars, msgVars, hsVars,
                   closeVars, peerVars>>

(* Mutant: readMu is not released before close() locks it. *)
Unlock2Forgotten(g) ==
    /\ Goto(g, "unlock2", "close")
    /\ ReturnTo(g, "unlockRead")
    /\ UNCHANGED <<failed, frame, readMu, readCtx, callVars, msgVars, hsVars,
                   closeVars, peerVars>>

Unlock2(g) ==
    /\ Goto(g, "unlock2", "close")
    /\ readMu' = 0
    /\ ReturnTo(g, "unlockRead")
    /\ UNCHANGED <<failed, frame, readCtx, callVars, msgVars, hsVars,
                   closeVars, peerVars>>

(* Deferred: readMu.unlock, and the cancel of Close's five seconds.  Close  *)
(* goes on to close() and waitGoroutines.                                   *)
UnlockRead(g) ==
    /\ Goto(g, "unlockRead", IF call[g] = "close" THEN "close" ELSE "idle")
    /\ readMu' = 0
    /\ ReturnTo(g, IF call[g] = "close" THEN "waitGoroutines" ELSE "idle")
    /\ ctxDone' = [ctxDone EXCEPT ![g] = FALSE]
    /\ UNCHANGED <<failed, frame, readCtx, call, calls, msgVars, hsVars,
                   closeVars, peerVars>>

-----------------------------------------------------------------------------
(* writeClose, for Close and for the answer to a close frame. *)

(* The connection is closed or a close frame was written: ignored. *)
WriteCloseIgnored(g) ==
    /\ closed \/ closeSent
    /\ Goto(g, "writeClose", ret[g])
    /\ UNCHANGED <<failed, frame, ret, readMu, readCtx, callVars, msgVars,
                   hsVars, closeVars, peerVars>>

(* writeFrame closes the connection once both close frames are exchanged.   *)
WriteCloseSent(g) ==
    /\ ~closed /\ ~closeSent
    /\ closeSent' = TRUE
    /\ Goto(g, "writeClose", IF closeReceived THEN "close" ELSE ret[g])
    /\ UNCHANGED <<failed, frame, ret, readMu, readCtx, callVars, msgVars,
                   closeReceived, closeVars, peerVars>>

(* Its five seconds pass or the transport fails: the handshake is over.     *)
WriteCloseFails(g) ==
    /\ ~closed /\ ~closeSent
    /\ LET next == IF ret[g] = "lockRead" THEN "close" ELSE ret[g]
       IN  Goto(g, "writeClose", next)
    /\ ReturnTo(g, IF ret[g] = "lockRead" THEN "waitGoroutines" ELSE ret[g])
    /\ UNCHANGED <<failed, frame, readMu, readCtx, callVars, msgVars, hsVars,
                   closeVars, peerVars>>

-----------------------------------------------------------------------------
(* close(): closeOnce runs its function once; the others wait for its end.  *)

CloseBegin(p) ==
    /\ Goto(p, "close", "closeTransport")
    /\ once = NoOne
    /\ once' = p /\ closed' = TRUE
    /\ UNCHANGED <<failed, frame, ret, readMu, readCtx, callVars, msgVars,
                   hsVars, onceDone, rwcClosed, readerClosed, peerVars>>

CloseTransport(p) ==
    /\ Goto(p, "closeTransport", "closeReader")
    /\ rwcClosed' = TRUE
    /\ UNCHANGED <<failed, frame, ret, readMu, readCtx, callVars, msgVars,
                   hsVars, once, onceDone, closed, readerClosed, peerVars>>

(* Mutant: msgReader.close does not wait for readMu. *)
CloseReaderUnlocked(p) ==
    /\ Goto(p, "closeReader", ret[p])
    /\ readMu' = 1
    /\ readerClosed' = TRUE /\ onceDone' = TRUE
    /\ UNCHANGED <<failed, frame, ret, readCtx, callVars, msgVars, hsVars,
                   once, closed, rwcClosed, peerVars>>

(* msgReader.close: readMu is locked for good (unless a deferred unlock     *)
(* releases it again); the flate reader goes back to its pool, dict and, on *)
(* a client, br become nil.                                                 *)
CloseReader(p) ==
    /\ Goto(p, "closeReader", ret[p])
    /\ readMu = 0
    /\ readMu' = 1
    /\ readerClosed' = TRUE /\ onceDone' = TRUE
    /\ UNCHANGED <<failed, frame, ret, readCtx, callVars, msgVars, hsVars,
                   once, closed, rwcClosed, peerVars>>

CloseAgain(p) ==
    /\ Goto(p, "close", ret[p])
    /\ onceDone
    /\ UNCHANGED <<failed, frame, ret, readMu, readCtx, callVars, msgVars,
                   hsVars, closeVars, peerVars>>

(* waitGoroutines: timeoutLoop has exited, or fifteen seconds are over. *)
WaitGoroutines(g) ==
    /\ Goto(g, "waitGoroutines", "idle")
    /\ UNCHANGED <<failed, frame, ret, readMu, readCtx, callVars, msgVars,
                   hsVars, closeVars, peerVars>>

(* timeoutLoop: a watched context is done, or the connection is closed. *)
TimeoutExpired ==
    /\ Goto(TimeoutLoop, "select", "close")
    /\ readCtx # NoOne /\ ctxDone[readCtx]
    /\ UNCHANGED <<failed, frame, ret, readMu, readCtx, callVars, msgVars,
                   hsVars, closeVars, peerVars>>

TimeoutLoopExits ==
    /\ Goto(TimeoutLoop, "select", "exited")
    /\ closed
    /\ UNCHANGED <<failed, frame, ret, readMu, readCtx, callVars, msgVars,
                   hsVars, closeVars, peerVars>>

-----------------------------------------------------------------------------
Start(g) ==
    BeginReader(g) \/ BeginRead(g) \/ BeginClose(g) \/ BeginCloseNow(g)

Read(g) ==
    \/ LockRead(g) \/ LockReadFails(g) \/ Prepare(g) \/ CheckReceived(g)
    \/ ReadDone(g) \/ DispatchPayload(g) \/ DispatchData(g)
    \/ DispatchControl(g) \/ Pong(g) \/ WriteError(g)
    \/ GotClose(g) \/ Unlock1(g) \/ Unlock2(g) \/ UnlockRead(g)

WriteClose(g) ==
    WriteCloseIgnored(g) \/ WriteCloseSent(g) \/ WriteCloseFails(g)

(* What the peer and the transport do to a goroutine that reads. *)
Receive(g) ==
    \/ ReadHeader(g) \/ ReadPayload(g) \/ ReadFails(g)
    \/ Discard(g) \/ DiscardFails(g)

Close(p) ==
    CloseBegin(p) \/ CloseTransport(p) \/ CloseReader(p) \/ CloseAgain(p)

(* Every call has returned and the bound leaves no other. *)
Terminated ==
    /\ \A g \in Callers : pc[g] = "idle"
    /\ UNCHANGED vars

Next ==
    \/ \E g \in Callers :
          \/ Start(g) \/ CtxDone(g) \/ Read(g) \/ Receive(g) \/ WriteClose(g)
          \/ WaitGoroutines(g)
    \/ \E p \in Procs : Close(p)
    \/ TimeoutExpired \/ TimeoutLoopExits
    \/ Terminated

Spec == Init /\ [][Next]_vars

(* Fairness: goroutines are scheduled, the five seconds of a handshake      *)
(* pass, and a read from a closed transport fails.  The context of a read   *)
(* need not expire, and the peer need not send anything.                    *)
Fairness ==
    /\ \A g \in Callers :
          /\ WF_vars(Read(g) \/ WriteClose(g) \/ WaitGoroutines(g))
          /\ WF_vars(call[g] = "close" /\ CtxDone(g))
          /\ WF_vars(rwcClosed /\ (ReadFails(g) \/ DiscardFails(g)))
    /\ \A p \in Procs : WF_vars(Close(p))
    /\ WF_vars(TimeoutExpired)
    /\ WF_vars(TimeoutLoopExits)

FairSpec == Spec /\ Fairness

(* The peer also sends the payload of a frame whose header it sent. *)
FairPeerSpec ==
    FairSpec /\ \A g \in Callers : WF_vars(Discard(g) \/ DiscardFails(g))

-----------------------------------------------------------------------------
(* Properties. *)

(* The goroutines that read from br. *)
Reading(g) == pc[g] \in {"reading", "discard"}

(* Although the reader of a close frame releases readMu up to three times   *)
(* (read.go:424,427 and its deferred unlock), no two goroutines read from   *)
(* br at the same time.                                                     *)
OneReader ==
    /\ TypeOK
    /\ \A g, h \in Callers : Reading(g) /\ Reading(h) => g = h

(* "With the close of rwc, these become safe to close" (conn.go:335): who   *)
(* reads from br does not see msgReader.close set it to nil.                *)
ReaderClosedUnused == readerClosed => \A g \in Callers : ~Reading(g)

(* A message's reader, its sliding window included, stays until its Read    *)
(* returns (read.go:512-515).                                               *)
DictOutlivesRead ==
    Takeover /\ readerClosed =>
        \A g \in Callers : call[g] = "read" => pc[g] # "unlockRead"

(* The context timeoutLoop watches is that of a read in progress: one that  *)
(* expires later closes nothing (read.go:279-289).                          *)
WatchedContextIsReading ==
    readCtx # NoOne /\ ~closed =>
        pc[readCtx] \in {"checkReceived", "reading", "readDone"}

(* The peer's close frame is the last frame that anybody reads or handles:  *)
(* once it is received, nobody in readLoop is at a header, at the payload   *)
(* of a message, or at a frame read before, although readMu is released     *)
(* before close() runs (read.go:291,417,424,427).                           *)
CloseFrameIsLast ==
    closeReceived =>
        \A g \in Callers :
            /\ pc[g] \notin {"reading", "dispatch", "pong", "writeError",
                             "gotClose"}
            /\ frame[g] = "none"

(* "The connection can only be closed once. Additional calls to Close are   *)
(* no-ops." (close.go:91): when one Close has received the peer's close     *)
(* frame, no other begins to read from br (close.go:181).                   *)
AdditionalCloseReadsNothing ==
    [][closeReceived => \A g \in Closers : Reading(g)' => Reading(g)]_vars

(* When the handshake is complete the connection is closed soon, by who     *)
(* wrote the answer or read it.                                             *)
HandshakeCloses == (closeSent /\ closeReceived) ~> onceDone

(* Close "will write a WebSocket close frame with a timeout of 5s and then  *)
(* wait 5s for the peer to send a close frame" (close.go:87): it returns,   *)
(* and so does CloseNow.                                                    *)
CloseReturns ==
    \A g \in Closers : pc[g] # "idle" ~> pc[g] = "idle"

(* "Close will unblock all goroutines interacting with the connection once  *)
(* complete" (close.go:96).                                                 *)
CloseUnblocksReaders ==
    \A g \in Readers : onceDone /\ pc[g] # "idle" ~> pc[g] = "idle"

(* Whoever calls the read side or closes gets an answer (close.go:87-96).   *)
CallsEnd == CloseReturns /\ CloseUnblocksReaders
=============================================================================
