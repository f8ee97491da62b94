---------------------------- MODULE FrameWriter ----------------------------
(***************************************************************************)
(* The write side of a connection: write.go, the write timeout of          *)
(* conn.go's timeoutLoop and conn.go's close().                            *)
(*                                                                         *)
(* A goroutine of Writers makes calls on one shared connection: a message  *)
(* (Write without compression), a compressed message (Write with it), a    *)
(* stream (Writer, Write*, Close), a control frame (ping or pong), an      *)
(* error close (writeError), Close, CloseNow, or it is the reader that     *)
(* received the peer's close frame (handleControl).  Every call that emits *)
(* a frame goes through writeFrame, whose steps are the labels "lockFrame" *)
(* to "unlockFrame" below; a frame is two units, its header and its        *)
(* payload, so that a torn or an interleaved frame can be told apart.      *)
(*                                                                         *)
(* The mutexes of the code are channels of capacity one, whose unlock      *)
(* releases the mutex whoever holds it, or does nothing (conn.go:458): a   *)
(* mutex is therefore a Boolean, not an owner.                             *)
(***************************************************************************)
EXTENDS Naturals, Sequences

CONSTANTS Writers,      \* goroutines that call methods of the connection
          TimeoutLoop,  \* the goroutine of timeoutLoop
          NoOne,        \* no goroutine; as a context, context.Background()
          MaxCalls,     \* bound: calls made on the connection in a behaviour
          MaxFragments, \* bound: frames of one message before its last one
          Calls,        \* the kinds of call the goroutines make
          Client        \* whether the connection is a client's

Procs == Writers \cup {TimeoutLoop}

CallKinds == {"message", "compressed", "stream", "control", "error",
              "close", "closeNow", "receiveClose", "repeatClose"}

ASSUME ProcsAssumption ==
    /\ TimeoutLoop \notin Writers
    /\ NoOne \notin Procs
ASSUME CallsAssumption == Calls \subseteq CallKinds
ASSUME ClientAssumption == Client \in BOOLEAN
ASSUME BoundsAssumption == MaxCalls \in Nat /\ MaxFragments \in Nat

VARIABLES
    pc,             \* where each goroutine is
    call,           \* the call a goroutine is in
    frame,          \* the frame it is writing: opcode and fin bit
    fragments,      \* how many non-final frames its message has so far
    failed,         \* whether its current (or last) call met an error; a
                    \* stream's Write and Close are calls of their own
    early,          \* it runs close() from inside writeFrame (write.go:338)
    ctxDone,        \* the context of its call has expired or was cancelled
    calls,          \* calls made so far (bounded by MaxCalls)
    mwMu,           \* msgWriter.mu, held while a message is open
    writeMu,        \* msgWriter.writeMu
    frameMu,        \* Conn.writeFrameMu
    mwClosed,       \* msgWriter.closed
    mwOpcode,       \* msgWriter.opcode
    closeSent,      \* closeSentErr != nil
    closeReceived,  \* closeReceivedErr != nil
    once,           \* the goroutine that runs closeOnce's function
    onceDone,       \* closeOnce's function has returned
    closedFlag,     \* closedFlag
    closed,         \* the channel closed is closed
    bwReturned,     \* bwBuf has been put back in its pool
    rwcClosed,      \* the transport is closed
    bwErr,          \* bufio.Writer.err != nil
    out,            \* the units the bufio.Writer has accepted
    sent,           \* how many of them reached the transport
    writeCtx        \* timeoutLoop's writeCtx: whose context it watches

mutexes  == <<mwMu, writeMu, frameMu>>
closeVars == <<once, onceDone, closedFlag, closed, bwReturned, rwcClosed>>
bwVars   == <<bwErr, out, sent>>
mwVars   == <<mwClosed, mwOpcode>>
hsVars   == <<closeSent, closeReceived>>
callVars == <<call, fragments, ctxDone, calls>>
vars == <<pc, frame, failed, early, writeCtx, mutexes, closeVars, bwVars,
          mwVars, hsVars, callVars>>

Opcodes == {"data", "continuation", "control", "close"}
Frames == [op : Opcodes, fin : BOOLEAN]
Units == [writer : Writers, part : {"header", "payload"}, frame : Frames]
CloseFrame == [op |-> "close", fin |-> TRUE]

Labels == {"idle", "lockMessage", "open", "lockWrite", "lockFrame",
           "checkSent", "sendCtx", "header", "payload", "spill", "spilling",
           "written", "flush", "flushing", "markSent", "unlockEarly",
           "resetCtx", "unlockFrame", "return",
           "close", "closeChan", "putBuffer", "closeTransport", "closeWriter",
           "select", "exited"}

TypeOK ==
    /\ pc \in [Procs -> Labels]
    /\ call \in [Writers -> CallKinds \cup {"none"}]
    /\ frame \in [Writers -> Frames]
    /\ fragments \in [Writers -> 0..MaxFragments]
    /\ failed \in [Writers -> BOOLEAN]
    /\ early \in [Writers -> BOOLEAN]
    /\ ctxDone \in [Writers -> BOOLEAN]
    /\ calls \in 0..MaxCalls
    /\ mwMu \in BOOLEAN /\ writeMu \in BOOLEAN /\ frameMu \in BOOLEAN
    /\ mwClosed \in BOOLEAN /\ mwOpcode \in {"data", "continuation"}
    /\ closeSent \in BOOLEAN /\ closeReceived \in BOOLEAN
    /\ once \in Procs \cup {NoOne} /\ onceDone \in BOOLEAN
    /\ closedFlag \in BOOLEAN /\ closed \in BOOLEAN
    /\ bwReturned \in BOOLEAN /\ rwcClosed \in BOOLEAN
    /\ bwErr \in BOOLEAN /\ out \in Seq(Units) /\ sent \in 0..Len(out)
    /\ writeCtx \in Writers \cup {NoOne}

Init ==
    /\ pc = [p \in Procs |-> IF p = TimeoutLoop THEN "select" ELSE "idle"]
    /\ call = [g \in Writers |-> "none"]
    /\ frame = [g \in Writers |-> CloseFrame]
    /\ fragments = [g \in Writers |-> 0]
    /\ failed = [g \in Writers |-> FALSE]
    /\ early = [g \in Writers |-> FALSE]
    /\ ctxDone = [g \in Writers |-> FALSE]
    /\ calls = 0
    /\ mwMu = FALSE /\ writeMu = FALSE /\ frameMu = FALSE
    /\ mwClosed = FALSE /\ mwOpcode = "data"
    /\ closeSent = FALSE /\ closeReceived = FALSE
    /\ once = NoOne /\ onceDone = FALSE
    /\ closedFlag = FALSE /\ closed = FALSE
    /\ bwReturned = FALSE /\ rwcClosed = FALSE
    /\ bwErr = FALSE /\ out = <<>> /\ sent = 0
    /\ writeCtx = NoOne

-----------------------------------------------------------------------------
(* Control of a goroutine. *)

Goto(p, from, to) == pc[p] = from /\ pc' = [pc EXCEPT ![p] = to]

(* The call goes on with an error: its deferred functions start at `to`. *)
FailTo(g, from, to) ==
    Goto(g, from, to) /\ failed' = [failed EXCEPT ![g] = TRUE]

(* A call begins, with a fresh context. *)
Begin(g, kind, label) ==
    /\ kind \in Calls /\ calls < MaxCalls
    /\ Goto(g, "idle", label)
    /\ calls' = calls + 1
    /\ call' = [call EXCEPT ![g] = kind]
    /\ fragments' = [fragments EXCEPT ![g] = 0]
    /\ ctxDone' = [ctxDone EXCEPT ![g] = FALSE]
    /\ failed' = [failed EXCEPT ![g] = FALSE]
    /\ early' = [early EXCEPT ![g] = FALSE]

(* Write and Writer: closedFlag is checked, then msgWriter.reset waits for  *)
(* the message mutex.                                                      *)
BeginMessage(g, kind) ==
    /\ kind \in {"message", "compressed", "stream"}
    /\ ~closedFlag
    /\ Begin(g, kind, "lockMessage")
    /\ UNCHANGED <<frame, writeCtx, mutexes, closeVars, bwVars, mwVars, hsVars>>

(* writeControl for a ping or a pong, writeError for a protocol error, and  *)
(* Close, which writes its close frame first.                              *)
BeginControl(g, kind) ==
    /\ kind \in {"control", "error", "close"}
    /\ Begin(g, kind, "lockFrame")
    /\ frame' = [frame EXCEPT ![g] =
                    IF kind = "control" THEN [op |-> "control", fin |-> TRUE]
                                        ELSE CloseFrame]
    /\ UNCHANGED <<writeCtx, mutexes, closeVars, bwVars, mwVars, hsVars>>

(* Close is called again on a Writer that was closed, as by a deferred      *)
(* Close.  The writer handed out is always the same msgWriter.             *)
BeginRepeatClose(g) ==
    /\ call[g] = "stream" /\ frame[g].fin
    /\ Begin(g, "repeatClose", "lockWrite")
    /\ UNCHANGED <<frame, writeCtx, mutexes, closeVars, bwVars, mwVars, hsVars>>

BeginCloseNow(g) ==
    /\ Begin(g, "closeNow", "close")
    /\ UNCHANGED <<frame, writeCtx, mutexes, closeVars, bwVars, mwVars, hsVars>>

(* handleControl on the peer's close frame: closeReceivedErr is set and     *)
(* closeSentErr read in one critical section of closeStateMu; the close     *)
(* frame is echoed unless one was sent; then close().  A reader gets here   *)
(* once, prepareRead fails afterwards.                                      *)
ReceiveClose(g) ==
    /\ ~closeReceived /\ ~closed
    /\ Begin(g, "receiveClose", IF closeSent THEN "close" ELSE "lockFrame")
    /\ closeReceived' = TRUE
    /\ frame' = [frame EXCEPT ![g] = CloseFrame]
    /\ UNCHANGED <<writeCtx, mutexes, closeVars, bwVars, mwVars, closeSent>>

(* The context of a call expires, or its owner cancels it, while it matters *)
(* to the call: waiting for a mutex, or writing a frame.                    *)
CtxDone(g) ==
    /\ pc[g] \in {"lockMessage", "open", "lockWrite", "lockFrame", "checkSent",
                  "sendCtx", "header", "payload", "spill", "spilling",
                  "written", "flush", "flushing", "markSent", "resetCtx"}
    /\ ~ctxDone[g]
    /\ ctxDone' = [ctxDone EXCEPT ![g] = TRUE]
    /\ UNCHANGED <<pc, frame, failed, early, writeCtx, mutexes, closeVars,
                   bwVars, mwVars, hsVars, call, fragments, calls>>

-----------------------------------------------------------------------------
(* mu.lock(ctx): the acquisition and the check of closed that follows it    *)
(* are one step; the select may prefer the mutex to an expired context.     *)

(* Mutant: the message mutex is not waited for. *)
LockMessageUnguarded(g) ==
    /\ Goto(g, "lockMessage",
            IF call[g] = "message" THEN "lockFrame" ELSE "open")
    /\ ~closed
    /\ mwMu' = TRUE
    /\ mwOpcode' = "data" /\ mwClosed' = FALSE
    /\ frame' = [frame EXCEPT ![g] = [op |-> "data", fin |-> TRUE]]
    /\ UNCHANGED <<failed, early, writeCtx, writeMu, frameMu, closeVars,
                   bwVars, hsVars, callVars>>

(* msgWriter.reset. *)
LockMessage(g) ==
    /\ Goto(g, "lockMessage",
            IF call[g] = "message" THEN "lockFrame" ELSE "open")
    /\ ~mwMu /\ ~closed
    /\ mwMu' = TRUE
    /\ mwOpcode' = "data" /\ mwClosed' = FALSE
    /\ frame' = [frame EXCEPT ![g] = [op |-> "data", fin |-> TRUE]]
    /\ UNCHANGED <<failed, early, writeCtx, writeMu, frameMu, closeVars,
                   bwVars, hsVars, callVars>>

(* msgWriter.Write: a fragment of a stream. *)
WriteFragment(g) ==
    /\ call[g] \in {"stream", "compressed"} /\ fragments[g] < MaxFragments
    /\ ~failed[g]
    /\ Goto(g, "open", "lockWrite")
    /\ frame' = [frame EXCEPT ![g].fin = FALSE]
    /\ fragments' = [fragments EXCEPT ![g] = @ + 1]
    /\ UNCHANGED <<failed, early, writeCtx, mutexes, closeVars, bwVars,
                   mwVars, hsVars, call, ctxDone, calls>>

(* msgWriter.Close: the last frame.  Write with compression does not get    *)
(* here once a fragment failed (write.go:125); the user of a Writer may,    *)
(* and Close meets the errors of its own frame only.                        *)
CloseMessage(g) ==
    /\ ~failed[g] \/ call[g] = "stream"
    /\ Goto(g, "open", "lockWrite")
    /\ frame' = [frame EXCEPT ![g].fin = TRUE]
    /\ failed' = [failed EXCEPT ![g] = FALSE]
    /\ UNCHANGED <<early, writeCtx, mutexes, closeVars, bwVars, mwVars, hsVars,
                   callVars>>

(* A message is left unfinished after an error: Write returns it, or the    *)
(* user of the Writer gives up.  msgWriter.mu stays locked.                 *)
Abandon(g) ==
    /\ failed[g]
    /\ Goto(g, "open", "idle")
    /\ UNCHANGED <<frame, failed, early, writeCtx, mutexes, closeVars, bwVars,
                   mwVars, hsVars, callVars>>

(* The body of msgWriter.Write and Close under writeMu: Close marks the     *)
(* writer closed before it writes the last frame.                           *)
LockWrite(g) ==
    /\ Goto(g, "lockWrite", "lockFrame")
    /\ ~writeMu /\ ~closed /\ ~mwClosed
    /\ writeMu' = TRUE
    /\ mwClosed' = frame[g].fin
    /\ frame' = [frame EXCEPT ![g].op = mwOpcode]
    /\ UNCHANGED <<failed, early, writeCtx, mwMu, frameMu, closeVars, bwVars,
                   mwOpcode, hsVars, callVars>>

(* "cannot use closed writer", "writer already closed". *)
LockWriteClosed(g) ==
    /\ FailTo(g, "lockWrite", "idle")
    /\ ~writeMu /\ ~closed /\ mwClosed
    /\ UNCHANGED <<frame, early, writeCtx, mutexes, closeVars, bwVars,
                   mwVars, hsVars, callVars>>

(* Mutant: writeFrameMu is not waited for. *)
LockFrameUnguarded(g) ==
    /\ Goto(g, "lockFrame", "checkSent")
    /\ ~closed
    /\ frameMu' = TRUE
    /\ UNCHANGED <<frame, failed, early, writeCtx, mwMu, writeMu, closeVars,
                   bwVars, mwVars, hsVars, callVars>>

LockFrame(g) ==
    /\ Goto(g, "lockFrame", "checkSent")
    /\ ~frameMu /\ ~closed
    /\ frameMu' = TRUE
    /\ UNCHANGED <<frame, failed, early, writeCtx, mwMu, writeMu, closeVars,
                   bwVars, mwVars, hsVars, callVars>>

(* Mutant: an expired context does not end the wait for a mutex. *)
LockFailedClosedOnly(g) ==
    /\ closed
    /\ \/ FailTo(g, "lockMessage", "idle")
       \/ FailTo(g, "lockWrite", IF frame[g].fin THEN "idle" ELSE "open")
       \/ FailTo(g, "lockFrame", "return")
    /\ UNCHANGED <<frame, early, writeCtx, mutexes, closeVars, bwVars,
                   mwVars, hsVars, callVars>>

(* lock fails because the connection is closed or the context done: what    *)
(* was locked by the callers is released by their deferred unlocks.         *)
LockFailed(g) ==
    /\ closed \/ ctxDone[g]
    /\ \/ FailTo(g, "lockMessage", "idle")
       \/ FailTo(g, "lockWrite", IF frame[g].fin THEN "idle" ELSE "open")
       \/ FailTo(g, "lockFrame", "return")
    /\ UNCHANGED <<frame, early, writeCtx, mutexes, closeVars, bwVars,
                   mwVars, hsVars, callVars>>

-----------------------------------------------------------------------------
(* writeFrame, with writeFrameMu held. *)

(* Mutant: closeSentErr is not checked. *)
CheckSentSkipped(g) ==
    /\ Goto(g, "checkSent", "sendCtx") /\ UNCHANGED failed
    /\ UNCHANGED <<frame, early, writeCtx, mutexes, closeVars, bwVars,
                   mwVars, hsVars, callVars>>

(* No frame is written once a close frame was. *)
CheckSent(g) ==
    /\ IF closeSent THEN FailTo(g, "checkSent", "unlockFrame")
                    ELSE Goto(g, "checkSent", "sendCtx") /\ UNCHANGED failed
    /\ UNCHANGED <<frame, early, writeCtx, mutexes, closeVars, bwVars,
                   mwVars, hsVars, callVars>>

(* Mutant: the hand-over of the context is not abandoned on close. *)
SendCtxStubborn(g) ==
    /\ Goto(g, "sendCtx", "header") /\ UNCHANGED failed
    /\ pc[TimeoutLoop] = "select"
    /\ writeCtx' = g
    /\ UNCHANGED <<frame, early, mutexes, closeVars, bwVars, mwVars, hsVars,
                   callVars>>

(* timeoutLoop takes the context of this frame, or the connection is closed. *)
SendCtx(g) ==
    /\ \/ /\ Goto(g, "sendCtx", "header") /\ UNCHANGED failed
          /\ pc[TimeoutLoop] = "select"
          /\ writeCtx' = g
       \/ /\ FailTo(g, "sendCtx", "unlockFrame") /\ UNCHANGED writeCtx
          /\ closed
    /\ UNCHANGED <<frame, early, mutexes, closeVars, bwVars, mwVars, hsVars,
                   callVars>>

Unit(g, part) == [writer |-> g, part |-> part, frame |-> frame[g]]

(* msgWriter.Close writes a frame without payload (write.go:224). *)
Empty(g) ==
    call[g] \in {"stream", "compressed", "repeatClose"} /\ frame[g].fin

(* bufio.Writer.Write: a part of the frame enters the buffer; if the buffer *)
(* is full on the way, it is transmitted (spilled) before the call returns. *)
Buffer(g, part, next) ==
    /\ out' = Append(out, Unit(g, part))
    /\ \/ Goto(g, part, next)
       \/ Goto(g, part, "spill") /\ ~(part = "payload" /\ Empty(g))
    /\ UNCHANGED failed

(* writeFrameHeader: nothing enters a bufio.Writer that has an error. *)
WriteHeader(g) ==
    /\ \/ ~bwErr /\ Buffer(g, "header", "payload")
       \/ bwErr /\ FailTo(g, "header", "resetCtx") /\ UNCHANGED out
    /\ UNCHANGED <<frame, early, writeCtx, mutexes, closeVars, bwErr, sent,
                   mwVars, hsVars, callVars>>

WritePayload(g) ==
    /\ Buffer(g, "payload", "written")
    /\ UNCHANGED <<frame, early, writeCtx, mutexes, closeVars, bwErr, sent,
                   mwVars, hsVars, callVars>>

(* writeFramePayload checks closedFlag after the payload was buffered; a    *)
(* client's has no round of its loop for an empty payload.                  *)
CheckFlag(g) ==
    /\ IF closedFlag /\ ~(Client /\ Empty(g))
       THEN FailTo(g, "written", "resetCtx")
       ELSE /\ Goto(g, "written", IF frame[g].fin THEN "flush" ELSE "resetCtx")
            /\ UNCHANGED failed
    /\ UNCHANGED <<frame, early, writeCtx, mutexes, closeVars, bwVars,
                   mwVars, hsVars, callVars>>

(* bufio.Writer calls the transport.  A client's buffer is on top of        *)
(* safeRWC (conn.go:224), which refuses once closedFlag is set; a server's  *)
(* is on top of the bare connection (accept.go:378-382).                    *)
Flush(g) ==
    /\ IF Client /\ closedFlag
       THEN /\ bwErr' = TRUE
            /\ FailTo(g, "flush", "resetCtx") \/ FailTo(g, "spill", "resetCtx")
       ELSE /\ Goto(g, "flush", "flushing") \/ Goto(g, "spill", "spilling")
            /\ UNCHANGED <<bwErr, failed>>
    /\ UNCHANGED <<frame, early, writeCtx, mutexes, closeVars, out, sent,
                   mwVars, hsVars, callVars>>

AfterFlush(g) == IF frame[g].op = "close" THEN "markSent" ELSE "resetCtx"
AfterSpill(g) == IF out[Len(out)].part = "header" THEN "payload" ELSE "written"

(* The transport takes the buffer.  safeRWC.Write turns the success into an *)
(* error when closedFlag was set meanwhile.                                 *)
Transmit(g) ==
    /\ ~rwcClosed
    /\ sent' = Len(out)
    /\ bwErr' = (Client /\ closedFlag)
    /\ IF bwErr'
       THEN \/ FailTo(g, "flushing", "resetCtx")
            \/ FailTo(g, "spilling", "resetCtx")
       ELSE /\ \/ Goto(g, "flushing", AfterFlush(g))
               \/ Goto(g, "spilling", AfterSpill(g))
            /\ UNCHANGED failed
    /\ UNCHANGED <<frame, early, writeCtx, mutexes, closeVars, out, mwVars,
                   hsVars, callVars>>

(* Mutant: the count of a short write is off by one. *)
TransmitErrorOffByOne(g) ==
    /\ \E n \in sent..Len(out)+1 : sent' = n
    /\ bwErr' = TRUE
    /\ FailTo(g, "flushing", "resetCtx") \/ FailTo(g, "spilling", "resetCtx")
    /\ UNCHANGED <<frame, early, writeCtx, mutexes, closeVars, out, mwVars,
                   hsVars, callVars>>

(* The transport fails after a prefix of the buffer: the peer is gone, or   *)
(* close() closed the transport under the write.                            *)
TransmitError(g) ==
    /\ \E n \in sent..Len(out) : sent' = n
    /\ bwErr' = TRUE
    /\ FailTo(g, "flushing", "resetCtx") \/ FailTo(g, "spilling", "resetCtx")
    /\ UNCHANGED <<frame, early, writeCtx, mutexes, closeVars, out, mwVars,
                   hsVars, callVars>>

(* Mutant: closeSentErr is set only when the close frame was not an echo. *)
MarkSentUnlessEcho(g) ==
    /\ Goto(g, "markSent", IF closeReceived THEN "unlockEarly" ELSE "resetCtx")
    /\ closeSent' = ~closeReceived
    /\ UNCHANGED <<frame, failed, early, writeCtx, mutexes, closeVars, bwVars,
                   mwVars, closeReceived, callVars>>

(* A close frame was written: closeSentErr is set and closeReceivedErr read *)
(* under closeStateMu.                                                      *)
MarkSent(g) ==
    /\ Goto(g, "markSent", IF closeReceived THEN "unlockEarly" ELSE "resetCtx")
    /\ closeSent' = TRUE
    /\ UNCHANGED <<frame, failed, early, writeCtx, mutexes, closeVars, bwVars,
                   mwVars, closeReceived, callVars>>

(* Both close frames are exchanged: the mutex is released (and will be      *)
(* released again by the deferred unlock) and the connection closed.        *)
UnlockEarly(g) ==
    /\ Goto(g, "unlockEarly", "close")
    /\ frameMu' = FALSE
    /\ early' = [early EXCEPT ![g] = TRUE]
    /\ UNCHANGED <<frame, failed, writeCtx, mwMu, writeMu, closeVars, bwVars,
                   mwVars, hsVars, callVars>>

(* Mutant: timeoutLoop keeps watching the context. *)
ResetCtxForgotten(g) ==
    /\ Goto(g, "resetCtx", "unlockFrame")
    /\ UNCHANGED <<frame, failed, early, writeCtx, mutexes, closeVars, bwVars,
                   mwVars, hsVars, callVars>>

(* Deferred: timeoutLoop stops watching the context of this frame. *)
ResetCtx(g) ==
    /\ Goto(g, "resetCtx", "unlockFrame")
    /\ \/ pc[TimeoutLoop] = "select" /\ writeCtx' = NoOne
       \/ closed /\ UNCHANGED writeCtx
    /\ UNCHANGED <<frame, failed, early, mutexes, closeVars, bwVars, mwVars,
                   hsVars, callVars>>

(* Deferred: writeFrameMu.unlock. *)
UnlockFrame(g) ==
    /\ Goto(g, "unlockFrame", "return")
    /\ frameMu' = FALSE
    /\ UNCHANGED <<frame, failed, early, writeCtx, mwMu, writeMu, closeVars,
                   bwVars, mwVars, hsVars, callVars>>

-----------------------------------------------------------------------------
(* writeFrame returns to the call that made it. *)

ReturnMessage(g) ==
    /\ call[g] = "message"
    /\ Goto(g, "return", "idle")
    /\ mwMu' = FALSE
    /\ UNCHANGED <<frame, failed, early, writeCtx, writeMu, frameMu, closeVars,
                   bwVars, mwVars, hsVars, callVars>>

(* msgWriter.write: the next frame of the message is a continuation. *)
ReturnFragment(g) ==
    /\ call[g] \in {"stream", "compressed"} /\ ~frame[g].fin
    /\ Goto(g, "return", "open")
    /\ writeMu' = FALSE
    /\ mwOpcode' = IF failed[g] THEN mwOpcode ELSE "continuation"
    /\ UNCHANGED <<frame, failed, early, writeCtx, mwMu, frameMu, closeVars,
                   bwVars, mwClosed, hsVars, callVars>>

(* msgWriter.Close: msgWriter.mu is released only when the frame was        *)
(* written (write.go:224,232).                                             *)
ReturnLastFrame(g) ==
    /\ call[g] \in {"stream", "compressed", "repeatClose"} /\ frame[g].fin
    /\ Goto(g, "return", "idle")
    /\ writeMu' = FALSE
    /\ mwMu' = IF failed[g] THEN mwMu ELSE FALSE
    /\ UNCHANGED <<frame, failed, early, writeCtx, frameMu, closeVars, bwVars,
                   mwVars, hsVars, callVars>>

ReturnControl(g) ==
    /\ call[g] \in {"control", "error"}
    /\ Goto(g, "return", "idle")
    /\ UNCHANGED <<frame, failed, early, writeCtx, mutexes, closeVars, bwVars,
                   mwVars, hsVars, callVars>>

(* Close and handleControl go on to close(), whatever became of the frame.  *)
ReturnClose(g) ==
    /\ call[g] \in {"close", "receiveClose"}
    /\ Goto(g, "return", "close")
    /\ early' = [early EXCEPT ![g] = FALSE]
    /\ UNCHANGED <<frame, failed, writeCtx, mutexes, closeVars, bwVars, mwVars,
                   hsVars, callVars>>

-----------------------------------------------------------------------------
(* close(): closeOnce runs its function once; the others wait for its end.  *)

Resume(p) == IF p = TimeoutLoop THEN "exited"
             ELSE IF early[p] THEN "resetCtx" ELSE "idle"

CloseFlag(p) ==
    /\ Goto(p, "close", "closeChan")
    /\ once = NoOne
    /\ once' = p /\ closedFlag' = TRUE
    /\ UNCHANGED <<frame, failed, early, writeCtx, mutexes, onceDone, closed,
                   bwReturned, rwcClosed, bwVars, mwVars, hsVars, callVars>>

CloseChan(p) ==
    /\ Goto(p, "closeChan", "putBuffer")
    /\ closed' = TRUE
    /\ UNCHANGED <<frame, failed, early, writeCtx, mutexes, once, onceDone,
                   closedFlag, bwReturned, rwcClosed, bwVars, mwVars, hsVars,
                   callVars>>

PutBuffer(p) ==
    /\ Goto(p, "putBuffer", "closeTransport")
    /\ bwReturned' = TRUE
    /\ UNCHANGED <<frame, failed, early, writeCtx, mutexes, once, onceDone,
                   closedFlag, closed, rwcClosed, bwVars, mwVars, hsVars,
                   callVars>>

CloseTransport(p) ==
    /\ Goto(p, "closeTransport", "closeWriter")
    /\ rwcClosed' = TRUE
    /\ UNCHANGED <<frame, failed, early, writeCtx, mutexes, once, onceDone,
                   closedFlag, closed, bwReturned, bwVars, mwVars, hsVars,
                   callVars>>

(* msgWriter.close: writeMu is locked for good. *)
CloseWriter(p) ==
    /\ Goto(p, "closeWriter", Resume(p))
    /\ ~writeMu
    /\ writeMu' = TRUE /\ onceDone' = TRUE
    /\ UNCHANGED <<frame, failed, early, writeCtx, mwMu, frameMu, once,
                   closedFlag, closed, bwReturned, rwcClosed, bwVars, mwVars,
                   hsVars, callVars>>

CloseAgain(p) ==
    /\ Goto(p, "close", Resume(p))
    /\ onceDone
    /\ UNCHANGED <<frame, failed, early, writeCtx, mutexes, closeVars, bwVars,
                   mwVars, hsVars, callVars>>

(* timeoutLoop: a watched context is done, or the connection is closed. *)
TimeoutExpired ==
    /\ Goto(TimeoutLoop, "select", "close")
    /\ writeCtx # NoOne /\ ctxDone[writeCtx]
    /\ UNCHANGED <<frame, failed, early, writeCtx, mutexes, closeVars, bwVars,
                   mwVars, hsVars, callVars>>

TimeoutLoopExits ==
    /\ Goto(TimeoutLoop, "select", "exited")
    /\ closed
    /\ UNCHANGED <<frame, failed, early, writeCtx, mutexes, closeVars, bwVars,
                   mwVars, hsVars, callVars>>

-----------------------------------------------------------------------------
Start(g) ==
    \/ \E kind \in CallKinds : BeginMessage(g, kind) \/ BeginControl(g, kind)
    \/ BeginRepeatClose(g) \/ BeginCloseNow(g)
    \/ ReceiveClose(g)

WriteFrame(g) ==
    \/ LockFrame(g) \/ CheckSent(g) \/ SendCtx(g) \/ WriteHeader(g)
    \/ WritePayload(g) \/ CheckFlag(g) \/ Flush(g) \/ Transmit(g)
    \/ TransmitError(g) \/ MarkSent(g) \/ UnlockEarly(g) \/ ResetCtx(g)
    \/ UnlockFrame(g)

Message(g) ==
    \/ LockMessage(g) \/ WriteFragment(g) \/ CloseMessage(g) \/ Abandon(g)
    \/ LockWrite(g) \/ LockWriteClosed(g) \/ LockFailed(g)

Return(g) ==
    \/ ReturnMessage(g) \/ ReturnFragment(g) \/ ReturnLastFrame(g)
    \/ ReturnControl(g) \/ ReturnClose(g)

Close(p) ==
    \/ CloseFlag(p) \/ CloseChan(p) \/ PutBuffer(p) \/ CloseTransport(p)
    \/ CloseWriter(p) \/ CloseAgain(p)

(* Every call has returned and the bound leaves no other. *)
Terminated ==
    /\ \A g \in Writers : pc[g] = "idle"
    /\ UNCHANGED vars

Next ==
    \/ \E g \in Writers :
          Start(g) \/ CtxDone(g) \/ Message(g) \/ WriteFrame(g) \/ Return(g)
    \/ \E p \in Procs : Close(p)
    \/ TimeoutExpired \/ TimeoutLoopExits
    \/ Terminated

Spec == Init /\ [][Next]_vars

(* Fairness: goroutines are scheduled, a user that opened a Writer closes   *)
(* it or gives up after an error, and a deadline passes: the calls that     *)
(* write a control frame have one of five seconds (write.go:242).  A        *)
(* transmission need not end while the transport is open: the peer may not  *)
(* read.  A closed transport fails the write that is in it.                 *)
Progress(g) ==
    \/ LockMessage(g) \/ CloseMessage(g) \/ Abandon(g)
    \/ LockWrite(g) \/ LockWriteClosed(g) \/ LockFailed(g)
    \/ LockFrame(g) \/ CheckSent(g) \/ SendCtx(g) \/ WriteHeader(g)
    \/ WritePayload(g) \/ CheckFlag(g) \/ Flush(g) \/ MarkSent(g)
    \/ UnlockEarly(g) \/ ResetCtx(g) \/ UnlockFrame(g) \/ Return(g)

HasDeadline(g) == call[g] \in {"control", "error", "close", "receiveClose"}

Fairness ==
    /\ \A g \in Writers :
          /\ WF_vars(Progress(g))
          /\ WF_vars(rwcClosed /\ TransmitError(g))
          /\ WF_vars(HasDeadline(g) /\ CtxDone(g))
    /\ \A p \in Procs : WF_vars(Close(p))
    /\ WF_vars(TimeoutExpired)
    /\ WF_vars(TimeoutLoopExits)

FairSpec == Spec /\ Fairness

-----------------------------------------------------------------------------
(* Properties. *)

(* From the write timeout it installs to the one it removes, a frame has    *)
(* the connection to itself.                                               *)
Writing(g) == pc[g] \in {"sendCtx", "header", "payload", "spill", "spilling",
                         "written", "flush", "flushing", "markSent", "unlockEarly",
                         "resetCtx"}

(* Although writeFrame unlocks writeFrameMu twice after the closing         *)
(* handshake (write.go:338 and its deferred unlock) and so may release a    *)
(* mutex another goroutine holds, no two goroutines are ever writing a      *)
(* frame: the shared writeHeader, mask key and bufio.Writer have one user.  *)
OneFrameWriter ==
    \A g, h \in Writers : Writing(g) /\ Writing(h) => g = h

(* A frame's payload follows its header at once, in the buffer and on the   *)
(* wire, whichever writes failed, and a frame whose payload is missing is   *)
(* the last one (write.go:306-321): frame k is the units 2k-1 and 2k.       *)
FrameWhole(k) ==
    /\ 2*k - 1 <= Len(out) => out[2*k-1].part = "header"
    /\ 2*k <= Len(out) => out[2*k] = [out[2*k-1] EXCEPT !.part = "payload"]
FramesWhole == \A k \in 1..Len(out) : FrameWhole(k)

(* Once closeSentErr is set nothing more is written, not even to the        *)
(* buffer, although the writer of the close frame has released              *)
(* writeFrameMu early and others acquire it (write.go:279-284,331-340).     *)
SilentAfterCloseSent == [][closeSent => UNCHANGED <<out, sent>>]_vars

(* Nothing reaches the transport after a close frame, whoever wrote it and  *)
(* whatever failed (closeSentErr, write.go:279-284).                        *)
CloseFrameLast ==
    \A i \in 1..sent :
        out[i].part = "payload" /\ out[i].frame.op = "close" => i = sent

(* The context timeoutLoop watches is that of a writeFrame in progress: one *)
(* that expires later, when its call has returned, closes nothing           *)
(* (write.go:291-296).                                                      *)
WatchedContextIsInUse ==
    writeCtx # NoOne /\ ~closed => Writing(writeCtx) \/ early[writeCtx]

(* The frames on the wire: those whose payload, the second of their two     *)
(* units, was transmitted.                                                  *)
WholeFrames(units, n) == [k \in 1..n \div 2 |-> units[2*k]]
WireFrames == WholeFrames(out, sent)

(* The write side implements the stream of frames a peer may rely on. *)
Stream == INSTANCE FrameStream WITH log <- WireFrames
ImplementsStream == Stream!Spec

(* "Only one writer can be open at a time" (write.go:25): the frames of a   *)
(* message are not mixed with another's.                                   *)
MessagesWhole ==
    \A i \in 1..Len(WireFrames) :
        Stream!MayFollow(SubSeq(WireFrames, 1, i - 1), WireFrames[i])

(* "On any error from any method, the connection is closed with an          *)
(* appropriate reason.  This applies to context expirations as well"        *)
(* (conn.go:41).                                                           *)
ErrorClosesConnection ==
    \A g \in Writers : pc[g] = "idle" /\ failed[g] => closedFlag

(* A buffer that was given back to its pool, where another connection may   *)
(* take it, has no writer left.                                            *)
ReturnedBufferUnused ==
    bwReturned => \A g \in Writers :
        pc[g] \notin {"header", "payload", "spilling", "flushing"}

(* A ping, a pong, a close frame and the close frame of an error return     *)
(* even if the peer reads nothing: their deadline closes the connection     *)
(* under them (conn.go:356-361) or gives up the wait for a mutex.           *)
ControlReturns ==
    \A g \in Writers : HasDeadline(g) ~> pc[g] = "idle"

(* "Close will unblock all goroutines interacting with the connection once  *)
(* complete" (close.go:96): so does every close().                         *)
CloseUnblocks ==
    \A g \in Writers : closed /\ pc[g] # "idle" ~> pc[g] = "idle"
=============================================================================
