----------------------------- MODULE EventLoop -----------------------------
(***************************************************************************)
(* The event mode of a server: event.go, the read loop newConn starts      *)
(* (conn.go:250,263), and close() as far as handlers and readMu see it.    *)
(*                                                                         *)
(* All connections of a Server share one Event and its RWMutex.  A handler *)
(* runs inside the call that dispatches it, with that lock held for        *)
(* reading, and may call the library back: a goroutine is therefore a      *)
(* stack of calls.  A process is the read loop of a connection, its user   *)
(* (who accepted it and closes it; the closes of timeoutLoop and of the    *)
(* heartbeat are a CloseNow here), or Admin, who registers middleware.     *)
(* Contexts that expire are those of Close; payloads are numbers.          *)
(***************************************************************************)
EXTENDS Naturals, SequencesExt

CONSTANTS Conns,       \* the connections
          Users,       \* those whose user is active; the others were accepted
                       \* long ago, and only handlers may close them
          Admin,       \* the goroutine that calls Use
          NoOne,       \* no goroutine
          HandlerActs, \* what a handler may do
          MaxFrames,   \* bound: frames the peers send
          MaxActs      \* bound: calls into the library made by handlers, Admin

Acts == {"error", "write", "closeNow", "use"}
(* "message" is a text, binary, ping or pong frame: an error of its         *)
(* handlers ends the read, one of a close frame's is ignored.               *)
ReadEvents == {"message", "close"}
Procs == (Conns \X {"loop"}) \cup (Users \X {"user"}) \cup {Admin}

ASSUME ConnsAssumption ==
    /\ NoOne \notin Procs /\ Users \subseteq Conns
    /\ HandlerActs \subseteq Acts /\ MaxActs \in Nat

VARIABLES
    stack,          \* the calls each goroutine is in, the innermost last
    writer,         \* who has called Event.mu.Lock and not yet Unlock
    mws,            \* how many middlewares are registered
    acts,           \* calls made by handlers and Admin (bounded)
    frames,         \* frames read from each connection (bounded)
    buf,            \* readControlBuf: the number of the frame it holds
    readMu,         \* Conn.readMu, a channel: nobody's when unlocked
    once,           \* who runs, or has run, the function of closeOnce
    onceDone,       \* that function has returned
    closeSent, closeReceived, rwcClosed

inVars == <<frames, buf>>
closeVars == <<once, onceDone, rwcClosed>>
hsVars == <<closeSent, closeReceived>>
connVars == <<inVars, readMu, closeVars, hsVars>>
vars == <<stack, writer, mws, acts, connVars>>

(* A call: its function, connection, next step, and for a dispatcher the    *)
(* event, the number of its payload and, as history, how many middlewares   *)
(* were registered when it got the lock.                                    *)
Call(op, c, pc) ==
    [op |-> op, conn |-> c, pc |-> pc, ev |-> "none", id |-> 0, seen |-> 0]
Dispatcher(c, ev, id) == [Call("event", c, "rlock") EXCEPT !.ev = ev, !.id = id]

Top(p) == Last(stack[p])
At(p, op, pc) == stack[p] # <<>> /\ Top(p).op = op /\ Top(p).pc = pc
Set(s, pc) == Front(s) \o <<[Last(s) EXCEPT !.pc = pc]>>
Goto(p, pc) == stack' = [stack EXCEPT ![p] = Set(@, pc)]
(* p makes a call and will go on at `next` when it returns. *)
Invoke(p, next, call) ==
    stack' = [stack EXCEPT ![p] = Append(Set(@, next), call)]
(* A reader has the frame of event ev and goes on to dispatch it. *)
Received(p, ev) ==
    stack' = [stack EXCEPT ![p] =
                 Append(Front(@), [Last(@) EXCEPT !.pc = "dispatch", !.ev = ev])]
Return(p) == stack' = [stack EXCEPT ![p] = Front(@)]

Calls(p) == ToSet(stack[p])
Closed(c) == once[c] # NoOne
(* The dispatchers that hold Event.mu for reading. *)
Running(p) == {f \in Calls(p) : f.op = "event" /\ f.pc # "rlock"}
Readers == {p \in Procs : Running(p) # {}}

TypeOK ==
    /\ \A p \in Procs : \A f \in Calls(p) :
          /\ f.op \in {"reader", "close", "event", "use", "user"}
          /\ f.op = "event" => f.id \in 0..frames[f.conn]
    /\ writer \in Procs \cup {NoOne} /\ mws \in Nat /\ acts \in 0..MaxActs
    /\ frames \in [Conns -> Nat] /\ buf \in [Conns -> Nat]
    /\ readMu \in [Conns -> BOOLEAN]
    /\ once \in [Conns -> Procs \cup {NoOne}]
    /\ onceDone \in [Conns -> BOOLEAN]
    /\ closeSent \in [Conns -> BOOLEAN] /\ closeReceived \in [Conns -> BOOLEAN]
    /\ rwcClosed \in [Conns -> BOOLEAN]

(* newConn has started the read loop and goes on to handleConnect. *)
Init ==
    /\ stack = [p \in Procs |->
                  IF p = Admin THEN <<>>
                  ELSE IF p[2] = "loop" THEN <<Call("reader", p[1], "lock")>>
                  ELSE <<Call("user", p[1], "open"),
                         Dispatcher(p[1], "connect", 0)>>]
    /\ writer = NoOne /\ mws = 0 /\ acts = 0
    /\ frames = [c \in Conns |-> 0] /\ buf = [c \in Conns |-> 0]
    /\ readMu = [c \in Conns |-> FALSE] /\ once = [c \in Conns |-> NoOne]
    /\ onceDone = [c \in Conns |-> FALSE]
    /\ closeSent = [c \in Conns |-> FALSE]
    /\ closeReceived = [c \in Conns |-> FALSE]
    /\ rwcClosed = [c \in Conns |-> FALSE]

-----------------------------------------------------------------------------
(* Reading: Reader of the read loop, waitCloseHandshake of Close. *)

(* Mutant: readMu is not waited for. *)
LockReadUnguarded(p, c) ==
    /\ At(p, "reader", "lock") /\ Top(p).conn = c
    /\ ~Closed(c)
    /\ readMu' = [readMu EXCEPT ![c] = TRUE]
    /\ Goto(p, "header")
    /\ UNCHANGED <<writer, mws, acts, inVars, closeVars, hsVars>>

LockRead(p, c) ==
    /\ At(p, "reader", "lock") /\ Top(p).conn = c
    /\ ~readMu[c] /\ ~Closed(c)
    /\ readMu' = [readMu EXCEPT ![c] = TRUE]
    /\ Goto(p, "header")
    /\ UNCHANGED <<writer, mws, acts, inVars, closeVars, hsVars>>

(* The connection is closed (Reader has checked that, too), or the five     *)
(* seconds of Close are over.                                               *)
LockReadFails(p, c) ==
    /\ At(p, "reader", "lock") /\ Top(p).conn = c
    /\ Closed(c) \/ p[2] = "user"
    /\ Return(p)
    /\ UNCHANGED <<writer, mws, acts, connVars>>

(* prepareRead, the header and the payload of a frame, which is read into   *)
(* readControlBuf: all frames of the event mode are small and unfragmented, *)
(* a longer or fragmented message is refused with a close frame, and so is  *)
(* a continuation frame by Reader.                                          *)
ReadFrame(p, c) ==
    /\ At(p, "reader", "header") /\ Top(p).conn = c
    /\ ~Closed(c) /\ ~closeReceived[c] /\ ~rwcClosed[c]
    /\ SumFunction(frames) < MaxFrames
    /\ frames' = [frames EXCEPT ![c] = @ + 1]
    /\ \/ \E ev \in ReadEvents :
             /\ Received(p, ev)
             /\ buf' = [buf EXCEPT ![c] = frames'[c]]
             /\ UNCHANGED closeSent
       \/ /\ Goto(p, "unlock")
          /\ closeSent' = [closeSent EXCEPT ![c] = TRUE]
          /\ UNCHANGED buf
    /\ UNCHANGED <<writer, mws, acts, readMu, closeVars, closeReceived>>

(* The transport fails: the reader ends, and only the reader. *)
TransportFails(p, c) ==
    /\ At(p, "reader", "header") /\ Top(p).conn = c
    /\ Goto(p, "unlock")
    /\ UNCHANGED <<writer, mws, acts, connVars>>

(* prepareRead or the closed transport refuses, or Close's five seconds are *)
(* over: then the reader is sure to end.                                    *)
ReadFails(p, c) ==
    /\ TransportFails(p, c)
    /\ Closed(c) \/ closeReceived[c] \/ rwcClosed[c] \/ p[2] = "user"

(* readLoop and handleControl call the event's handlers. *)
Dispatch(p, c) ==
    /\ At(p, "reader", "dispatch") /\ Top(p).conn = c
    /\ Invoke(p, IF Top(p).ev = "close" THEN "received" ELSE "header",
              Dispatcher(c, Top(p).ev, frames[c]))
    /\ UNCHANGED <<writer, mws, acts, connVars>>

(* handleControl on a close frame: closeReceivedErr is set; unless a close  *)
(* frame was sent, readMu is released and the echo written, which closes    *)
(* the connection (write.go:331-340), unless the write fails.               *)
CloseReceived(p, c) ==
    /\ At(p, "reader", "received") /\ Top(p).conn = c
    /\ closeReceived' = [closeReceived EXCEPT ![c] = TRUE]
    /\ IF closeSent[c]
       THEN Goto(p, "unlockTwice") /\ UNCHANGED <<readMu, closeSent>>
       ELSE /\ readMu' = [readMu EXCEPT ![c] = FALSE]
            /\ \/ /\ Invoke(p, "unlockTwice", Call("close", c, "once"))
                  /\ closeSent' = [closeSent EXCEPT ![c] = TRUE]
               \/ Goto(p, "unlockTwice") /\ UNCHANGED closeSent
    /\ UNCHANGED <<writer, mws, acts, inVars, closeVars>>

(* Mutant: handleControl keeps readMu when it calls close(). *)
CloseAfterReceivedLocked(p, c) ==
    /\ At(p, "reader", "unlockTwice") /\ Top(p).conn = c
    /\ Invoke(p, "unlock", Call("close", c, "once"))
    /\ UNCHANGED <<writer, mws, acts, connVars>>

(* handleControl releases readMu (again) and calls close(). *)
CloseAfterReceived(p, c) ==
    /\ At(p, "reader", "unlockTwice") /\ Top(p).conn = c
    /\ readMu' = [readMu EXCEPT ![c] = FALSE]
    /\ Invoke(p, "unlock", Call("close", c, "once"))
    /\ UNCHANGED <<writer, mws, acts, inVars, closeVars, hsVars>>

(* The deferred unlock.  Reader failed: startReadLoop returns, Close goes   *)
(* on.  Neither closes the connection because of it.                        *)
UnlockRead(p, c) ==
    /\ At(p, "reader", "unlock") /\ Top(p).conn = c
    /\ readMu' = [readMu EXCEPT ![c] = FALSE]
    /\ Return(p)
    /\ UNCHANGED <<writer, mws, acts, inVars, closeVars, hsVars>>

-----------------------------------------------------------------------------
(* The dispatchers handleMessage ... handlePong. *)

(* RLock waits for a goroutine that has called Lock (sync.RWMutex).         *)
RLock(p) ==
    /\ At(p, "event", "rlock")
    /\ writer = NoOne
    /\ stack' = [stack EXCEPT ![p] =
          Append(Front(@), [Last(@) EXCEPT !.pc = "run", !.seen = mws])]
    /\ UNCHANGED <<writer, mws, acts, connVars>>

(* The handlers of the event, called one after the other and wrapped in the *)
(* middleware, return nil; the dispatcher releases the lock.                *)
HandlerReturns(p) ==
    /\ At(p, "event", "run")
    /\ Return(p)
    /\ UNCHANGED <<writer, mws, acts, connVars>>

(* One of them fails: the rest is not called, and a reader fails unless it *)
(* read a close frame.                                                      *)
HandlerFails(p) ==
    /\ "error" \in HandlerActs
    /\ At(p, "event", "run")
    /\ stack' = [stack EXCEPT ![p] =
          IF Top(p).ev = "message" THEN Set(Front(@), "unlock")
                                                  ELSE Front(@)]
    /\ UNCHANGED <<writer, mws, acts, connVars>>

Act(kind) == kind \in HandlerActs /\ acts < MaxActs /\ acts' = acts + 1

(* A handler writes to its peer, which does not read; a write to a closed   *)
(* connection would fail at once.                                          *)
HandlerWrites(p) ==
    /\ At(p, "event", "run") /\ Act("write")
    /\ ~Closed(Top(p).conn)
    /\ Goto(p, "writing")
    /\ UNCHANGED <<writer, mws, connVars>>

(* The peer reads, or the transport is closed. *)
WriteReturns(p) ==
    /\ At(p, "event", "writing")
    /\ Goto(p, "run")
    /\ UNCHANGED <<writer, mws, acts, connVars>>

HandlerCloses(p, c) ==
    /\ At(p, "event", "run") /\ Act("closeNow")
    /\ Invoke(p, "run", Call("close", c, "once"))
    /\ UNCHANGED <<writer, mws, connVars>>

HandlerUses(p) ==
    /\ At(p, "event", "run") /\ Act("use")
    /\ Invoke(p, "run", Call("use", NoOne, "lock"))
    /\ UNCHANGED <<writer, mws, connVars>>

-----------------------------------------------------------------------------
(* Use. *)

AdminUses ==
    /\ stack[Admin] = <<>> /\ acts < MaxActs
    /\ acts' = acts + 1
    /\ stack' = [stack EXCEPT ![Admin] = <<Call("use", NoOne, "lock")>>]
    /\ UNCHANGED <<writer, mws, connVars>>

(* Mutant: Use does not take the lock. *)
UseLockSkipped(p) ==
    /\ At(p, "use", "lock")
    /\ Goto(p, "append")
    /\ UNCHANGED <<writer, mws, acts, connVars>>

(* Lock: from here on RLock waits, and so does another Lock. *)
UseLock(p) ==
    /\ At(p, "use", "lock")
    /\ writer = NoOne
    /\ writer' = p
    /\ Goto(p, "wait")
    /\ UNCHANGED <<mws, acts, connVars>>

(* The readers have left: Lock returns. *)
UseLocked(p) ==
    /\ At(p, "use", "wait")
    /\ Readers = {}
    /\ Goto(p, "append")
    /\ UNCHANGED <<writer, mws, acts, connVars>>

(* The middleware is appended, the lock released. *)
UseAppend(p) ==
    /\ At(p, "use", "append")
    /\ mws' = mws + 1
    /\ writer' = NoOne
    /\ Return(p)
    /\ UNCHANGED <<acts, connVars>>

-----------------------------------------------------------------------------
(* Closing. *)

(* The user calls CloseNow, or Close: the close frame goes out and          *)
(* waitCloseHandshake reads, in the user's goroutine, until an error.       *)
UserCloseNow(p, c) ==
    /\ At(p, "user", "open") /\ Top(p).conn = c
    /\ Invoke(p, "closed", Call("close", c, "once"))
    /\ UNCHANGED <<writer, mws, acts, connVars>>

UserClose(p, c) ==
    /\ At(p, "user", "open") /\ Top(p).conn = c
    /\ closeSent' = [closeSent EXCEPT ![c] = TRUE]
    /\ Invoke(p, "handshaken", Call("reader", c, "lock"))
    /\ UNCHANGED <<writer, mws, acts, inVars,
                   readMu, closeVars, closeReceived>>

UserHandshaken(p, c) ==
    /\ At(p, "user", "handshaken") /\ Top(p).conn = c
    /\ Invoke(p, "closed", Call("close", c, "once"))
    /\ UNCHANGED <<writer, mws, acts, connVars>>

(* closeOnce.Do: the first caller sets closedFlag and closes the channel,   *)
(* then calls the disconnect handlers, with the transport still open.       *)
CloseOnce(p, c) ==
    /\ At(p, "close", "once") /\ Top(p).conn = c
    /\ once[c] = NoOne
    /\ once' = [once EXCEPT ![c] = p]
    /\ Invoke(p, "transport", Dispatcher(c, "disconnect", 0))
    /\ UNCHANGED <<writer, mws, acts, inVars, readMu,
                   onceDone, hsVars, rwcClosed>>

(* The others wait for its end: also a disconnect handler that closes. *)
CloseAgain(p, c) ==
    /\ At(p, "close", "once") /\ Top(p).conn = c
    /\ onceDone[c]
    /\ Return(p)
    /\ UNCHANGED <<writer, mws, acts, connVars>>

CloseTransport(p, c) ==
    /\ At(p, "close", "transport") /\ Top(p).conn = c
    /\ rwcClosed' = [rwcClosed EXCEPT ![c] = TRUE]
    /\ Goto(p, "reader")
    /\ UNCHANGED <<writer, mws, acts, inVars, readMu, once, onceDone, hsVars>>

(* Mutant: msgReader.close does not lock readMu. *)
CloseReaderUnlocked(p, c) ==
    /\ At(p, "close", "reader") /\ Top(p).conn = c
    /\ onceDone' = [onceDone EXCEPT ![c] = TRUE]
    /\ Return(p)
    /\ UNCHANGED <<writer, mws, acts, inVars, readMu, once, hsVars, rwcClosed>>

(* msgReader.close waits for whoever reads, handlers included. *)
CloseReader(p, c) ==
    /\ At(p, "close", "reader") /\ Top(p).conn = c
    /\ ~readMu[c]
    /\ readMu' = [readMu EXCEPT ![c] = TRUE]
    /\ onceDone' = [onceDone EXCEPT ![c] = TRUE]
    /\ Return(p)
    /\ UNCHANGED <<writer, mws, acts, inVars, once, hsVars, rwcClosed>>

-----------------------------------------------------------------------------
(* What the scheduler owes a goroutine. *)
Read(p, c) ==
    \/ LockRead(p, c) \/ LockReadFails(p, c)
    \/ ReadFails(p, c) \/ Dispatch(p, c) \/ CloseReceived(p, c)
    \/ CloseAfterReceived(p, c) \/ UnlockRead(p, c)

Close(p, c) ==
    \/ CloseOnce(p, c) \/ CloseAgain(p, c) \/ CloseTransport(p, c)
    \/ CloseReader(p, c) \/ UserHandshaken(p, c)

Use(p) == UseLock(p) \/ UseLocked(p) \/ UseAppend(p)

(* What it may do besides. *)
Choose(p, c) ==
    \/ ReadFrame(p, c) \/ TransportFails(p, c) \/ HandlerCloses(p, c)
    \/ UserCloseNow(p, c) \/ UserClose(p, c)

Next ==
    \/ \E p \in Procs, c \in Conns : Read(p, c) \/ Close(p, c) \/ Choose(p, c)
    \/ \E p \in Procs :
          \/ RLock(p) \/ HandlerReturns(p) \/ HandlerFails(p)
          \/ HandlerWrites(p) \/ WriteReturns(p) \/ HandlerUses(p) \/ Use(p)
    \/ AdminUses

Spec == Init /\ [][Next]_vars

(* Fairness: goroutines are scheduled and the code of a handler ends; a     *)
(* write returns for sure only when its transport is closed; peers and      *)
(* users may stay silent.                                                   *)
Progress(p) ==
    \/ \E c \in Conns : Read(p, c) \/ Close(p, c)
    \/ RLock(p) \/ HandlerReturns(p) \/ Use(p)
    \/ At(p, "event", "writing") /\ rwcClosed[Top(p).conn] /\ WriteReturns(p)

Fairness == \A p \in Procs : WF_vars(Progress(p))

FairSpec == Spec /\ Fairness

-----------------------------------------------------------------------------
(* Properties. *)

(* The payload a handler is given is a slice of readControlBuf (read.go:353)*)
(* and is not overwritten while the handler runs, although Close reads too  *)
(* and readMu is released up to three times for one close frame.            *)
PayloadIntact ==
    /\ TypeOK
    /\ \A p \in Procs : \A f \in Calls(p) :
          f.op = "event" /\ f.ev \in ReadEvents => f.id = buf[f.conn]

(* When close() has returned, no handler of a frame of the connection runs  *)
(* or is about to: msgReader.close waited for readMu (read.go:176).         *)
ClosedIsQuiet ==
    \A c \in Conns : onceDone[c] =>
        \A p \in Procs : \A f \in Calls(p) :
            f.conn = c => ~(f.op = "event" /\ f.ev \in ReadEvents)

(* From a dispatcher's RLock to its return the middleware stays what it was *)
(* at RLock: all handlers of an event are wrapped alike, although Use waits *)
(* and other goroutines come and go in between (event.go:54,120,127).       *)
MiddlewareStable == \A p \in Procs : \A f \in Running(p) : f.seen = mws

(* What may hold others up for good: a handler that does not return (only   *)
(* finitely many are called).                                              *)
HandlerStuck == <>[](Readers # {})

(* close() returns, the disconnect handlers have run and the read loop has  *)
(* ended, and Use returns although dispatchers come and go, unless a handler*)
(* of some connection never returns: they share Event.mu, which close()     *)
(* needs before it closes the transport (conn.go:318,336).                  *)
CallsReturn ==
    \/ HandlerStuck
    \/ /\ \A c \in Conns :
             Closed(c) ~> onceDone[c] /\ stack[<<c, "loop">>] = <<>>
       /\ writer # NoOne ~> writer = NoOne

(* close() of a connection returns whatever the handlers do. *)
CloseAlwaysReturns == \A c \in Conns : Closed(c) ~> onceDone[c]

(* A read loop that has ended has closed its connection. *)
EndedLoopClosed == \A c \in Conns : stack[<<c, "loop">>] = <<>> => Closed(c)
=============================================================================
