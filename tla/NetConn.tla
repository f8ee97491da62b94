------------------------------ MODULE NetConn ------------------------------
(***************************************************************************)
(* The users of the read side: one that calls Reader and Read itself, and  *)
(* the net.Conn adapter (netconn.go), whose Read joins the messages to a   *)
(* stream of bytes and whose deadlines are timers: a callback of theirs    *)
(* either takes the adapter's mutex and marks it expired or, if a call     *)
(* holds it, cancels the context of the calls, which closes the connection. *)
(*                                                                         *)
(* A user makes no call after an error, but for a deadline and EOF, until  *)
(* the connection is closed; and it reads the last frame's bytes before it *)
(* asks for the next message, as the doc of Reader demands (read.go:25).   *)
(* Conn.Write is in FrameWriter: here it ends, or fails.  A behaviour has a *)
(* direct user or one side of the adapter: the sides share the connection  *)
(* only.                                                                   *)
(***************************************************************************)
EXTENDS MessageReader

CONSTANTS Limit,        \* SetReadLimit's argument, of a direct user
          MsgType,      \* the adapter's message type
          MaxRead,      \* bound: len(p) of a Read
          MaxDeadlines  \* bound: calls of SetReadDeadline, SetWriteDeadline

ASSUME LimitAssumption == Limit \in Int
ASSUME BoundsAssumption == MaxRead \in Nat /\ MaxDeadlines \in Nat

Users == {"direct", "read", "write"}

VARIABLES
    user,       \* who uses the connection
    pc,         \* netConn.Read: idle, in its loop, in a call of Conn's
    want,       \* len(p)
    reader,     \* netConn.reader is not nil
    readEOFed,
    netErr,     \* of netConn's last Read
    delivered,  \* bytes it has returned without an error
    writing,    \* netConn.Write is in Conn.Write
    holder,     \* of readMu or writeMu: the user, the timer's callback
    expired,    \* readExpired or writeExpired
    ctxDone,    \* whether readCtx or writeCtx is
    setting,    \* what a SetDeadline that has stored 0 does to the timer next
    armed,      \* the timer is
    callback,   \* of the timer, one at a time
    deadlines,  \* how many were set
    netClosing  \* netConn.Close: not called, in Conn.Close, returned

netVars == <<pc, want, reader, readEOFed, netErr, delivered>>
timerVars == <<expired, setting, armed, callback, deadlines>>
lockVars == <<writing, holder, ctxDone, netClosing>>
vars == <<peerVars, readerVars, user, netVars, timerVars, lockVars>>

TypeOK ==
    /\ ReaderTypeOK
    /\ user \in Users /\ pc \in {"idle", "loop", "call"}
    /\ want \in 0..MaxRead /\ reader \in BOOLEAN /\ readEOFed \in BOOLEAN
    /\ netErr \in {"nil", "EOF", "deadline", "failed"} /\ delivered \in Nat
    /\ writing \in BOOLEAN
    /\ holder \in {"nobody", "user", "timer"}
    /\ expired \in BOOLEAN /\ ctxDone \in BOOLEAN
    /\ setting \in {"no", "stop", "reset"}
    /\ armed \in BOOLEAN
    /\ callback \in {"none", "tryLock", "expire"}
    /\ deadlines \in 0..MaxDeadlines
    /\ netClosing \in {"no", "closing", "closed"}

(* NetConn disables the limit; its timers are stopped at once. *)
Init ==
    /\ ReaderInit
    /\ user \in Users
    /\ pc = "idle" /\ want = 0 /\ reader = FALSE /\ readEOFed = FALSE
    /\ netErr = "nil" /\ delivered = 0 /\ writing = FALSE
    /\ holder = "nobody"
    /\ expired = FALSE
    /\ ctxDone = FALSE
    /\ setting = "no"
    /\ armed = FALSE
    /\ callback = "none"
    /\ deadlines = 0
    /\ netClosing = "no"

readLimit == IF user = "direct" THEN Limit ELSE -1

-----------------------------------------------------------------------------
(* The user that reads messages; Conn.Read is Reader and Reads up to EOF. *)

InMessage == got # <<>> /\ ~Last(got).eof
Continues == result.err \in {"nil", "EOF"} \/ closed

DirectReader ==
    /\ user = "direct" /\ Continues
    /\ InMessage => ~fin \/ payloadLength = 0
    /\ BeginReader(FALSE)
    /\ UNCHANGED <<user, netVars, timerVars, lockVars>>

DirectRead(p) ==
    /\ user = "direct" /\ Continues /\ InMessage
    /\ BeginRead(p, FALSE)
    /\ UNCHANGED <<user, netVars, timerVars, lockVars>>

(* Close, from another goroutine. *)
DirectClose ==
    /\ user = "direct" /\ ~closed
    /\ closed' = TRUE
    /\ UNCHANGED <<peerVars, wire, msgReaderVars, call, result, got, user,
                   netVars, timerVars, lockVars>>

-----------------------------------------------------------------------------
(* netConn.Read. *)

NetContinues == netErr # "failed" \/ closed

NetRead(p) ==
    /\ user = "read" /\ pc = "idle" /\ NetContinues
    /\ holder = "nobody"
    /\ holder' = "user"
    /\ pc' = "loop" /\ want' = p
    /\ UNCHANGED <<peerVars, readerVars, user, reader, readEOFed, netErr,
                   delivered, timerVars, writing, ctxDone, netClosing>>

NetReturn(err) ==
    /\ pc' = "idle" /\ want' = 0
    /\ netErr' = IF err \in {"nil", "EOF", "deadline"} THEN err ELSE "failed"
    /\ holder' = "nobody"

NetStops(err) ==
    /\ NetReturn(err)
    /\ UNCHANGED <<peerVars, readerVars, reader, readEOFed, delivered>>

NetCalls ==
    /\ IF reader THEN BeginRead(want, ctxDone)
       ELSE BeginReader(ctxDone)
    /\ pc' = "call"
    /\ UNCHANGED <<want, reader, readEOFed, netErr, delivered, holder>>

(* netConn.read. *)
NetLoop ==
    /\ pc = "loop"
    /\ \/ expired /\ NetStops("deadline")
       \/ ~expired /\ readEOFed /\ NetStops("EOF")
       \/ ~expired /\ ~readEOFed /\ NetCalls
    /\ UNCHANGED <<user, timerVars, writing, ctxDone, netClosing>>

(* A message of another type: Close(StatusUnsupportedData). *)
NetWrongType ==
    /\ result.err = "nil" /\ Last(got).type # MsgType
    /\ closed' = TRUE
    /\ NetReturn("protocol")
    /\ UNCHANGED <<reader, readEOFed, delivered>>

NetHasReader ==
    /\ result.err = "nil" /\ Last(got).type = MsgType
    /\ reader' = TRUE /\ pc' = "loop"
    /\ UNCHANGED <<closed, want, readEOFed, netErr, delivered, holder>>

(* Mutant: any close frame is the end of the stream, and the end of the     *)
(* transport as well.                                                       *)
NetReaderFailsAny ==
    /\ result.err # "nil"
    /\ readEOFed' = (result.err \in Closes \cup {"closed"})
    /\ NetReturn(IF result.err \in Closes \cup {"closed"} THEN "EOF"
                 ELSE result.err)
    /\ UNCHANGED <<closed, reader, delivered>>

NetReaderFails ==
    /\ result.err # "nil"
    /\ readEOFed' = (result.err = "closeNormal")
    /\ NetReturn(IF result.err = "closeNormal" THEN "EOF" ELSE result.err)
    /\ UNCHANGED <<closed, reader, delivered>>

(* The end of a message: the loop goes on with the next one. *)
NetReadEnds ==
    /\ result.err = "EOF"
    /\ reader' = FALSE /\ pc' = "loop"
    /\ UNCHANGED <<closed, want, readEOFed, netErr, delivered, holder>>

NetReadReturns ==
    /\ result.err # "EOF"
    /\ NetReturn(result.err)
    /\ delivered' = delivered + IF result.err = "nil" THEN result.n ELSE 0
    /\ UNCHANGED <<closed, reader, readEOFed>>

NetResult ==
    /\ pc = "call" /\ call.op = "none"
    /\ \/ /\ result.op = "Reader"
          /\ NetWrongType \/ NetHasReader \/ NetReaderFails
       \/ result.op = "Read" /\ (NetReadEnds \/ NetReadReturns)
    /\ result' = NoResult
    /\ UNCHANGED <<peerVars, wire, msgReaderVars, call, got, user, timerVars,
                   writing, ctxDone, netClosing>>

-----------------------------------------------------------------------------
(* netConn.Write; an expired or a closed one changes nothing. *)

NetWrite ==
    /\ user = "write" /\ holder = "nobody" /\ ~expired /\ ~closed
    /\ holder' = "user" /\ writing' = TRUE
    /\ UNCHANGED <<peerVars, readerVars, user, netVars, timerVars, ctxDone,
                   netClosing>>

NetWriteEnds ==
    /\ writing
    /\ holder' = "nobody"
    /\ writing' = FALSE
    /\ UNCHANGED <<peerVars, readerVars, user, netVars, timerVars, ctxDone,
                   netClosing>>

-----------------------------------------------------------------------------
(* Deadlines: expired is cleared first, then the timer is stopped or reset. *)

SetDeadline ==
    /\ user # "direct" /\ setting = "no" /\ deadlines < MaxDeadlines
    /\ \E to \in {"stop", "reset"} : setting' = to
    /\ expired' = FALSE
    /\ deadlines' = deadlines + 1
    /\ UNCHANGED <<peerVars, readerVars, user, netVars, armed, callback,
                   lockVars>>

SetTimer ==
    /\ setting # "no"
    /\ armed' = (setting = "reset")
    /\ setting' = "no"
    /\ UNCHANGED <<peerVars, readerVars, user, netVars, expired, callback,
                   deadlines, lockVars>>

Fire ==
    /\ armed /\ callback = "none"
    /\ armed' = FALSE
    /\ callback' = "tryLock"
    /\ UNCHANGED <<peerVars, readerVars, user, netVars, expired, setting,
                   deadlines, lockVars>>

(* Mutant: the callback does nothing if a call holds the mutex. *)
TryLockOnly ==
    /\ callback = "tryLock"
    /\ IF holder = "nobody"
       THEN /\ holder' = "timer"
            /\ callback' = "expire"
            /\ UNCHANGED ctxDone
       ELSE /\ callback' = "none"
            /\ UNCHANGED <<holder, ctxDone>>
    /\ UNCHANGED <<peerVars, readerVars, user, netVars, expired, setting,
                   armed, deadlines, writing, netClosing>>

TryLock ==
    /\ callback = "tryLock"
    /\ IF holder = "nobody"
       THEN /\ holder' = "timer"
            /\ callback' = "expire"
            /\ UNCHANGED ctxDone
       ELSE /\ callback' = "none"
            /\ ctxDone' = TRUE
            /\ UNCHANGED holder
    /\ UNCHANGED <<peerVars, readerVars, user, netVars, expired, setting,
                   armed, deadlines, writing, netClosing>>

Expire ==
    /\ callback = "expire"
    /\ expired' = TRUE
    /\ holder' = "nobody"
    /\ callback' = "none"
    /\ UNCHANGED <<peerVars, readerVars, user, netVars, setting, armed,
                   deadlines, writing, ctxDone, netClosing>>

(* timeoutLoop: a call that waits for the transport has handed its context  *)
(* over.                                                                    *)
AtTransport == IF user = "read" THEN call.at # "none" ELSE writing

TimeoutCloses ==
    /\ ctxDone /\ AtTransport /\ ~closed
    /\ closed' = TRUE
    /\ UNCHANGED <<peerVars, wire, msgReaderVars, call, result, got,
                   user, netVars, timerVars, lockVars>>

(* netConn.Close: the timers are stopped and the contexts cancelled, then   *)
(* Conn.Close.                                                              *)
NetClose ==
    /\ user # "direct" /\ netClosing = "no"
    /\ netClosing' = "closing"
    /\ armed' = FALSE
    /\ ctxDone' = TRUE
    /\ UNCHANGED <<peerVars, readerVars, user, netVars, expired, setting,
                   callback, deadlines, writing, holder>>

NetCloseEnds ==
    /\ netClosing = "closing"
    /\ netClosing' = "closed"
    /\ closed' = TRUE
    /\ UNCHANGED <<peerVars, wire, msgReaderVars, call, result, got, user,
                   netVars, timerVars, writing, holder, ctxDone>>

-----------------------------------------------------------------------------
Others == <<user, netVars, timerVars, lockVars>>

Call == Reading(readLimit) /\ UNCHANGED Others

Deadlines ==
    SetDeadline \/ SetTimer \/ Fire \/ TryLock \/ Expire \/ TimeoutCloses

Next ==
    \/ Peer /\ UNCHANGED Others
    \/ Call
    \/ DirectReader \/ DirectClose
    \/ \E p \in 1..MaxRead : DirectRead(p) \/ NetRead(p)
    \/ NetLoop \/ NetResult
    \/ NetWrite \/ NetWriteEnds
    \/ Deadlines
    \/ NetClose \/ NetCloseEnds

Spec == Init /\ [][Next]_vars

(* A goroutine that can go on does: a call, a callback, timeoutLoop, Close; *)
(* a Write at a transport that is closed.  The peer owes nothing.           *)
Fairness ==
    /\ WF_vars(Call) /\ WF_vars(NetLoop) /\ WF_vars(NetResult)
    /\ WF_vars(TryLock) /\ WF_vars(Expire) /\ WF_vars(TimeoutCloses)
    /\ WF_vars(closed /\ NetWriteEnds) /\ WF_vars(NetCloseEnds)

FairSpec == Spec /\ Fairness

-----------------------------------------------------------------------------
(* A message is read to its end only if it is not longer than the limit,    *)
(* and refused only if it is (read.go:119-127,591-611).                     *)
LimitExact ==
    user = "direct" /\ Limit >= 0 =>
        /\ \A i \in DOMAIN got :
              got[i].eof => Len(got[i].bytes) <= Limit
        /\ result.err = "limit" => msgs[Len(got)].len > Limit

(* The adapter is a stream of bytes: it loses none between messages, and    *)
(* its EOF comes when the peer has closed after a whole message and every   *)
(* byte was read (netconn.go:139-188).                                      *)
Stream == INSTANCE ByteStream WITH
    sent <- peer.bytes - peer.left,
    finished <- peer.done, eof <- readEOFed

ImplementsByteStream == Stream!Spec

(* "When a deadline is hit and there is an active read or write goroutine,  *)
(* the connection will be closed" (netconn.go:30): the call returns.        *)
DeadlineEndsCall ==
    callback = "tryLock" /\ holder = "user" ~> holder # "user"

(* Close lets go of every Read and Write, also of one that has got its EOF  *)
(* (netconn.go:116-122).                                                    *)
NetCloseEndsCalls ==
    netClosing = "closed" ~> holder # "user"

(* No Read or Write outlives what is to end it (netconn.go:30,116).         *)
CallsEnd == DeadlineEndsCall /\ NetCloseEndsCalls
=============================================================================
