----------------------------- MODULE Heartbeat ------------------------------
(***************************************************************************)
(* The heartbeat of connections that share one timer: heartbeat.go, the    *)
(* timer callbacks of core/timer/timer.go's expire, Ping of conn.go, and   *)
(* the part of conn.go's close() that stops a heartbeat.                    *)
(*                                                                         *)
(* Callbacks run one after the other on the timer's goroutine, and one that *)
(* pings or closes a connection holds it up.  An application goroutine per  *)
(* connection calls SetHeartbeat, DisableHeartbeat and Close.  Timer has    *)
(* the heap's steps; here an operation of the timer, which holds its mutex, *)
(* is one step.  A connection with a timer of its own is the case of one    *)
(* connection.                                                              *)
(*                                                                         *)
(* Time is counted in ticks.  Goroutines take no time between their waits,  *)
(* so time passes only while every goroutine waits; that is the case in     *)
(* which the heartbeat works best.                                          *)
(***************************************************************************)
EXTENDS Integers, Sequences, SequencesExt

CONSTANTS Conns,        \* connections
          Plain,        \* those created without a heartbeat interval
          Healthy,      \* those whose peers answer pings in RoundTrip ticks
          Timer,        \* the goroutine of the shared timer
          Data,         \* TimerData objects of the timer
          None,         \* nil
          Interval,     \* heartbeatConfig.interval, in ticks
          Timeout,      \* heartbeatConfig.timeout, in ticks
          SecondTicks,  \* ticks in a second
          RoundTrip,    \* how long a healthy peer takes to answer
          CloseTime,    \* how long Close waits for the peer, at most
          Preempt,      \* whether goroutines interleave between two waits
          MaxTime,      \* bound: ticks that pass
          MaxCalls      \* bound: calls the application makes

Procs == Conns \cup {Timer}

ASSUME ConnsAssumption ==
    /\ Plain \subseteq Conns /\ Healthy \subseteq Conns
    /\ Timer \notin Conns /\ None \notin Data \cup Procs
    /\ IsFiniteSet(Conns)
ASSUME DataAssumption == IsFiniteSet(Data)
ASSUME TimesAssumption ==
    /\ Interval \in Nat \ {0} /\ Timeout \in Nat /\ SecondTicks \in Nat \ {0}
    /\ RoundTrip \in Nat /\ CloseTime \in Nat
ASSUME BoundsAssumption ==
    MaxTime \in Nat /\ SecondTicks <= MaxTime + 1 /\ MaxCalls \in Nat
ASSUME PreemptAssumption == Preempt \in BOOLEAN

VARIABLES
    now,        \* the clock, in ticks
    pc,         \* where each goroutine is
    call,       \* the call it is in; the timer's goroutine calls Close only
    conn,       \* the connection of the callback that runs
    reg,        \* the TimerData a goroutine has read from its connection
    deadline,   \* when a goroutine's wait times out
    calls,      \* calls made so far (bounded by MaxCalls)
    open,       \* connections that exist and are not closed
    closed,     \* connections whose channel closed is closed
    failed,     \* heartbeatFailed
    timerData,  \* heartbeatTimerData
    lastPong,   \* lastPongTime, in seconds
    pingAt,     \* when the ping that a peer has to answer was sent
    pong,       \* the pong of the ping in progress was received
    heard,      \* when the peer was last heard, or the heartbeat enabled
    armed,      \* the TimerData in the heap
    expire,     \* TimerData.expire
    fn,         \* the connection whose callback TimerData.fn is
    free        \* the free list, its head first

procVars == <<pc, call, conn, reg, deadline, calls>>
connVars == <<open, closed, failed, timerData>>
peerVars == <<lastPong, pingAt, pong, heard>>
timerVars == <<armed, expire, fn, free>>
vars == <<now, procVars, connVars, peerVars, timerVars>>

Labels == {"idle", "wait", "perform", "ping", "reschedule", "set",
           "handshake", "close", "stop", "del", "nil", "add", "assign"}
Calls == {"none", "close", "disable", "restart"}
Times == 0..(MaxTime + Timeout + Interval + CloseTime)

(* lastPongTime before its first value: 1970, longer ago than any timeout.  *)
Epoch == 0 - (Timeout + 1)
Seconds(t) == t \div SecondTicks

TypeOK ==
    /\ now \in 0..MaxTime
    /\ pc \in [Procs -> Labels]
    /\ call \in [Procs -> Calls]
    /\ conn \in Conns \cup {None}
    /\ reg \in [Procs -> Data \cup {None}]
    /\ deadline \in [Procs -> Times]
    /\ calls \in 0..MaxCalls
    /\ open \subseteq Conns /\ closed \subseteq Conns /\ failed \subseteq Conns
    /\ timerData \in [Conns -> Data \cup {None}]
    /\ lastPong \in [Conns -> {Epoch} \cup 0..MaxTime]
    /\ pingAt \in [Conns -> 0..MaxTime \cup {None}]
    /\ pong \in [Conns -> BOOLEAN]
    /\ heard \in [Conns -> 0..MaxTime]
    /\ armed \subseteq Data
    /\ expire \in [Data -> Times]
    /\ fn \in [Data -> Conns \cup {None}]
    /\ free \in Seq(Data)

Init ==
    /\ now \in 0..(SecondTicks - 1)
    /\ pc = [p \in Procs |-> IF p = Timer THEN "wait" ELSE "idle"]
    /\ call = [p \in Procs |-> IF p = Timer THEN "close" ELSE "none"]
    /\ conn = None
    /\ reg = [p \in Procs |-> None]
    /\ deadline = [p \in Procs |-> 0]
    /\ calls = 0
    /\ open = {} /\ closed = {} /\ failed = {}
    /\ timerData = [c \in Conns |-> None]
    /\ lastPong = [c \in Conns |-> Epoch]
    /\ pingAt = [c \in Conns |-> None]
    /\ pong = [c \in Conns |-> FALSE]
    /\ heard = [c \in Conns |-> 0]
    /\ armed = {}
    /\ expire = [d \in Data |-> 0]
    /\ fn = [d \in Data |-> None]
    /\ free = SetToSeq(Data)

-----------------------------------------------------------------------------
(* Control of a goroutine. *)

Waits == {"idle", "wait", "ping", "handshake"}

Goto(p, from, to) ==
    /\ pc[p] = from
    /\ Preempt \/ \A q \in Procs \ {p} : pc[q] \in Waits
    /\ pc' = [pc EXCEPT ![p] = to]

ConnOf(p) == IF p = Timer THEN conn ELSE p

(* Where a goroutine goes on when its call returns. *)
Rest(p) == IF p = Timer THEN "wait" ELSE "idle"

(* The operations of the timer, each under its mutex. *)
Add(c) ==
    /\ free # <<>>
    /\ armed' = armed \cup {Head(free)}
    /\ expire' = [expire EXCEPT ![Head(free)] = now + Interval]
    /\ fn' = [fn EXCEPT ![Head(free)] = c]
    /\ free' = Tail(free)

(* Mutant: the TimerData stays in the heap. *)
DelInHeap(d) ==
    /\ fn' = [fn EXCEPT ![d] = None]
    /\ free' = <<d>> \o free
    /\ UNCHANGED <<armed, expire>>

Del(d) ==
    /\ armed' = armed \ {d}
    /\ fn' = [fn EXCEPT ![d] = None]
    /\ free' = <<d>> \o free
    /\ UNCHANGED expire

Set(d) ==
    /\ armed' = armed \cup {d}
    /\ expire' = [expire EXCEPT ![d] = now + Interval]
    /\ UNCHANGED <<fn, free>>

-----------------------------------------------------------------------------
(* A connection is made; with an interval, initHeartbeat starts its         *)
(* heartbeat.                                                               *)
Connect(c) ==
    /\ c \notin open \cup closed
    /\ Goto(c, "idle", "idle")
    /\ open' = open \cup {c}
    /\ IF c \in Plain
       THEN UNCHANGED <<timerData, lastPong, heard, timerVars>>
       ELSE /\ Add(c)
            /\ timerData' = [timerData EXCEPT ![c] = Head(free)]
            /\ lastPong' = [lastPong EXCEPT ![c] = Seconds(now)]
            /\ heard' = [heard EXCEPT ![c] = now]
    /\ UNCHANGED <<now, call, conn, reg, deadline, calls, closed, failed,
                   pingAt, pong>>

(* Calls of the application. *)

Begin(c, kind, label) ==
    /\ calls < MaxCalls /\ c \in open \cup closed
    /\ Goto(c, "idle", label)
    /\ calls' = calls + 1
    /\ call' = [call EXCEPT ![c] = kind]
    /\ UNCHANGED <<now, conn, reg, connVars, peerVars, timerVars>>

DisableHeartbeat(c) == Begin(c, "disable", "stop") /\ UNCHANGED deadline

SetHeartbeat(c) == Begin(c, "restart", "stop") /\ UNCHANGED deadline

CloseCall(c) ==
    /\ Begin(c, "close", "handshake")
    /\ deadline' = [deadline EXCEPT ![c] = now + CloseTime]

-----------------------------------------------------------------------------
(* The heartbeat's TimerData is deleted: by SetHeartbeat, DisableHeartbeat  *)
(* and close(), in three accesses to the connection and the timer.          *)

Stopped(p) == IF call[p] = "restart" THEN "add" ELSE Rest(p)

StopRead(p) ==
    /\ pc[p] = "stop"
    /\ reg' = [reg EXCEPT ![p] = timerData[ConnOf(p)]]
    /\ Goto(p, "stop", IF reg'[p] = None THEN Stopped(p) ELSE "del")
    /\ UNCHANGED <<now, call, conn, deadline, calls, connVars, peerVars,
                   timerVars>>

StopDel(p) ==
    /\ Goto(p, "del", "nil")
    /\ Del(reg[p])
    /\ UNCHANGED <<now, call, conn, reg, deadline, calls, connVars, peerVars>>

(* Mutant: heartbeatTimerData keeps the deleted TimerData. *)
StopNilForgotten(p) ==
    /\ Goto(p, "nil", Stopped(p))
    /\ UNCHANGED <<now, call, conn, reg, deadline, calls, connVars, peerVars,
                   timerVars>>

StopNil(p) ==
    /\ Goto(p, "nil", Stopped(p))
    /\ timerData' = [timerData EXCEPT ![ConnOf(p)] = None]
    /\ UNCHANGED <<now, call, conn, reg, deadline, calls, open, closed, failed,
                   peerVars, timerVars>>

(* SetHeartbeat starts a new one; lastPongTime keeps its value. *)
RestartAdd(c) ==
    /\ Goto(c, "add", "assign")
    /\ Add(c)
    /\ reg' = [reg EXCEPT ![c] = Head(free)]
    /\ UNCHANGED <<now, call, conn, deadline, calls, connVars, peerVars>>

RestartAssign(c) ==
    /\ Goto(c, "assign", "idle")
    /\ timerData' = [timerData EXCEPT ![c] = reg[c]]
    /\ heard' = [heard EXCEPT ![c] = now]
    /\ UNCHANGED <<now, call, conn, reg, deadline, calls, open, closed, failed,
                   lastPong, pingAt, pong, timerVars>>

(* The handshake of Close ends, one way or the other. *)
HandshakeEnds(p) ==
    /\ Goto(p, "handshake", "close")
    /\ UNCHANGED <<now, call, conn, reg, deadline, calls, connVars, peerVars,
                   timerVars>>

(* closeOnce: one goroutine closes the connection, the others wait for it.  *)
Closing(c) ==
    \E q \in Procs :
        ConnOf(q) = c /\ call[q] = "close" /\ pc[q] \in {"stop", "del", "nil"}

CloseOnce(p) ==
    /\ ~Closing(ConnOf(p))
    /\ Goto(p, "close", IF ConnOf(p) \in closed THEN Rest(p) ELSE "stop")
    /\ closed' = closed \cup {ConnOf(p)}
    /\ open' = open \ {ConnOf(p)}
    /\ UNCHANGED <<now, call, conn, reg, deadline, calls, failed, timerData,
                   peerVars, timerVars>>

-----------------------------------------------------------------------------
(* The timer's goroutine. *)

(* expire takes the first TimerData out of the heap and runs its callback.  *)
Expire ==
    \E d \in armed :
        /\ expire[d] <= now
        /\ \A e \in armed : expire[d] <= expire[e]
        /\ Goto(Timer, "wait", IF fn[d] = None THEN "wait" ELSE "perform")
        /\ conn' = fn[d]
        /\ armed' = armed \ {d}
        /\ UNCHANGED <<now, call, reg, deadline, calls, connVars, peerVars,
                       expire, fn, free>>

(* handleHeartbeatFailure: the connection is closed with a handshake. *)
HeartbeatFails(from) ==
    /\ Goto(Timer, from, "handshake")
    /\ failed' = failed \cup {conn}
    /\ deadline' = [deadline EXCEPT ![Timer] = now + CloseTime]
    /\ UNCHANGED <<now, call, conn, reg, calls, open, closed, timerData,
                   peerVars, timerVars>>

PongTooOld(c) ==
    Timeout > 0 /\ Seconds(now) - lastPong[c] > Seconds(Timeout)

(* performHeartbeat fails if the last pong is too old or, in Ping, the      *)
(* connection is closed; else a ping is sent.                               *)
PerformFails ==
    /\ pc[Timer] = "perform"
    /\ PongTooOld(conn) \/ conn \in closed
    /\ HeartbeatFails("perform")

PerformPing ==
    /\ pc[Timer] = "perform"
    /\ ~PongTooOld(conn) /\ conn \notin closed
    /\ Goto(Timer, "perform", "ping")
    /\ deadline' = [deadline EXCEPT ![Timer] = now + Timeout]
    /\ pingAt' = [pingAt EXCEPT ![conn] = now]
    /\ pong' = [pong EXCEPT ![conn] = FALSE]
    /\ UNCHANGED <<now, call, conn, reg, calls, connVars, lastPong, heard,
                   timerVars>>

PingAnswered ==
    /\ pc[Timer] = "ping" /\ pong[conn]
    /\ Goto(Timer, "ping", "reschedule")
    /\ UNCHANGED <<now, call, conn, reg, deadline, calls, connVars, peerVars,
                   timerVars>>

PingFails ==
    /\ deadline[Timer] <= now \/ conn \in closed
    /\ HeartbeatFails("ping")

(* The callback's test of heartbeatTimerData, and its Set. *)
RescheduleRead ==
    /\ pc[Timer] = "reschedule"
    /\ reg' = [reg EXCEPT ![Timer] = timerData[conn]]
    /\ Goto(Timer, "reschedule", IF reg'[Timer] = None THEN "wait" ELSE "set")
    /\ UNCHANGED <<now, call, conn, deadline, calls, connVars, peerVars,
                   timerVars>>

(* Mutant: a heartbeat is not scheduled again. *)
RescheduleSetForgotten ==
    /\ Goto(Timer, "set", "wait")
    /\ UNCHANGED <<now, call, conn, reg, deadline, calls, connVars, peerVars,
                   timerVars>>

RescheduleSet ==
    /\ Goto(Timer, "set", "wait")
    /\ Set(reg[Timer])
    /\ UNCHANGED <<now, call, conn, reg, deadline, calls, connVars, peerVars>>

-----------------------------------------------------------------------------
(* The peer, through the goroutine that reads the connection. *)

Hear(c) ==
    /\ c \in open
    /\ lastPong' = [lastPong EXCEPT ![c] = Seconds(now)]
    /\ heard' = [heard EXCEPT ![c] = now]
    /\ UNCHANGED <<now, procVars, connVars, timerVars>>

PeerAnswers(c) ==
    /\ pingAt[c] # None
    /\ Hear(c)
    /\ pingAt' = [pingAt EXCEPT ![c] = None]
    /\ pong' = [pong EXCEPT ![c] = pc[Timer] = "ping" /\ conn = c]

(* A data frame counts as a pong, but answers no ping.  A healthy peer only  *)
(* answers: its connection is idle.                                         *)
DataArrives(c) ==
    /\ c \notin Healthy
    /\ Hear(c)
    /\ UNCHANGED <<pingAt, pong>>

(* Time passes while every goroutine waits and no answer is due. *)
TimerWaits ==
    \/ pc[Timer] = "wait" /\ \A d \in armed : now < expire[d]
    \/ pc[Timer] = "ping" /\ ~pong[conn] /\ conn \notin closed /\ now < deadline[Timer]
    \/ pc[Timer] = "handshake" /\ now < deadline[Timer]

CallerWaits(c) ==
    pc[c] = "idle" \/ (pc[c] = "handshake" /\ now < deadline[c])

Tick ==
    /\ now < MaxTime
    /\ TimerWaits /\ \A c \in Conns : CallerWaits(c)
    /\ \A c \in Healthy \cap open :
          pingAt[c] # None => now < pingAt[c] + RoundTrip
    /\ now' = now + 1
    /\ UNCHANGED <<procVars, connVars, peerVars, timerVars>>

-----------------------------------------------------------------------------
Stop(p) == StopRead(p) \/ StopDel(p) \/ StopNil(p)

Close(p) == HandshakeEnds(p) \/ CloseOnce(p)

Application(c) ==
    \/ Connect(c) \/ DisableHeartbeat(c) \/ SetHeartbeat(c) \/ CloseCall(c)
    \/ RestartAdd(c) \/ RestartAssign(c)

Callback ==
    \/ Expire \/ PerformFails \/ PerformPing \/ PingAnswered \/ PingFails
    \/ RescheduleRead \/ RescheduleSet

(* The clock has reached its bound. *)
Ended == now = MaxTime /\ UNCHANGED vars

Next ==
    \/ \E c \in Conns : Application(c) \/ PeerAnswers(c) \/ DataArrives(c)
    \/ \E p \in Procs : Stop(p) \/ Close(p)
    \/ Callback
    \/ Tick
    \/ Ended

Spec == Init /\ [][Next]_vars

-----------------------------------------------------------------------------
(* Properties. *)

(* A TimerData in the free list is there once and not in the heap, so that  *)
(* Add gives no two heartbeats the same one (timer.go, get and put).        *)
FreeUnused == TypeOK /\ IsInjective(free) /\ Range(free) \cap armed = {}

Enabled(c) == c \in open /\ pc[c] = "idle" /\ timerData[c] # None

(* An open connection with a heartbeat has a TimerData in the heap that     *)
(* runs its own callback, unless that callback runs now.                    *)
HeartbeatServed ==
    \A c \in Conns : Enabled(c) =>
        \/ timerData[c] \in armed /\ fn[timerData[c]] = c
        \/ pc[Timer] # "wait" /\ conn = c

(* "If no pong is received within this timeout, the connection is closed"   *)
(* (options.go:39): a silent peer's next heartbeat comes an interval later, *)
(* or when the shared timer has failed every other connection and, if one   *)
(* was in its Close when the interval began, that too.  It fails at once if *)
(* the last pong is old by then, else when its ping times out.              *)
LatestCheck ==
    Max({Interval, CloseTime})
        + (Cardinality(Conns) - 1) * (Timeout + CloseTime)
OldestFresh == Timeout + SecondTicks - 1
DetectionTime == Max({LatestCheck, Min({LatestCheck, OldestFresh}) + Timeout})

SilentPeerDetected ==
    \A c \in Conns : Enabled(c) /\ c \notin failed =>
        now - heard[c] <= DetectionTime

(* The heartbeat closes no connection whose peer answers its pings in time  *)
(* (options.go:38): it fails on one that someone else has closed, only.     *)
HealthyStaysOpen ==
    [][\A c \in Healthy : c \in failed' \ failed => c \in closed]_vars
=============================================================================
