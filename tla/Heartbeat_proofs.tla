-------------------------- MODULE Heartbeat_proofs --------------------------
(***************************************************************************)
(* The heartbeat, for any connections, TimerData, intervals and timeouts:  *)
(* two heartbeats never share a TimerData, and a connection that has one is *)
(* served by it, if goroutines do not interleave between two waits (without *)
(* that, section 3 of the README has the run that shows otherwise), and     *)
(* then a silent peer is detected in time.                                  *)
(***************************************************************************)
EXTENDS Heartbeat, FiniteSetTheorems, TLAPS

-----------------------------------------------------------------------------
(* The free list as a sequence without repetitions. *)

LEMMA HeadTaken ==
    ASSUME NEW s \in Seq(Data), IsInjective(s), s # <<>>
    PROVE  /\ Head(s) \in Data /\ Head(s) \in Range(s)
           /\ Tail(s) \in Seq(Data) /\ IsInjective(Tail(s))
           /\ Range(Tail(s)) \subseteq Range(s) /\ Head(s) \notin Range(Tail(s))
<1>1. Len(s) \in Nat \ {0} /\ DOMAIN s = 1..Len(s)
  OBVIOUS
<1>2. Head(s) = s[1] /\ s[1] \in Data /\ 1 \in DOMAIN s
  BY <1>1
<1>3. Tail(s) \in Seq(Data)
  OBVIOUS
<1>4. /\ DOMAIN Tail(s) = 1..(Len(s) - 1)
      /\ \A k \in DOMAIN Tail(s) : k + 1 \in DOMAIN s /\ Tail(s)[k] = s[k + 1]
  BY <1>1, <1>3
<1>5. IsInjective(Tail(s))
  <2> SUFFICES ASSUME NEW a \in DOMAIN Tail(s), NEW b \in DOMAIN Tail(s),
                      Tail(s)[a] = Tail(s)[b]
               PROVE  a = b
    BY DEF IsInjective
  <2>1. a + 1 = b + 1
    BY <1>4 DEF IsInjective
  <2> QED
    BY <2>1, <1>4
<1>6. Head(s) \in Range(s) /\ Range(Tail(s)) \subseteq Range(s)
  BY <1>2, <1>4 DEF Range
<1>7. ASSUME NEW k \in DOMAIN Tail(s), Tail(s)[k] = Head(s) PROVE FALSE
  <2>1. k + 1 = 1
    BY <1>7, <1>2, <1>4 DEF IsInjective
  <2> QED
    BY <2>1, <1>4, <1>1
<1> QED
  BY <1>2, <1>3, <1>5, <1>6, <1>7 DEF Range

LEMMA PutInFront ==
    ASSUME NEW s \in Seq(Data), IsInjective(s),
           NEW d \in Data, d \notin Range(s)
    PROVE  /\ <<d>> \o s \in Seq(Data) /\ IsInjective(<<d>> \o s)
           /\ Range(<<d>> \o s) = Range(s) \cup {d}
<1>0. <<d>> \in Seq(Data) /\ <<d>> \o s \in Seq(Data)
  OBVIOUS
<1>1. PICK t \in Seq(Data) : t = <<d>> \o s
  BY <1>0
<1>2. /\ DOMAIN t = 1..(Len(s) + 1) /\ t[1] = d
      /\ \A k \in DOMAIN s : k + 1 \in DOMAIN t /\ t[k + 1] = s[k]
  BY <1>1
<1>3. DOMAIN s = 1..Len(s) /\ Len(s) \in Nat
  OBVIOUS
<1>4. ASSUME NEW k \in DOMAIN t, k # 1
      PROVE  k - 1 \in DOMAIN s /\ t[k] = s[k - 1]
  <2>1. k - 1 \in DOMAIN s /\ (k - 1) + 1 = k
    BY <1>2, <1>3, <1>4
  <2> QED
    BY <2>1, <1>2
<1>5. Range(t) = Range(s) \cup {d}
  <2>1. Range(t) \subseteq Range(s) \cup {d}
    BY <1>2, <1>4 DEF Range
  <2>2. d \in Range(t)
    BY <1>2, <1>3 DEF Range
  <2>3. Range(s) \subseteq Range(t)
    BY <1>2 DEF Range
  <2> QED
    BY <2>1, <2>2, <2>3
<1>6. ASSUME NEW a \in DOMAIN t, NEW b \in DOMAIN t, t[a] = t[b]
      PROVE  a = b
  <2>1. CASE a = 1 /\ b = 1
    BY <2>1
  <2>2. CASE a = 1 /\ b # 1
    BY <2>2, <1>4, <1>6, <1>2 DEF Range
  <2>3. CASE a # 1 /\ b = 1
    BY <2>3, <1>4, <1>6, <1>2 DEF Range
  <2>4. CASE a # 1 /\ b # 1
    <3>1. a - 1 = b - 1
      BY <2>4, <1>4, <1>6 DEF IsInjective
    <3> QED
      BY <3>1, <1>2, <1>3
  <2> QED
    BY <2>1, <2>2, <2>3, <2>4
<1> QED
  BY <1>1, <1>5, <1>6 DEF IsInjective

LEMMA AllOnFreeList ==
    SetToSeq(Data) \in Seq(Data) /\ IsInjective(SetToSeq(Data))
<1>1. PICK n \in Nat : ExistsBijection(1..n, Data)
  BY DataAssumption, FS_NatBijection
<1>2. Cardinality(Data) = n
  BY <1>1, FS_CountingElements, DataAssumption
<1>3. PICK f \in Bijection(1..n, Data) : TRUE
  BY <1>1 DEF ExistsBijection
<1>4. f \in [1..n -> Data] /\ IsInjective(f)
  BY <1>3 DEF Bijection, Injection, IsInjective
<1>5. /\ SetToSeq(Data) \in [1..n -> Data]
      /\ IsInjective(SetToSeq(Data))
  BY <1>2, <1>4, Zenon DEF SetToSeq
<1> QED
  BY <1>5

-----------------------------------------------------------------------------
(* The inductive invariant. *)

TimerLabels == {"wait", "perform", "ping", "reschedule", "set", "handshake",
                "close", "stop", "del", "nil"}
CallerLabels == {"idle", "handshake", "close", "stop", "del", "nil", "add",
                 "assign"}

LabelsOK ==
    /\ pc[Timer] \in TimerLabels
    /\ \A c \in Conns : pc[c] \in CallerLabels
    /\ call[Timer] = "close"
    /\ pc[Timer] # "wait" => conn \in Conns

(* One goroutine runs, the others wait. *)
Serial == \A p, q \in Procs : p # q => pc[p] \in Waits \/ pc[q] \in Waits

(* A connection whose TimerData has just been deleted. *)
Dropping(c) == \E p \in Procs : ConnOf(p) = c /\ pc[p] = "nil"

OwnersDiffer ==
    \A c, e \in Conns :
        c # e => timerData[c] = None \/ timerData[c] # timerData[e]

HeldByOwner ==
    \A c \in Conns : timerData[c] # None /\ ~Dropping(c) =>
        timerData[c] \notin Range(free) /\ fn[timerData[c]] = c

(* What a goroutine has read from its connection is still there when it     *)
(* acts on it; this is what the race breaks.                                *)
RegCurrent ==
    \A p \in Procs : pc[p] \in {"set", "del"} =>
        reg[p] = timerData[ConnOf(p)] /\ reg[p] \in Data

FreshApart ==
    \A c \in Conns : pc[c] = "assign" =>
        /\ reg[c] \in Data /\ reg[c] \in armed /\ reg[c] \notin Range(free)
        /\ fn[reg[c]] = c
        /\ \A e \in Conns : timerData[e] # reg[c]

Served ==
    \A c \in open : timerData[c] # None /\ ~Dropping(c) =>
        timerData[c] \in armed \/ (pc[Timer] # "wait" /\ conn = c)

(* A connection that is not made yet has no TimerData and makes no calls.   *)
Unmade ==
    \A c \in Conns : c \notin open \cup closed =>
        timerData[c] = None /\ pc[c] = "idle"

Handles ==
    /\ OwnersDiffer /\ HeldByOwner /\ RegCurrent /\ FreshApart /\ Served
    /\ Unmade /\ open \cap closed = {}

IInv == FreeUnused /\ LabelsOK /\ Serial /\ Handles

-----------------------------------------------------------------------------
(* Steps of one goroutine between its waits. *)

LEMMA DistinctGoroutines == Timer \in Procs /\ Conns \subseteq Procs
                            /\ \A c \in Conns : c # Timer /\ c # None
  BY ConnsAssumption DEF Procs

LEMMA GotoAlone ==
    ASSUME IInv, ~Preempt, NEW p \in Procs, NEW from, NEW to \in Labels,
           Goto(p, from, to)
    PROVE  /\ pc[p] = from /\ pc'[p] = to
           /\ \A q \in Procs : q # p => pc[q] \in Waits /\ pc'[q] = pc[q]
           /\ pc' \in [Procs -> Labels]
           /\ Serial'
<1>1. pc \in [Procs -> Labels]
  BY DEF IInv, FreeUnused, TypeOK
<1>2. /\ pc[p] = from /\ pc' = [pc EXCEPT ![p] = to]
      /\ \A q \in Procs \ {p} : pc[q] \in Waits
  BY DEF Goto
<1>3. /\ pc'[p] = to /\ pc' \in [Procs -> Labels]
      /\ \A q \in Procs : q # p => pc[q] \in Waits /\ pc'[q] = pc[q]
  BY <1>1, <1>2
<1>4. Serial'
  <2> SUFFICES ASSUME NEW q \in Procs, NEW r \in Procs, q # r
               PROVE  pc'[q] \in Waits \/ pc'[r] \in Waits
    BY DEF Serial
  <2> QED
    BY <1>3
<1> QED
  BY <1>2, <1>3, <1>4

(* A step that leaves the timer and heartbeatTimerData alone, and that has  *)
(* looked at the latter if it is to delete or to reschedule what it saw.    *)
LEMMA HandlesStay ==
    ASSUME IInv, NEW p \in Procs, NEW to \in Labels,
           pc' \in [Procs -> Labels], pc'[p] = to,
           \A q \in Procs : q # p => pc'[q] = pc[q] /\ reg'[q] = reg[q],
           pc[p] # "nil", to \notin {"nil", "assign"},
           UNCHANGED <<conn, timerData, timerVars>>,
           open' \subseteq open, open' \cap closed' = {},
           open \cup closed \subseteq open' \cup closed',
           pc[p] = "idle" => p \in open \cup closed,
           to \in {"set", "del"} =>
              reg'[p] = timerData[ConnOf(p)] /\ reg'[p] \in Data,
           p = Timer /\ to = "wait" =>
              conn \notin open' \/ timerData[conn] = None
    PROVE  Handles'
<1> USE DEF IInv, Handles, timerVars
<1>1. \A q \in Procs : ConnOf(q)' = ConnOf(q)
  BY DEF ConnOf
<1>2. \A c : Dropping(c)' <=> Dropping(c)
  BY <1>1 DEF Dropping
<1>3. OwnersDiffer'
  BY DEF OwnersDiffer
<1>4. HeldByOwner'
  BY <1>2 DEF HeldByOwner
<1>5. RegCurrent'
  BY <1>1 DEF RegCurrent
<1>6. FreshApart'
  <2> SUFFICES ASSUME NEW c \in Conns, pc'[c] = "assign"
               PROVE  (/\ reg[c] \in Data /\ reg[c] \in armed
                       /\ reg[c] \notin Range(free) /\ fn[reg[c]] = c
                       /\ \A e \in Conns : timerData[e] # reg[c])
                      /\ reg'[c] = reg[c]
    BY DEF FreshApart
  <2>1. c # p /\ pc[c] = "assign" /\ reg'[c] = reg[c]
    BY DistinctGoroutines
  <2> QED
    BY <2>1 DEF FreshApart
<1>7. Served'
  <2> SUFFICES ASSUME NEW c \in open', timerData[c] # None, ~Dropping(c)
               PROVE  \/ timerData[c] \in armed
                      \/ pc'[Timer] # "wait" /\ conn = c
    BY <1>2 DEF Served
  <2>1. timerData[c] \in armed \/ (pc[Timer] # "wait" /\ conn = c)
    BY DEF Served
  <2>2. CASE p = Timer
    BY <2>1, <2>2
  <2>3. CASE p # Timer
    BY <2>1, <2>3, DistinctGoroutines
  <2> QED
    BY <2>2, <2>3
<1>8. Unmade'
  <2> SUFFICES ASSUME NEW c \in Conns, c \notin open' \cup closed'
               PROVE  timerData[c] = None /\ pc'[c] = "idle"
    BY DEF Unmade
  <2>1. c \notin open \cup closed /\ timerData[c] = None /\ pc[c] = "idle"
    BY DEF Unmade
  <2> QED
    BY <2>1, DistinctGoroutines
<1> QED
  BY <1>3, <1>4, <1>5, <1>6, <1>7, <1>8

LEMMA FreeStays ==
    ASSUME FreeUnused, UNCHANGED timerVars, TypeOK'
    PROVE  FreeUnused'
  BY DEF FreeUnused, timerVars

LEMMA SecondsType ==
    ASSUME NEW t \in 0..MaxTime
    PROVE  Seconds(t) \in 0..MaxTime
<1>1. t \in Nat /\ SecondTicks \in Nat \ {0} /\ MaxTime \in Nat
  BY TimesAssumption, BoundsAssumption
<1>2. t \div SecondTicks \in Nat
  BY <1>1
<1>3. t \div SecondTicks <= t
  BY <1>1
<1> QED
  BY <1>1, <1>2, <1>3 DEF Seconds

-----------------------------------------------------------------------------
(* The steps that neither change the timer nor heartbeatTimerData. *)

LEMMA BeginInv ==
    ASSUME IInv, ~Preempt, NEW c \in Conns, NEW kind \in Calls,
           NEW label \in {"stop", "handshake"}, Begin(c, kind, label),
           \/ UNCHANGED deadline
           \/ deadline' = [deadline EXCEPT ![c] = now + CloseTime]
    PROVE  IInv'
<1> USE DEF Begin
<1>1. c \in Procs /\ c # Timer /\ label \in Labels
  BY DistinctGoroutines DEF Labels
<1>2. /\ pc[c] = "idle" /\ pc'[c] = label /\ Serial'
      /\ \A q \in Procs : q # c => pc'[q] = pc[q]
      /\ pc' \in [Procs -> Labels]
  BY <1>1, GotoAlone
<1>3. TypeOK'
  <2>1. calls' \in 0..MaxCalls
    BY BoundsAssumption DEF IInv, FreeUnused, TypeOK
  <2>2. now + CloseTime \in Times
    BY TimesAssumption, BoundsAssumption
       DEF IInv, FreeUnused, TypeOK, Times
  <2>3. deadline' \in [Procs -> Times]
    BY <2>2 DEF IInv, FreeUnused, TypeOK
  <2> QED
    BY <1>2, <2>1, <2>3
       DEF IInv, FreeUnused, TypeOK, connVars, peerVars, timerVars
<1>4. LabelsOK'
  BY <1>1, <1>2, DistinctGoroutines DEF IInv, LabelsOK, CallerLabels
<1>5. Handles'
  <2>1. open \cap closed = {}
    BY DEF IInv, Handles
  <2> QED
    BY <1>1, <1>2, <2>1, HandlesStay DEF connVars, timerVars
<1> QED
  BY <1>2, <1>3, <1>4, <1>5, FreeStays DEF IInv

LEMMA StopReadInv ==
    ASSUME IInv, ~Preempt, NEW p \in Procs, StopRead(p)
    PROVE  IInv'
<1> USE DEF StopRead
<1>1. PICK to \in {"del", "add", "wait", "idle"} :
         /\ Goto(p, "stop", to)
         /\ to = "del" <=> timerData[ConnOf(p)] # None
         /\ to = "wait" => p = Timer
         /\ to \in {"idle", "add"} => p \in Conns
  <2>1. reg'[p] = timerData[ConnOf(p)]
    BY DEF IInv, FreeUnused, TypeOK
  <2>2. Stopped(p) = IF p = Timer THEN "wait"
                     ELSE IF call[p] = "restart" THEN "add" ELSE "idle"
    BY DEF Stopped, Rest, IInv, LabelsOK
  <2>3. CASE timerData[ConnOf(p)] = None
    BY <2>1, <2>2, <2>3 DEF Procs
  <2>4. CASE timerData[ConnOf(p)] # None
    BY <2>1, <2>4
  <2> QED
    BY <2>3, <2>4
<1>2. to \in Labels
  BY DEF Labels
<1>3. /\ pc[p] = "stop" /\ pc'[p] = to /\ Serial'
      /\ \A q \in Procs : q # p => pc'[q] = pc[q]
      /\ pc' \in [Procs -> Labels]
  BY <1>1, <1>2, GotoAlone
<1>4. ConnOf(p) \in Conns
  BY <1>3 DEF ConnOf, Procs, IInv, LabelsOK
<1>5. timerData[ConnOf(p)] \in Data \cup {None}
  BY <1>4 DEF IInv, FreeUnused, TypeOK
<1>6. /\ reg'[p] = timerData[ConnOf(p)] /\ reg' \in [Procs -> Data \cup {None}]
      /\ \A q \in Procs : q # p => reg'[q] = reg[q]
  BY <1>5 DEF IInv, FreeUnused, TypeOK
<1>7. TypeOK'
  BY <1>3, <1>6 DEF IInv, FreeUnused, TypeOK, connVars, peerVars, timerVars
<1>8. LabelsOK'
  BY <1>1, <1>3, DistinctGoroutines
     DEF IInv, LabelsOK, CallerLabels, TimerLabels, Procs
<1>9. Handles'
  <2>1. open \cap closed = {}
    BY DEF IInv, Handles
  <2>2. p = Timer => ConnOf(p) = conn
    BY DEF ConnOf
  <2>3. to \in {"set", "del"} =>
           reg'[p] = timerData[ConnOf(p)] /\ reg'[p] \in Data
    BY <1>1, <1>5, <1>6
  <2>4. p = Timer /\ to = "wait" => timerData[conn] = None
    BY <1>1, <2>2
  <2>5. to \notin {"nil", "assign"}
    BY <1>1
  <2> QED
    BY <1>2, <1>3, <1>6, <2>1, <2>3, <2>4, <2>5, HandlesStay
       DEF connVars, timerVars
<1> QED
  BY <1>3, <1>7, <1>8, <1>9, FreeStays DEF IInv

LEMMA HandshakeEndsInv ==
    ASSUME IInv, ~Preempt, NEW p \in Procs, HandshakeEnds(p)
    PROVE  IInv'
<1> USE DEF HandshakeEnds
<1>1. "close" \in Labels
  BY DEF Labels
<1>2. /\ pc[p] = "handshake" /\ pc'[p] = "close" /\ Serial'
      /\ \A q \in Procs : q # p => pc'[q] = pc[q]
      /\ pc' \in [Procs -> Labels]
  BY <1>1, GotoAlone
<1>3. TypeOK'
  BY <1>2 DEF IInv, FreeUnused, TypeOK, connVars, peerVars, timerVars
<1>4. LabelsOK'
  BY <1>2, DistinctGoroutines
     DEF IInv, LabelsOK, CallerLabels, TimerLabels, Procs
<1>5. Handles'
  <2>1. open \cap closed = {}
    BY DEF IInv, Handles
  <2> QED
    BY <1>1, <1>2, <2>1, HandlesStay DEF connVars, timerVars
<1> QED
  BY <1>2, <1>3, <1>4, <1>5, FreeStays DEF IInv

LEMMA CloseOnceInv ==
    ASSUME IInv, ~Preempt, NEW p \in Procs, CloseOnce(p)
    PROVE  IInv'
<1> USE DEF CloseOnce
<1>1. PICK to \in {"stop", "wait", "idle"} :
         /\ Goto(p, "close", to)
         /\ to = "wait" => p = Timer /\ ConnOf(p) \in closed
         /\ to = "idle" => p \in Conns
  BY Zenon DEF Rest, Procs
<1>2. to \in Labels
  BY DEF Labels
<1>3. /\ pc[p] = "close" /\ pc'[p] = to /\ Serial'
      /\ \A q \in Procs : q # p => pc'[q] = pc[q]
      /\ pc' \in [Procs -> Labels]
  BY <1>1, <1>2, GotoAlone
<1>4. ConnOf(p) \in Conns
  BY <1>3 DEF ConnOf, Procs, IInv, LabelsOK
<1>5. TypeOK'
  BY <1>3, <1>4 DEF IInv, FreeUnused, TypeOK, peerVars, timerVars
<1>6. LabelsOK'
  BY <1>1, <1>3, DistinctGoroutines
     DEF IInv, LabelsOK, CallerLabels, TimerLabels, Procs
<1>7. Handles'
  <2>1. open' \cap closed' = {} /\ open' \subseteq open
    BY DEF IInv, Handles
  <2>2. p = Timer => ConnOf(p) = conn
    BY DEF ConnOf
  <2>3. p = Timer /\ to = "wait" => conn \notin open'
    BY <1>1, <2>2, <2>1
  <2>4. to \notin {"nil", "assign", "set", "del"}
    BY <1>1
  <2> QED
    BY <1>2, <1>3, <2>1, <2>3, <2>4, HandlesStay DEF timerVars
<1> QED
  BY <1>3, <1>5, <1>6, <1>7, FreeStays DEF IInv

LEMMA HeartbeatFailsInv ==
    ASSUME IInv, ~Preempt, NEW from \in {"perform", "ping"},
           HeartbeatFails(from)
    PROVE  IInv'
<1> USE DEF HeartbeatFails
<1>1. "handshake" \in Labels /\ Timer \in Procs
  BY DistinctGoroutines DEF Labels
<1>2. /\ pc[Timer] = from /\ pc'[Timer] = "handshake" /\ Serial'
      /\ \A q \in Procs : q # Timer => pc'[q] = pc[q]
      /\ pc' \in [Procs -> Labels]
  BY <1>1, GotoAlone
<1>3. conn \in Conns
  BY <1>2 DEF IInv, LabelsOK
<1>4. TypeOK'
  <2>1. now + CloseTime \in Times
    BY TimesAssumption, BoundsAssumption
       DEF IInv, FreeUnused, TypeOK, Times
  <2> QED
    BY <1>2, <1>3, <2>1 DEF IInv, FreeUnused, TypeOK, peerVars, timerVars
<1>5. LabelsOK'
  BY <1>2, <1>3, DistinctGoroutines DEF IInv, LabelsOK, TimerLabels
<1>6. Handles'
  <2>1. open \cap closed = {}
    BY DEF IInv, Handles
  <2> QED
    BY <1>1, <1>2, <2>1, HandlesStay DEF timerVars
<1> QED
  BY <1>2, <1>4, <1>5, <1>6, FreeStays DEF IInv

LEMMA PerformPingInv ==
    ASSUME IInv, ~Preempt, PerformPing
    PROVE  IInv'
<1> USE DEF PerformPing
<1>1. "ping" \in Labels /\ Timer \in Procs
  BY DistinctGoroutines DEF Labels
<1>2. /\ pc[Timer] = "perform" /\ pc'[Timer] = "ping" /\ Serial'
      /\ \A q \in Procs : q # Timer => pc'[q] = pc[q]
      /\ pc' \in [Procs -> Labels]
  BY <1>1, GotoAlone
<1>3. conn \in Conns
  BY <1>2 DEF IInv, LabelsOK
<1>4. TypeOK'
  <2>1. now + Timeout \in Times
    BY TimesAssumption, BoundsAssumption
       DEF IInv, FreeUnused, TypeOK, Times
  <2> QED
    BY <1>2, <1>3, <2>1 DEF IInv, FreeUnused, TypeOK, connVars, timerVars
<1>5. LabelsOK'
  BY <1>2, <1>3, DistinctGoroutines DEF IInv, LabelsOK, TimerLabels
<1>6. Handles'
  <2>1. open \cap closed = {}
    BY DEF IInv, Handles
  <2> QED
    BY <1>1, <1>2, <2>1, HandlesStay DEF connVars, timerVars
<1> QED
  BY <1>2, <1>4, <1>5, <1>6, FreeStays DEF IInv

LEMMA PingAnsweredInv ==
    ASSUME IInv, ~Preempt, PingAnswered
    PROVE  IInv'
<1> USE DEF PingAnswered
<1>1. "reschedule" \in Labels /\ Timer \in Procs
  BY DistinctGoroutines DEF Labels
<1>2. /\ pc[Timer] = "ping" /\ pc'[Timer] = "reschedule" /\ Serial'
      /\ \A q \in Procs : q # Timer => pc'[q] = pc[q]
      /\ pc' \in [Procs -> Labels]
  BY <1>1, GotoAlone
<1>3. TypeOK'
  BY <1>2 DEF IInv, FreeUnused, TypeOK, connVars, peerVars, timerVars
<1>4. LabelsOK'
  BY <1>2, DistinctGoroutines DEF IInv, LabelsOK, TimerLabels
<1>5. Handles'
  <2>1. open \cap closed = {}
    BY DEF IInv, Handles
  <2> QED
    BY <1>1, <1>2, <2>1, HandlesStay DEF connVars, timerVars
<1> QED
  BY <1>2, <1>3, <1>4, <1>5, FreeStays DEF IInv

LEMMA RescheduleReadInv ==
    ASSUME IInv, ~Preempt, RescheduleRead
    PROVE  IInv'
<1> USE DEF RescheduleRead
<1>1. Timer \in Procs /\ conn \in Conns /\ ConnOf(Timer) = conn
  BY DistinctGoroutines DEF IInv, LabelsOK, ConnOf
<1>2. timerData[conn] \in Data \cup {None}
  BY <1>1 DEF IInv, FreeUnused, TypeOK
<1>3. /\ reg'[Timer] = timerData[conn] /\ reg' \in [Procs -> Data \cup {None}]
      /\ \A q \in Procs : q # Timer => reg'[q] = reg[q]
  BY <1>1, <1>2 DEF IInv, FreeUnused, TypeOK
<1>4. PICK to \in {"set", "wait"} :
         /\ Goto(Timer, "reschedule", to)
         /\ to = "set" <=> timerData[conn] # None
  BY <1>3
<1>5. to \in Labels
  BY DEF Labels
<1>6. /\ pc[Timer] = "reschedule" /\ pc'[Timer] = to /\ Serial'
      /\ \A q \in Procs : q # Timer => pc'[q] = pc[q]
      /\ pc' \in [Procs -> Labels]
  BY <1>1, <1>4, <1>5, GotoAlone
<1>7. TypeOK'
  BY <1>3, <1>6 DEF IInv, FreeUnused, TypeOK, connVars, peerVars, timerVars
<1>8. LabelsOK'
  BY <1>1, <1>6, DistinctGoroutines DEF IInv, LabelsOK, TimerLabels
<1>9. Handles'
  <2>1. open \cap closed = {}
    BY DEF IInv, Handles
  <2>2. /\ to = "set" => timerData[conn] \in Data
        /\ to = "wait" => timerData[conn] = None
        /\ to \notin {"nil", "assign", "del"}
    BY <1>2, <1>4
  <2> QED
    BY <1>1, <1>3, <1>5, <1>6, <2>1, <2>2, HandlesStay DEF connVars, timerVars
<1> QED
  BY <1>6, <1>7, <1>8, <1>9, FreeStays DEF IInv

-----------------------------------------------------------------------------
(* The steps that change the timer or heartbeatTimerData: every other       *)
(* goroutine waits, so that nobody holds a TimerData in reg.                *)

LEMMA NobodyDrops ==
    ASSUME NEW p \in Procs, pc[p] # "nil",
           \A q \in Procs : q # p => pc[q] \in Waits
    PROVE  \A c : ~Dropping(c)
  BY DEF Dropping, Waits

LEMMA StopDelInv ==
    ASSUME IInv, ~Preempt, NEW p \in Procs, StopDel(p)
    PROVE  IInv'
<1> USE DEF StopDel, Del
<1>1. "nil" \in Labels
  BY DEF Labels
<1>2. /\ pc[p] = "del" /\ pc'[p] = "nil" /\ Serial'
      /\ \A q \in Procs : q # p => pc[q] \in Waits /\ pc'[q] = pc[q]
      /\ pc' \in [Procs -> Labels]
  BY <1>1, GotoAlone
<1>3. ConnOf(p) \in Conns
  BY <1>2 DEF ConnOf, Procs, IInv, LabelsOK
<1>4. \A c : ~Dropping(c)
  BY <1>2, NobodyDrops
<1>5. /\ reg[p] = timerData[ConnOf(p)] /\ reg[p] \in Data
      /\ reg[p] \notin Range(free) /\ reg[p] # None
  BY <1>2, <1>3, <1>4, ConnsAssumption
     DEF IInv, Handles, RegCurrent, HeldByOwner
<1>6. free \in Seq(Data) /\ IsInjective(free) /\ Range(free) \cap armed = {}
  BY DEF IInv, FreeUnused, TypeOK
<1>7. /\ free' \in Seq(Data) /\ IsInjective(free')
      /\ Range(free') = Range(free) \cup {reg[p]}
  BY <1>5, <1>6, PutInFront
<1>8. FreeUnused'
  <2>1. armed' \subseteq Data /\ fn' \in [Data -> Conns \cup {None}]
    BY <1>5 DEF IInv, FreeUnused, TypeOK
  <2>2. TypeOK'
    BY <1>2, <1>7, <2>1 DEF IInv, FreeUnused, TypeOK, connVars, peerVars
  <2>3. Range(free') \cap armed' = {}
    BY <1>6, <1>7
  <2> QED
    BY <1>7, <2>2, <2>3 DEF FreeUnused
<1>9. LabelsOK'
  BY <1>2, DistinctGoroutines
     DEF IInv, LabelsOK, CallerLabels, TimerLabels, Procs
<1>10. \A c : c = ConnOf(p) => Dropping(c)'
  <2>1. ConnOf(p)' = ConnOf(p)
    BY DEF ConnOf
  <2> QED
    BY <1>2, <2>1 DEF Dropping
<1>11. ASSUME NEW c \in Conns, c # ConnOf(p), timerData[c] # None
       PROVE  timerData[c] # reg[p] /\ timerData[c] \in Data
  BY <1>3, <1>5, <1>11 DEF IInv, Handles, OwnersDiffer, FreeUnused, TypeOK
<1>12. Handles'
  <2>1. OwnersDiffer' /\ (open \cap closed = {})'
    BY DEF IInv, Handles, OwnersDiffer, connVars
  <2>2. HeldByOwner'
    <3> SUFFICES ASSUME NEW c \in Conns, timerData[c] # None, ~Dropping(c)'
                 PROVE  /\ timerData[c] \notin Range(free')
                        /\ fn'[timerData[c]] = c
      BY DEF HeldByOwner, connVars
    <3>1. c # ConnOf(p)
      BY <1>10
    <3>2. timerData[c] \notin Range(free) /\ fn[timerData[c]] = c
      BY <1>4 DEF IInv, Handles, HeldByOwner
    <3> QED
      BY <3>1, <3>2, <1>7, <1>11 DEF IInv, FreeUnused, TypeOK
  <2>3. RegCurrent' /\ FreshApart'
    BY <1>2, DistinctGoroutines DEF RegCurrent, FreshApart, Waits
  <2>4. Served'
    <3> SUFFICES ASSUME NEW c \in open, timerData[c] # None, ~Dropping(c)'
                 PROVE  \/ timerData[c] \in armed'
                        \/ pc'[Timer] # "wait" /\ conn = c
      BY DEF Served, connVars
    <3>1. c \in Conns /\ c # ConnOf(p)
      BY <1>10 DEF IInv, FreeUnused, TypeOK
    <3>2. timerData[c] \in armed \/ (pc[Timer] # "wait" /\ conn = c)
      BY <1>4 DEF IInv, Handles, Served
    <3>3. CASE timerData[c] \in armed
      BY <3>1, <3>3, <1>11
    <3>4. CASE pc[Timer] # "wait" /\ conn = c
      BY <3>4, <1>2, DistinctGoroutines
    <3> QED
      BY <3>2, <3>3, <3>4
  <2>5. Unmade'
    BY <1>2, DistinctGoroutines DEF IInv, Handles, Unmade, connVars, Waits
  <2> QED
    BY <2>1, <2>2, <2>3, <2>4, <2>5 DEF Handles
<1> QED
  BY <1>2, <1>8, <1>9, <1>12 DEF IInv

LEMMA StopNilInv ==
    ASSUME IInv, ~Preempt, NEW p \in Procs, StopNil(p)
    PROVE  IInv'
<1> USE DEF StopNil
<1>1. PICK to \in {"add", "wait", "idle"} :
         /\ Goto(p, "nil", to)
         /\ to = "wait" => p = Timer
         /\ to \in {"idle", "add"} => p \in Conns
  <2>1. Stopped(p) = IF p = Timer THEN "wait"
                     ELSE IF call[p] = "restart" THEN "add" ELSE "idle"
    BY DEF Stopped, Rest, IInv, LabelsOK
  <2> QED
    BY <2>1 DEF Procs
<1>2. to \in Labels
  BY DEF Labels
<1>3. /\ pc[p] = "nil" /\ pc'[p] = to /\ Serial'
      /\ \A q \in Procs : q # p => pc[q] \in Waits /\ pc'[q] = pc[q]
      /\ pc' \in [Procs -> Labels]
  BY <1>1, <1>2, GotoAlone
<1>4. ConnOf(p) \in Conns
  BY <1>3 DEF ConnOf, Procs, IInv, LabelsOK
<1>5. /\ timerData' \in [Conns -> Data \cup {None}]
      /\ timerData'[ConnOf(p)] = None
      /\ \A c \in Conns : c # ConnOf(p) => timerData'[c] = timerData[c]
  BY <1>4 DEF IInv, FreeUnused, TypeOK
<1>6. TypeOK'
  BY <1>3, <1>5 DEF IInv, FreeUnused, TypeOK, peerVars, timerVars
<1>7. LabelsOK'
  BY <1>1, <1>3, DistinctGoroutines
     DEF IInv, LabelsOK, CallerLabels, TimerLabels, Procs
<1>8. \A c : c # ConnOf(p) => ~Dropping(c)
  BY <1>3 DEF Dropping, Waits
<1>9. Handles'
  <2>1. OwnersDiffer'
    BY <1>5 DEF IInv, Handles, OwnersDiffer
  <2>2. HeldByOwner'
    BY <1>5, <1>8 DEF IInv, Handles, HeldByOwner, timerVars
  <2>3. RegCurrent' /\ FreshApart'
    BY <1>1, <1>3, DistinctGoroutines DEF RegCurrent, FreshApart, Waits
  <2>4. Served'
    <3> SUFFICES ASSUME NEW c \in open, timerData'[c] # None
                 PROVE  \/ timerData'[c] \in armed
                        \/ pc'[Timer] # "wait" /\ conn = c
      BY DEF Served, timerVars
    <3>1. c \in Conns /\ c # ConnOf(p) /\ timerData'[c] = timerData[c]
      BY <1>5 DEF IInv, FreeUnused, TypeOK
    <3>2. timerData[c] \in armed \/ (pc[Timer] # "wait" /\ conn = c)
      BY <1>8, <3>1 DEF IInv, Handles, Served
    <3>3. p = Timer => conn # c
      BY <3>1 DEF ConnOf
    <3> QED
      BY <3>1, <3>2, <3>3, <1>3, DistinctGoroutines
  <2>5. open' \cap closed' = {}
    BY DEF IInv, Handles
  <2>6. Unmade'
    <3> SUFFICES ASSUME NEW c \in Conns, c \notin open \cup closed
                 PROVE  timerData'[c] = None /\ pc'[c] = "idle"
      BY DEF Unmade
    <3>1. timerData[c] = None /\ pc[c] = "idle" /\ c # p
      BY <1>3 DEF IInv, Handles, Unmade
    <3> QED
      BY <3>1, <1>3, <1>5, DistinctGoroutines
  <2> QED
    BY <2>1, <2>2, <2>3, <2>4, <2>5, <2>6 DEF Handles
<1> QED
  BY <1>3, <1>6, <1>7, <1>9, FreeStays DEF IInv

(* Add takes the head of the free list, which nobody has. *)
LEMMA AddEffect ==
    ASSUME IInv, NEW c \in Conns, Add(c), \A e : ~Dropping(e)
    PROVE  /\ Head(free) \in Data
           /\ armed' = armed \cup {Head(free)} /\ armed' \subseteq Data
           /\ expire' \in [Data -> Times]
           /\ fn' \in [Data -> Conns \cup {None}] /\ fn'[Head(free)] = c
           /\ \A d \in Data : d # Head(free) => fn'[d] = fn[d]
           /\ free' \in Seq(Data) /\ IsInjective(free')
           /\ Range(free') \subseteq Range(free)
           /\ Range(free') \cap armed' = {} /\ Head(free) \notin Range(free')
           /\ \A e \in Conns : timerData[e] # Head(free)
<1> USE DEF Add
<1>1. free \in Seq(Data) /\ IsInjective(free) /\ Range(free) \cap armed = {}
  BY DEF IInv, FreeUnused, TypeOK
<1>2. /\ Head(free) \in Data /\ Head(free) \in Range(free)
      /\ free' \in Seq(Data) /\ IsInjective(free')
      /\ Range(free') \subseteq Range(free) /\ Head(free) \notin Range(free')
  BY <1>1, HeadTaken
<1>3. now + Interval \in Times
  BY TimesAssumption, BoundsAssumption DEF IInv, FreeUnused, TypeOK, Times
<1>4. /\ armed' \subseteq Data /\ expire' \in [Data -> Times]
      /\ fn' \in [Data -> Conns \cup {None}] /\ fn'[Head(free)] = c
      /\ \A d \in Data : d # Head(free) => fn'[d] = fn[d]
  BY <1>2, <1>3 DEF IInv, FreeUnused, TypeOK
<1>5. Range(free') \cap armed' = {}
  BY <1>1, <1>2
<1>6. \A e \in Conns : timerData[e] # Head(free)
  BY <1>2, ConnsAssumption DEF IInv, Handles, HeldByOwner
<1> QED
  BY <1>2, <1>4, <1>5, <1>6

LEMMA ConnectInv ==
    ASSUME IInv, ~Preempt, NEW c \in Conns, Connect(c)
    PROVE  IInv'
<1> USE DEF Connect
<1>1. "idle" \in Labels /\ c \in Procs /\ c # Timer
  BY DistinctGoroutines DEF Labels
<1>2. /\ pc[c] = "idle" /\ pc'[c] = "idle" /\ Serial'
      /\ \A q \in Procs : q # c => pc[q] \in Waits /\ pc'[q] = pc[q]
      /\ pc' \in [Procs -> Labels]
  BY <1>1, GotoAlone
<1>3. \A e : ~Dropping(e)
  BY <1>1, <1>2, NobodyDrops
<1>4. \A q \in Procs : pc'[q] = pc[q] /\ pc[q] \in Waits
  BY <1>2 DEF Waits
<1>5. LabelsOK'
  BY <1>4, DistinctGoroutines DEF IInv, LabelsOK
<1>6. /\ RegCurrent' /\ FreshApart' /\ open' \cap closed' = {}
      /\ Unmade'
  <2>1. RegCurrent' /\ FreshApart' /\ open' \cap closed' = {}
    BY <1>4, DistinctGoroutines
       DEF RegCurrent, FreshApart, Waits, IInv, Handles
  <2>2. ASSUME NEW e \in Conns, e \notin open' \cup closed'
        PROVE  timerData'[e] = None /\ pc'[e] = "idle"
    <3>1. e # c /\ e \notin open \cup closed
      BY <2>2
    <3>2. timerData'[e] = timerData[e]
      BY <3>1 DEF IInv, FreeUnused, TypeOK
    <3> QED
      BY <3>1, <3>2, <1>4, DistinctGoroutines DEF IInv, Handles, Unmade
  <2> QED
    BY <2>1, <2>2 DEF Unmade
<1>7. open' \subseteq Conns /\ timerData[c] = None
  BY DEF IInv, FreeUnused, TypeOK, Handles, Unmade
<1>8. CASE c \in Plain
  <2>1. UNCHANGED <<timerData, lastPong, heard, timerVars>>
    BY <1>8
  <2>2. TypeOK'
    BY <1>2, <1>7, <2>1 DEF IInv, FreeUnused, TypeOK, timerVars
  <2>3. OwnersDiffer' /\ HeldByOwner'
    BY <1>3, <2>1 DEF IInv, Handles, OwnersDiffer, HeldByOwner, timerVars
  <2>4. Served'
    BY <1>3, <1>4, <1>7, <2>1, DistinctGoroutines
       DEF IInv, Handles, Served, timerVars
  <2> QED
    BY <1>2, <1>5, <1>6, <2>1, <2>2, <2>3, <2>4, FreeStays DEF IInv, Handles
<1>9. CASE c \notin Plain
  <2>1. /\ Add(c) /\ timerData' = [timerData EXCEPT ![c] = Head(free)]
        /\ lastPong' = [lastPong EXCEPT ![c] = Seconds(now)]
        /\ heard' = [heard EXCEPT ![c] = now]
    BY <1>9
  <2>2. PICK d \in Data :
           /\ d = Head(free)
           /\ armed' = armed \cup {d} /\ armed' \subseteq Data
           /\ expire' \in [Data -> Times]
           /\ fn' \in [Data -> Conns \cup {None}] /\ fn'[d] = c
           /\ \A x \in Data : x # d => fn'[x] = fn[x]
           /\ free' \in Seq(Data) /\ IsInjective(free')
           /\ Range(free') \subseteq Range(free)
           /\ Range(free') \cap armed' = {} /\ d \notin Range(free')
           /\ \A e \in Conns : timerData[e] # d
    BY <1>3, <2>1, AddEffect
  <2>3. /\ timerData' \in [Conns -> Data \cup {None}] /\ timerData'[c] = d
        /\ \A e \in Conns : e # c => timerData'[e] = timerData[e]
    BY <2>1, <2>2 DEF IInv, FreeUnused, TypeOK
  <2>4. FreeUnused'
    <3>1. Seconds(now) \in 0..MaxTime /\ now \in 0..MaxTime
      BY SecondsType DEF IInv, FreeUnused, TypeOK
    <3>2. /\ lastPong' \in [Conns -> {Epoch} \cup 0..MaxTime]
          /\ heard' \in [Conns -> 0..MaxTime]
      BY <2>1, <3>1 DEF IInv, FreeUnused, TypeOK
    <3>3. TypeOK'
      BY <1>2, <1>7, <2>2, <2>3, <3>2 DEF IInv, FreeUnused, TypeOK
    <3> QED
      BY <2>2, <3>3 DEF FreeUnused
  <2>5. OwnersDiffer'
    BY <2>2, <2>3 DEF IInv, Handles, OwnersDiffer
  <2>6. HeldByOwner'
    <3> SUFFICES ASSUME NEW e \in Conns, timerData'[e] # None
                 PROVE  /\ timerData'[e] \notin Range(free')
                        /\ fn'[timerData'[e]] = e
      BY DEF HeldByOwner
    <3>1. CASE e = c
      BY <3>1, <2>2, <2>3
    <3>2. CASE e # c
      BY <3>2, <1>3, <2>2, <2>3
         DEF IInv, Handles, HeldByOwner, FreeUnused, TypeOK
    <3> QED
      BY <3>1, <3>2
  <2>7. Served'
    <3> SUFFICES ASSUME NEW e \in open', timerData'[e] # None
                 PROVE  \/ timerData'[e] \in armed'
                        \/ pc'[Timer] # "wait" /\ conn = e
      BY DEF Served
    <3>1. CASE e = c
      BY <3>1, <2>2, <2>3
    <3>2. CASE e # c
      <4>1. e \in open /\ e \in Conns /\ timerData'[e] = timerData[e]
        BY <3>2, <2>3, <1>7
      <4> QED
        BY <4>1, <1>3, <1>4, <2>2, DistinctGoroutines DEF IInv, Handles, Served
    <3> QED
      BY <3>1, <3>2
  <2> QED
    BY <1>2, <1>5, <1>6, <2>4, <2>5, <2>6, <2>7 DEF IInv, Handles
<1> QED
  BY <1>8, <1>9

LEMMA RestartAddInv ==
    ASSUME IInv, ~Preempt, NEW c \in Conns, RestartAdd(c)
    PROVE  IInv'
<1> USE DEF RestartAdd
<1>1. "assign" \in Labels /\ c \in Procs /\ c # Timer
  BY DistinctGoroutines DEF Labels
<1>2. /\ pc[c] = "add" /\ pc'[c] = "assign" /\ Serial'
      /\ \A q \in Procs : q # c => pc[q] \in Waits /\ pc'[q] = pc[q]
      /\ pc' \in [Procs -> Labels]
  BY <1>1, GotoAlone
<1>3. \A e : ~Dropping(e)
  BY <1>1, <1>2, NobodyDrops
<1>4. LabelsOK'
  BY <1>1, <1>2, DistinctGoroutines DEF IInv, LabelsOK, CallerLabels
<1>5. PICK d \in Data :
         /\ d = Head(free)
         /\ armed' = armed \cup {d} /\ armed' \subseteq Data
         /\ expire' \in [Data -> Times]
         /\ fn' \in [Data -> Conns \cup {None}] /\ fn'[d] = c
         /\ \A x \in Data : x # d => fn'[x] = fn[x]
         /\ free' \in Seq(Data) /\ IsInjective(free')
         /\ Range(free') \subseteq Range(free)
         /\ Range(free') \cap armed' = {} /\ d \notin Range(free')
         /\ \A e \in Conns : timerData[e] # d
  BY <1>3, AddEffect
<1>6. reg' \in [Procs -> Data \cup {None}] /\ reg'[c] = d
  BY <1>1, <1>5 DEF IInv, FreeUnused, TypeOK
<1>7. FreeUnused'
  <2>1. TypeOK'
    BY <1>2, <1>5, <1>6 DEF IInv, FreeUnused, TypeOK, connVars, peerVars
  <2> QED
    BY <1>5, <2>1 DEF FreeUnused
<1>8. Handles'
  <2>1. OwnersDiffer' /\ open' \cap closed' = {}
    BY DEF IInv, Handles, OwnersDiffer, connVars
  <2>2. HeldByOwner'
    <3> SUFFICES ASSUME NEW e \in Conns, timerData[e] # None
                 PROVE  /\ timerData[e] \notin Range(free')
                        /\ fn'[timerData[e]] = e
      BY DEF HeldByOwner, connVars
    <3> QED
      BY <1>3, <1>5 DEF IInv, Handles, HeldByOwner, FreeUnused, TypeOK
  <2>3. RegCurrent'
    BY <1>2 DEF RegCurrent, Waits
  <2>4. FreshApart'
    <3>1. \A e \in Conns : pc'[e] = "assign" => e = c
      BY <1>2, DistinctGoroutines DEF Waits
    <3> QED
      BY <3>1, <1>5, <1>6 DEF FreshApart, connVars
  <2>5. Served'
    <3>1. pc'[Timer] = pc[Timer]
      BY <1>1, <1>2, DistinctGoroutines
    <3> QED
      BY <3>1, <1>3, <1>5 DEF IInv, Handles, Served, connVars
  <2>6. Unmade'
    BY <1>2, DistinctGoroutines DEF IInv, Handles, Unmade, connVars
  <2> QED
    BY <2>1, <2>2, <2>3, <2>4, <2>5, <2>6 DEF Handles
<1> QED
  BY <1>2, <1>4, <1>7, <1>8 DEF IInv

LEMMA RestartAssignInv ==
    ASSUME IInv, ~Preempt, NEW c \in Conns, RestartAssign(c)
    PROVE  IInv'
<1> USE DEF RestartAssign
<1>1. "idle" \in Labels /\ c \in Procs /\ c # Timer
  BY DistinctGoroutines DEF Labels
<1>2. /\ pc[c] = "assign" /\ pc'[c] = "idle" /\ Serial'
      /\ \A q \in Procs : q # c => pc[q] \in Waits /\ pc'[q] = pc[q]
      /\ pc' \in [Procs -> Labels]
  BY <1>1, GotoAlone
<1>3. \A e : ~Dropping(e)
  BY <1>1, <1>2, NobodyDrops
<1>4. LabelsOK'
  BY <1>1, <1>2, DistinctGoroutines DEF IInv, LabelsOK, CallerLabels
<1>5. /\ reg[c] \in Data /\ reg[c] \in armed /\ reg[c] \notin Range(free)
      /\ fn[reg[c]] = c /\ \A e \in Conns : timerData[e] # reg[c]
  BY <1>2 DEF IInv, Handles, FreshApart
<1>6. /\ timerData' \in [Conns -> Data \cup {None}] /\ timerData'[c] = reg[c]
      /\ \A e \in Conns : e # c => timerData'[e] = timerData[e]
  BY <1>5 DEF IInv, FreeUnused, TypeOK
<1>7. TypeOK'
  <2>1. heard' \in [Conns -> 0..MaxTime]
    BY DEF IInv, FreeUnused, TypeOK
  <2> QED
    BY <1>2, <1>6, <2>1 DEF IInv, FreeUnused, TypeOK, timerVars
<1>8. Handles'
  <2>1. OwnersDiffer' /\ open' \cap closed' = {}
    BY <1>5, <1>6 DEF IInv, Handles, OwnersDiffer
  <2>2. HeldByOwner'
    <3> SUFFICES ASSUME NEW e \in Conns, timerData'[e] # None
                 PROVE  /\ timerData'[e] \notin Range(free)
                        /\ fn[timerData'[e]] = e
      BY DEF HeldByOwner, timerVars
    <3>1. CASE e = c
      BY <3>1, <1>5, <1>6
    <3>2. CASE e # c
      BY <3>2, <1>3, <1>6 DEF IInv, Handles, HeldByOwner
    <3> QED
      BY <3>1, <3>2
  <2>3. RegCurrent' /\ FreshApart'
    BY <1>2, DistinctGoroutines DEF RegCurrent, FreshApart, Waits
  <2>4. Served'
    <3> SUFFICES ASSUME NEW e \in open, timerData'[e] # None
                 PROVE  \/ timerData'[e] \in armed
                        \/ pc'[Timer] # "wait" /\ conn = e
      BY DEF Served, timerVars
    <3>1. e \in Conns /\ pc'[Timer] = pc[Timer]
      BY <1>1, <1>2, DistinctGoroutines DEF IInv, FreeUnused, TypeOK
    <3>2. CASE e = c
      BY <3>2, <1>5, <1>6
    <3>3. CASE e # c
      BY <3>1, <3>3, <1>3, <1>6 DEF IInv, Handles, Served
    <3> QED
      BY <3>2, <3>3
  <2>5. Unmade'
    <3> SUFFICES ASSUME NEW e \in Conns, e \notin open \cup closed
                 PROVE  timerData'[e] = None /\ pc'[e] = "idle"
      BY DEF Unmade
    <3>1. timerData[e] = None /\ pc[e] = "idle" /\ e # c
      BY <1>2 DEF IInv, Handles, Unmade
    <3> QED
      BY <3>1, <1>2, <1>6, DistinctGoroutines
  <2> QED
    BY <2>1, <2>2, <2>3, <2>4, <2>5 DEF Handles
<1> QED
  BY <1>2, <1>4, <1>7, <1>8, FreeStays DEF IInv

(* The one whose TimerData leaves the heap is served by the callback. *)
LEMMA ExpireInv ==
    ASSUME IInv, ~Preempt, Expire
    PROVE  IInv'
<1>1. PICK d \in armed :
         /\ Goto(Timer, "wait", IF fn[d] = None THEN "wait" ELSE "perform")
         /\ conn' = fn[d] /\ armed' = armed \ {d}
         /\ UNCHANGED <<now, call, reg, deadline, calls, connVars, peerVars,
                        expire, fn, free>>
  BY DEF Expire
<1>2. d \in Data /\ fn[d] \in Conns \cup {None}
  BY DEF IInv, FreeUnused, TypeOK
<1>3. PICK to \in {"wait", "perform"} :
         Goto(Timer, "wait", to) /\ (to = "wait" <=> fn[d] = None)
  BY <1>1
<1>4. to \in Labels /\ Timer \in Procs
  BY DistinctGoroutines DEF Labels
<1>5. /\ pc[Timer] = "wait" /\ pc'[Timer] = to /\ Serial'
      /\ \A q \in Procs : q # Timer => pc[q] \in Waits /\ pc'[q] = pc[q]
      /\ pc' \in [Procs -> Labels]
  BY <1>3, <1>4, GotoAlone
<1>6. \A e : ~Dropping(e)
  BY <1>4, <1>5, NobodyDrops
<1>7. LabelsOK'
  <2>1. to # "wait" => conn' \in Conns
    BY <1>1, <1>2, <1>3
  <2> QED
    BY <1>1, <1>5, <2>1, DistinctGoroutines DEF IInv, LabelsOK, TimerLabels
<1>8. FreeUnused'
  <2>1. TypeOK'
    BY <1>1, <1>2, <1>5 DEF IInv, FreeUnused, TypeOK, connVars, peerVars
  <2> QED
    BY <1>1, <2>1 DEF IInv, FreeUnused
<1>9. Handles'
  <2>1. OwnersDiffer' /\ open' \cap closed' = {}
    BY <1>1 DEF IInv, Handles, OwnersDiffer, connVars
  <2>2. HeldByOwner'
    BY <1>1, <1>6 DEF IInv, Handles, HeldByOwner, connVars
  <2>3. RegCurrent' /\ FreshApart'
    BY <1>5, DistinctGoroutines DEF RegCurrent, FreshApart, Waits
  <2>4. Served'
    <3> SUFFICES ASSUME NEW e \in open, timerData[e] # None
                 PROVE  \/ timerData[e] \in armed'
                        \/ pc'[Timer] # "wait" /\ conn' = e
      BY <1>1 DEF Served, connVars
    <3>1. e \in Conns /\ timerData[e] \in armed /\ fn[timerData[e]] = e
      BY <1>5, <1>6 DEF IInv, FreeUnused, TypeOK, Handles, Served, HeldByOwner
    <3>2. CASE timerData[e] = d
      BY <3>1, <3>2, <1>1, <1>3, <1>5, DistinctGoroutines
    <3>3. CASE timerData[e] # d
      BY <3>1, <3>3, <1>1
    <3> QED
      BY <3>2, <3>3
  <2>5. Unmade'
    BY <1>1, <1>5, DistinctGoroutines DEF IInv, Handles, Unmade, connVars
  <2> QED
    BY <2>1, <2>2, <2>3, <2>4, <2>5 DEF Handles
<1> QED
  BY <1>5, <1>7, <1>8, <1>9 DEF IInv

LEMMA RescheduleSetInv ==
    ASSUME IInv, ~Preempt, RescheduleSet
    PROVE  IInv'
<1> USE DEF RescheduleSet, Set
<1>1. "wait" \in Labels /\ Timer \in Procs
  BY DistinctGoroutines DEF Labels
<1>2. /\ pc[Timer] = "set" /\ pc'[Timer] = "wait" /\ Serial'
      /\ \A q \in Procs : q # Timer => pc[q] \in Waits /\ pc'[q] = pc[q]
      /\ pc' \in [Procs -> Labels]
  BY <1>1, GotoAlone
<1>3. \A e : ~Dropping(e)
  BY <1>1, <1>2, NobodyDrops
<1>4. PICK d \in Data : d = reg[Timer] /\ d = timerData[conn]
  BY <1>1, <1>2 DEF IInv, Handles, RegCurrent, ConnOf
<1>5. conn \in Conns /\ d # None
  BY <1>2, ConnsAssumption DEF IInv, LabelsOK
<1>6. d \notin Range(free)
  BY <1>3, <1>4, <1>5 DEF IInv, Handles, HeldByOwner
<1>7. LabelsOK'
  BY <1>2, DistinctGoroutines DEF IInv, LabelsOK, TimerLabels
<1>8. FreeUnused'
  <2>1. now + Interval \in Times
    BY TimesAssumption, BoundsAssumption
       DEF IInv, FreeUnused, TypeOK, Times
  <2>2. armed' = armed \cup {d} /\ expire' \in [Data -> Times]
    BY <1>4, <2>1 DEF IInv, FreeUnused, TypeOK
  <2>3. TypeOK'
    BY <1>2, <2>2 DEF IInv, FreeUnused, TypeOK, connVars, peerVars
  <2> QED
    BY <1>6, <2>2, <2>3 DEF IInv, FreeUnused
<1>9. Handles'
  <2>1. OwnersDiffer' /\ open' \cap closed' = {}
    BY DEF IInv, Handles, OwnersDiffer, connVars
  <2>2. HeldByOwner'
    BY <1>3 DEF IInv, Handles, HeldByOwner, connVars
  <2>3. RegCurrent' /\ FreshApart'
    BY <1>2, DistinctGoroutines DEF RegCurrent, FreshApart, Waits
  <2>4. Served'
    <3> SUFFICES ASSUME NEW e \in open, timerData[e] # None
                 PROVE  timerData[e] \in armed'
      BY DEF Served, connVars
    <3>1. timerData[e] \in armed \/ conn = e
      BY <1>3 DEF IInv, Handles, Served
    <3> QED
      BY <3>1, <1>4
  <2>5. Unmade'
    BY <1>2, DistinctGoroutines DEF IInv, Handles, Unmade, connVars
  <2> QED
    BY <2>1, <2>2, <2>3, <2>4, <2>5 DEF Handles
<1> QED
  BY <1>2, <1>7, <1>8, <1>9 DEF IInv

-----------------------------------------------------------------------------
(* The peer and the clock. *)

LEMMA AsideInv ==
    ASSUME IInv, UNCHANGED <<procVars, connVars, timerVars>>, TypeOK'
    PROVE  IInv'
<1> USE DEF procVars, connVars
<1>1. LabelsOK' /\ Serial'
  BY DEF IInv, LabelsOK, Serial
<1>2. \A c : Dropping(c)' <=> Dropping(c)
  BY DEF Dropping, ConnOf
<1>3. OwnersDiffer' /\ RegCurrent' /\ Unmade' /\ (open \cap closed = {})'
  BY DEF IInv, Handles, OwnersDiffer, RegCurrent, Unmade, ConnOf
<1>4. HeldByOwner' /\ FreshApart' /\ Served'
  BY <1>2 DEF IInv, Handles, HeldByOwner, FreshApart, Served, timerVars
<1> QED
  BY <1>1, <1>3, <1>4, FreeStays DEF IInv, Handles

LEMMA HearTyped ==
    ASSUME TypeOK, NEW c \in Conns, Hear(c),
           pingAt' \in [Conns -> 0..MaxTime \cup {None}],
           pong' \in [Conns -> BOOLEAN]
    PROVE  TypeOK'
<1>1. Seconds(now) \in 0..MaxTime /\ now \in 0..MaxTime
  BY SecondsType DEF TypeOK
<1>2. /\ lastPong' \in [Conns -> {Epoch} \cup 0..MaxTime]
      /\ heard' \in [Conns -> 0..MaxTime]
  BY <1>1 DEF TypeOK, Hear
<1> QED
  BY <1>2 DEF TypeOK, Hear, procVars, connVars, timerVars

LEMMA PeerInv ==
    ASSUME IInv, NEW c \in Conns, PeerAnswers(c) \/ DataArrives(c)
    PROVE  IInv'
<1>1. TypeOK /\ Hear(c)
  BY DEF IInv, FreeUnused, PeerAnswers, DataArrives
<1>2. /\ pingAt' \in [Conns -> 0..MaxTime \cup {None}]
      /\ pong' \in [Conns -> BOOLEAN]
  <2>1. CASE PeerAnswers(c)
    <3>1. (pc[Timer] = "ping" /\ conn = c) \in BOOLEAN
      OBVIOUS
    <3> QED
      BY <1>1, <2>1, <3>1 DEF TypeOK, PeerAnswers
  <2>2. CASE DataArrives(c)
    BY <1>1, <2>2 DEF TypeOK, DataArrives
  <2> QED
    BY <2>1, <2>2
<1>3. TypeOK'
  BY <1>1, <1>2, HearTyped
<1> QED
  BY <1>1, <1>3, AsideInv DEF Hear

LEMMA TickInv ==
    ASSUME IInv, Tick
    PROVE  IInv'
<1>1. now' \in 0..MaxTime
  BY BoundsAssumption DEF IInv, FreeUnused, TypeOK, Tick
<1>2. TypeOK'
  BY <1>1 DEF IInv, FreeUnused, TypeOK, Tick, procVars, connVars, peerVars,
              timerVars
<1> QED
  BY <1>2, AsideInv DEF Tick

LEMMA StutterInv ==
    ASSUME IInv, UNCHANGED vars
    PROVE  IInv'
<1>1. TypeOK'
  BY DEF IInv, FreeUnused, TypeOK, vars, procVars, connVars, peerVars,
         timerVars
<1> QED
  BY <1>1, AsideInv DEF vars

-----------------------------------------------------------------------------
(* The theorems. *)

LEMMA InitInv == Init => IInv
<1> SUFFICES ASSUME Init PROVE IInv
  OBVIOUS
<1> USE DEF Init
<1>1. now \in 0..MaxTime /\ 0 \in Times
  BY TimesAssumption, BoundsAssumption DEF Times
<1>2. free \in Seq(Data) /\ IsInjective(free)
  BY AllOnFreeList
<1>3. TypeOK
  BY <1>1, <1>2, BoundsAssumption DEF TypeOK, Labels, Calls
<1>4. FreeUnused
  BY <1>2, <1>3 DEF FreeUnused
<1>5. LabelsOK /\ Serial
  BY DistinctGoroutines
     DEF LabelsOK, Serial, TimerLabels, CallerLabels, Waits
<1>6. \A p \in Procs : pc[p] \in {"wait", "idle"}
  BY DistinctGoroutines
<1>7. RegCurrent /\ FreshApart
  BY <1>6, DistinctGoroutines DEF RegCurrent, FreshApart
<1>8. OwnersDiffer /\ HeldByOwner /\ Served /\ Unmade
  BY DistinctGoroutines DEF OwnersDiffer, HeldByOwner, Served, Unmade
<1> QED
  BY <1>4, <1>5, <1>7, <1>8 DEF IInv, Handles

LEMMA NextInv == ~Preempt /\ IInv /\ [Next]_vars => IInv'
<1> SUFFICES ASSUME ~Preempt, IInv, [Next]_vars PROVE IInv'
  OBVIOUS
<1>1. ASSUME NEW c \in Conns, Application(c) PROVE IInv'
  <2>1. CASE Connect(c)
    BY <2>1, ConnectInv
  <2>2. CASE DisableHeartbeat(c)
    <3>1. "disable" \in Calls
      BY DEF Calls
    <3> QED
      BY <2>2, <3>1, BeginInv DEF DisableHeartbeat
  <2>3. CASE SetHeartbeat(c)
    <3>1. "restart" \in Calls
      BY DEF Calls
    <3> QED
      BY <2>3, <3>1, BeginInv DEF SetHeartbeat
  <2>4. CASE CloseCall(c)
    <3>1. "close" \in Calls
      BY DEF Calls
    <3> QED
      BY <2>4, <3>1, BeginInv DEF CloseCall
  <2>5. CASE RestartAdd(c)
    BY <2>5, RestartAddInv
  <2>6. CASE RestartAssign(c)
    BY <2>6, RestartAssignInv
  <2> QED
    BY <1>1, <2>1, <2>2, <2>3, <2>4, <2>5, <2>6 DEF Application
<1>2. ASSUME NEW p \in Procs, Stop(p) PROVE IInv'
  BY <1>2, StopReadInv, StopDelInv, StopNilInv DEF Stop
<1>3. ASSUME NEW p \in Procs, Close(p) PROVE IInv'
  BY <1>3, HandshakeEndsInv, CloseOnceInv DEF Close
<1>4. ASSUME Callback PROVE IInv'
  <2>1. CASE PerformFails \/ PingFails
    BY <2>1, HeartbeatFailsInv DEF PerformFails, PingFails
  <2> QED
    BY <1>4, <2>1, ExpireInv, PerformPingInv, PingAnsweredInv,
       RescheduleReadInv, RescheduleSetInv DEF Callback
<1>5. CASE Ended \/ UNCHANGED vars
  BY <1>5, StutterInv DEF Ended
<1> QED
  BY <1>1, <1>2, <1>3, <1>4, <1>5, PeerInv, TickInv DEF Next

(* Nobody preempted between two waits: the invariant holds (heartbeat.go,   *)
(* conn.go's close()).                                                      *)
THEOREM Invariance == ~Preempt => (Spec => []IInv)
<1> SUFFICES ASSUME ~Preempt PROVE Spec => []IInv
  OBVIOUS
<1>1. Init => IInv
  BY InitInv
<1>2. IInv /\ [Next]_vars => IInv'
  BY NextInv
<1> QED
  BY <1>1, <1>2, PTL DEF Spec

(* A TimerData on the free list is there once and not in the heap, so that  *)
(* two heartbeats never share one (timer.go, get and put).                  *)
THEOREM FreeDataUnused == ~Preempt => (Spec => []FreeUnused)
<1>1. IInv => FreeUnused
  BY DEF IInv
<1> QED
  BY <1>1, Invariance, PTL

(* An open connection with a heartbeat has its own callback in the heap, or *)
(* it runs: no DisableHeartbeat, SetHeartbeat or Close of another one takes *)
(* it away (heartbeat.go).                                                  *)
THEOREM HeartbeatsServed == ~Preempt => (Spec => []HeartbeatServed)
<1>1. IInv => HeartbeatServed
  <2> SUFFICES ASSUME IInv, NEW c \in Conns, Enabled(c)
               PROVE  \/ timerData[c] \in armed /\ fn[timerData[c]] = c
                      \/ pc[Timer] # "wait" /\ conn = c
    BY DEF HeartbeatServed
  <2>1. c \in open /\ pc[c] = "idle" /\ timerData[c] # None
    BY DEF Enabled
  <2>2. CASE Dropping(c)
    <3>1. PICK p \in Procs : ConnOf(p) = c /\ pc[p] = "nil"
      BY <2>2 DEF Dropping
    <3> QED
      BY <2>1, <3>1 DEF ConnOf
  <2>3. CASE ~Dropping(c)
    BY <2>1, <2>3 DEF IInv, Handles, Served, HeldByOwner
  <2> QED
    BY <2>2, <2>3
<1> QED
  BY <1>1, Invariance, PTL

-----------------------------------------------------------------------------
(* When a silent peer is detected: the queue before a callback. *)

(* The longest a callback holds up the others: its ping, then its close.    *)
Hold == Timeout + CloseTime

Running(c) == pc[Timer] # "wait" /\ conn = c

(* A connection that has no callback left in the heap when those that run   *)
(* or wait for the timer's mutex now are done, or one an interval later.    *)
Leaving(c) ==
    \/ Running(c) /\ c \notin closed
    \/ \E p \in Procs : ConnOf(p) = c /\ pc[p] \in {"stop", "del"}

(* The connections whose callbacks run before that of x. *)
Ahead(x) ==
    {c \in Conns \ {fn[x]} :
        ~Leaving(c) /\ \E y \in armed : fn[y] = c /\ expire[y] <= expire[x]}

(* The callback that runs has ended by then. *)
FreeAt ==
    CASE pc[Timer] = "perform" ->
            IF conn \in closed THEN now + CloseTime ELSE now + Hold
      [] pc[Timer] = "ping" ->
            IF conn \in closed THEN now + CloseTime
                               ELSE deadline[Timer] + CloseTime
      [] pc[Timer] = "handshake" -> deadline[Timer]
      [] OTHER -> now

(* The callback of x begins in time if each of those ahead of it takes as   *)
(* long as it can.                                                          *)
InTime(x) ==
    FreeAt + Hold * Cardinality(Ahead(x)) <= expire[x] - Interval + LatestCheck

QueueInv == \A x \in armed : fn[x] \in open /\ ~Running(fn[x]) => InTime(x)

(* The TimerData in the heap are those of the connections, and of a         *)
(* SetHeartbeat that has not assigned it yet.                               *)
SlotsInv ==
    /\ \A x \in armed :
          /\ fn[x] \in Conns
          /\ pc[fn[x]] = "assign" => reg[fn[x]] = x
          /\ pc[fn[x]] # "assign" => timerData[fn[x]] = x
    /\ \A c \in Conns : pc[c] \in {"add", "assign"} => timerData[c] = None
    /\ \A p \in Procs : pc[p] = "nil" => timerData[ConnOf(p)] \notin armed

(* A callback is due an interval after the peer was heard, at most. *)
ClocksInv ==
    /\ \A c \in Conns : heard[c] <= now /\ lastPong[c] <= Seconds(heard[c])
    /\ \A x \in armed :
          /\ expire[x] <= now + Interval
          /\ pc[fn[x]] # "assign" => expire[x] <= heard[fn[x]] + Interval

(* What the callback that runs has found out about its peer. *)
Performing ==
    pc[Timer] = "perform" =>
        conn \in closed \/ now <= heard[conn] + LatestCheck

Pinging ==
    pc[Timer] = "ping" =>
        /\ now <= deadline[Timer] /\ deadline[Timer] <= now + Timeout
        /\ \/ conn \in closed
           \/ /\ deadline[Timer] <= heard[conn] + LatestCheck + Timeout
              /\ Timeout = 0
                 \/ deadline[Timer] <= heard[conn] + OldestFresh + Timeout
        /\ pong[conn] => heard[conn] = now

Failing ==
    /\ pc[Timer] = "handshake" =>
          now <= deadline[Timer] /\ deadline[Timer] <= now + CloseTime
    /\ pc[Timer] \in {"handshake", "close"} => conn \in failed
    /\ pc[Timer] \in {"stop", "del", "nil"} => conn \in closed

Rescheduling == pc[Timer] \in {"reschedule", "set"} => heard[conn] = now

CallbackInv == Performing /\ Pinging /\ Failing /\ Rescheduling

-----------------------------------------------------------------------------
(* The arithmetic of the bound. *)

LEMMA MaxOfTwo ==
    ASSUME NEW a \in Int, NEW b \in Int
    PROVE  Max({a, b}) \in {a, b} /\ Max({a, b}) >= a /\ Max({a, b}) >= b
<1>1. \E x \in {a, b} : \A y \in {a, b} : x >= y
  <2>1. CASE a >= b
    BY <2>1
  <2>2. CASE b >= a
    BY <2>2
  <2>. QED BY <2>1, <2>2
<1>2. /\ Max({a, b}) \in {a, b}
      /\ \A y \in {a, b} : Max({a, b}) >= y
  BY <1>1 DEF Max
<1>. QED BY <1>2

LEMMA MinOfTwo ==
    ASSUME NEW a \in Int, NEW b \in Int
    PROVE  Min({a, b}) \in {a, b} /\ Min({a, b}) <= a /\ Min({a, b}) <= b
<1>1. \E x \in {a, b} : \A y \in {a, b} : x <= y
  <2>1. CASE a <= b
    BY <2>1
  <2>2. CASE b <= a
    BY <2>2
  <2>. QED BY <2>1, <2>2
<1>2. /\ Min({a, b}) \in {a, b}
      /\ \A y \in {a, b} : Min({a, b}) <= y
  BY <1>1 DEF Min
<1>. QED BY <1>2

LEMMA ProductGrows ==
    ASSUME NEW b \in Nat, NEW m \in Nat, NEW n \in Nat, m <= n
    PROVE  b * m <= b * n /\ b * m \in Nat /\ b * n \in Nat
<1>1. b * m \in Nat /\ b * n \in Nat /\ b * (n - m) \in Nat
  OBVIOUS
<1>2. b * n = b * m + b * (n - m)
  OBVIOUS
<1>. QED BY <1>1, <1>2

LEMMA TimesNat ==
    /\ Hold \in Nat /\ Timeout \in Nat /\ CloseTime \in Nat
    /\ Interval \in Nat \ {0} /\ SecondTicks \in Nat \ {0}
    /\ CloseTime <= Hold /\ Hold = Timeout + CloseTime
    /\ OldestFresh \in Nat /\ OldestFresh = Timeout + SecondTicks - 1
BY TimesAssumption DEF Hold, OldestFresh

(* LatestCheck is the time in which those that can be ahead of a connection *)
(* are done, one after the other.                                           *)
LEMMA QueueBound ==
    ASSUME NEW c \in Conns, NEW S \in SUBSET (Conns \ {c})
    PROVE  /\ IsFiniteSet(S) /\ Cardinality(S) \in Nat
           /\ Hold * Cardinality(S) \in Nat /\ LatestCheck \in Nat
           /\ Hold * Cardinality(S) + Interval <= LatestCheck
           /\ Hold * Cardinality(S) + CloseTime <= LatestCheck
<1>1. IsFiniteSet(Conns) /\ IsFiniteSet(Conns \ {c})
  BY ConnsAssumption, FS_RemoveElement
<1>2. /\ Cardinality(Conns) \in Nat
      /\ Cardinality(Conns \ {c}) = Cardinality(Conns) - 1
      /\ Cardinality(Conns \ {c}) \in Nat
  BY <1>1, FS_RemoveElement, FS_CardinalityType
<1>3. /\ IsFiniteSet(S) /\ Cardinality(S) \in Nat
      /\ Cardinality(S) <= Cardinality(Conns \ {c})
  BY <1>1, FS_Subset, FS_CardinalityType
<1>4. PICK n \in Nat : n = Cardinality(Conns \ {c})
  BY <1>2
<1>5. PICK m \in Nat : m = Cardinality(S) /\ m <= n
  BY <1>3, <1>4
<1>6. Hold * m <= Hold * n /\ Hold * m \in Nat /\ Hold * n \in Nat
  BY <1>5, TimesNat, ProductGrows
<1>7. PICK M \in Nat : /\ M = Max({Interval, CloseTime})
                       /\ M >= Interval /\ M >= CloseTime
  <2>1. Interval \in Int /\ CloseTime \in Int
    BY TimesNat
  <2>2. /\ Max({Interval, CloseTime}) \in {Interval, CloseTime}
        /\ Max({Interval, CloseTime}) >= Interval
        /\ Max({Interval, CloseTime}) >= CloseTime
    BY <2>1, MaxOfTwo
  <2>. QED BY <2>2, TimesNat
<1>8. LatestCheck = M + n * Hold /\ n * Hold = Hold * n
  BY <1>2, <1>4, <1>7, TimesNat DEF LatestCheck, Hold
<1>9. /\ LatestCheck \in Nat /\ Hold * m + Interval <= LatestCheck
      /\ Hold * m + CloseTime <= LatestCheck
  BY <1>6, <1>7, <1>8, TimesNat
<1>. QED BY <1>3, <1>5, <1>6, <1>9

(* One connection less ahead is a callback less. *)
LEMMA OneLess ==
    ASSUME NEW c \in Conns, NEW S \in SUBSET (Conns \ {c}), NEW e \in S,
           NEW T \in SUBSET (S \ {e})
    PROVE  Hold * Cardinality(T) + Hold <= Hold * Cardinality(S)
<1>1. /\ IsFiniteSet(S) /\ Cardinality(S) \in Nat
  BY QueueBound
<1>2. /\ IsFiniteSet(S \ {e})
      /\ Cardinality(S \ {e}) = Cardinality(S) - 1
      /\ Cardinality(S \ {e}) \in Nat
  BY <1>1, FS_RemoveElement, FS_CardinalityType
<1>3. Cardinality(T) \in Nat /\ Cardinality(T) <= Cardinality(S \ {e})
  BY <1>2, FS_Subset, FS_CardinalityType
<1>4. PICK s \in Nat, t \in Nat : /\ s = Cardinality(S) /\ t = Cardinality(T)
                                  /\ t + 1 <= s
  BY <1>1, <1>2, <1>3
<1>5. Hold * (t + 1) <= Hold * s /\ Hold * t \in Nat /\ Hold * s \in Nat
  BY <1>4, TimesNat, ProductGrows
<1>6. Hold * (t + 1) = Hold * t + Hold
  BY TimesNat
<1>. QED BY <1>4, <1>5, <1>6, TimesNat

LEMMA FewerAhead ==
    ASSUME NEW c \in Conns, NEW S \in SUBSET (Conns \ {c}), NEW T \in SUBSET S
    PROVE  Hold * Cardinality(T) <= Hold * Cardinality(S)
<1>1. /\ IsFiniteSet(S) /\ Cardinality(S) \in Nat
  BY QueueBound
<1>2. Cardinality(T) \in Nat /\ Cardinality(T) <= Cardinality(S)
  BY <1>1, FS_Subset, FS_CardinalityType
<1>. QED BY <1>1, <1>2, TimesNat, ProductGrows

(* If one of the others is not ahead there is time for it too. *)
LEMMA OneMore ==
    ASSUME NEW c \in Conns, NEW e \in Conns, e # c,
           NEW S \in SUBSET (Conns \ {c}), e \notin S
    PROVE  Hold * Cardinality(S) + Hold <= LatestCheck
<1>1. PICK T \in SUBSET (Conns \ {c}) : T = S \cup {e}
  OBVIOUS
<1>2. e \in T /\ S \in SUBSET (T \ {e})
  BY <1>1
<1>3. Hold * Cardinality(S) + Hold <= Hold * Cardinality(T)
  BY <1>2, OneLess
<1>4. /\ Hold * Cardinality(T) \in Nat /\ LatestCheck \in Nat
      /\ Hold * Cardinality(T) + Interval <= LatestCheck
  BY QueueBound
<1>5. Hold * Cardinality(S) \in Nat
  BY QueueBound
<1>. QED BY <1>3, <1>4, <1>5, TimesNat

LEMMA LatestNat == ASSUME NEW c \in Conns PROVE LatestCheck \in Nat
<1>1. {} \in SUBSET (Conns \ {c})
  OBVIOUS
<1>. QED BY <1>1, QueueBound

-----------------------------------------------------------------------------
(* How a step changes the queue. *)

LEMMA FreeAtBounds ==
    IInv /\ CallbackInv =>
        /\ now \in Int /\ FreeAt \in Int /\ now <= FreeAt
        /\ \/ FreeAt <= now + CloseTime
           \/ Running(conn) /\ conn \notin closed /\ FreeAt <= now + Hold
<1>. SUFFICES ASSUME IInv, CallbackInv
              PROVE  /\ now \in Int /\ FreeAt \in Int /\ now <= FreeAt
                     /\ \/ FreeAt <= now + CloseTime
                        \/ /\ Running(conn) /\ conn \notin closed
                           /\ FreeAt <= now + Hold
  OBVIOUS
<1>1. now \in Nat /\ deadline[Timer] \in Nat
  BY DistinctGoroutines, TimesNat, BoundsAssumption
     DEF IInv, FreeUnused, TypeOK, Times
<1>2. CASE pc[Timer] = "perform"
  <2>1. FreeAt = IF conn \in closed THEN now + CloseTime ELSE now + Hold
    BY <1>2 DEF FreeAt
  <2>. QED BY <1>1, <1>2, <2>1, TimesNat DEF Running
<1>3. CASE pc[Timer] = "ping"
  <2>1. FreeAt = IF conn \in closed THEN now + CloseTime
                                    ELSE deadline[Timer] + CloseTime
    BY <1>3 DEF FreeAt
  <2>2. now <= deadline[Timer] /\ deadline[Timer] <= now + Timeout
    BY <1>3 DEF CallbackInv, Pinging
  <2>3. CASE conn \in closed
    BY <1>1, <2>1, <2>3, TimesNat
  <2>4. CASE conn \notin closed
    <3>1. /\ FreeAt \in Int /\ now <= FreeAt
          /\ FreeAt <= now + Hold
      BY <1>1, <2>1, <2>2, <2>4, TimesNat
    <3>. QED BY <1>1, <1>3, <2>4, <3>1 DEF Running
  <2>. QED BY <2>3, <2>4
<1>4. CASE pc[Timer] = "handshake"
  <2>1. FreeAt = deadline[Timer]
    BY <1>4 DEF FreeAt
  <2>. QED BY <1>1, <1>4, <2>1 DEF CallbackInv, Failing
<1>5. CASE pc[Timer] \notin {"perform", "ping", "handshake"}
  <2>1. FreeAt = now
    BY <1>5 DEF FreeAt
  <2>. QED BY <1>1, <2>1, TimesNat
<1>. QED BY <1>2, <1>3, <1>4, <1>5

(* Whatever is ahead of a callback that has just been scheduled, it begins  *)
(* in time.                                                                 *)
JustStartedInTime ==
    \A x \in armed :
        /\ fn[x] \in Conns /\ ~Running(fn[x])
        /\ expire[x] >= now + Interval
        => InTime(x)

LEMMA StartedInTime == IInv /\ CallbackInv => JustStartedInTime
<1>. SUFFICES ASSUME IInv, CallbackInv, NEW x \in armed, fn[x] \in Conns,
                     ~Running(fn[x]), expire[x] >= now + Interval
              PROVE  InTime(x)
  BY DEF JustStartedInTime
<1>1. PICK n \in Int, f \in Int, e \in Int :
         /\ n = now /\ f = FreeAt /\ e = expire[x]
         /\ e >= n + Interval
  <2>1. expire[x] \in Int
    BY TimesNat, BoundsAssumption DEF IInv, FreeUnused, TypeOK, Times
  <2>. QED BY <2>1, FreeAtBounds
<1>2. Ahead(x) \in SUBSET (Conns \ {fn[x]})
  BY DEF Ahead
<1>3. PICK q \in Nat, L \in Nat :
         /\ q = Hold * Cardinality(Ahead(x)) /\ L = LatestCheck
         /\ q + CloseTime <= L
  BY <1>2, QueueBound
<1>4. CASE f <= n + CloseTime
  <2>1. f + q <= e - Interval + L
    BY <1>1, <1>3, <1>4, TimesNat
  <2>. QED BY <1>1, <1>3, <2>1 DEF InTime
<1>5. CASE Running(conn) /\ conn \notin closed /\ f <= n + Hold
  <2>1. conn \in Conns /\ conn # fn[x]
    BY <1>5 DEF Running, IInv, LabelsOK
  <2>2. conn \notin Ahead(x)
    BY <1>5 DEF Ahead, Leaving
  <2>3. q + Hold <= L
    BY <1>2, <1>3, <2>1, <2>2, OneMore
  <2>4. f + q <= e - Interval + L
    BY <1>1, <1>3, <1>5, <2>3, TimesNat
  <2>. QED BY <1>1, <1>3, <2>4 DEF InTime
<1>. QED BY <1>1, <1>4, <1>5, FreeAtBounds

Kept(x) ==
    x \in armed /\ x \in armed' /\ fn'[x] = fn[x] /\ expire'[x] = expire[x]

Started(x) == expire'[x] >= now' + Interval

(* A step that only schedules callbacks an interval from now, that lets no  *)
(* connection with a callback in the heap stay that was leaving it, and     *)
(* ends no callback whose connection has another in the heap.               *)
QueueKept ==
    \A x \in armed' :
        \/ Started(x)
        \/ /\ Kept(x)
           /\ Leaving(fn[x]) => Leaving(fn[x])'
           /\ fn[x] \in open' /\ ~Running(fn[x])' =>
                 fn[x] \in open /\ ~Running(fn[x])

LEMMA QueueStep ==
    ASSUME IInv, IInv', CallbackInv, CallbackInv', SlotsInv', QueueInv,
           QueueKept, FreeAt' <= FreeAt
    PROVE  QueueInv'
<1>. SUFFICES ASSUME NEW x \in armed', fn'[x] \in open', ~Running(fn[x])'
              PROVE  InTime(x)'
  BY DEF QueueInv
<1>1. fn'[x] \in Conns
  BY DEF SlotsInv
<1>2. CASE Started(x)
  <2>1. JustStartedInTime'
    BY StartedInTime, PTL
  <2>. QED BY <1>1, <1>2, <2>1 DEF Started, JustStartedInTime
<1>3. CASE ~Started(x)
  <2>1. /\ Kept(x) /\ fn[x] \in open /\ ~Running(fn[x])
        /\ fn[x] \in Conns
    BY <1>1, <1>3 DEF QueueKept, Kept
  <2>2. expire'[x] \in Int /\ now' \in Int /\ expire[x] = expire'[x]
    BY <2>1, TimesNat, BoundsAssumption
       DEF IInv, FreeUnused, TypeOK, Times, Kept
  <2>3. Ahead(x)' \subseteq Ahead(x)
    <3>. SUFFICES ASSUME NEW c \in Ahead(x)'
                  PROVE  c \in Ahead(x)
      OBVIOUS
    <3>1. PICK y \in armed' : /\ fn'[y] = c /\ expire'[y] <= expire'[x]
                              /\ c \in Conns \ {fn'[x]} /\ ~Leaving(c)'
      BY DEF Ahead
    <3>2. ~Started(y)
      <4>1. expire'[y] \in Int
        BY TimesNat, BoundsAssumption DEF IInv, FreeUnused, TypeOK, Times
      <4>. QED BY <1>3, <2>2, <3>1, <4>1, TimesNat DEF Started
    <3>3. Kept(y) /\ ~Leaving(fn[y])
      <4>1. Kept(y) /\ (Leaving(fn[y]) => Leaving(fn[y])')
        BY <3>2 DEF QueueKept
      <4>2. Leaving(fn[y])' <=> Leaving(c)'
        BY <3>1 DEF Leaving, Running
      <4>. QED BY <3>1, <4>1, <4>2
    <3>. QED BY <2>1, <3>1, <3>3 DEF Ahead, Kept
  <2>4. Ahead(x) \in SUBSET (Conns \ {fn[x]})
    BY DEF Ahead
  <2>5. Hold * Cardinality(Ahead(x)') <= Hold * Cardinality(Ahead(x))
    BY <2>1, <2>3, <2>4, FewerAhead
  <2>6. PICK q \in Nat, L \in Nat :
           q = Hold * Cardinality(Ahead(x)) /\ L = LatestCheck
    BY <2>1, <2>4, QueueBound
  <2>7. PICK r \in Nat : r = Hold * Cardinality(Ahead(x)') /\ r <= q
    <3>1. Ahead(x)' \in SUBSET (Conns \ {fn[x]})
      BY <2>3, <2>4
    <3>. QED BY <2>1, <2>5, <2>6, <3>1, QueueBound
  <2>8. FreeAt + q <= expire[x] - Interval + L
    BY <2>1, <2>6 DEF QueueInv, InTime, Kept
  <2>9. FreeAt \in Int /\ FreeAt' \in Int
    <3>1. (FreeAt \in Int)'
      BY FreeAtBounds, PTL
    <3>. QED BY <3>1, FreeAtBounds
  <2>10. FreeAt' + r <= expire'[x] - Interval + L
    BY <2>2, <2>7, <2>8, <2>9, TimesNat
  <2>. QED BY <2>6, <2>7, <2>10 DEF InTime
<1>. QED BY <1>2, <1>3

-----------------------------------------------------------------------------
(* Steps that leave the timer and heartbeatTimerData alone. *)

DetectInv == SlotsInv /\ ClocksInv /\ CallbackInv /\ QueueInv

Moves(p, from, to) ==
    /\ pc[p] = from /\ pc'[p] = to
    /\ \A q \in Procs : q # p => pc[q] \in Waits /\ pc'[q] = pc[q]

LEMMA GotoMoves ==
    ASSUME IInv, ~Preempt, NEW p \in Procs, NEW from, NEW to \in Labels,
           Goto(p, from, to)
    PROVE  Moves(p, from, to)
BY GotoAlone DEF Moves

(* A goroutine goes on, and knows why if it leaves its connection's         *)
(* heartbeat or its callback.                                               *)
Quiet(p, from, to) ==
    /\ Moves(p, from, to)
    /\ from \notin {"del", "assign"} /\ to \notin {"nil", "assign"}
    /\ to = "add" => p \in Conns /\ timerData[p] = None
    /\ from = "stop" => to = "del" \/ timerData[ConnOf(p)] = None
    /\ p = Timer /\ to = "wait" =>
          timerData[conn] = None \/ (conn \in closed /\ conn \notin open')
    /\ \A q \in Procs : q # p => reg'[q] = reg[q]
    /\ open' \subseteq open /\ closed \subseteq closed'
    /\ \A c \in closed' \ closed : c = ConnOf(p) /\ to = "stop"
    /\ UNCHANGED <<now, conn, timerData, heard, lastPong, timerVars>>

LEMMA QuietSlots ==
    ASSUME SlotsInv, NEW p \in Procs, NEW from, NEW to, Quiet(p, from, to)
    PROVE  /\ SlotsInv'
           /\ \A x \in armed : /\ fn[x] \in Conns /\ timerData[fn[x]] = x
                               /\ pc[fn[x]] # "assign"
<1>. USE DEF Quiet, Moves, timerVars
<1>1. \A q \in Procs : pc[q] # "assign" /\ pc'[q] # "assign"
                       /\ pc'[q] # "nil" /\ (pc'[q] = "add" => q = p)
  BY DEF Waits
<1>2. \A x \in armed : /\ fn[x] \in Conns /\ timerData[fn[x]] = x
                       /\ pc[fn[x]] # "assign"
  BY <1>1, DistinctGoroutines DEF SlotsInv
<1>3. SlotsInv'
  BY <1>1, <1>2, DistinctGoroutines DEF SlotsInv
<1>. QED BY <1>2, <1>3

LEMMA QuietClocks ==
    ASSUME SlotsInv, ClocksInv, NEW p \in Procs, NEW from, NEW to,
           Quiet(p, from, to)
    PROVE  ClocksInv'
<1>1. \A x \in armed : fn[x] \in Conns /\ pc[fn[x]] # "assign"
  BY QuietSlots
<1>. QED BY <1>1 DEF ClocksInv, Quiet, timerVars, Seconds

LEMMA QuietQueue ==
    ASSUME IInv, SlotsInv, NEW p \in Procs, NEW from, NEW to,
           Quiet(p, from, to)
    PROVE  QueueKept
<1>. USE DEF Quiet, Moves, timerVars
<1>. SUFFICES ASSUME NEW x \in armed
              PROVE  /\ Leaving(fn[x]) => Leaving(fn[x])'
                     /\ fn[x] \in open' /\ ~Running(fn[x])' =>
                           fn[x] \in open /\ ~Running(fn[x])
  BY DEF QueueKept, Kept
<1>1. fn[x] \in Conns /\ timerData[fn[x]] = x /\ x # None
  <2>1. x \in Data /\ None \notin Data
    BY ConnsAssumption DEF IInv, FreeUnused, TypeOK
  <2>. QED BY <2>1, QuietSlots
<1>2. \A q \in Procs : ConnOf(q)' = ConnOf(q)
  BY DEF ConnOf
<1>3. Timer \in Procs
  BY DistinctGoroutines
<1>4. ASSUME Running(fn[x]), ~Running(fn[x])'
      PROVE  fn[x] \in closed /\ fn[x] \notin open'
  <2>1. p = Timer /\ to = "wait" /\ conn = fn[x]
    BY <1>3, <1>4 DEF Running
  <2>. QED BY <1>1, <2>1
<1>5. ASSUME Leaving(fn[x]) PROVE Leaving(fn[x])'
  <2>1. CASE Running(fn[x]) /\ fn[x] \notin closed
    <3>1. Running(fn[x])'
      BY <1>4, <2>1
    <3>2. CASE fn[x] \in closed'
      <4>1. fn[x] = ConnOf(p) /\ pc'[p] = "stop"
        BY <2>1, <3>2
      <4>2. ConnOf(p)' = fn[x]'
        BY <1>2, <4>1
      <4>. QED BY <4>1, <4>2 DEF Leaving
    <3>3. CASE fn[x] \notin closed'
      BY <3>1, <3>3 DEF Leaving
    <3>. QED BY <3>2, <3>3
  <2>2. CASE \E q \in Procs : ConnOf(q) = fn[x] /\ pc[q] \in {"stop", "del"}
    <3>1. ConnOf(p) = fn[x] /\ pc[p] \in {"stop", "del"}
      BY <2>2 DEF Waits
    <3>2. pc'[p] = "del"
      BY <1>1, <3>1
    <3>3. ConnOf(p)' = fn[x]'
      BY <1>2, <3>1
    <3>. QED BY <3>2, <3>3 DEF Leaving
  <2>. QED BY <1>5, <2>1, <2>2 DEF Leaving
<1>. QED BY <1>4, <1>5

LEMMA QuietStep ==
    ASSUME IInv, IInv', DetectInv, NEW p \in Procs, NEW from, NEW to,
           Quiet(p, from, to), CallbackInv', FreeAt' <= FreeAt
    PROVE  DetectInv'
<1>1. SlotsInv' /\ ClocksInv' /\ QueueKept
  BY QuietSlots, QuietClocks, QuietQueue DEF DetectInv
<1>. QED BY <1>1, QueueStep DEF DetectInv

(* The callback goes on while others move: at most its connection is closed *)
(* or its peer is heard.                                                    *)
CallbackStays ==
    /\ UNCHANGED <<now, conn, failed>>
    /\ pc'[Timer] = pc[Timer] /\ deadline'[Timer] = deadline[Timer]
    /\ closed \subseteq closed'
    /\ \A c \in Conns :
          \/ heard'[c] = now
          \/ heard'[c] = heard[c] /\ (pong'[c] => pong[c])

LEMMA OtherSteps ==
    ASSUME IInv, IInv', ClocksInv, CallbackInv, CallbackStays
    PROVE  CallbackInv' /\ FreeAt' <= FreeAt
<1>1. /\ now \in Int /\ now' = now /\ deadline[Timer] \in Int
  BY DistinctGoroutines, TimesNat, BoundsAssumption
     DEF IInv, FreeUnused, TypeOK, Times, CallbackStays
<1>2. CASE pc[Timer] = "wait"
  <2>1. CallbackInv'
    BY <1>2 DEF CallbackInv, Performing, Pinging, Failing, Rescheduling,
                CallbackStays
  <2>2. FreeAt = now /\ FreeAt' = now
    BY <1>2 DEF FreeAt, CallbackStays
  <2>. QED BY <1>1, <2>1, <2>2
<1>3. CASE pc[Timer] # "wait"
  <2>1. conn \in Conns
    BY <1>3 DEF IInv, LabelsOK
  <2>2. PICK h \in Int, k \in Int :
           /\ h = heard[conn] /\ k = heard'[conn] /\ h <= now
           /\ k = now \/ (k = h /\ (pong'[conn] => pong[conn]))
    BY <2>1 DEF ClocksInv, CallbackStays, IInv, FreeUnused, TypeOK
  <2>3. h <= k
    BY <1>1, <2>2
  <2>4. LatestCheck \in Int /\ OldestFresh \in Int
    BY <2>1, LatestNat, TimesNat
  <2>5. Performing'
    <3>. SUFFICES ASSUME pc[Timer] = "perform", conn \notin closed
                  PROVE  now <= k + LatestCheck
      BY <2>2 DEF Performing, CallbackStays
    <3>1. now <= h + LatestCheck
      BY <2>2 DEF CallbackInv, Performing
    <3>. QED BY <1>1, <2>2, <2>3, <2>4, <3>1
  <2>6. Pinging'
    <3>. SUFFICES ASSUME pc[Timer] = "ping"
                  PROVE  Pinging'
      BY DEF Pinging, CallbackStays
    <3>1. now <= deadline[Timer] /\ deadline[Timer] <= now + Timeout
      BY DEF CallbackInv, Pinging
    <3>2. pong'[conn] => k = now
      BY <2>2 DEF CallbackInv, Pinging
    <3>3. ASSUME conn \notin closed
          PROVE  /\ deadline[Timer] <= k + LatestCheck + Timeout
                 /\ Timeout = 0
                    \/ deadline[Timer] <= k + OldestFresh + Timeout
      <4>1. /\ deadline[Timer] <= h + LatestCheck + Timeout
            /\ Timeout = 0
               \/ deadline[Timer] <= h + OldestFresh + Timeout
        BY <2>2, <3>3 DEF CallbackInv, Pinging
      <4>. QED BY <1>1, <2>2, <2>3, <2>4, <4>1, TimesNat
    <3>. QED BY <2>2, <3>1, <3>2, <3>3 DEF Pinging, CallbackStays
  <2>7. Failing'
    BY DEF CallbackInv, Failing, CallbackStays
  <2>8. Rescheduling'
    BY <2>2 DEF CallbackInv, Rescheduling, CallbackStays
  <2>9. FreeAt' <= FreeAt
    <3>1. CASE pc[Timer] = "perform"
      <4>1. /\ FreeAt = IF conn \in closed THEN now + CloseTime ELSE now + Hold
            /\ FreeAt' = IF conn \in closed' THEN now + CloseTime
                                             ELSE now + Hold
        BY <3>1 DEF FreeAt, CallbackStays
      <4>2. conn \in closed => conn \in closed'
        BY DEF CallbackStays
      <4>. QED BY <1>1, <4>1, <4>2, TimesNat
    <3>2. CASE pc[Timer] = "ping"
      <4>1. /\ FreeAt = IF conn \in closed THEN now + CloseTime
                                           ELSE deadline[Timer] + CloseTime
            /\ FreeAt' = IF conn \in closed' THEN now + CloseTime
                                             ELSE deadline[Timer] + CloseTime
        BY <3>2 DEF FreeAt, CallbackStays
      <4>2. conn \in closed => conn \in closed'
        BY DEF CallbackStays
      <4>3. now <= deadline[Timer]
        BY <3>2 DEF CallbackInv, Pinging
      <4>. QED BY <1>1, <4>1, <4>2, <4>3, TimesNat
    <3>3. CASE pc[Timer] = "handshake"
      <4>1. FreeAt = deadline[Timer] /\ FreeAt' = deadline[Timer]
        BY <3>3 DEF FreeAt, CallbackStays
      <4>. QED BY <1>1, <4>1
    <3>4. CASE pc[Timer] \notin {"perform", "ping", "handshake"}
      <4>1. FreeAt = now /\ FreeAt' = now
        BY <3>4 DEF FreeAt, CallbackStays
      <4>. QED BY <1>1, <4>1
    <3>. QED BY <3>1, <3>2, <3>3, <3>4
  <2>. QED BY <2>5, <2>6, <2>7, <2>8, <2>9 DEF CallbackInv
<1>. QED BY <1>2, <1>3

-----------------------------------------------------------------------------
(* The goroutines' quiet steps. *)

LEMMA BeginDetect ==
    ASSUME IInv, IInv', ~Preempt, DetectInv, NEW c \in Conns, NEW kind,
           NEW label \in {"stop", "handshake"}, Begin(c, kind, label),
           \/ UNCHANGED deadline
           \/ deadline' = [deadline EXCEPT ![c] = now + CloseTime]
    PROVE  DetectInv'
<1>. USE DEF Begin
<1>1. c \in Procs /\ c # Timer /\ label \in Labels
  BY DistinctGoroutines DEF Labels
<1>2. Moves(c, "idle", label)
  BY <1>1, GotoMoves
<1>3. Quiet(c, "idle", label)
  BY <1>1, <1>2 DEF Quiet, connVars, peerVars
<1>4. CallbackStays
  <2>1. deadline'[Timer] = deadline[Timer] /\ pc'[Timer] = pc[Timer]
    BY <1>1, <1>2, DistinctGoroutines
       DEF Moves, IInv, FreeUnused, TypeOK
  <2>. QED BY <2>1 DEF CallbackStays, connVars, peerVars
<1>5. CallbackInv' /\ FreeAt' <= FreeAt
  BY <1>4, OtherSteps DEF DetectInv
<1>. QED BY <1>1, <1>3, <1>5, QuietStep

(* A step of the callback after which the timer's goroutine is free at once.*)
LEMMA FreeNow ==
    ASSUME IInv, IInv', CallbackInv, UNCHANGED now,
           pc'[Timer] \notin {"perform", "ping", "handshake"}
    PROVE  FreeAt' <= FreeAt
<1>1. FreeAt' = now'
  BY DEF FreeAt
<1>2. now \in Int /\ FreeAt \in Int /\ now <= FreeAt
  BY FreeAtBounds
<1>. QED BY <1>1, <1>2

LEMMA StopReadDetect ==
    ASSUME IInv, IInv', ~Preempt, DetectInv, NEW p \in Procs, StopRead(p)
    PROVE  DetectInv'
<1>. USE DEF StopRead
<1>1. PICK to \in {"del", "add", "wait", "idle"} :
         /\ Goto(p, "stop", to)
         /\ to = "del" \/ timerData[ConnOf(p)] = None
         /\ to = "wait" => p = Timer
         /\ to \in {"idle", "add"} => p \in Conns
         /\ to = "del" => timerData[ConnOf(p)] # None
  <2>1. reg'[p] = timerData[ConnOf(p)]
    BY DEF IInv, FreeUnused, TypeOK
  <2>2. Stopped(p) = IF p = Timer THEN "wait"
                     ELSE IF call[p] = "restart" THEN "add" ELSE "idle"
    BY DEF Stopped, Rest, IInv, LabelsOK
  <2>3. CASE timerData[ConnOf(p)] = None
    BY <2>1, <2>2, <2>3 DEF Procs
  <2>4. CASE timerData[ConnOf(p)] # None
    BY <2>1, <2>4
  <2>. QED BY <2>3, <2>4
<1>2. Moves(p, "stop", to) /\ to \in Labels
  BY <1>1, GotoMoves DEF Labels
<1>3. Quiet(p, "stop", to)
  <2>1. /\ to = "add" => p \in Conns /\ timerData[p] = None
        /\ p = Timer => ConnOf(p) = conn
    BY <1>1, DistinctGoroutines DEF ConnOf
  <2>2. \A q \in Procs : q # p => reg'[q] = reg[q]
    BY DEF IInv, FreeUnused, TypeOK
  <2>. QED BY <1>1, <1>2, <2>1, <2>2 DEF Quiet, connVars, peerVars
<1>4. CASE p # Timer
  <2>1. CallbackStays
    BY <1>2, <1>4, DistinctGoroutines
       DEF CallbackStays, Moves, connVars, peerVars
  <2>2. CallbackInv' /\ FreeAt' <= FreeAt
    BY <2>1, OtherSteps DEF DetectInv
  <2>. QED BY <1>3, <2>2, QuietStep
<1>5. CASE p = Timer
  <2>1. pc[Timer] = "stop" /\ pc'[Timer] \in {"del", "wait"}
    BY <1>1, <1>2, <1>5, DistinctGoroutines DEF Moves
  <2>2. CallbackInv'
    BY <2>1 DEF DetectInv, CallbackInv, Performing, Pinging, Failing,
                Rescheduling, connVars
  <2>3. FreeAt' <= FreeAt
    BY <2>1, FreeNow DEF DetectInv
  <2>. QED BY <1>3, <2>2, <2>3, QuietStep
<1>. QED BY <1>4, <1>5

LEMMA HandshakeEndsDetect ==
    ASSUME IInv, IInv', ~Preempt, DetectInv, NEW p \in Procs,
           HandshakeEnds(p)
    PROVE  DetectInv'
<1>. USE DEF HandshakeEnds
<1>1. Moves(p, "handshake", "close")
  BY GotoMoves DEF Labels
<1>2. Quiet(p, "handshake", "close")
  BY <1>1 DEF Quiet, connVars, peerVars
<1>3. CASE p # Timer
  <2>1. CallbackStays
    BY <1>1, <1>3, DistinctGoroutines
       DEF CallbackStays, Moves, connVars, peerVars
  <2>2. CallbackInv' /\ FreeAt' <= FreeAt
    BY <2>1, OtherSteps DEF DetectInv
  <2>. QED BY <1>2, <2>2, QuietStep
<1>4. CASE p = Timer
  <2>1. pc[Timer] = "handshake" /\ pc'[Timer] = "close"
    BY <1>1, <1>4 DEF Moves
  <2>2. CallbackInv'
    BY <2>1 DEF DetectInv, CallbackInv, Performing, Pinging, Failing,
                Rescheduling, connVars
  <2>3. FreeAt' <= FreeAt
    BY <2>1, FreeNow DEF DetectInv
  <2>. QED BY <1>2, <2>2, <2>3, QuietStep
<1>. QED BY <1>3, <1>4

LEMMA CloseOnceDetect ==
    ASSUME IInv, IInv', ~Preempt, DetectInv, NEW p \in Procs, CloseOnce(p)
    PROVE  DetectInv'
<1>. USE DEF CloseOnce
<1>1. PICK to \in {"stop", "wait", "idle"} :
         /\ Goto(p, "close", to)
         /\ to = "wait" => p = Timer
         /\ to = "idle" => p \in Conns
         /\ to # "stop" => ConnOf(p) \in closed
  BY Zenon DEF Rest, Procs
<1>2. Moves(p, "close", to) /\ to \in Labels
  BY <1>1, GotoMoves DEF Labels
<1>3. ConnOf(p) \in Conns
  BY <1>2 DEF Moves, ConnOf, Procs, IInv, LabelsOK
<1>4. Quiet(p, "close", to)
  <2>1. p = Timer => ConnOf(p) = conn
    BY DEF ConnOf
  <2>2. /\ closed' = closed \cup {ConnOf(p)} /\ open' = open \ {ConnOf(p)}
    OBVIOUS
  <2>. QED BY <1>1, <1>2, <2>1, <2>2 DEF Quiet, peerVars
<1>5. CASE p # Timer
  <2>1. CallbackStays
    BY <1>2, <1>5, DistinctGoroutines DEF CallbackStays, Moves, peerVars
  <2>2. CallbackInv' /\ FreeAt' <= FreeAt
    BY <2>1, OtherSteps DEF DetectInv
  <2>. QED BY <1>4, <2>2, QuietStep
<1>6. CASE p = Timer
  <2>1. pc[Timer] = "close" /\ pc'[Timer] \in {"stop", "wait"}
    BY <1>1, <1>2, <1>6, DistinctGoroutines DEF Moves
  <2>2. conn' \in closed'
    BY <1>6 DEF ConnOf
  <2>3. CallbackInv'
    BY <2>1, <2>2 DEF CallbackInv, Performing, Pinging, Failing, Rescheduling
  <2>4. FreeAt' <= FreeAt
    BY <2>1, FreeNow DEF DetectInv
  <2>. QED BY <1>4, <2>3, <2>4, QuietStep
<1>. QED BY <1>5, <1>6

LEMMA HeartbeatFailsDetect ==
    ASSUME IInv, IInv', ~Preempt, DetectInv, NEW from \in {"perform", "ping"},
           HeartbeatFails(from)
    PROVE  DetectInv'
<1>. USE DEF HeartbeatFails
<1>1. Timer \in Procs /\ Moves(Timer, from, "handshake")
  BY DistinctGoroutines, GotoMoves DEF Labels
<1>2. Quiet(Timer, from, "handshake")
  BY <1>1 DEF Quiet, peerVars
<1>3. /\ now \in Int /\ deadline[Timer] \in Int
      /\ pc[Timer] = from /\ pc'[Timer] = "handshake"
      /\ deadline'[Timer] = now + CloseTime
  BY <1>1, TimesNat, BoundsAssumption
     DEF Moves, IInv, FreeUnused, TypeOK, Times
<1>4. CallbackInv'
  <2>1. now' <= deadline'[Timer] /\ deadline'[Timer] <= now' + CloseTime
    BY <1>3, TimesNat
  <2>. QED BY <1>3, <2>1 DEF CallbackInv, Performing, Pinging, Failing,
                             Rescheduling
<1>5. FreeAt' <= FreeAt
  <2>1. FreeAt' = now + CloseTime
    BY <1>3 DEF FreeAt
  <2>2. CASE from = "perform"
    <3>1. FreeAt = IF conn \in closed THEN now + CloseTime ELSE now + Hold
      BY <1>3, <2>2 DEF FreeAt
    <3>. QED BY <1>3, <2>1, <3>1, TimesNat
  <2>3. CASE from = "ping"
    <3>1. FreeAt = IF conn \in closed THEN now + CloseTime
                                      ELSE deadline[Timer] + CloseTime
      BY <1>3, <2>3 DEF FreeAt
    <3>2. now <= deadline[Timer]
      BY <1>3, <2>3 DEF DetectInv, CallbackInv, Pinging
    <3>. QED BY <1>3, <2>1, <3>1, <3>2, TimesNat
  <2>. QED BY <2>2, <2>3
<1>. QED BY <1>1, <1>2, <1>4, <1>5, QuietStep

LEMMA WholeSeconds ==
    ASSUME NEW t \in Nat, NEW s \in Nat \ {0}
    PROVE  s * (t \div s) <= t /\ t <= s * (t \div s) + s - 1
<1>1. s * (t \div s) <= t
  OBVIOUS
<1>2. t <= s * (t \div s) + s - 1
  OBVIOUS
<1>. QED BY <1>1, <1>2

(* The last pong is not older than a second more than the timeout: both are *)
(* compared in whole seconds.                                               *)
LEMMA FreshPong ==
    ASSUME NEW n \in Nat, NEW h \in Nat, h <= n,
           Seconds(n) - Seconds(h) <= Seconds(Timeout)
    PROVE  n <= h + OldestFresh
<1>1. PICK S \in Nat \ {0}, a \in Nat, b \in Nat, t \in Nat :
         /\ S = SecondTicks
         /\ a = Seconds(n) /\ b = Seconds(h) /\ t = Seconds(Timeout)
  BY TimesNat DEF Seconds
<1>2. S * b <= h
  BY <1>1, WholeSeconds DEF Seconds
<1>3. S * t <= Timeout
  BY <1>1, WholeSeconds, TimesNat DEF Seconds
<1>4. n <= S * a + S - 1
  BY <1>1, WholeSeconds DEF Seconds
<1>5. S * a <= S * b + S * t
  <2>1. a <= b + t
    BY <1>1
  <2>2. S * a <= S * (b + t)
    BY <1>1, <2>1, ProductGrows
  <2>3. S * (b + t) = S * b + S * t
    BY <1>1
  <2>. QED BY <2>2, <2>3
<1>6. S * a \in Nat /\ S * b \in Nat /\ S * t \in Nat
  BY <1>1
<1>7. n <= h + (Timeout + S - 1)
  BY <1>1, <1>2, <1>3, <1>4, <1>5, <1>6, TimesNat
<1>. QED BY <1>1, <1>7 DEF OldestFresh

LEMMA PerformPingDetect ==
    ASSUME IInv, IInv', ~Preempt, DetectInv, PerformPing
    PROVE  DetectInv'
<1>. USE DEF PerformPing
<1>1. Timer \in Procs /\ Moves(Timer, "perform", "ping")
  BY DistinctGoroutines, GotoMoves DEF Labels
<1>2. Quiet(Timer, "perform", "ping")
  BY <1>1 DEF Quiet, connVars
<1>3. /\ pc[Timer] = "perform" /\ pc'[Timer] = "ping"
      /\ conn \in Conns /\ conn \notin closed
      /\ deadline'[Timer] = now + Timeout
      /\ pong'[conn] = FALSE
  BY <1>1 DEF Moves, IInv, LabelsOK, FreeUnused, TypeOK
<1>4. PICK n \in Nat, h \in Nat, l \in Int, L \in Nat :
         /\ n = now /\ h = heard[conn] /\ l = lastPong[conn]
         /\ L = LatestCheck
         /\ h <= n /\ l <= Seconds(h)
  <2>1. now \in Nat /\ heard[conn] \in Nat
    BY <1>3, BoundsAssumption DEF IInv, FreeUnused, TypeOK
  <2>2. lastPong[conn] \in Int
    BY <1>3, BoundsAssumption, TimesNat
       DEF IInv, FreeUnused, TypeOK, Epoch
  <2>3. LatestCheck \in Nat
    BY <1>3, LatestNat
  <2>. QED BY <1>3, <2>1, <2>2, <2>3 DEF DetectInv, ClocksInv
<1>5. n <= h + L
  BY <1>3, <1>4 DEF DetectInv, CallbackInv, Performing
<1>6. Timeout = 0 \/ n <= h + OldestFresh
  <2>. SUFFICES ASSUME Timeout > 0
                PROVE  n <= h + OldestFresh
    BY TimesNat
  <2>1. ~(Seconds(n) - l > Seconds(Timeout))
    BY <1>4 DEF PongTooOld
  <2>2. Seconds(n) \in Int /\ Seconds(h) \in Int /\ Seconds(Timeout) \in Int
    BY <1>4, TimesNat DEF Seconds
  <2>3. Seconds(n) - Seconds(h) <= Seconds(Timeout)
    BY <1>4, <2>1, <2>2
  <2>. QED BY <1>4, <2>3, FreshPong
<1>7. CallbackInv'
  <2>1. /\ n <= n + Timeout
        /\ n + Timeout <= h + L + Timeout
        /\ Timeout = 0 \/ n + Timeout <= h + OldestFresh + Timeout
    BY <1>4, <1>5, <1>6, TimesNat
  <2>2. /\ deadline'[Timer] = n + Timeout /\ now' = n
        /\ heard'[conn'] = h /\ pong'[conn'] = FALSE
    BY <1>3, <1>4
  <2>3. Pinging'
    <3>1. now' <= deadline'[Timer] /\ deadline'[Timer] <= now' + Timeout
      BY <1>4, <2>1, <2>2, TimesNat
    <3>2. /\ deadline'[Timer] <= heard'[conn'] + LatestCheck + Timeout
          /\ Timeout = 0
             \/ deadline'[Timer] <= heard'[conn'] + OldestFresh + Timeout
      BY <1>4, <2>1, <2>2
    <3>3. ~pong'[conn']
      BY <2>2
    <3>. QED BY <3>1, <3>2, <3>3, Zenon DEF Pinging
  <2>. QED BY <1>3, <2>3 DEF CallbackInv, Performing, Failing, Rescheduling
<1>8. FreeAt' <= FreeAt
  <2>1. FreeAt = now + Hold
    BY <1>3 DEF FreeAt
  <2>2. FreeAt' = deadline'[Timer] + CloseTime
    BY <1>3 DEF FreeAt, connVars
  <2>. QED BY <1>3, <1>4, <2>1, <2>2, TimesNat
<1>. QED BY <1>1, <1>2, <1>7, <1>8, QuietStep

LEMMA PingAnsweredDetect ==
    ASSUME IInv, IInv', ~Preempt, DetectInv, PingAnswered
    PROVE  DetectInv'
<1>. USE DEF PingAnswered
<1>1. Timer \in Procs /\ Moves(Timer, "ping", "reschedule")
  BY DistinctGoroutines, GotoMoves DEF Labels
<1>2. Quiet(Timer, "ping", "reschedule")
  BY <1>1 DEF Quiet, connVars, peerVars
<1>3. pc[Timer] = "ping" /\ pc'[Timer] = "reschedule"
  BY <1>1 DEF Moves
<1>4. heard[conn] = now
  BY <1>3 DEF DetectInv, CallbackInv, Pinging
<1>5. CallbackInv'
  BY <1>3, <1>4 DEF CallbackInv, Performing, Pinging, Failing, Rescheduling,
                    peerVars
<1>6. FreeAt' <= FreeAt
  BY <1>3, FreeNow DEF DetectInv
<1>. QED BY <1>1, <1>2, <1>5, <1>6, QuietStep

LEMMA RescheduleReadDetect ==
    ASSUME IInv, IInv', ~Preempt, DetectInv, RescheduleRead
    PROVE  DetectInv'
<1>. USE DEF RescheduleRead
<1>1. Timer \in Procs /\ reg'[Timer] = timerData[conn]
  BY DistinctGoroutines DEF IInv, FreeUnused, TypeOK
<1>2. PICK to \in {"set", "wait"} :
         /\ Goto(Timer, "reschedule", to)
         /\ to = "wait" => timerData[conn] = None
  BY <1>1
<1>3. Moves(Timer, "reschedule", to) /\ to \in Labels
  BY <1>1, <1>2, GotoMoves DEF Labels
<1>4. Quiet(Timer, "reschedule", to)
  <2>1. \A q \in Procs : q # Timer => reg'[q] = reg[q]
    BY DEF IInv, FreeUnused, TypeOK
  <2>. QED BY <1>2, <1>3, <2>1 DEF Quiet, connVars, peerVars
<1>5. pc[Timer] = "reschedule" /\ pc'[Timer] \in {"set", "wait"}
  BY <1>3 DEF Moves
<1>6. CallbackInv'
  BY <1>5 DEF DetectInv, CallbackInv, Performing, Pinging, Failing,
              Rescheduling, peerVars
<1>7. FreeAt' <= FreeAt
  BY <1>5, FreeNow DEF DetectInv
<1>. QED BY <1>1, <1>4, <1>6, <1>7, QuietStep

-----------------------------------------------------------------------------
(* The steps that change the timer or heartbeatTimerData. *)

LEMMA StopDelDetect ==
    ASSUME IInv, IInv', ~Preempt, DetectInv, NEW p \in Procs, StopDel(p)
    PROVE  DetectInv'
<1>. USE DEF StopDel, Del
<1>1. Moves(p, "del", "nil")
  BY GotoMoves DEF Labels
<1>2. ConnOf(p) \in Conns /\ ConnOf(p)' = ConnOf(p)
  BY <1>1 DEF Moves, ConnOf, Procs, IInv, LabelsOK
<1>3. reg[p] = timerData[ConnOf(p)]
  BY <1>1 DEF Moves, IInv, Handles, RegCurrent
<1>4. ASSUME NEW x \in armed'
      PROVE  /\ x \in armed /\ x # reg[p] /\ fn'[x] = fn[x]
             /\ fn[x] \in Conns /\ fn[x] # ConnOf(p) /\ timerData[fn[x]] = x
             /\ pc[fn[x]] # "assign" /\ pc'[fn[x]] # "assign"
  <2>1. x \in armed /\ x # reg[p] /\ x \in Data
    BY <1>4 DEF IInv, FreeUnused, TypeOK
  <2>2. fn[x] \in Conns /\ fn[x] \in Procs
    BY <2>1, DistinctGoroutines DEF DetectInv, SlotsInv
  <2>3. pc[fn[x]] # "assign" /\ pc'[fn[x]] # "assign"
    BY <1>1, <2>2 DEF Moves, Waits
  <2>4. timerData[fn[x]] = x
    BY <2>1, <2>3 DEF DetectInv, SlotsInv
  <2>5. fn[x] # ConnOf(p)
    BY <1>3, <2>1, <2>4
  <2>6. fn'[x] = fn[x]
    BY <2>1 DEF IInv, FreeUnused, TypeOK
  <2>. QED BY <2>1, <2>2, <2>3, <2>4, <2>5, <2>6
<1>5. SlotsInv'
  <2>1. \A c \in Conns : pc'[c] \notin {"add", "assign"}
    BY <1>1, DistinctGoroutines DEF Moves, Waits
  <2>2. ASSUME NEW q \in Procs, pc'[q] = "nil"
        PROVE  timerData[ConnOf(q)]' \notin armed'
    <3>1. q = p
      BY <1>1, <2>2 DEF Moves, Waits
    <3>. QED BY <1>2, <1>3, <3>1 DEF connVars
  <2>. QED BY <1>4, <2>1, <2>2 DEF SlotsInv, connVars
<1>6. ClocksInv'
  BY <1>4 DEF DetectInv, ClocksInv, peerVars, Seconds
<1>7. CallbackInv' /\ FreeAt' <= FreeAt
  <2>1. CASE p = Timer
    <3>1. pc[Timer] = "del" /\ pc'[Timer] = "nil"
      BY <1>1, <2>1 DEF Moves
    <3>2. CallbackInv'
      BY <3>1 DEF DetectInv, CallbackInv, Performing, Pinging, Failing,
                  Rescheduling, connVars
    <3>. QED BY <3>1, <3>2, FreeNow DEF DetectInv
  <2>2. CASE p # Timer
    <3>1. CallbackStays
      BY <1>1, <2>2, DistinctGoroutines
         DEF CallbackStays, Moves, connVars, peerVars
    <3>. QED BY <3>1, OtherSteps DEF DetectInv
  <2>. QED BY <2>1, <2>2
<1>8. QueueKept
  <2>. SUFFICES ASSUME NEW x \in armed'
                PROVE  /\ Kept(x)
                       /\ Leaving(fn[x]) => Leaving(fn[x])'
                       /\ fn[x] \in open' /\ ~Running(fn[x])' =>
                             fn[x] \in open /\ ~Running(fn[x])
    BY DEF QueueKept
  <2>1. Kept(x)
    BY <1>4 DEF Kept
  <2>2. Running(fn[x])' <=> Running(fn[x])
    <3>1. pc'[Timer] # "wait" <=> pc[Timer] # "wait"
      BY <1>1, DistinctGoroutines DEF Moves
    <3>. QED BY <1>4, <3>1 DEF Running
  <2>3. Leaving(fn[x]) => Leaving(fn[x])'
    <3>1. ~(\E q \in Procs : ConnOf(q) = fn[x] /\ pc[q] \in {"stop", "del"})
      BY <1>1, <1>4 DEF Moves, Waits
    <3>. QED BY <1>4, <2>2, <3>1 DEF Leaving, connVars
  <2>. QED BY <2>1, <2>2, <2>3 DEF connVars
<1>. QED BY <1>5, <1>6, <1>7, <1>8, QueueStep DEF DetectInv

LEMMA StopNilDetect ==
    ASSUME IInv, IInv', ~Preempt, DetectInv, NEW p \in Procs, StopNil(p)
    PROVE  DetectInv'
<1>. USE DEF StopNil
<1>1. PICK to \in {"add", "wait", "idle"} :
         /\ Goto(p, "nil", to)
         /\ to = "wait" => p = Timer
         /\ to \in {"idle", "add"} => p \in Conns
  <2>1. Stopped(p) = IF p = Timer THEN "wait"
                     ELSE IF call[p] = "restart" THEN "add" ELSE "idle"
    BY DEF Stopped, Rest, IInv, LabelsOK
  <2>. QED BY <2>1 DEF Procs
<1>2. Moves(p, "nil", to) /\ to \in Labels
  BY <1>1, GotoMoves DEF Labels
<1>3. ConnOf(p) \in Conns /\ ConnOf(p)' = ConnOf(p)
  BY <1>2 DEF Moves, ConnOf, Procs, IInv, LabelsOK
<1>4. /\ timerData'[ConnOf(p)] = None
      /\ \A c \in Conns : c # ConnOf(p) => timerData'[c] = timerData[c]
  BY <1>3 DEF IInv, FreeUnused, TypeOK
<1>5. ASSUME NEW x \in armed
      PROVE  /\ fn[x] \in Conns /\ fn[x] # ConnOf(p) /\ timerData'[fn[x]] = x
             /\ pc[fn[x]] # "assign" /\ pc'[fn[x]] # "assign"
  <2>1. fn[x] \in Conns /\ fn[x] \in Procs
    BY DistinctGoroutines DEF DetectInv, SlotsInv
  <2>2. pc[fn[x]] # "assign" /\ pc'[fn[x]] # "assign"
    BY <1>2, <2>1 DEF Moves, Waits
  <2>3. timerData[fn[x]] = x
    BY <2>2 DEF DetectInv, SlotsInv
  <2>4. timerData[ConnOf(p)] \notin armed
    BY <1>2 DEF Moves, DetectInv, SlotsInv
  <2>5. fn[x] # ConnOf(p)
    BY <2>3, <2>4
  <2>. QED BY <1>4, <2>1, <2>2, <2>3, <2>5
<1>6. SlotsInv'
  <2>1. ASSUME NEW c \in Conns, pc'[c] \in {"add", "assign"}
        PROVE  timerData'[c] = None
    <3>1. c = p /\ c # Timer
      BY <1>2, <2>1, DistinctGoroutines DEF Moves, Waits
    <3>. QED BY <1>4, <3>1 DEF ConnOf
  <2>2. \A q \in Procs : pc'[q] # "nil"
    BY <1>2 DEF Moves, Waits
  <2>. QED BY <1>5, <2>1, <2>2 DEF SlotsInv, timerVars
<1>7. ClocksInv'
  BY <1>5 DEF DetectInv, ClocksInv, peerVars, timerVars, Seconds
<1>8. CallbackInv' /\ FreeAt' <= FreeAt
  <2>1. CASE p = Timer
    <3>1. pc[Timer] = "nil" /\ pc'[Timer] = "wait"
      BY <1>1, <1>2, <2>1, DistinctGoroutines DEF Moves
    <3>2. CallbackInv'
      BY <3>1 DEF CallbackInv, Performing, Pinging, Failing, Rescheduling
    <3>. QED BY <3>1, <3>2, FreeNow DEF DetectInv
  <2>2. CASE p # Timer
    <3>1. CallbackStays
      BY <1>2, <2>2, DistinctGoroutines DEF CallbackStays, Moves, peerVars
    <3>. QED BY <3>1, OtherSteps DEF DetectInv
  <2>. QED BY <2>1, <2>2
<1>9. QueueKept
  <2>. SUFFICES ASSUME NEW x \in armed
                PROVE  /\ Leaving(fn[x]) => Leaving(fn[x])'
                       /\ fn[x] \in open' /\ ~Running(fn[x])' =>
                             fn[x] \in open /\ ~Running(fn[x])
    BY DEF QueueKept, Kept, timerVars
  <2>1. Running(fn[x])' <=> Running(fn[x])
    <3>1. CASE p = Timer
      <4>1. conn # fn[x]
        BY <1>5, <3>1 DEF ConnOf
      <4>. QED BY <4>1 DEF Running, timerVars
    <3>2. CASE p # Timer
      <4>1. pc'[Timer] = pc[Timer]
        BY <1>2, <3>2, DistinctGoroutines DEF Moves
      <4>. QED BY <4>1 DEF Running, timerVars
    <3>. QED BY <3>1, <3>2
  <2>2. ~(\E q \in Procs : ConnOf(q) = fn[x] /\ pc[q] \in {"stop", "del"})
    BY <1>2 DEF Moves, Waits
  <2>. QED BY <2>1, <2>2 DEF Leaving, timerVars
<1>. QED BY <1>6, <1>7, <1>8, <1>9, QueueStep DEF DetectInv

LEMMA SecondsGrow ==
    ASSUME NEW m \in Nat, NEW n \in Nat, m <= n
    PROVE  Seconds(m) <= Seconds(n)
<1>1. PICK s \in Nat \ {0}, a \in Nat, b \in Nat :
         s = SecondTicks /\ a = Seconds(m) /\ b = Seconds(n)
  BY TimesNat DEF Seconds
<1>2. s * a <= m /\ n <= s * b + s - 1
  BY <1>1, WholeSeconds DEF Seconds
<1>3. s * a \in Nat /\ s * b \in Nat /\ s * (b + 1) = s * b + s
  BY <1>1
<1>4. s * a < s * (b + 1)
  BY <1>1, <1>2, <1>3
<1>5. ASSUME b + 1 <= a PROVE FALSE
  <2>1. s * (b + 1) <= s * a
    BY <1>1, <1>5, ProductGrows
  <2>. QED BY <1>1, <1>3, <1>4, <2>1
<1>. QED BY <1>1, <1>5

(* Add schedules the head of the free list an interval from now. *)
LEMMA AddDetect ==
    ASSUME IInv, ~Preempt, DetectInv, NEW c \in Conns, Add(c),
           NEW from, NEW to, Moves(c, from, to), timerData[c] = None,
           from # "assign"
    PROVE  \E d \in Data :
              /\ d = Head(free) /\ d \notin armed /\ armed' = armed \cup {d}
              /\ fn'[d] = c /\ expire'[d] = now + Interval
              /\ \A e \in Conns : timerData[e] # d
              /\ \A x \in armed :
                    /\ fn'[x] = fn[x] /\ expire'[x] = expire[x]
                    /\ fn[x] \in Conns /\ fn[x] # c /\ timerData[fn[x]] = x
                    /\ pc[fn[x]] # "assign" /\ pc'[fn[x]] # "assign"
<1>1. \A q \in Procs : pc[q] # "nil" \/ q = c
  BY DEF Moves, Waits
<1>2. free \in Seq(Data) /\ Range(free) \cap armed = {} /\ IsInjective(free)
  BY DEF IInv, FreeUnused, TypeOK
<1>3. PICK d \in Data : d = Head(free) /\ d \in Range(free)
  BY <1>2, HeadTaken DEF Add
<1>4. /\ d \notin armed /\ armed' = armed \cup {d}
      /\ fn'[d] = c /\ expire'[d] = now + Interval
  BY <1>2, <1>3 DEF Add, IInv, FreeUnused, TypeOK
<1>5. ASSUME NEW x \in armed
      PROVE  /\ fn'[x] = fn[x] /\ expire'[x] = expire[x]
             /\ fn[x] \in Conns /\ fn[x] # c /\ timerData[fn[x]] = x
             /\ pc[fn[x]] # "assign" /\ pc'[fn[x]] # "assign"
  <2>1. fn[x] \in Conns /\ fn[x] \in Procs /\ x \in Data /\ x # None
    BY DistinctGoroutines, ConnsAssumption
       DEF DetectInv, SlotsInv, IInv, FreeUnused, TypeOK
  <2>2. pc[fn[x]] # "assign"
    BY <2>1 DEF Moves, Waits
  <2>3. timerData[fn[x]] = x /\ fn[x] # c
    BY <2>1, <2>2 DEF DetectInv, SlotsInv
  <2>4. pc'[fn[x]] # "assign"
    BY <2>1, <2>2, <2>3 DEF Moves
  <2>5. fn'[x] = fn[x] /\ expire'[x] = expire[x]
    BY <1>3, <1>4, <2>1 DEF Add, IInv, FreeUnused, TypeOK
  <2>. QED BY <2>1, <2>2, <2>3, <2>4, <2>5
<1>6. \A e \in Conns : timerData[e] # d
  <2>. SUFFICES ASSUME NEW e \in Conns, timerData[e] = d PROVE FALSE
    OBVIOUS
  <2>1. d # None /\ e # c
    BY ConnsAssumption
  <2>2. ~Dropping(e)
    BY <1>1, <2>1, DistinctGoroutines DEF Dropping, ConnOf
  <2>. QED BY <1>3, <2>1, <2>2 DEF IInv, Handles, HeldByOwner
<1>. QED BY <1>3, <1>4, <1>5, <1>6

(* What is scheduled now changes nothing for those scheduled before. *)
LEMMA AddQueue ==
    ASSUME IInv, NEW c \in Conns, c # Timer, NEW from, NEW to,
           Moves(c, from, to), from \notin {"stop", "del"},
           NEW d, armed' = armed \cup {d},
           expire'[d] = now + Interval, now' = now, now + Interval \in Int,
           \A x \in armed : /\ fn'[x] = fn[x] /\ expire'[x] = expire[x]
                            /\ fn[x] # c,
           UNCHANGED <<conn, closed>>, open' \subseteq open \cup {c}
    PROVE  QueueKept
<1>. SUFFICES ASSUME NEW x \in armed
              PROVE  /\ Leaving(fn[x]) => Leaving(fn[x])'
                     /\ fn[x] \in open' /\ ~Running(fn[x])' =>
                           fn[x] \in open /\ ~Running(fn[x])
  BY DEF QueueKept, Kept, Started
<1>1. Running(fn[x])' <=> Running(fn[x])
  <2>1. pc'[Timer] = pc[Timer]
    BY DistinctGoroutines DEF Moves
  <2>. QED BY <2>1 DEF Running
<1>2. ASSUME NEW q \in Procs, ConnOf(q) = fn[x], pc[q] \in {"stop", "del"}
      PROVE  FALSE
  BY <1>2 DEF Moves, Waits
<1>. QED BY <1>1, <1>2 DEF Leaving

LEMMA ConnectDetect ==
    ASSUME IInv, IInv', ~Preempt, DetectInv, NEW c \in Conns, Connect(c)
    PROVE  DetectInv'
<1>. USE DEF Connect
<1>1. c \in Procs /\ c # Timer /\ Moves(c, "idle", "idle")
  BY DistinctGoroutines, GotoMoves DEF Labels
<1>2. timerData[c] = None
  BY DEF IInv, Handles, Unmade
<1>3. now \in Nat /\ now + Interval \in Int
  BY TimesNat, BoundsAssumption DEF IInv, FreeUnused, TypeOK
<1>4. CallbackStays
  <2>1. \A e \in Conns : heard'[e] \in {now, heard[e]}
    BY DEF IInv, FreeUnused, TypeOK
  <2>. QED BY <1>1, <2>1, DistinctGoroutines DEF CallbackStays, Moves
<1>5. CallbackInv' /\ FreeAt' <= FreeAt
  BY <1>4, OtherSteps DEF DetectInv
<1>6. \A q \in Procs : pc'[q] = pc[q] /\ pc[q] \in Waits
  BY <1>1 DEF Moves, Waits
<1>7. \A e \in Conns : pc'[e] \notin {"add", "assign"}
  BY <1>6, DistinctGoroutines DEF Waits
<1>8. CASE c \in Plain
  <2>1. UNCHANGED <<timerData, lastPong, heard, timerVars>>
    BY <1>8
  <2>2. \A x \in armed : /\ fn[x] \in Conns /\ fn[x] # c
                         /\ timerData[fn[x]] = x /\ pc[fn[x]] # "assign"
    <3>. SUFFICES ASSUME NEW x \in armed
                  PROVE  /\ fn[x] \in Conns /\ fn[x] # c
                         /\ timerData[fn[x]] = x /\ pc[fn[x]] # "assign"
      OBVIOUS
    <3>1. fn[x] \in Conns /\ fn[x] \in Procs /\ x \in Data /\ x # None
      BY DistinctGoroutines, ConnsAssumption
         DEF DetectInv, SlotsInv, IInv, FreeUnused, TypeOK
    <3>2. pc[fn[x]] # "assign"
      BY <1>6, <3>1 DEF Waits
    <3>. QED BY <1>2, <3>1, <3>2 DEF DetectInv, SlotsInv
  <2>3. SlotsInv'
    <3>1. \A q \in Procs : pc'[q] # "nil"
      BY <1>6 DEF Waits
    <3>. QED BY <1>7, <2>1, <2>2, <3>1 DEF SlotsInv, timerVars
  <2>4. ClocksInv'
    BY <1>7, <2>1, <2>2 DEF DetectInv, ClocksInv, timerVars, Seconds
  <2>5. QueueKept
    <3>. SUFFICES ASSUME NEW x \in armed
                  PROVE  /\ Leaving(fn[x]) => Leaving(fn[x])'
                         /\ fn[x] \in open' /\ ~Running(fn[x])' =>
                               fn[x] \in open /\ ~Running(fn[x])
      BY <2>1 DEF QueueKept, Kept, timerVars
    <3>1. Running(fn[x])' <=> Running(fn[x])
      BY <1>6, <2>1, DistinctGoroutines DEF Running, timerVars
    <3>2. ASSUME NEW q \in Procs, ConnOf(q) = fn[x], pc[q] \in {"stop", "del"}
          PROVE  FALSE
      BY <1>6, <3>2 DEF Waits
    <3>. QED BY <2>1, <2>2, <3>1, <3>2 DEF Leaving, timerVars
  <2>. QED BY <1>5, <2>3, <2>4, <2>5, QueueStep DEF DetectInv
<1>9. CASE c \notin Plain
  <2>1. /\ Add(c) /\ timerData' = [timerData EXCEPT ![c] = Head(free)]
        /\ lastPong' = [lastPong EXCEPT ![c] = Seconds(now)]
        /\ heard' = [heard EXCEPT ![c] = now]
    BY <1>9
  <2>2. PICK d \in Data :
           /\ d = Head(free) /\ d \notin armed /\ armed' = armed \cup {d}
           /\ fn'[d] = c /\ expire'[d] = now + Interval
           /\ \A e \in Conns : timerData[e] # d
           /\ \A x \in armed :
                 /\ fn'[x] = fn[x] /\ expire'[x] = expire[x]
                 /\ fn[x] \in Conns /\ fn[x] # c /\ timerData[fn[x]] = x
                 /\ pc[fn[x]] # "assign" /\ pc'[fn[x]] # "assign"
    BY <1>1, <1>2, <2>1, AddDetect
  <2>3. /\ timerData'[c] = d /\ heard'[c] = now /\ lastPong'[c] = Seconds(now)
        /\ \A e \in Conns : e # c => /\ timerData'[e] = timerData[e]
                                     /\ heard'[e] = heard[e]
                                     /\ lastPong'[e] = lastPong[e]
    BY <2>1, <2>2 DEF IInv, FreeUnused, TypeOK
  <2>4. SlotsInv'
    <3>1. \A q \in Procs : pc'[q] # "nil"
      BY <1>6 DEF Waits
    <3>2. ASSUME NEW x \in armed'
          PROVE  fn'[x] \in Conns /\ timerData'[fn'[x]] = x
      BY <2>2, <2>3, <3>2
    <3>. QED BY <1>7, <3>1, <3>2 DEF SlotsInv
  <2>5. ClocksInv'
    <3>1. ASSUME NEW e \in Conns
          PROVE  heard'[e] <= now' /\ lastPong'[e] <= Seconds(heard'[e])
      <4>1. CASE e = c
        <5>1. Seconds(now) \in Int
          BY <1>3, TimesNat DEF Seconds
        <5>. QED BY <1>3, <2>3, <4>1, <5>1
      <4>2. CASE e # c
        BY <2>3, <4>2 DEF DetectInv, ClocksInv
      <4>. QED BY <4>1, <4>2
    <3>2. ASSUME NEW x \in armed'
          PROVE  expire'[x] <= now' + Interval
                 /\ expire'[x] <= heard'[fn'[x]] + Interval
      <4>1. CASE x = d
        BY <1>3, <2>2, <2>3, <4>1
      <4>2. CASE x # d
        BY <2>2, <2>3, <4>2 DEF DetectInv, ClocksInv
      <4>. QED BY <4>1, <4>2
    <3>. QED BY <3>1, <3>2 DEF ClocksInv
  <2>6. QueueKept
    <3>1. open' \subseteq open \cup {c} /\ UNCHANGED <<conn, closed, now>>
      OBVIOUS
    <3>. QED BY <1>1, <1>3, <2>2, <3>1, AddQueue
  <2>. QED BY <1>5, <2>4, <2>5, <2>6, QueueStep DEF DetectInv
<1>. QED BY <1>8, <1>9

LEMMA RestartAddDetect ==
    ASSUME IInv, IInv', ~Preempt, DetectInv, NEW c \in Conns, RestartAdd(c)
    PROVE  DetectInv'
<1>. USE DEF RestartAdd
<1>1. c \in Procs /\ c # Timer /\ Moves(c, "add", "assign")
  BY DistinctGoroutines, GotoMoves DEF Labels
<1>2. timerData[c] = None
  BY <1>1 DEF Moves, DetectInv, SlotsInv
<1>3. now \in Nat /\ now + Interval \in Int
  BY TimesNat, BoundsAssumption DEF IInv, FreeUnused, TypeOK
<1>4. PICK d \in Data :
         /\ d = Head(free) /\ d \notin armed /\ armed' = armed \cup {d}
         /\ fn'[d] = c /\ expire'[d] = now + Interval
         /\ \A e \in Conns : timerData[e] # d
         /\ \A x \in armed :
               /\ fn'[x] = fn[x] /\ expire'[x] = expire[x]
               /\ fn[x] \in Conns /\ fn[x] # c /\ timerData[fn[x]] = x
               /\ pc[fn[x]] # "assign" /\ pc'[fn[x]] # "assign"
  BY <1>1, <1>2, AddDetect
<1>5. reg'[c] = d
  BY <1>1, <1>4 DEF IInv, FreeUnused, TypeOK
<1>6. CallbackStays
  BY <1>1, DistinctGoroutines DEF CallbackStays, Moves, connVars, peerVars
<1>7. CallbackInv' /\ FreeAt' <= FreeAt
  BY <1>6, OtherSteps DEF DetectInv
<1>8. SlotsInv'
  <2>1. \A q \in Procs : pc'[q] # "nil"
    BY <1>1 DEF Moves, Waits
  <2>2. \A e \in Conns : pc'[e] \in {"add", "assign"} => e = c
    BY <1>1, DistinctGoroutines DEF Moves, Waits
  <2>3. ASSUME NEW x \in armed'
        PROVE  /\ fn'[x] \in Conns
               /\ pc'[fn'[x]] = "assign" => reg'[fn'[x]] = x
               /\ pc'[fn'[x]] # "assign" => timerData[fn'[x]] = x
    <3>1. CASE x = d
      BY <1>1, <1>4, <1>5, <3>1 DEF Moves
    <3>2. CASE x # d
      BY <1>4, <3>2
    <3>. QED BY <3>1, <3>2
  <2>. QED BY <1>2, <2>1, <2>2, <2>3 DEF SlotsInv, connVars
<1>9. ClocksInv'
  <2>1. ASSUME NEW x \in armed'
        PROVE  /\ expire'[x] <= now + Interval
               /\ pc'[fn'[x]] # "assign" =>
                     expire'[x] <= heard[fn'[x]] + Interval
    <3>1. CASE x = d
      BY <1>1, <1>3, <1>4, <3>1 DEF Moves
    <3>2. CASE x # d
      BY <1>4, <3>2 DEF DetectInv, ClocksInv
    <3>. QED BY <3>1, <3>2
  <2>. QED BY <2>1 DEF DetectInv, ClocksInv, peerVars, Seconds
<1>10. QueueKept
  BY <1>1, <1>3, <1>4, AddQueue DEF connVars
<1>. QED BY <1>7, <1>8, <1>9, <1>10, QueueStep DEF DetectInv

LEMMA RestartAssignDetect ==
    ASSUME IInv, IInv', ~Preempt, DetectInv, NEW c \in Conns,
           RestartAssign(c)
    PROVE  DetectInv'
<1>. USE DEF RestartAssign
<1>1. c \in Procs /\ c # Timer /\ Moves(c, "assign", "idle")
  BY DistinctGoroutines, GotoMoves DEF Labels
<1>2. /\ timerData'[c] = reg[c] /\ heard'[c] = now
      /\ \A e \in Conns : e # c => /\ timerData'[e] = timerData[e]
                                   /\ heard'[e] = heard[e]
  BY DEF IInv, FreeUnused, TypeOK
<1>3. now \in Nat /\ \A e \in Conns : heard[e] \in Nat /\ lastPong[e] \in Int
  BY TimesNat, BoundsAssumption DEF IInv, FreeUnused, TypeOK, Epoch
<1>4. CallbackStays
  BY <1>1, <1>2, DistinctGoroutines DEF CallbackStays, Moves
<1>5. CallbackInv' /\ FreeAt' <= FreeAt
  BY <1>4, OtherSteps DEF DetectInv
<1>6. ASSUME NEW x \in armed
      PROVE  /\ fn[x] \in Conns
             /\ pc'[fn[x]] # "assign" /\ (pc[fn[x]] = "assign" <=> fn[x] = c)
             /\ timerData'[fn[x]] = x
  <2>1. fn[x] \in Conns /\ fn[x] \in Procs
    BY DistinctGoroutines DEF DetectInv, SlotsInv
  <2>2. /\ pc'[fn[x]] # "assign" /\ (pc[fn[x]] = "assign" <=> fn[x] = c)
    BY <1>1, <2>1 DEF Moves, Waits
  <2>. QED BY <1>2, <2>1, <2>2 DEF DetectInv, SlotsInv
<1>7. SlotsInv'
  <2>1. \A q \in Procs : pc'[q] # "nil"
    BY <1>1 DEF Moves, Waits
  <2>2. \A e \in Conns : pc'[e] \notin {"add", "assign"}
    BY <1>1, DistinctGoroutines DEF Moves, Waits
  <2>. QED BY <1>6, <2>1, <2>2 DEF SlotsInv, timerVars
<1>8. ClocksInv'
  <2>1. ASSUME NEW e \in Conns
        PROVE  heard'[e] <= now /\ lastPong[e] <= Seconds(heard'[e])
    <3>1. heard[e] <= now /\ lastPong[e] <= Seconds(heard[e])
      BY DEF DetectInv, ClocksInv
    <3>2. CASE e = c
      <4>1. Seconds(heard[e]) <= Seconds(now)
        BY <1>3, <3>1, SecondsGrow
      <4>2. Seconds(heard[e]) \in Int /\ Seconds(now) \in Int
        BY <1>3, TimesNat DEF Seconds
      <4>. QED BY <1>2, <1>3, <3>1, <3>2, <4>1, <4>2
    <3>3. CASE e # c
      BY <1>2, <3>1, <3>3
    <3>. QED BY <3>2, <3>3
  <2>2. ASSUME NEW x \in armed
        PROVE  /\ expire[x] <= now + Interval
               /\ expire[x] <= heard'[fn[x]] + Interval
    BY <1>2, <1>6 DEF DetectInv, ClocksInv
  <2>. QED BY <2>1, <2>2 DEF ClocksInv, timerVars
<1>9. QueueKept
  <2>. SUFFICES ASSUME NEW x \in armed
                PROVE  /\ Leaving(fn[x]) => Leaving(fn[x])'
                       /\ fn[x] \in open' /\ ~Running(fn[x])' =>
                             fn[x] \in open /\ ~Running(fn[x])
    BY DEF QueueKept, Kept, timerVars
  <2>1. Running(fn[x])' <=> Running(fn[x])
    BY <1>1, DistinctGoroutines DEF Running, timerVars, Moves
  <2>2. ASSUME NEW q \in Procs, ConnOf(q) = fn[x], pc[q] \in {"stop", "del"}
        PROVE  FALSE
    BY <1>1, <2>2 DEF Moves, Waits
  <2>. QED BY <2>1, <2>2 DEF Leaving, timerVars
<1>. QED BY <1>5, <1>7, <1>8, <1>9, QueueStep DEF DetectInv

(* A callback begins in time, and then nobody else does before it is done.  *)
LEMMA ExpireDetect ==
    ASSUME IInv, IInv', ~Preempt, DetectInv, Expire
    PROVE  DetectInv'
<1>1. PICK d \in armed :
         /\ expire[d] <= now /\ \A e \in armed : expire[d] <= expire[e]
         /\ Goto(Timer, "wait", IF fn[d] = None THEN "wait" ELSE "perform")
         /\ conn' = fn[d] /\ armed' = armed \ {d}
         /\ UNCHANGED <<now, call, reg, deadline, calls, connVars, peerVars,
                        expire, fn, free>>
  BY DEF Expire
<1>2. fn[d] \in Conns /\ fn[d] # None /\ Timer \in Procs
  BY DistinctGoroutines DEF DetectInv, SlotsInv
<1>3. Moves(Timer, "wait", "perform")
  BY <1>1, <1>2, GotoMoves DEF Labels
<1>4. /\ pc[Timer] = "wait" /\ pc'[Timer] = "perform"
      /\ \A q \in Procs : pc[q] \in Waits
      /\ \A e \in Conns : pc'[e] = pc[e] /\ pc'[e] \in Waits
  BY <1>3, DistinctGoroutines DEF Moves, Waits
<1>5. ASSUME NEW x \in armed
      PROVE  /\ fn[x] \in Conns /\ timerData[fn[x]] = x
             /\ pc[fn[x]] # "assign"
  BY <1>4, DistinctGoroutines DEF DetectInv, SlotsInv, Waits
<1>6. SlotsInv'
  <2>1. \A q \in Procs : pc'[q] # "nil"
    BY <1>4 DEF Waits, Procs
  <2>. QED BY <1>1, <1>4, <1>5, <2>1 DEF SlotsInv, connVars, Waits
<1>7. ClocksInv'
  BY <1>1, <1>5, <1>4 DEF DetectInv, ClocksInv, peerVars, Seconds, Waits
<1>8. PICK n \in Int, L \in Nat : n = now /\ L = LatestCheck
  BY <1>2, LatestNat, BoundsAssumption DEF IInv, FreeUnused, TypeOK
<1>9. FreeAt = n /\ \A c : ~Running(c) /\ ~Leaving(c)
  BY <1>4, <1>8 DEF FreeAt, Running, Leaving, Waits
<1>10. ASSUME NEW x \in armed, fn[x] \in open
       PROVE  n + Hold * Cardinality(Ahead(x)) <= expire[x] - Interval + L
  BY <1>8, <1>9, <1>10 DEF DetectInv, QueueInv, InTime
<1>11. CallbackInv'
  <2>1. ASSUME fn[d] \notin closed
        PROVE  now <= heard[fn[d]] + LatestCheck
    <3>1. fn[d] \in open
      <4>1. timerData[fn[d]] # None
        BY <1>5, ConnsAssumption DEF IInv, FreeUnused, TypeOK
      <4>. QED BY <1>2, <2>1, <4>1 DEF IInv, Handles, Unmade
    <3>2. PICK q \in Nat : q = Hold * Cardinality(Ahead(d))
      <4>1. Ahead(d) \in SUBSET (Conns \ {fn[d]})
        BY DEF Ahead
      <4>. QED BY <1>2, <4>1, QueueBound
    <3>3. n + q <= expire[d] - Interval + L
      BY <1>10, <3>1, <3>2
    <3>4. PICK h \in Int, e \in Int : /\ h = heard[fn[d]] /\ e = expire[d]
                                      /\ e <= h + Interval
      <4>1. heard[fn[d]] \in Int /\ expire[d] \in Int
        BY <1>2, TimesNat, BoundsAssumption
           DEF IInv, FreeUnused, TypeOK, Times
      <4>. QED BY <1>5, <4>1 DEF DetectInv, ClocksInv
    <3>5. n <= h + L
      BY <1>8, <3>2, <3>3, <3>4, TimesNat
    <3>. QED BY <1>8, <3>4, <3>5
  <2>. QED BY <1>1, <1>4, <2>1
           DEF CallbackInv, Performing, Pinging, Failing, Rescheduling,
               connVars, peerVars
<1>12. QueueInv'
  <2>. SUFFICES ASSUME NEW x \in armed', fn[x] \in open, fn[x] # fn[d]
                PROVE  InTime(x)'
    BY <1>1, <1>4 DEF QueueInv, Running, connVars
  <2>1. x \in armed /\ fn[x] \in Conns
    BY <1>1, <1>5
  <2>2. Ahead(x) \in SUBSET (Conns \ {fn[x]})
    BY DEF Ahead
  <2>3. fn[d] \in Ahead(x)
    BY <1>1, <1>2, <1>9, <2>1 DEF Ahead
  <2>4. Ahead(x)' \in SUBSET (Ahead(x) \ {fn[d]})
    <3>. SUFFICES ASSUME NEW c \in Ahead(x)'
                  PROVE  c \in Ahead(x) /\ c # fn[d]
      OBVIOUS
    <3>1. PICK y \in armed : /\ y # d /\ fn[y] = c /\ expire[y] <= expire[x]
                             /\ c \in Conns \ {fn[x]}
      BY <1>1 DEF Ahead
    <3>2. c # fn[d]
      BY <1>5, <3>1
    <3>. QED BY <1>9, <3>1, <3>2 DEF Ahead
  <2>5. Hold * Cardinality(Ahead(x)') + Hold <= Hold * Cardinality(Ahead(x))
    BY <2>1, <2>2, <2>3, <2>4, OneLess
  <2>6. PICK q \in Nat, r \in Nat : /\ q = Hold * Cardinality(Ahead(x))
                                    /\ r = Hold * Cardinality(Ahead(x)')
                                    /\ r + Hold <= q
    <3>1. Ahead(x)' \in SUBSET (Conns \ {fn[x]})
      BY <2>2, <2>4
    <3>. QED BY <2>1, <2>2, <2>5, <3>1, QueueBound
  <2>7. PICK f \in Int : f = FreeAt' /\ f <= n + Hold
    <3>1. FreeAt' = IF conn' \in closed' THEN now' + CloseTime ELSE now' + Hold
      BY <1>4 DEF FreeAt
    <3>. QED BY <1>1, <1>8, <3>1, TimesNat
  <2>8. PICK e \in Int : e = expire[x] /\ e = expire'[x]
    BY <1>1, <2>1, TimesNat, BoundsAssumption
       DEF IInv, FreeUnused, TypeOK, Times
  <2>9. n + q <= e - Interval + L
    BY <1>10, <2>1, <2>6, <2>8
  <2>10. f + r <= e - Interval + L
    BY <1>8, <2>6, <2>7, <2>8, <2>9, TimesNat
  <2>. QED BY <1>8, <2>6, <2>7, <2>8, <2>10 DEF InTime
<1>. QED BY <1>6, <1>7, <1>11, <1>12 DEF DetectInv

LEMMA RescheduleSetDetect ==
    ASSUME IInv, IInv', ~Preempt, DetectInv, RescheduleSet
    PROVE  DetectInv'
<1>. USE DEF RescheduleSet, Set
<1>1. Timer \in Procs /\ Moves(Timer, "set", "wait")
  BY DistinctGoroutines, GotoMoves DEF Labels
<1>2. /\ pc[Timer] = "set" /\ pc'[Timer] = "wait" /\ conn \in Conns
      /\ \A q \in Procs : q # Timer => pc[q] \in Waits /\ pc'[q] = pc[q]
  BY <1>1 DEF Moves, IInv, LabelsOK
<1>3. \A e \in Conns : pc'[e] = pc[e] /\ pc'[e] \in Waits
  BY <1>2, DistinctGoroutines
<1>4. PICK d \in Data : d = reg[Timer] /\ d = timerData[conn]
  BY <1>1, <1>2 DEF IInv, Handles, RegCurrent, ConnOf
<1>5. fn[d] = conn
  <2>1. ~Dropping(conn)
    BY <1>2 DEF Dropping, Waits
  <2>. QED BY <1>2, <1>4, <2>1, ConnsAssumption DEF IInv, Handles, HeldByOwner
<1>6. now \in Int /\ heard[conn] = now
  BY <1>2, BoundsAssumption
     DEF DetectInv, CallbackInv, Rescheduling, IInv, FreeUnused, TypeOK
<1>7. /\ armed' = armed \cup {d} /\ expire'[d] = now + Interval
      /\ \A x \in Data : x # d => expire'[x] = expire[x]
  BY <1>4 DEF IInv, FreeUnused, TypeOK
<1>8. ASSUME NEW x \in armed
      PROVE  x \in Data /\ fn[x] \in Conns /\ timerData[fn[x]] = x
  BY <1>3 DEF DetectInv, SlotsInv, Waits, IInv, FreeUnused, TypeOK
<1>9. SlotsInv'
  <2>1. \A q \in Procs : pc'[q] # "nil"
    BY <1>2 DEF Waits
  <2>2. \A x \in armed' : fn[x] \in Conns /\ timerData[fn[x]] = x
    BY <1>2, <1>4, <1>5, <1>7, <1>8
  <2>. QED BY <1>3, <2>1, <2>2 DEF SlotsInv, connVars, Waits
<1>10. ClocksInv'
  <2>1. ASSUME NEW x \in armed'
        PROVE  /\ expire'[x] <= now + Interval
               /\ expire'[x] <= heard[fn[x]] + Interval
    <3>1. CASE x = d
      BY <1>5, <1>6, <1>7, <3>1, TimesNat
    <3>2. CASE x # d
      <4>1. x \in armed /\ expire'[x] = expire[x]
        BY <1>7, <1>8, <3>2
      <4>2. pc[fn[x]] # "assign"
        BY <1>3, <1>8, <4>1 DEF Waits
      <4>. QED BY <4>1, <4>2 DEF DetectInv, ClocksInv
    <3>. QED BY <3>1, <3>2
  <2>. QED BY <2>1 DEF DetectInv, ClocksInv, peerVars, Seconds
<1>11. CallbackInv' /\ FreeAt' <= FreeAt
  <2>1. CallbackInv'
    BY <1>2 DEF CallbackInv, Performing, Pinging, Failing, Rescheduling
  <2>. QED BY <1>2, <2>1, FreeNow DEF DetectInv
<1>12. QueueKept
  <2>. SUFFICES ASSUME NEW x \in armed', ~Started(x)
                PROVE  /\ Kept(x)
                       /\ Leaving(fn[x]) => Leaving(fn[x])'
                       /\ ~Running(fn[x])
    BY DEF QueueKept, connVars
  <2>1. x # d
    BY <1>6, <1>7, TimesNat DEF Started
  <2>2. x \in armed /\ x \in Data /\ Kept(x)
    BY <1>7, <1>8, <2>1 DEF Kept
  <2>3. fn[x] # conn
    BY <1>4, <1>8, <2>1, <2>2
  <2>4. ~Running(fn[x])
    BY <2>3 DEF Running
  <2>5. ~Leaving(fn[x])
    <3>1. ASSUME NEW q \in Procs, ConnOf(q) = fn[x], pc[q] \in {"stop", "del"}
          PROVE  FALSE
      BY <1>2, <3>1 DEF Waits
    <3>. QED BY <2>4, <3>1 DEF Leaving
  <2>. QED BY <2>2, <2>4, <2>5
<1>. QED BY <1>9, <1>10, <1>11, <1>12, QueueStep DEF DetectInv

-----------------------------------------------------------------------------
(* The peer and the clock. *)

(* Nothing of the queue changes. *)
LEMMA QueueSame ==
    ASSUME UNCHANGED <<procVars, connVars, timerVars>>
    PROVE  QueueKept /\ (SlotsInv => SlotsInv')
<1>. USE DEF procVars, connVars, timerVars
<1>1. \A q \in Procs : ConnOf(q)' = ConnOf(q)
  BY DEF ConnOf
<1>2. SlotsInv => SlotsInv'
  BY <1>1 DEF SlotsInv
<1>3. \A c : (Running(c)' <=> Running(c)) /\ (Leaving(c)' <=> Leaving(c))
  BY <1>1 DEF Running, Leaving
<1>4. ASSUME NEW x
      PROVE  /\ Leaving(fn[x])' <=> Leaving(fn[x])
             /\ Running(fn[x])' <=> Running(fn[x])
  BY <1>1 DEF Running, Leaving
<1>. QED BY <1>2, <1>4 DEF QueueKept, Kept

LEMMA PeerDetect ==
    ASSUME IInv, IInv', ~Preempt, DetectInv, NEW c \in Conns,
           PeerAnswers(c) \/ DataArrives(c)
    PROVE  DetectInv'
<1>1. /\ Hear(c)
      /\ \A e \in Conns : e # c => (pong'[e] => pong[e])
  BY DEF PeerAnswers, DataArrives, IInv, FreeUnused, TypeOK
<1>2. /\ UNCHANGED <<now, procVars, connVars, timerVars>>
      /\ heard'[c] = now /\ lastPong'[c] = Seconds(now)
      /\ \A e \in Conns : e # c => /\ heard'[e] = heard[e]
                                   /\ lastPong'[e] = lastPong[e]
  BY <1>1 DEF Hear, IInv, FreeUnused, TypeOK
<1>3. CallbackStays
  BY <1>1, <1>2 DEF CallbackStays, procVars, connVars
<1>4. CallbackInv' /\ FreeAt' <= FreeAt
  BY <1>3, OtherSteps DEF DetectInv
<1>5. QueueKept /\ SlotsInv'
  BY <1>2, QueueSame DEF DetectInv
<1>6. /\ now \in Int /\ Seconds(now) \in Int
      /\ \A e \in Conns : heard[e] \in Int
  BY TimesNat, BoundsAssumption DEF IInv, FreeUnused, TypeOK, Seconds
<1>7. ClocksInv'
  <2>1. ASSUME NEW e \in Conns
        PROVE  heard'[e] <= now /\ lastPong'[e] <= Seconds(heard'[e])
    <3>1. CASE e = c
      BY <1>2, <1>6, <3>1
    <3>2. CASE e # c
      BY <1>2, <3>2 DEF DetectInv, ClocksInv
    <3>. QED BY <3>1, <3>2
  <2>2. ASSUME NEW x \in armed
        PROVE  /\ expire[x] <= now + Interval
               /\ pc[fn[x]] # "assign" => expire[x] <= heard'[fn[x]] + Interval
    <3>1. CASE fn[x] = c
      BY <1>2, <3>1 DEF DetectInv, ClocksInv
    <3>2. CASE fn[x] # c
      BY <1>2, <3>2 DEF DetectInv, ClocksInv, SlotsInv
    <3>. QED BY <3>1, <3>2
  <2>. QED BY <1>2, <2>1, <2>2 DEF ClocksInv, procVars, timerVars
<1>. QED BY <1>4, <1>5, <1>7, QueueStep DEF DetectInv

LEMMA TickDetect ==
    ASSUME IInv, IInv', ~Preempt, DetectInv, Tick
    PROVE  DetectInv'
<1>. USE DEF Tick
<1>1. /\ now \in Int /\ now' = now + 1
      /\ UNCHANGED <<procVars, connVars, peerVars, timerVars>>
      /\ deadline[Timer] \in Int
      /\ \A x \in armed : expire[x] \in Int
      /\ \A c \in Conns : heard[c] \in Int
  BY DistinctGoroutines, TimesNat, BoundsAssumption
     DEF IInv, FreeUnused, TypeOK, Times
<1>2. QueueKept /\ SlotsInv'
  BY QueueSame DEF DetectInv
<1>3. ClocksInv'
  <2>1. ASSUME NEW c \in Conns
        PROVE  heard[c] <= now + 1 /\ lastPong[c] <= Seconds(heard[c])
    BY <1>1 DEF DetectInv, ClocksInv
  <2>2. ASSUME NEW x \in armed
        PROVE  /\ expire[x] <= now + 1 + Interval
               /\ pc[fn[x]] # "assign" => expire[x] <= heard[fn[x]] + Interval
    BY <1>1, TimesNat DEF DetectInv, ClocksInv
  <2>. QED BY <1>1, <2>1, <2>2
           DEF ClocksInv, procVars, peerVars, timerVars, Seconds
<1>4. CASE pc[Timer] = "wait"
  <2>1. \A x \in armed : now < expire[x]
    BY <1>4 DEF TimerWaits
  <2>2. CallbackInv'
    BY <1>4 DEF CallbackInv, Performing, Pinging, Failing, Rescheduling,
                procVars
  <2>3. FreeAt' = now + 1
    BY <1>4 DEF FreeAt, procVars
  <2>4. QueueInv'
    <3>. SUFFICES ASSUME NEW x \in armed
                  PROVE  InTime(x)'
      BY DEF QueueInv, timerVars
    <3>1. fn[x] \in Conns
      BY DEF DetectInv, SlotsInv
    <3>2. Ahead(x)' \in SUBSET (Conns \ {fn[x]})
      BY DEF Ahead, timerVars
    <3>3. PICK q \in Nat, L \in Nat :
             /\ q = Hold * Cardinality(Ahead(x)') /\ L = LatestCheck
             /\ q + Interval <= L
      BY <3>1, <3>2, QueueBound
    <3>4. (now + 1) + q <= expire[x] - Interval + L
      BY <1>1, <2>1, <3>3, TimesNat
    <3>. QED BY <2>3, <3>3, <3>4 DEF InTime, timerVars
  <2>. QED BY <1>2, <1>3, <2>2, <2>4 DEF DetectInv
<1>5. CASE pc[Timer] = "ping"
  <2>1. /\ ~pong[conn] /\ conn \notin closed /\ now < deadline[Timer]
    BY <1>5 DEF TimerWaits
  <2>2. CallbackInv'
    <3>1. /\ now + 1 <= deadline[Timer]
          /\ deadline[Timer] <= now + 1 + Timeout
      BY <1>1, <1>5, <2>1, TimesNat DEF DetectInv, CallbackInv, Pinging
    <3>2. /\ deadline[Timer] <= heard[conn] + LatestCheck + Timeout
          /\ Timeout = 0
             \/ deadline[Timer] <= heard[conn] + OldestFresh + Timeout
      BY <1>5, <2>1 DEF DetectInv, CallbackInv, Pinging
    <3>. QED BY <1>1, <1>5, <2>1, <3>1, <3>2
             DEF CallbackInv, Performing, Pinging, Failing, Rescheduling,
                 procVars, connVars, peerVars
  <2>3. /\ FreeAt = deadline[Timer] + CloseTime
        /\ FreeAt' = deadline[Timer] + CloseTime
    BY <1>5, <2>1 DEF FreeAt, procVars, connVars
  <2>4. FreeAt' <= FreeAt
    BY <1>1, <2>3, TimesNat
  <2>. QED BY <1>2, <1>3, <2>2, <2>4, QueueStep DEF DetectInv
<1>6. CASE pc[Timer] = "handshake"
  <2>1. now < deadline[Timer]
    BY <1>6 DEF TimerWaits
  <2>2. CallbackInv'
    <3>1. /\ now + 1 <= deadline[Timer]
          /\ deadline[Timer] <= now + 1 + CloseTime
          /\ conn \in failed
      BY <1>1, <1>6, <2>1, TimesNat DEF DetectInv, CallbackInv, Failing
    <3>. QED BY <1>1, <1>6, <3>1
             DEF CallbackInv, Performing, Pinging, Failing, Rescheduling,
                 procVars, connVars
  <2>3. FreeAt = deadline[Timer] /\ FreeAt' = deadline[Timer]
    BY <1>6 DEF FreeAt, procVars
  <2>4. FreeAt' <= FreeAt
    BY <1>1, <2>3
  <2>. QED BY <1>2, <1>3, <2>2, <2>4, QueueStep DEF DetectInv
<1>. QED BY <1>4, <1>5, <1>6 DEF TimerWaits

LEMMA StutterDetect ==
    ASSUME IInv, IInv', DetectInv, UNCHANGED vars
    PROVE  DetectInv'
<1>. USE DEF vars
<1>1. QueueKept /\ SlotsInv'
  BY QueueSame DEF DetectInv
<1>2. ClocksInv'
  BY DEF DetectInv, ClocksInv, procVars, peerVars, timerVars, Seconds
<1>3. CallbackStays
  BY DEF CallbackStays, procVars, connVars, peerVars
<1>4. CallbackInv' /\ FreeAt' <= FreeAt
  BY <1>3, OtherSteps DEF DetectInv
<1>. QED BY <1>1, <1>2, <1>4, QueueStep DEF DetectInv

-----------------------------------------------------------------------------
(* The theorem. *)

LEMMA InitDetect == Init => DetectInv
<1>. SUFFICES ASSUME Init PROVE DetectInv
  OBVIOUS
<1>. USE DEF Init
<1>1. /\ armed = {} /\ pc[Timer] = "wait"
      /\ \A p \in Procs : pc[p] \in {"wait", "idle"}
      /\ \A c \in Conns : heard[c] = 0 /\ lastPong[c] = Epoch
      /\ now \in Nat
  BY DistinctGoroutines, TimesNat
<1>2. \A c \in Conns : pc[c] \notin {"add", "assign"}
  BY <1>1, DistinctGoroutines
<1>3. SlotsInv
  BY <1>1, <1>2 DEF SlotsInv
<1>4. ClocksInv
  <2>1. Epoch <= Seconds(0)
    <3>1. Seconds(0) \in Nat
      BY TimesNat DEF Seconds
    <3>. QED BY <3>1, TimesNat DEF Epoch
  <2>. QED BY <1>1, <2>1 DEF ClocksInv
<1>5. CallbackInv
  BY <1>1 DEF CallbackInv, Performing, Pinging, Failing, Rescheduling
<1>6. QueueInv
  BY <1>1 DEF QueueInv
<1>. QED BY <1>3, <1>4, <1>5, <1>6 DEF DetectInv

LEMMA NextDetect ==
    ~Preempt /\ IInv /\ IInv' /\ DetectInv /\ [Next]_vars => DetectInv'
<1>. SUFFICES ASSUME ~Preempt, IInv, IInv', DetectInv, [Next]_vars
              PROVE  DetectInv'
  OBVIOUS
<1>1. ASSUME NEW c \in Conns, Application(c) PROVE DetectInv'
  <2>1. CASE DisableHeartbeat(c)
    BY <2>1, BeginDetect DEF DisableHeartbeat
  <2>2. CASE SetHeartbeat(c)
    BY <2>2, BeginDetect DEF SetHeartbeat
  <2>3. CASE CloseCall(c)
    BY <2>3, BeginDetect DEF CloseCall
  <2>. QED BY <1>1, <2>1, <2>2, <2>3, ConnectDetect, RestartAddDetect,
              RestartAssignDetect DEF Application
<1>2. ASSUME NEW p \in Procs, Stop(p) PROVE DetectInv'
  BY <1>2, StopReadDetect, StopDelDetect, StopNilDetect DEF Stop
<1>3. ASSUME NEW p \in Procs, Close(p) PROVE DetectInv'
  BY <1>3, HandshakeEndsDetect, CloseOnceDetect DEF Close
<1>4. ASSUME Callback PROVE DetectInv'
  <2>1. CASE PerformFails \/ PingFails
    BY <2>1, HeartbeatFailsDetect DEF PerformFails, PingFails
  <2>. QED BY <1>4, <2>1, ExpireDetect, PerformPingDetect, PingAnsweredDetect,
              RescheduleReadDetect, RescheduleSetDetect DEF Callback
<1>5. CASE Ended \/ UNCHANGED vars
  BY <1>5, StutterDetect DEF Ended
<1>. QED BY <1>1, <1>2, <1>3, <1>4, <1>5, PeerDetect, TickDetect DEF Next

(* What is left of an interval, a ping and the others' closes, from the     *)
(* last word of the peer.                                                   *)
LEMMA DetectedInTime == IInv /\ DetectInv => SilentPeerDetected
<1>. SUFFICES ASSUME IInv, DetectInv, NEW c \in Conns, Enabled(c),
                     c \notin failed
              PROVE  now - heard[c] <= DetectionTime
  BY DEF SilentPeerDetected
<1>1. /\ c \in open /\ c \notin closed /\ pc[c] = "idle"
      /\ timerData[c] # None
  BY DEF Enabled, IInv, Handles
<1>2. PICK n \in Int, h \in Int, L \in Nat :
         n = now /\ h = heard[c] /\ L = LatestCheck
  BY LatestNat, BoundsAssumption DEF IInv, FreeUnused, TypeOK
<1>3. PICK m \in Int, D \in Int :
         /\ m = Min({L, OldestFresh}) /\ m \in {L, OldestFresh}
         /\ D = DetectionTime /\ D >= L /\ D >= m + Timeout
  <2>1. L \in Int /\ OldestFresh \in Int /\ Timeout \in Int
    BY TimesNat
  <2>2. Min({L, OldestFresh}) \in {L, OldestFresh}
    BY <2>1, MinOfTwo
  <2>3. Min({L, OldestFresh}) \in Int /\ Min({L, OldestFresh}) + Timeout \in Int
    BY <2>1, <2>2
  <2>4. PICK D \in Int : /\ D = Max({L, Min({L, OldestFresh}) + Timeout})
                         /\ D >= L /\ D >= Min({L, OldestFresh}) + Timeout
    <3>1. PICK k \in Int : k = Min({L, OldestFresh}) + Timeout
      BY <2>3
    <3>2. /\ Max({L, k}) \in {L, k} /\ Max({L, k}) >= L /\ Max({L, k}) >= k
      BY <2>1, MaxOfTwo
    <3>. QED BY <2>1, <3>1, <3>2
  <2>. QED BY <1>2, <2>2, <2>3, <2>4 DEF DetectionTime
<1>4. CASE Running(c)
  <2>1. pc[Timer] # "wait" /\ conn = c /\ pc[Timer] \in TimerLabels
    BY <1>4 DEF Running, IInv, LabelsOK
  <2>2. CASE pc[Timer] = "perform"
    <3>1. n <= h + L
      BY <1>1, <1>2, <2>1, <2>2 DEF DetectInv, CallbackInv, Performing
    <3>. QED BY <1>2, <1>3, <3>1
  <2>3. CASE pc[Timer] = "ping"
    <3>1. PICK d \in Int :
             /\ n <= d /\ d <= h + L + Timeout
             /\ Timeout = 0 \/ d <= h + OldestFresh + Timeout
      <4>1. deadline[Timer] \in Int
        BY DistinctGoroutines, TimesNat, BoundsAssumption
           DEF IInv, FreeUnused, TypeOK, Times
      <4>. QED BY <1>1, <1>2, <2>1, <2>3, <4>1
               DEF DetectInv, CallbackInv, Pinging
    <3>2. CASE Timeout = 0
      BY <1>2, <1>3, <3>1, <3>2
    <3>3. CASE Timeout # 0
      <4>1. n <= h + m + Timeout
        BY <1>2, <1>3, <3>1, <3>3, TimesNat
      <4>. QED BY <1>2, <1>3, <4>1, TimesNat
    <3>. QED BY <3>2, <3>3
  <2>4. CASE pc[Timer] \in {"reschedule", "set"}
    <3>1. h = n
      BY <1>2, <2>1, <2>4 DEF DetectInv, CallbackInv, Rescheduling
    <3>. QED BY <1>2, <1>3, <3>1
  <2>5. pc[Timer] \notin {"handshake", "close", "stop", "del", "nil"}
    BY <1>1, <2>1 DEF DetectInv, CallbackInv, Failing
  <2>. QED BY <2>1, <2>2, <2>3, <2>4, <2>5 DEF TimerLabels
<1>5. CASE ~Running(c)
  <2>1. ~Dropping(c)
    <3>. SUFFICES ASSUME NEW p \in Procs, ConnOf(p) = c, pc[p] = "nil"
                  PROVE  FALSE
      BY DEF Dropping
    <3>. QED BY <1>1, <1>5 DEF ConnOf, Running
  <2>2. PICK x \in armed : x = timerData[c] /\ fn[x] = c
    BY <1>1, <1>5, <2>1 DEF IInv, Handles, Served, HeldByOwner, Running
  <2>3. FreeAt + Hold * Cardinality(Ahead(x)) <= expire[x] - Interval + L
    BY <1>1, <1>2, <1>5, <2>2 DEF DetectInv, QueueInv, InTime
  <2>4. PICK q \in Nat : q = Hold * Cardinality(Ahead(x))
    <3>1. Ahead(x) \in SUBSET (Conns \ {c})
      BY <2>2 DEF Ahead
    <3>. QED BY <3>1, QueueBound
  <2>5. PICK f \in Int : f = FreeAt /\ n <= f
    BY <1>2, FreeAtBounds DEF DetectInv
  <2>6. PICK e \in Int : e = expire[x] /\ e <= h + Interval
    <3>1. expire[x] \in Int
      BY TimesNat, BoundsAssumption DEF IInv, FreeUnused, TypeOK, Times
    <3>. QED BY <1>1, <1>2, <2>2, <3>1 DEF DetectInv, ClocksInv
  <2>7. f + q <= e - Interval + L
    BY <2>3, <2>4, <2>5, <2>6
  <2>8. n <= h + L
    BY <1>2, <2>4, <2>5, <2>6, <2>7, TimesNat
  <2>. QED BY <1>2, <1>3, <2>8
<1>. QED BY <1>4, <1>5

(* "If no pong is received within this timeout, the connection is closed"   *)
(* (options.go:39): an open connection whose peer says nothing is being     *)
(* closed by its heartbeat after DetectionTime, however many connections    *)
(* share the timer and whatever their callbacks wait for.                   *)
THEOREM SilentPeersDetected == ~Preempt => (Spec => []SilentPeerDetected)
<1>. SUFFICES ASSUME ~Preempt PROVE Spec => []SilentPeerDetected
  OBVIOUS
<1>1. Init => DetectInv
  BY InitDetect
<1>2. IInv /\ IInv' /\ DetectInv /\ [Next]_vars => DetectInv'
  BY NextDetect
<1>3. IInv /\ DetectInv => SilentPeerDetected
  BY DetectedInTime
<1>. QED BY <1>1, <1>2, <1>3, Invariance, PTL DEF Spec
=============================================================================
