------------------------------- MODULE Timer -------------------------------
(***************************************************************************)
(* core/timer: one goroutine that calls the expired callbacks of a         *)
(* min-heap of TimerData (TimerHeap), which come from a free list.         *)
(*                                                                         *)
(* The methods take t.mu, so each is one step; the goroutine (start and    *)
(* expire) releases it while a callback runs, for as long as that takes.   *)
(* TimerData are the numbers from 1; Nil is the nil pointer.               *)
(***************************************************************************)
EXTENDS TimerHeap

CONSTANTS Clients,    \* each arms one callback at a time
          NoClient,
          Capacity,   \* of a batch of TimerData (grow)
          MaxData,    \* bound: TimerData ever allocated
          MaxTime,    \* bound: the last instant of the clock
          MaxDelay,   \* bound: the longest delay asked for
          Forever     \* the signal timer is not armed (infiniteDuration)

Nil == 0
Data == 1..MaxData
Instants == 0..MaxTime

ASSUME BoundsAssumption ==
    /\ MaxData \in Nat /\ Capacity \in 1..MaxData
    /\ MaxTime \in Nat /\ MaxDelay \in Nat \ {0}
ASSUME ClientsAssumption == NoClient \notin Clients
ASSUME ForeverAssumption == Forever \notin Instants

VARIABLES
    heap,       \* timers: the heap, a sequence of TimerData
    index,      \* TimerData.index, -1 once removed
    expire,     \* TimerData.expire
    fn,         \* TimerData.fn: the client it calls, or NoClient (nil)
    next,       \* TimerData.next
    free,       \* Timer.free
    allocated,  \* how many TimerData exist
    signal,     \* when the signal timer fires
    tick,       \* the channel of the signal timer holds a tick
    loop,       \* the goroutine: "expire", "call" (a callback), "wait"
    running,    \* the client whose callback runs
    handle,     \* the TimerData each client holds
    stopped,    \* Stop was called
    now

dataVars == <<heap, index, expire>>
freeVars == <<next, free, allocated>>
loopVars == <<loop, running>>
vars == <<dataVars, fn, freeVars, signal, tick, loopVars, handle, stopped,
          now>>

TypeOK ==
    /\ heap \in Seq(Data)
    /\ index \in [Data -> -1..MaxData]
    /\ expire \in [Data -> Instants]
    /\ fn \in [Data -> Clients \cup {NoClient}]
    /\ next \in [Data -> Data \cup {Nil}]
    /\ allocated \in 0..MaxData
    /\ free \in 1..allocated \cup {Nil}
    /\ signal \in Instants \cup {Forever}
    /\ tick \in BOOLEAN
    /\ loop \in {"expire", "call", "wait"}
    /\ running \in Clients \cup {NoClient}
    /\ handle \in [Clients -> Data \cup {Nil}]
    /\ stopped \in BOOLEAN
    /\ now \in Instants

-----------------------------------------------------------------------------
(* The heap: a record of the slice and of the indices and expirations of    *)
(* the TimerData.                                                          *)

Heap == [slice |-> heap, index |-> index, expire |-> expire]

BecomesHeap(h) == heap' = h.slice /\ index' = h.index /\ expire' = h.expire

(* Mutant: the signal timer is not armed again for a new first timer. *)
SignalUnlessArmed(h, td) == UNCHANGED <<signal, tick>>

(* add arms the signal timer if td became the first.  A Reset (or a Stop)   *)
(* of a time.Timer drops a tick nobody received yet (Go 1.23 and later).    *)
Signal(h, td) ==
    IF h.index[td] = 0 THEN signal' = h.expire[td] /\ tick' = FALSE
                       ELSE UNCHANGED <<signal, tick>>

-----------------------------------------------------------------------------
(* init: the first batch of TimerData is on the free list. *)
Init ==
    /\ heap = <<>>
    /\ index = [td \in Data |-> 0]
    /\ expire = [td \in Data |-> 0]
    /\ fn = [td \in Data |-> NoClient]
    /\ next = [td \in Data |-> IF td < Capacity THEN td + 1 ELSE Nil]
    /\ free = 1
    /\ allocated = Capacity
    /\ signal = Forever /\ tick = FALSE
    /\ loop = "expire" /\ running = NoClient
    /\ handle = [c \in Clients |-> Nil]
    /\ stopped = FALSE
    /\ now = 0

(* Mutant: get does not advance the free list. *)
GetKeepingFree(td) ==
    /\ free # Nil /\ td = free
    /\ UNCHANGED freeVars

(* get: the head of the free list, after grow if there is none. *)
Get(td) ==
    IF free # Nil
    THEN /\ td = free
         /\ free' = next[td]
         /\ next' = [next EXCEPT ![td] = Nil]
         /\ UNCHANGED allocated
    ELSE /\ allocated + Capacity <= MaxData
         /\ td = allocated + 1
         /\ allocated' = allocated + Capacity
         /\ free' = IF Capacity = 1 THEN Nil ELSE td + 1
         /\ next' = [d \in Data |->
                       IF d \in td+1..td+Capacity-1
                       THEN IF d = td + Capacity - 1 THEN Nil ELSE d + 1
                       ELSE next[d]]

Put(td) ==
    /\ fn' = [fn EXCEPT ![td] = NoClient]
    /\ next' = [next EXCEPT ![td] = free]
    /\ free' = td
    /\ UNCHANGED allocated

Add(c, delay) ==
    /\ handle[c] = Nil /\ now + delay <= MaxTime
    /\ \E td \in Data :
          LET h == Insert([Heap EXCEPT !.expire[td] = now + delay], td)
          IN  /\ Get(td)
              /\ fn' = [fn EXCEPT ![td] = c]
              /\ handle' = [handle EXCEPT ![c] = td]
              /\ BecomesHeap(h)
              /\ Signal(h, td)
    /\ UNCHANGED <<loopVars, stopped, now>>

(* Del removes and always puts; the client forgets its TimerData. *)
Del(c) ==
    /\ handle[c] # Nil
    /\ BecomesHeap(Remove(Heap, handle[c]))
    /\ Put(handle[c])
    /\ handle' = [handle EXCEPT ![c] = Nil]
    /\ UNCHANGED <<signal, tick, loopVars, stopped, now>>

(* Set: from the callback, to run again, or from elsewhere. *)
Set(c, delay) ==
    LET td == handle[c]
        h == Insert([Remove(Heap, td) EXCEPT !.expire[td] = now + delay], td)
    IN  /\ td # Nil /\ now + delay <= MaxTime
        /\ BecomesHeap(h)
        /\ Signal(h, td)
        /\ UNCHANGED <<fn, freeVars, loopVars, handle, stopped, now>>

(* Stop does not end the goroutine; it drops the timers with their indices  *)
(* as they are.                                                             *)
Stop ==
    /\ signal' = Forever /\ tick' = FALSE
    /\ heap' = <<>>
    /\ stopped' = TRUE
    /\ UNCHANGED <<index, expire, fn, freeVars, loopVars, handle, now>>

-----------------------------------------------------------------------------
(* The goroutine. *)

(* Mutant: a callback is called an instant too early. *)
FirstIsAlmostDue == heap # <<>> /\ expire[heap[1]] <= now + 1

FirstIsDue == heap # <<>> /\ expire[heap[1]] <= now

(* expire: nothing is due; the signal timer is set for the first timer. *)
Wait ==
    /\ loop = "expire"
    /\ ~FirstIsDue
    /\ loop' = "wait"
    /\ signal' = IF heap = <<>> THEN Forever ELSE expire[heap[1]]
    /\ tick' = FALSE
    /\ UNCHANGED <<dataVars, fn, freeVars, running, handle, stopped, now>>

(* expire: the first timer is due; its callback is called without t.mu. *)
Expire ==
    /\ loop = "expire"
    /\ FirstIsDue
    /\ running' = fn[heap[1]]
    /\ loop' = "call"
    /\ BecomesHeap(Remove(Heap, heap[1]))
    /\ UNCHANGED <<fn, freeVars, signal, tick, handle, stopped, now>>

CallbackReturns ==
    /\ loop = "call"
    /\ loop' = "expire"
    /\ running' = NoClient
    /\ UNCHANGED <<dataVars, fn, freeVars, signal, tick, handle, stopped, now>>

(* start: a tick is received. *)
Wake ==
    /\ loop = "wait" /\ tick
    /\ loop' = "expire"
    /\ tick' = FALSE
    /\ UNCHANGED <<dataVars, fn, freeVars, signal, running, handle, stopped, now>>

(* The runtime: the signal timer fires, a tick waits to be received. *)
SignalFires ==
    /\ signal # Forever /\ signal <= now
    /\ tick' = TRUE
    /\ signal' = Forever
    /\ UNCHANGED <<dataVars, fn, freeVars, loopVars, handle, stopped, now>>

Tick ==
    /\ now < MaxTime
    /\ now' = now + 1
    /\ UNCHANGED <<dataVars, fn, freeVars, signal, tick, loopVars, handle, stopped>>

Loop == Wait \/ Expire \/ Wake

Next ==
    \/ \E c \in Clients :
          \/ \E delay \in 1..MaxDelay : Add(c, delay) \/ Set(c, delay)
          \/ Del(c)
    \/ Stop \/ Loop \/ CallbackReturns \/ SignalFires \/ Tick

Spec == Init /\ [][Next]_vars

(* The goroutine runs, callbacks return, and time passes. *)
Fairness ==
    /\ WF_vars(Loop) /\ WF_vars(CallbackReturns)
    /\ WF_vars(SignalFires) /\ WF_vars(Tick)

FairSpec == Spec /\ Fairness

-----------------------------------------------------------------------------
(* Properties. *)

InHeap == {heap[i] : i \in DOMAIN heap}

(* The free list, walked as far as there are TimerData. *)
Walk == LET node[k \in 0..MaxData] ==
                IF k = 0 THEN free
                ELSE IF node[k-1] = Nil THEN Nil ELSE next[node[k-1]]
        IN  node
InFree == {Walk[k] : k \in 0..MaxData} \ {Nil}

(* Typed, a TimerData is in one place: on the free list, or held by one     *)
(* client; and what is in the heap is held (timer.go:92-140).               *)
DataExclusive ==
    /\ TypeOK
    /\ Walk[MaxData] = Nil
    /\ \A c \in Clients : handle[c] # Nil => handle[c] \notin InFree
    /\ \A c, d \in Clients : handle[c] # Nil /\ handle[c] = handle[d] => c = d
    /\ \A td \in InHeap : \E c \in Clients : handle[c] = td /\ fn[td] = c

Deadline(c) ==
    IF handle[c] # Nil /\ handle[c] \in InHeap THEN expire[handle[c]]
                                               ELSE Forever

(* The heap, the free list and the goroutine implement the timer service. *)
Service == INSTANCE TimerService
             WITH deadline <- [c \in Clients |-> Deadline(c)],
                  calling <- running, NoDeadline <- Forever
ImplementsService == Service!Spec

(* "This should be called when the timer is no longer needed to prevent     *)
(* goroutine leaks" (timer.go:292): once stopped, the goroutine does not    *)
(* wait for ever.                                                          *)
StopEndsGoroutine == ~<>[](stopped /\ loop = "wait")

(* A timer that is armed is called or cancelled in the end: no wake-up is   *)
(* lost, however Add and Set race with the goroutine (timer.go:150,233).    *)
ArmedIsServed ==
    \A c \in Clients : (Deadline(c) # Forever) ~> (Deadline(c) = Forever)
=============================================================================
