---------------------------- MODULE TimerService ----------------------------
(***************************************************************************)
(* What core/timer promises its clients: a callback armed for a deadline   *)
(* is called once, at or after the deadline and the earliest first, and is *)
(* not called if it was cancelled before.  One callback runs at a time.    *)
(***************************************************************************)
EXTENDS Naturals

CONSTANTS Clients, NoClient, NoDeadline,
          MaxTime     \* bound: the last instant of the clock

VARIABLES deadline,  \* when the callback of each client is due
          calling,   \* the client whose callback is running
          now

vars == <<deadline, calling, now>>

Init ==
    /\ deadline = [c \in Clients |-> NoDeadline]
    /\ calling = NoClient
    /\ now = 0

Armed(c) == deadline[c] # NoDeadline

Arm(c) ==
    /\ \E t \in now+1..MaxTime : deadline' = [deadline EXCEPT ![c] = t]
    /\ UNCHANGED <<calling, now>>

Cancel(c) ==
    /\ deadline' = [deadline EXCEPT ![c] = NoDeadline]
    /\ UNCHANGED <<calling, now>>

CancelAll ==
    /\ deadline' = [c \in Clients |-> NoDeadline]
    /\ UNCHANGED <<calling, now>>

Call(c) ==
    /\ calling = NoClient
    /\ Armed(c) /\ deadline[c] <= now
    /\ \A d \in Clients : Armed(d) => deadline[c] <= deadline[d]
    /\ deadline' = [deadline EXCEPT ![c] = NoDeadline]
    /\ calling' = c
    /\ UNCHANGED now

Return == calling' = NoClient /\ UNCHANGED <<deadline, now>>

Tick == now' = now + 1 /\ UNCHANGED <<deadline, calling>>

Next == (\E c \in Clients : Arm(c) \/ Cancel(c) \/ Call(c))
        \/ CancelAll \/ Return \/ Tick

Spec == Init /\ [][Next]_vars
=============================================================================
