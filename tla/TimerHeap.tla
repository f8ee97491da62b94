----------------------------- MODULE TimerHeap -----------------------------
(***************************************************************************)
(* The min-heap of core/timer: operators on a record of the slice          *)
(* Timer.timers and of the fields index and expire of each TimerData.      *)
(* Positions in the heap are the code's, from 0.                           *)
(***************************************************************************)
EXTENDS Integers, Sequences

Less(h, i, j) == h.expire[h.slice[i+1]] < h.expire[h.slice[j+1]]

(* The second assignment of an index is the last (timer.go:280-281). *)
Swap(h, i, j) ==
    LET a == h.slice[i+1]
        b == h.slice[j+1]
    IN  [h EXCEPT !.slice = [h.slice EXCEPT ![i+1] = b, ![j+1] = a],
                  !.index = [h.index EXCEPT ![b] = i, ![a] = j]]

Parent(j) == IF j = 0 THEN 0 ELSE (j - 1) \div 2

(* A round of the loop of up, and of the loop of down over the first n; it  *)
(* moves nothing where the loop ends, which it does after at most as many   *)
(* rounds as the heap has elements.                                         *)
UpRound(h, j) ==
    IF j > 0 /\ Less(h, j, Parent(j))
    THEN <<Swap(h, Parent(j), j), Parent(j)>> ELSE <<h, j>>

Child(h, i, n) ==
    IF 2*i + 2 < n /\ ~Less(h, 2*i + 1, 2*i + 2) THEN 2*i + 2 ELSE 2*i + 1

DownRound(h, i, n) ==
    IF 2*i + 1 < n /\ Less(h, Child(h, i, n), i)
    THEN <<Swap(h, i, Child(h, i, n)), Child(h, i, n)>> ELSE <<h, i>>

Up(h, start) ==
    LET after[k \in 0..Len(h.slice)] ==
            IF k = 0 THEN <<h, start>>
            ELSE UpRound(after[k-1][1], after[k-1][2])
    IN  after[Len(h.slice)][1]

Down(h, start, n) ==
    LET after[k \in 0..Len(h.slice)] ==
            IF k = 0 THEN <<h, start>>
            ELSE DownRound(after[k-1][1], after[k-1][2], n)
    IN  after[Len(h.slice)][1]

(* add appends and lifts. *)
Insert(h, td) ==
    LET n == Len(h.slice)
    IN  Up([h EXCEPT !.slice = Append(@, td), !.index[td] = n], n)

(* Mutant: the last element is removed whatever the swap did. *)
RemoveLast(h, td) ==
    LET last == Len(h.slice) - 1
    IN  IF last < 0 THEN h
        ELSE [h EXCEPT !.index[h.slice[last+1]] = -1,
                       !.slice = SubSeq(@, 1, last)]

(* del ignores a TimerData that is not where its index says. *)
Remove(h, td) ==
    LET i == h.index[td]
        last == Len(h.slice) - 1
        moved == IF i = last THEN h
                 ELSE Up(Down(Swap(h, i, last), i, last), i)
    IN  IF i < 0 \/ i > last \/ h.slice[i+1] # td THEN h
        ELSE [moved EXCEPT !.index[moved.slice[last+1]] = -1,
                           !.slice = SubSeq(@, 1, last)]

-----------------------------------------------------------------------------
(* The heap is ordered and every TimerData in it knows its position, so     *)
(* that Del and Set find it (timer.go:143-179,239-282).                     *)
IsHeap(h) ==
    /\ \A j \in 1..Len(h.slice)-1 : ~Less(h, j, Parent(j))
    /\ \A i \in DOMAIN h.slice : h.index[h.slice[i]] = i - 1
=============================================================================
