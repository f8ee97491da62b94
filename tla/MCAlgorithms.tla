---------------------------- MODULE MCAlgorithms ----------------------------
(***************************************************************************)
(* The parts of the library that are small, each checked on its own: a     *)
(* behaviour moves one of them, its part, and leaves the others as they    *)
(* were at the start.                                                      *)
(***************************************************************************)
EXTENDS TimerHeap, Frame, Masking, Compress, BufioReader, Negotiation,
        RingPool, BufferPool, TLC

CONSTANTS MaxData,      \* bound: TimerData in the heap
          MaxTime       \* bound: expirations

VARIABLES part,         \* what this behaviour checks
          timerHeap,    \* TimerHeap
          poolSize      \* RingPool: the size that is asked for

Parts == {"heap", "frame", "mask", "compress", "reader",
          "negotiation", "ring", "pool"}

inputs == <<part, poolSize>>
streamVars == <<maskVars, trimVars, windowVars, readerVars>>

Symmetry == Permutations(Conns)

-----------------------------------------------------------------------------
(* Inputs. *)

Eight(a, b, c, d) == <<a, 0, 0, 0, b, 0, c, d>>

(* 0, 1, 125, 126, 127, 255, 256, 65535, 65536, 2^24, and 2^56. *)
Lengths ==
    {Eight(0, 0, 0, n) : n \in {0, 1, 125, 126, 127, 255}}
    \cup {Eight(0, 0, 1, 0), Eight(0, 0, 255, 255), <<0, 0, 0, 0, 0, 1, 0, 0>>,
          Eight(0, 1, 0, 0), Eight(1, 0, 0, 0), Eight(127, 255, 255, 255)}
Keys == {<<1, 2, 3, 4>>, <<255, 0, 128, 127>>}

SomeHeaders ==
    {h \in [fin : BOOLEAN, rsv1 : BOOLEAN, rsv2 : BOOLEAN, rsv3 : BOOLEAN,
            opcode : {0, 1, 2, 8, 9, 10, 15}, payloadLength : Lengths,
            masked : BOOLEAN, maskKey : Keys \cup {NoKey}] :
        h.masked <=> h.maskKey \in Keys}

Reason(n) == [i \in 1..n |-> 33 + (i % 64)]
Codes == {0, 999, 1000, 1003, 1004, 1005, 1006, 1007, 1014, 1015, 1016, 2999,
          3000, 4999, 5000, 65535, 65536 + 1000}
SomeClosings ==
    {CloseError(c, Reason(n)) : c \in Codes, n \in {0, 1, 122, 123, 124, 125}}

PoolSizes == {-1, 0, 1, 2, 3, 5, 7, 8}

Bits == {0, 1}
ShortWrites == UNION {[1..n -> Bits] : n \in 0..6}

Lists ==
    {<<>>, <<<<"chat", "lower">>>>, <<<<"chat", "upper">>>>,
     <<<<"chat", "lower">>, <<"echo", "lower">>>>,
     <<<<"echo", "upper">>, <<"chat", "lower">>>>}
NoName == <<"none", "none">>

Offers ==
    {<<>>, <<[name |-> "x-webkit-deflate-frame", params |-> {}]>>}
    \cup {<<Deflate(p)>> : p \in SUBSET {ClientNo, ServerNo,
             "client_max_window_bits", "server_max_window_bits=10"}}
    \cup {<<Deflate({"server_max_window_bits=10"}), Deflate(p)>> :
             p \in {{}, {ServerNo, "server_max_window_bits=15"}, {"unknown"}}}
Answers ==
    {<<>>, <<[name |-> "unknown", params |-> {}]>>,
     <<Deflate({}), Deflate({})>>, <<Deflate({"client_max_window_bits"})>>}
    \cup {<<Deflate(p)>> : p \in SUBSET {ClientNo, ServerNo,
             "server_max_window_bits=10"}}

-----------------------------------------------------------------------------
(* The heap of the timer: TimerData are inserted and removed anywhere.      *)
(* Which TimerData it is does not matter: the least one that is not in.     *)
Data == 1..MaxData
InHeap == {timerHeap.slice[i] : i \in DOMAIN timerHeap.slice}
Fresh == CHOOSE td \in Data \ InHeap : \A d \in Data \ InHeap : td <= d

InsertStep ==
    /\ InHeap # Data
    /\ \E t \in 0..MaxTime :
          timerHeap' = Insert([timerHeap EXCEPT !.expire[Fresh] = t], Fresh)

(* A removed TimerData's expiration is forgotten. *)
RemoveStep ==
    \E td \in InHeap :
        timerHeap' = [Remove(timerHeap, td) EXCEPT !.expire[td] = 0]

Init ==
    /\ part \in Parts
    /\ timerHeap = [slice |-> <<>>, index |-> [d \in Data |-> 0],
                    expire |-> [d \in Data |-> 0]]
    /\ poolSize \in IF part = "ring" THEN PoolSizes ELSE {1}
    /\ FrameInit /\ MaskInit /\ CompressInit /\ ReaderInit /\ NegInit
    /\ BufferPoolInit
    /\ part # "negotiation" =>
          /\ client = [foreign |-> FALSE, mode |-> "disabled",
                       protocols |-> <<>>, skipVerify |-> FALSE]
          /\ server = client

Next ==
    /\ UNCHANGED inputs
    /\ \/ /\ part = "heap"
          /\ InsertStep \/ RemoveStep
          /\ UNCHANGED <<frameVars, streamVars, negVars, bufferPoolVars>>
       \/ /\ part = "frame" /\ FrameNext
          /\ UNCHANGED <<timerHeap, streamVars, negVars, bufferPoolVars>>
       \/ /\ part = "mask" /\ MaskNext
          /\ UNCHANGED <<timerHeap, frameVars, trimVars, windowVars,
                         readerVars, negVars, bufferPoolVars>>
       \/ /\ part = "compress" /\ CompressNext
          /\ UNCHANGED <<timerHeap, frameVars, maskVars, readerVars, negVars,
                         bufferPoolVars>>
       \/ /\ part = "reader" /\ ReaderNext
          /\ UNCHANGED <<timerHeap, frameVars, maskVars, trimVars, windowVars,
                         negVars, bufferPoolVars>>
       \/ /\ part = "negotiation" /\ NegNext
          /\ UNCHANGED <<timerHeap, frameVars, streamVars, bufferPoolVars>>
       \/ /\ part = "pool" /\ BufferPoolNext
          /\ UNCHANGED <<timerHeap, frameVars, streamVars, negVars>>

AlgorithmsSpec ==
    Init /\ [][Next]_<<inputs, timerHeap, frameVars, streamVars, negVars,
                       bufferPoolVars>>

-----------------------------------------------------------------------------
(* The TimerData inserted is in and the one removed is out; the others stay *)
(* in or out, once each, with their expirations, and the heap is ordered    *)
(* and knows its positions (timer.go:142-179,238-282).                      *)
HeapExact ==
    [][\E td \in Data :
          /\ InHeap' = IF td \in InHeap THEN InHeap \ {td}
                       ELSE InHeap \cup {td}
          /\ Len(timerHeap'.slice) = Cardinality(InHeap')
          /\ \A d \in Data \ {td} : timerHeap'.expire[d] = timerHeap.expire[d]
          /\ IsHeap(timerHeap')
      ]_timerHeap

(* Every number has a pool, and numbers in a row are spread evenly over all *)
(* of them (pool.go:106-127).                                               *)
RingEven ==
    part = "ring" =>
    LET n == nextPowerOfTwo(poolSize)
    IN  \A start \in 0..8 :
           {PoolOf(rn, poolSize) : rn \in start..start + n - 1} = 0..n-1
=============================================================================
