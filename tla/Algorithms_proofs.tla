-------------------------- MODULE Algorithms_proofs --------------------------
(***************************************************************************)
(* Proofs about the small parts of the library, for every value of their   *)
(* constants: the two buffers of compress.go, masking in pieces, the       *)
(* handshake's negotiation, the buffered reader, the pool of buffers, and  *)
(* the headers and the close payloads of frames.                           *)
(***************************************************************************)
EXTENDS Compress, Masking, Negotiation, BufioReader, BufferPool, Frame,
        FreeList_proofs, SequenceTheorems

-----------------------------------------------------------------------------
(* Compression. *)

(* Dropping a prefix. *)
LEMMA DropProperties ==
    ASSUME NEW S, NEW s \in Seq(S), NEW n \in 0..Len(s)
    PROVE  /\ Drop(s, n) \in Seq(S)
           /\ Len(Drop(s, n)) = Len(s) - n
           /\ \A i \in 1..(Len(s) - n) : Drop(s, n)[i] = s[n + i]
<1>1. Len(s) \in Nat /\ \A i \in (n + 1)..Len(s) : s[i] \in S
  BY LenProperties, ElementOfSeq
<1>2. n + 1 \in Int /\ Len(s) \in Int
  BY <1>1
<1>3. QED
  BY <1>1, <1>2, SubSeqProperties DEF Drop

(* A sequence is a prefix of it and the rest. *)
LEMMA PrefixAndDrop ==
    ASSUME NEW S, NEW s \in Seq(S), NEW n \in 0..Len(s)
    PROVE  /\ Prefix(s, n) \in Seq(S)
           /\ Prefix(s, n) \o Drop(s, n) = s
<1>1. Len(s) \in Nat /\ \A i \in 1..n : s[i] \in S
  BY LenProperties, ElementOfSeq
<1>2. Prefix(s, n) \in Seq(S)
  BY <1>1, SubSeqProperties DEF Prefix
<1>3. SubSeq(s, 1, n) \o SubSeq(s, n + 1, Len(s)) = SubSeq(s, 1, Len(s))
  <2>1. 1 \in 1..Len(s) + 1 /\ n \in 1 - 1..Len(s) /\ Len(s) \in n..Len(s)
    BY <1>1
  <2>2. QED
    BY <2>1, ConcatAdjacentSubSeq
<1>4. QED
  BY <1>2, <1>3, SubSeqFull DEF Prefix, Drop

(* A prefix that reaches its end, or is empty. *)
LEMMA DropAtEnds ==
    ASSUME NEW S, NEW s \in Seq(S)
    PROVE  /\ Drop(s, Len(s)) = <<>> /\ Prefix(s, 0) = <<>>
           /\ Drop(s, 0) = s /\ Prefix(s, Len(s)) = s
<1>1. Len(s) \in Nat
  BY LenProperties
<1>2. SubSeq(s, Len(s) + 1, Len(s)) = <<>> /\ SubSeq(s, 1, 0) = <<>>
  BY <1>1, SubSeqEmpty
<1>3. SubSeq(s, 0 + 1, Len(s)) = s /\ SubSeq(s, 1, Len(s)) = s
  BY SubSeqFull
<1>4. QED
  BY <1>2, <1>3 DEF Drop, Prefix

(* Dropping twice is dropping once. *)
LEMMA DropDrop ==
    ASSUME NEW S, NEW s \in Seq(S), NEW m \in 0..Len(s),
           NEW n \in 0..(Len(s) - m)
    PROVE  Drop(Drop(s, m), n) = Drop(s, m + n)
<1>1. Len(s) \in Nat
  BY LenProperties
<1>2. /\ Drop(s, m) \in Seq(S) /\ Len(Drop(s, m)) = Len(s) - m
      /\ \A i \in 1..(Len(s) - m) : Drop(s, m)[i] = s[m + i]
  BY DropProperties
<1>3. /\ Drop(Drop(s, m), n) \in Seq(S)
      /\ Len(Drop(Drop(s, m), n)) = Len(s) - m - n
      /\ \A i \in 1..(Len(s) - m - n) :
            Drop(Drop(s, m), n)[i] = Drop(s, m)[n + i]
  BY <1>2, DropProperties
<1>4. m + n \in 0..Len(s)
  BY <1>1
<1>5. /\ Drop(s, m + n) \in Seq(S) /\ Len(Drop(s, m + n)) = Len(s) - (m + n)
      /\ \A i \in 1..(Len(s) - (m + n)) : Drop(s, m + n)[i] = s[m + n + i]
  BY <1>4, DropProperties
<1>6. \A i \in 1..(Len(s) - m - n) :
         Drop(Drop(s, m), n)[i] = Drop(s, m + n)[i]
  <2> TAKE i \in 1..(Len(s) - m - n)
  <2>1. n + i \in 1..(Len(s) - m) /\ i \in 1..(Len(s) - (m + n))
    BY <1>1
  <2>2. Drop(Drop(s, m), n)[i] = s[m + (n + i)]
    BY <2>1, <1>2, <1>3
  <2>3. m + (n + i) = m + n + i
    BY <1>1
  <2>4. QED
    BY <2>1, <2>2, <2>3, <1>5
<1>7. Len(s) - m - n = Len(s) - (m + n)
  BY <1>1
<1>8. QED
  BY <1>3, <1>5, <1>6, <1>7, SeqEqual

(* What follows the same sequence can be told from it. *)
LEMMA CancelLeft ==
    ASSUME NEW S, NEW s \in Seq(S), NEW t \in Seq(S), NEW v \in Seq(S),
           s \o t = s \o v
    PROVE  t = v
<1>1. Len(s) \in Nat /\ Len(t) \in Nat /\ Len(v) \in Nat
  BY LenProperties
<1>2. /\ Len(s \o t) = Len(s) + Len(t)
      /\ \A i \in 1..Len(s) + Len(t) :
            (s \o t)[i] = IF i <= Len(s) THEN s[i] ELSE t[i - Len(s)]
  BY ConcatProperties
<1>3. /\ Len(s \o v) = Len(s) + Len(v)
      /\ \A i \in 1..Len(s) + Len(v) :
            (s \o v)[i] = IF i <= Len(s) THEN s[i] ELSE v[i - Len(s)]
  BY ConcatProperties
<1>4. Len(t) = Len(v)
  BY <1>1, <1>2, <1>3
<1>5. \A i \in 1..Len(t) : t[i] = v[i]
  <2> TAKE i \in 1..Len(t)
  <2>1. /\ Len(s) + i \in 1..Len(s) + Len(t) /\ ~(Len(s) + i <= Len(s))
        /\ Len(s) + i - Len(s) = i
    BY <1>1
  <2>2. (s \o t)[Len(s) + i] = t[i]
    BY <1>2, <2>1
  <2>3. (s \o v)[Len(s) + i] = v[i]
    BY <1>3, <1>4, <2>1
  <2>4. QED
    BY <2>2, <2>3
<1>6. QED
  BY <1>4, <1>5, SeqEqual

(* Dropping within the first of two sequences. *)
LEMMA DropFirst ==
    ASSUME NEW S, NEW s \in Seq(S), NEW t \in Seq(S), NEW n \in 0..Len(s)
    PROVE  Drop(s \o t, n) = Drop(s, n) \o t
<1>1. /\ Prefix(s, n) \in Seq(S) /\ Drop(s, n) \in Seq(S)
      /\ Prefix(s, n) \o Drop(s, n) = s
  BY PrefixAndDrop, DropProperties
<1>2. Len(s) \in Nat /\ Len(t) \in Nat /\ Len(s \o t) = Len(s) + Len(t)
      /\ s \o t \in Seq(S)
  BY LenProperties, ConcatProperties
<1>3. n \in 0..Len(s \o t)
  BY <1>2
<1>4. Prefix(s \o t, n) = Prefix(s, n)
  <2>1. CASE n = 0
    BY <2>1, <1>2, DropAtEnds
  <2>2. CASE n # 0
    <3>1. n \in 1..Len(s) /\ 1 \in 1..Len(s)
      BY <2>2, <1>2
    <3>2. QED
      BY <3>1, SubSeqOfConcat1 DEF Prefix
  <2>3. QED
    BY <2>1, <2>2
<1>5. Prefix(s, n) \o Drop(s \o t, n) = s \o t
  BY <1>2, <1>3, <1>4, PrefixAndDrop
<1>6. Prefix(s, n) \o (Drop(s, n) \o t) = s \o t
  <2>1. (Prefix(s, n) \o Drop(s, n)) \o t = Prefix(s, n) \o (Drop(s, n) \o t)
    <3>1. Prefix(s, n) \in Seq(S) /\ Drop(s, n) \in Seq(S)
      BY <1>1
    <3>2. QED
      BY <3>1, ConcatAssociative
  <2>2. QED
    BY <1>1, <2>1
<1>7. Drop(s \o t, n) \in Seq(S) /\ Drop(s, n) \o t \in Seq(S)
  BY <1>1, <1>2, <1>3, DropProperties, ConcatProperties
<1>8. QED
  BY <1>1, <1>5, <1>6, <1>7, CancelLeft

(* Dropping the first of two sequences and some of the second. *)
LEMMA DropSecond ==
    ASSUME NEW S, NEW s \in Seq(S), NEW t \in Seq(S), NEW n \in 0..Len(t)
    PROVE  Drop(s \o t, Len(s) + n) = Drop(t, n)
<1>1. Len(s) \in Nat /\ Len(t) \in Nat /\ Len(s \o t) = Len(s) + Len(t)
      /\ s \o t \in Seq(S)
  BY LenProperties, ConcatProperties
<1>2. Drop(s \o t, Len(s)) = t
  <2>1. Len(s) \in 0..Len(s)
    BY <1>1
  <2>2. Drop(s \o t, Len(s)) = Drop(s, Len(s)) \o t
    BY <2>1, DropFirst
  <2>3. QED
    BY <2>2, DropAtEnds, ConcatEmptySeq
<1>3. Len(s) \in 0..Len(s \o t) /\ n \in 0..(Len(s \o t) - Len(s))
  BY <1>1
<1>4. QED
  BY <1>1, <1>2, <1>3, DropDrop

-----------------------------------------------------------------------------
(* The inductive invariant: each buffer is exact, and holds bytes, which    *)
(* the facts on sequences need.                                             *)
TrimInv ==
    /\ input \in Seq(Bytes) /\ trimmed \in Seq(Bytes) /\ tail \in Seq(Bytes)
    /\ TrimExact

WindowInv ==
    /\ past \in Seq(Bytes) /\ window \in Seq(Bytes)
    /\ WindowExact

(* Nothing was written yet. *)
LEMMA EmptyExact ==
    /\ <<>> \in Seq(Bytes) /\ <<>> \o <<>> = <<>>
    /\ Len(<<>>) = Least(4, Len(<<>>))
    /\ Len(<<>>) = Least(WindowSize, Len(<<>>))
    /\ Drop(<<>>, Len(<<>>) - Len(<<>>)) = <<>>
<1>1. <<>> \in Seq(Bytes) /\ <<>> \o <<>> = <<>> /\ Len(<<>>) = 0
  BY EmptySeq, ConcatEmptySeq
<1>2. Least(4, 0) = 0 /\ Least(WindowSize, 0) = 0
  BY WindowSizeAssumption DEF Least
<1>3. Drop(<<>>, 0) = <<>>
  BY <1>1, DropAtEnds
<1>4. 0 - 0 = 0
  OBVIOUS
<1>5. QED
  BY <1>1, <1>2, <1>3, <1>4

LEMMA LeastIsFirst ==
    ASSUME NEW a \in Int, NEW b \in Int, a <= b
    PROVE  Least(a, b) = a
BY DEF Least

LEMMA LeastIsSecond ==
    ASSUME NEW a \in Int, NEW b \in Int, b <= a
    PROVE  Least(a, b) = b
BY DEF Least

(* Everything fits the tail. *)
LEMMA TrimShortStep ==
    ASSUME TrimInv, NEW p \in Seq(Bytes), input' = input \o p, TrimShort(p)
    PROVE  TrimInv'
<1>1. /\ input \in Seq(Bytes) /\ trimmed \in Seq(Bytes) /\ tail \in Seq(Bytes)
      /\ trimmed \o tail = input /\ Len(tail) = Least(4, Len(input))
  BY DEF TrimInv, TrimExact
<1>2. Len(tail) + Len(p) <= 4 /\ tail' = tail \o p /\ trimmed' = trimmed
  BY DEF TrimShort
<1>3. /\ tail \o p \in Seq(Bytes) /\ Len(tail \o p) = Len(tail) + Len(p)
      /\ input \o p \in Seq(Bytes) /\ Len(input \o p) = Len(input) + Len(p)
  BY <1>1, ConcatProperties
<1>4. trimmed \o (tail \o p) = input \o p
  <2>1. (trimmed \o tail) \o p = trimmed \o (tail \o p)
    <3>1. trimmed \in Seq(Bytes) /\ tail \in Seq(Bytes)
      BY <1>1
    <3>2. QED
      BY <3>1, ConcatAssociative
  <2>2. QED
    BY <1>1, <2>1
<1>5. Len(tail \o p) = Least(4, Len(input \o p))
  <2>1. Len(input) \in Nat /\ Len(tail) \in Nat /\ Len(p) \in Nat
    BY <1>1, LenProperties
  <2>2. QED
    BY <2>1, <1>1, <1>2, <1>3 DEF Least
<1>6. QED
  BY <1>1, <1>2, <1>3, <1>4, <1>5 DEF TrimInv, TrimExact

LEMMA InputAssociates ==
    ASSUME NEW s \in Seq(Bytes), NEW t \in Seq(Bytes), NEW u \in Seq(Bytes)
    PROVE  (s \o t) \o u = s \o (t \o u)
  BY ConcatAssociative

(* The front of the tail is passed on, and the front of p: one of them, at  *)
(* least, whole or empty, so that no byte overtakes another.                *)
LEMMA TrimLongStep ==
    ASSUME TrimInv, NEW p \in Seq(Bytes), input' = input \o p, TrimLong(p)
    PROVE  TrimInv'
<1> DEFINE extra == Least(Len(tail) + Len(p) - 4, Len(tail))
           rest == Len(p) - Least(Len(p), 4)
<1>1. /\ input \in Seq(Bytes) /\ trimmed \in Seq(Bytes) /\ tail \in Seq(Bytes)
      /\ trimmed \o tail = input /\ Len(tail) = Least(4, Len(input))
  BY DEF TrimInv, TrimExact
<1>2. /\ Len(tail) + Len(p) > 4
      /\ trimmed' = trimmed \o Prefix(tail, extra) \o Prefix(p, rest)
      /\ tail' = Drop(tail, extra) \o Drop(p, rest)
  BY DEF TrimLong
<1>3. Len(input) \in Nat /\ Len(tail) \in Nat /\ Len(p) \in Nat
  BY <1>1, LenProperties
<1>4. input \o p \in Seq(Bytes) /\ Len(input \o p) = Len(input) + Len(p)
  BY <1>1, ConcatProperties
<1>5. Least(4, Len(input \o p)) = 4
  BY <1>1, <1>2, <1>3, <1>4 DEF Least
<1>6. extra \in 0..Len(tail) /\ rest \in 0..Len(p)
  BY <1>2, <1>3 DEF Least
<1>7. /\ Prefix(tail, extra) \in Seq(Bytes) /\ Drop(tail, extra) \in Seq(Bytes)
      /\ Prefix(tail, extra) \o Drop(tail, extra) = tail
      /\ Len(Drop(tail, extra)) = Len(tail) - extra
  BY <1>1, <1>6, PrefixAndDrop, DropProperties
<1>8. /\ Prefix(p, rest) \in Seq(Bytes) /\ Drop(p, rest) \in Seq(Bytes)
      /\ Prefix(p, rest) \o Drop(p, rest) = p
      /\ Len(Drop(p, rest)) = Len(p) - rest
  BY <1>6, PrefixAndDrop, DropProperties
<1>9. Drop(tail, extra) = <<>> \/ Prefix(p, rest) = <<>>
  <2>1. extra = Len(tail) \/ rest = 0
    BY <1>2, <1>3 DEF Least
  <2>2. Drop(tail, Len(tail)) = <<>> /\ Prefix(p, 0) = <<>>
    BY <1>1, DropAtEnds
  <2>3. QED
    BY <2>1, <2>2
<1>10. Len(tail) - extra + (Len(p) - rest) = 4
  BY <1>2, <1>3 DEF Least
<1> HIDE DEF extra, rest
<1>11. /\ trimmed' \in Seq(Bytes) /\ tail' \in Seq(Bytes)
       /\ Len(tail') = 4
  <2>1. PICK a \in Seq(Bytes) : a = Prefix(tail, extra)
    BY <1>7
  <2>2. PICK b \in Seq(Bytes) : b = Prefix(p, rest)
    BY <1>8
  <2>3. PICK c \in Seq(Bytes) : c = Drop(tail, extra)
    BY <1>7
  <2>4. PICK d \in Seq(Bytes) : d = Drop(p, rest)
    BY <1>8
  <2>5. trimmed \o a \in Seq(Bytes)
    BY <1>1, ConcatProperties, Zenon
  <2>6. (trimmed \o a) \o b \in Seq(Bytes)
    BY <2>5, ConcatProperties, Zenon
  <2>7. c \o d \in Seq(Bytes) /\ Len(c \o d) = Len(c) + Len(d)
    BY ConcatProperties, Zenon
  <2>8. Len(c) + Len(d) = 4
    BY <1>7, <1>8, <1>10, <2>3, <2>4, Zenon
  <2>9. trimmed' = (trimmed \o a) \o b /\ tail' = c \o d
    BY <1>2, <2>1, <2>2, <2>3, <2>4, Zenon
  <2> QED
    BY <2>6, <2>7, <2>8, <2>9, Zenon
<1>12. trimmed' \o tail' = input \o p
  <2> DEFINE A == Prefix(tail, extra)
             B == Drop(tail, extra)
             C == Prefix(p, rest)
             D == Drop(p, rest)
             X == trimmed \o A
             Y == B \o D
  <2>1. /\ trimmed \in Seq(Bytes) /\ A \in Seq(Bytes) /\ B \in Seq(Bytes)
        /\ C \in Seq(Bytes) /\ D \in Seq(Bytes)
        /\ A \o B = tail /\ C \o D = p
        /\ B = <<>> \/ C = <<>>
    BY <1>1, <1>7, <1>8, <1>9
  <2>2. trimmed' \o tail' = (X \o C) \o Y
    BY <1>2
  <2> HIDE DEF A, B, C, D
  <2>3. X \in Seq(Bytes) /\ Y \in Seq(Bytes)
    BY <2>1, ConcatProperties
  <2>4. C \o Y = B \o p
    <3>1. CASE B = <<>>
      BY <3>1, <2>1, ConcatEmptySeq
    <3>2. CASE C = <<>>
      <4>1. D = p
        BY <2>1, <3>2, ConcatEmptySeq
      <4> HIDE DEF Y
      <4>2. C \o Y = Y
        BY <2>3, <3>2, ConcatEmptySeq
      <4>3. QED
        BY <4>1, <4>2 DEF Y
    <3>3. QED
      BY <2>1, <3>1, <3>2
  <2>5. X \o B = trimmed \o tail
    <3>1. trimmed \in Seq(Bytes) /\ A \in Seq(Bytes) /\ B \in Seq(Bytes)
      BY <2>1
    <3> HIDE DEF A, B
    <3>2. (trimmed \o A) \o B = trimmed \o (A \o B)
      BY <3>1, InputAssociates, Zenon
    <3>3. QED
      BY <2>1, <3>2
  <2> HIDE DEF X, Y
  <2>6. (X \o C) \o Y = X \o (C \o Y)
    <3>1. X \in Seq(Bytes) /\ C \in Seq(Bytes) /\ Y \in Seq(Bytes)
      BY <2>1, <2>3
    <3>2. QED
      BY <3>1, InputAssociates, Zenon
  <2>7. (X \o B) \o p = X \o (B \o p)
    <3>1. X \in Seq(Bytes) /\ B \in Seq(Bytes)
      BY <2>1, <2>3
    <3>2. QED
      BY <3>1, InputAssociates, Zenon
  <2>8. QED
    BY <1>1, <2>2, <2>4, <2>5, <2>6, <2>7
<1>13. QED
  BY <1>4, <1>5, <1>11, <1>12 DEF TrimInv, TrimExact

(* The window is shifted by what it lacks room for. *)
LEMMA WindowShiftStep ==
    ASSUME WindowInv, NEW p \in Seq(Bytes), past' = past \o p, WindowShift(p)
    PROVE  WindowInv'
<1> DEFINE left == WindowSize - Len(window)
           needed == IF left < Len(p) THEN Len(p) - left ELSE 0
           gone == Len(past) - Len(window)
<1>1. /\ past \in Seq(Bytes) /\ window \in Seq(Bytes)
      /\ Len(window) = Least(WindowSize, Len(past))
      /\ window = Drop(past, gone)
  BY DEF WindowInv, WindowExact
<1>2. Len(p) < WindowSize /\ window' = Drop(window, needed) \o p
  BY DEF WindowShift
<1>3. Len(past) \in Nat /\ Len(window) \in Nat /\ Len(p) \in Nat
  BY <1>1, LenProperties
<1>4. /\ gone \in 0..Len(past)
      /\ needed \in 0..Len(window) /\ needed \in 0..(Len(past) - gone)
      /\ gone + needed \in 0..Len(past)
  <2>1. /\ WindowSize \in Nat /\ Len(window) <= WindowSize
        /\ Len(window) <= Len(past)
    BY <1>1, <1>3, WindowSizeAssumption DEF Least
  <2>2. gone \in 0..Len(past)
    BY <1>3, <2>1
  <2>3. needed \in 0..Len(window)
    BY <1>2, <1>3, <2>1
  <2>4. QED
    BY <1>3, <2>1, <2>2, <2>3
<1>5. past \o p \in Seq(Bytes) /\ Len(past \o p) = Len(past) + Len(p)
  BY <1>1, ConcatProperties
<1>6. /\ Drop(window, needed) \in Seq(Bytes)
      /\ Len(Drop(window, needed)) = Len(window) - needed
  BY <1>1, <1>4, DropProperties
<1>7. window' \in Seq(Bytes) /\ Len(window') = Len(window) - needed + Len(p)
  BY <1>2, <1>6, ConcatProperties
<1>8. Len(window') = Least(WindowSize, Len(past'))
  <2>1. WindowSize \in Nat /\ Len(window) = Least(WindowSize, Len(past))
    BY <1>1, WindowSizeAssumption
  <2>2. CASE left < Len(p)
    <3>1. Len(window) - needed + Len(p) = WindowSize
      BY <1>3, <2>1, <2>2
    <3>2. WindowSize <= Len(past) + Len(p)
      BY <1>3, <2>1, <2>2 DEF Least
    <3>3. WindowSize = Least(WindowSize, Len(past) + Len(p))
      BY <1>3, <2>1, <3>2, LeastIsFirst
    <3>4. QED
      BY <1>5, <1>7, <3>1, <3>3
  <2>3. CASE ~(left < Len(p))
    <3>1. Len(window) - needed + Len(p) = Len(window) + Len(p)
      BY <1>3, <2>1, <2>3
    <3>2. Len(window) + Len(p) <= WindowSize
      BY <1>3, <2>1, <2>3
    <3>3. Len(window) + Len(p) = Least(WindowSize, Len(past) + Len(p))
      BY <1>3, <2>1, <3>2 DEF Least
    <3>4. QED
      BY <1>5, <1>7, <3>1, <3>3
  <2>4. QED
    BY <2>2, <2>3
<1>9. Len(past') - Len(window') = gone + needed
  <2>1. Len(past') = Len(past) + Len(p)
    BY <1>5
  <2>2. needed \in Int
    BY <1>4
  <2>3. (Len(past) + Len(p)) - (Len(window) - needed + Len(p)) = gone + needed
    <3> HIDE DEF needed
    <3> QED
      BY <1>3, <2>2
  <2> QED
    BY <1>7, <2>1, <2>3
<1> HIDE DEF left, needed, gone
<1>10. Drop(window, needed) = Drop(past, gone + needed)
  BY <1>1, <1>4, DropDrop
<1>11. Drop(past \o p, gone + needed) = Drop(past, gone + needed) \o p
  BY <1>1, <1>4, DropFirst
<1>12. QED
  BY <1>2, <1>5, <1>7, <1>8, <1>9, <1>10, <1>11 DEF WindowInv, WindowExact

(* The end of p fills the window. *)
LEMMA WindowReplaceStep ==
    ASSUME WindowInv, NEW p \in Seq(Bytes), past' = past \o p,
           WindowReplace(p)
    PROVE  WindowInv'
<1> DEFINE front == Len(p) - WindowSize
<1>1. past \in Seq(Bytes) /\ Len(past) \in Nat /\ Len(p) \in Nat
  BY LenProperties DEF WindowInv
<1>2. Len(p) >= WindowSize /\ window' = Drop(p, front)
  BY DEF WindowReplace
<1>3. front \in 0..Len(p)
  BY <1>1, <1>2, WindowSizeAssumption
<1>4. past \o p \in Seq(Bytes) /\ Len(past \o p) = Len(past) + Len(p)
  BY <1>1, ConcatProperties
<1>5. window' \in Seq(Bytes) /\ Len(window') = Len(p) - front
  BY <1>2, <1>3, DropProperties
<1>6. /\ Len(window') = Least(WindowSize, Len(past'))
      /\ Len(past') - Len(window') = Len(past) + front
  <2>1. Len(p) - front = Least(WindowSize, Len(past) + Len(p))
    BY <1>1, <1>2, WindowSizeAssumption DEF Least
  <2>2. Len(past) + Len(p) - (Len(p) - front) = Len(past) + front
    BY <1>1, <1>3
  <2>3. QED
    BY <1>4, <1>5, <2>1, <2>2
<1> HIDE DEF front
<1>7. Drop(past \o p, Len(past) + front) = Drop(p, front)
  BY <1>1, <1>3, DropSecond
<1>8. QED
  BY <1>2, <1>4, <1>5, <1>6, <1>7 DEF WindowInv, WindowExact

(* The invariant is inductive. *)
LEMMA InvStep ==
    TrimInv /\ WindowInv /\ [CompressNext]_<<trimVars, windowVars>>
        => TrimInv' /\ WindowInv'
<1> SUFFICES ASSUME TrimInv, WindowInv,
                    [CompressNext]_<<trimVars, windowVars>>
             PROVE  TrimInv' /\ WindowInv'
  OBVIOUS
<1>1. UNCHANGED trimVars => TrimInv'
  BY DEF trimVars, TrimInv, TrimExact
<1>2. UNCHANGED windowVars => WindowInv'
  BY DEF windowVars, WindowInv, WindowExact
<1>3. ASSUME NEW p \in Writes, TrimWrite(p)
      PROVE  TrimInv' /\ WindowInv'
  <2>1. p \in Seq(Bytes)
    BY WritesAssumption
  <2>2. QED
    BY <2>1, <1>2, <1>3, TrimShortStep, TrimLongStep DEF TrimWrite
<1>4. ASSUME NEW p \in Writes, WindowWrite(p)
      PROVE  TrimInv' /\ WindowInv'
  <2>1. p \in Seq(Bytes)
    BY WritesAssumption
  <2>2. QED
    BY <2>1, <1>1, <1>4, WindowShiftStep, WindowReplaceStep DEF WindowWrite
<1>5. CASE TrimReset
  BY <1>2, <1>5, EmptyExact DEF TrimReset, TrimInv, TrimExact
<1>6. CASE WindowClose
  BY <1>1, <1>6, EmptyExact DEF WindowClose, WindowInv, WindowExact
<1>7. CASE UNCHANGED <<trimVars, windowVars>>
  BY <1>1, <1>2, <1>7
<1>8. QED
  BY <1>3, <1>4, <1>5, <1>6, <1>7 DEF CompressNext

-----------------------------------------------------------------------------
(* Whatever the bytes, the writes and the capacity: all of a compressed     *)
(* message but its last four bytes is passed on in order, and the window is *)
(* the end of what was read (compress.go:76-135,196-234).                   *)
THEOREM BuffersExact == CompressSpec => []CompressExact
<1>1. CompressInit => TrimInv /\ WindowInv
  BY EmptyExact
     DEF CompressInit, TrimInv, WindowInv, TrimExact, WindowExact
<1>2. TrimInv /\ WindowInv => CompressExact
  BY DEF TrimInv, WindowInv, CompressExact
<1>3. QED
  BY <1>1, <1>2, InvStep, PTL DEF CompressSpec

-----------------------------------------------------------------------------
(* Masking. *)

(* The byte of the key for the byte at a position. *)
KeyByte(i) == MaskKey[1 + ((i - 1) % 4)]

(* The key, turned as far as the bytes before a position turn it. *)
Turned(pos) == [j \in 1..4 |-> KeyByte(pos + j)]

LEMMA KeyByteType ==
    ASSUME NEW i \in Int
    PROVE  KeyByte(i) \in SUBSET Int
<1>1. 1 + ((i - 1) % 4) \in 1..4
  OBVIOUS
<1>2. \A j \in 1..4 : MaskKey[j] \in SUBSET Int
  BY DEF MaskKey
<1> QED
  BY <1>1, <1>2 DEF KeyByte

(* Positions that are a multiple of four apart have the same byte. *)
LEMMA KeyByteMod ==
    ASSUME NEW i \in Int, NEW j \in Int, (i - 1) % 4 = (j - 1) % 4
    PROVE  KeyByte(i) = KeyByte(j)
  BY DEF KeyByte

LEMMA TurnedType ==
    ASSUME NEW pos \in Nat
    PROVE  Turned(pos) \in Seq(SUBSET Int) /\ Len(Turned(pos)) = 4
<1>3. Turned(pos) \in [1..4 -> SUBSET Int]
  BY KeyByteType DEF Turned
<1>4. PICK n \in Nat : n = 4
  OBVIOUS
<1>5. PICK k \in [1..n -> SUBSET Int] : k = Turned(pos)
  BY <1>3, <1>4
<1>6. k \in Seq(SUBSET Int) /\ Len(k) = n
  OBVIOUS
<1> QED
  BY <1>4, <1>5, <1>6

LEMMA FourRotated ==
    ASSUME NEW S, NEW k \in Seq(S), Len(k) = 4
    PROVE  /\ RotateLeft32by24(k) \in Seq(S) /\ Len(RotateLeft32by24(k)) = 4
           /\ RotateLeft32by24(k)[1] = k[2] /\ RotateLeft32by24(k)[2] = k[3]
           /\ RotateLeft32by24(k)[3] = k[4] /\ RotateLeft32by24(k)[4] = k[1]
<1>1. k # <<>>
  <2>1. PICK n \in Nat : n = Len(k) /\ n > 0
    OBVIOUS
  <2> QED
    BY <2>1, EmptySeq
<1>2. PICK u \in Seq(S) : /\ u = Tail(k) /\ Len(u) = 3
                         /\ u[1] = k[2] /\ u[2] = k[3] /\ u[3] = k[4]
  <2>1. Tail(k) \in Seq(S) /\ Len(Tail(k)) = 3
    BY <1>1, HeadTailProperties
  <2>2. \A i \in 1..3 : Tail(k)[i] = k[i + 1]
    BY <1>1, <2>1, HeadTailProperties
  <2>3. /\ 1 \in 1..3 /\ 2 \in 1..3 /\ 3 \in 1..3
        /\ 1 + 1 = 2 /\ 2 + 1 = 3 /\ 3 + 1 = 4
    OBVIOUS
  <2>4. /\ Tail(k)[1] = k[1 + 1] /\ Tail(k)[2] = k[2 + 1]
        /\ Tail(k)[3] = k[3 + 1]
    BY <2>2, <2>3, Zenon
  <2>5. Tail(k)[1] = k[2] /\ Tail(k)[2] = k[3] /\ Tail(k)[3] = k[4]
    BY <2>3, <2>4, Zenon
  <2> QED
    BY <2>1, <2>5
<1>3. PICK v \in Seq(S) : v = <<Head(k)>> /\ Len(v) = 1 /\ v[1] = k[1]
  <2>1. Head(k) \in S /\ Head(k) = k[1]
    BY <1>1, HeadTailProperties
  <2>2. <<Head(k)>> \in Seq(S)
    BY <2>1
  <2> QED
    BY <2>1, <2>2
<1>4. /\ u \o v \in Seq(S) /\ Len(u \o v) = 4
      /\ \A i \in 1..4 : (u \o v)[i] = IF i <= 3 THEN u[i] ELSE v[i - 3]
  BY <1>2, <1>3, ConcatProperties
<1>5. /\ (u \o v)[1] = u[1] /\ (u \o v)[2] = u[2] /\ (u \o v)[3] = u[3]
      /\ (u \o v)[4] = v[1]
  BY <1>4
<1> QED
  BY <1>2, <1>3, <1>4, <1>5 DEF RotateLeft32by24

LEMMA OneTurn ==
    ASSUME NEW pos \in Nat
    PROVE  RotateLeft32by24(Turned(pos)) = Turned(pos + 1)
<1>1. PICK k \in Seq(SUBSET Int) : k = Turned(pos) /\ Len(k) = 4
  BY TurnedType
<1>2. PICK r \in Seq(SUBSET Int) :
         /\ r = RotateLeft32by24(k) /\ Len(r) = 4
         /\ r[1] = k[2] /\ r[2] = k[3] /\ r[3] = k[4] /\ r[4] = k[1]
  BY <1>1, FourRotated
<1>4. PICK t \in Seq(SUBSET Int) : t = Turned(pos + 1) /\ Len(t) = 4
  BY TurnedType
<1>5. /\ k[2] = KeyByte(pos + 2) /\ k[3] = KeyByte(pos + 3)
      /\ k[4] = KeyByte(pos + 4) /\ k[1] = KeyByte(pos + 1)
  BY <1>1 DEF Turned
<1>6. /\ t[1] = KeyByte((pos + 1) + 1) /\ t[2] = KeyByte((pos + 1) + 2)
      /\ t[3] = KeyByte((pos + 1) + 3) /\ t[4] = KeyByte((pos + 1) + 4)
  BY <1>4 DEF Turned
<1>7. KeyByte((pos + 1) + 4) = KeyByte(pos + 1)
  <2>1. ((pos + 1) + 4 - 1) % 4 = ((pos + 1) - 1) % 4
    OBVIOUS
  <2> QED
    BY <2>1, KeyByteMod
<1>8. /\ (pos + 1) + 1 = pos + 2 /\ (pos + 1) + 2 = pos + 3
      /\ (pos + 1) + 3 = pos + 4
  OBVIOUS
<1>9. \A j \in 1..4 : r[j] = t[j]
  <2>1. r[1] = t[1] /\ r[2] = t[2] /\ r[3] = t[3] /\ r[4] = t[4]
    BY <1>2, <1>5, <1>6, <1>7, <1>8
  <2> TAKE j \in 1..4
  <2>2. j = 1 \/ j = 2 \/ j = 3 \/ j = 4
    OBVIOUS
  <2> QED
    BY <2>1, <2>2, Zenon
<1> QED
  BY <1>1, <1>2, <1>4, <1>9, SeqEqual

(* Turning the key by four bytes is not turning it. *)
LEMMA TurnedMod ==
    ASSUME NEW pos \in Nat, NEW n \in Nat
    PROVE  Turned(pos + (n % 4)) = Turned(pos + n)
<1>1. \A j \in 1..4 : (pos + (n % 4) + j - 1) % 4 = (pos + n + j - 1) % 4
  OBVIOUS
<1>2. \A j \in 1..4 : KeyByte(pos + (n % 4) + j) = KeyByte(pos + n + j)
  BY <1>1, KeyByteMod
<1> QED
  BY <1>2 DEF Turned

LEMMA KeyRotated ==
    ASSUME NEW pos \in Nat, NEW b, Len(b) \in Nat
    PROVE  rotatedKey(b, Turned(pos)) = Turned(pos + Len(b))
<1> DEFINE After(w) ==
             w = [n \in 0..3 |-> IF n = 0 THEN Turned(pos)
                                 ELSE RotateLeft32by24(w[n-1])]
<1>1. PICK t : t = [n \in 0..3 |-> Turned(pos + n)]
  OBVIOUS
<1>2. ASSUME NEW n \in 0..3
      PROVE  t[n] = IF n = 0 THEN Turned(pos) ELSE RotateLeft32by24(t[n-1])
  <2>1. CASE n = 0
    BY <1>1, <2>1
  <2>2. CASE n # 0
    <3>1. /\ n - 1 \in 0..3 /\ pos + (n - 1) \in Nat
          /\ (pos + (n - 1)) + 1 = pos + n
      BY <2>2
    <3>2. t[n] = Turned(pos + n) /\ t[n-1] = Turned(pos + (n - 1))
      BY <1>1, <3>1
    <3> QED
      BY <2>2, <3>1, <3>2, OneTurn
  <2> QED
    BY <2>1, <2>2
<1>3. After(t)
  BY <1>1, <1>2
<1>4. PICK w : After(w) /\ rotatedKey(b, Turned(pos)) = w[Len(b) % 4]
  <2>1. rotatedKey(b, Turned(pos)) = (CHOOSE w : After(w))[Len(b) % 4]
    BY DEF rotatedKey
  <2> HIDE DEF After
  <2> QED
    BY <1>3, <2>1
<1>5. \A n \in 0..3 :
         w[n] = IF n = 0 THEN Turned(pos) ELSE RotateLeft32by24(w[n-1])
  BY <1>4
<1>6. w[0] = t[0] /\ w[1] = t[1] /\ w[2] = t[2] /\ w[3] = t[3]
  <2>1. w[0] = t[0]
    BY <1>2, <1>5
  <2>2. w[1] = t[1]
    BY <1>2, <1>5, <2>1
  <2>3. w[2] = t[2]
    BY <1>2, <1>5, <2>2
  <2>4. w[3] = t[3]
    BY <1>2, <1>5, <2>3
  <2> QED
    BY <2>1, <2>2, <2>3, <2>4
<1>7. Len(b) % 4 \in 0..3
  OBVIOUS
<1>8. w[Len(b) % 4] = t[Len(b) % 4]
  BY <1>6, <1>7
<1> QED
  BY <1>1, <1>4, <1>7, <1>8, TurnedMod

(* A piece at a position is masked with the key turned to it. *)
LEMMA PieceMasked ==
    ASSUME NEW pos \in Nat, NEW b \in Seq(SUBSET Int)
    PROVE  /\ maskedBytes(b, Turned(pos)) \in Seq(SUBSET Int)
           /\ Len(maskedBytes(b, Turned(pos))) = Len(b)
           /\ \A i \in 1..Len(b) :
                 maskedBytes(b, Turned(pos))[i] =
                    XorBytes(b[i], KeyByte(pos + i))
<1>1. PICK L \in Nat : L = Len(b)
  BY LenProperties
<1>2. PICK k : k = Turned(pos)
  OBVIOUS
<1>3. \A j \in 1..4 : k[j] = KeyByte(pos + j)
  BY <1>2 DEF Turned
<1>4. PICK W \in Nat : W = 4 * (L \div 4) /\ W % 4 = 0 /\ W <= L /\ L - W < 4
  OBVIOUS
<1>5. ASSUME NEW i \in 1..L
      PROVE  (IF i <= Words(b) THEN k[1 + ((i - 1) % 4)] ELSE k[i - Words(b)])
                = KeyByte(pos + i)
  <2>0. Words(b) = W
    BY <1>1, <1>4 DEF Words
  <2>1. CASE i <= W
    <3>1. PICK j \in 1..4 : j = 1 + ((i - 1) % 4)
      OBVIOUS
    <3>2. (pos + j - 1) % 4 = (pos + i - 1) % 4
      BY <3>1
    <3>3. KeyByte(pos + j) = KeyByte(pos + i)
      BY <3>2, KeyByteMod
    <3> QED
      BY <1>3, <2>0, <2>1, <3>1, <3>3
  <2>2. CASE ~(i <= W)
    <3>1. PICK j \in 1..4 : j = i - W
      BY <1>4, <2>2
    <3>2. (pos + j - 1) % 4 = (pos + i - 1) % 4
      BY <1>4, <3>1
    <3>3. KeyByte(pos + j) = KeyByte(pos + i)
      BY <3>2, KeyByteMod
    <3> QED
      BY <1>3, <2>0, <2>2, <3>1, <3>3
  <2> QED
    BY <2>1, <2>2
<1>6. PICK m : m = maskedBytes(b, k)
  OBVIOUS
<1>7. m = [i \in 1..L |->
             XorBytes(b[i], IF i <= Words(b) THEN k[1 + ((i - 1) % 4)]
                            ELSE k[i - Words(b)])]
  BY <1>1, <1>6 DEF maskedBytes
<1>8. \A i \in 1..L :
         m[i] = XorBytes(b[i], KeyByte(pos + i))
  BY <1>5, <1>7
<1>9. \A i \in 1..L : m[i] \in SUBSET Int
  <2> TAKE i \in 1..L
  <2>1. b[i] \in SUBSET Int
    BY <1>1, ElementOfSeq
  <2>2. KeyByte(pos + i) \in SUBSET Int
    BY KeyByteType
  <2> QED
    BY <1>8, <2>1, <2>2 DEF XorBytes
<1>10. m \in [1..L -> SUBSET Int]
  BY <1>7, <1>9
<1>11. m \in Seq(SUBSET Int) /\ Len(m) = L
  BY <1>10
<1> QED
  BY <1>1, <1>2, <1>6, <1>8, <1>11

MaskInv ==
    /\ wire \in Seq(SUBSET Int) /\ unmasked \in Seq(SUBSET Int)
    /\ Len(wire) <= PayloadSize /\ Len(unmasked) <= Len(wire)
    /\ sendKey = Turned(Len(wire)) /\ readKey = Turned(Len(unmasked))
    /\ \A i \in 1..Len(wire) :
          wire[i] = XorBytes({i}, KeyByte(i))
    /\ \A i \in 1..Len(unmasked) : unmasked[i] = {i}

LEMMA MaskInitInv == MaskInit => MaskInv
<1> SUFFICES ASSUME MaskInit PROVE MaskInv
  OBVIOUS
<1>1. MaskKey = Turned(0)
  <2>1. \A j \in 1..4 : 1 + ((0 + j - 1) % 4) = j
    OBVIOUS
  <2>2. MaskKey = [j \in 1..4 |-> MaskKey[j]]
    BY DEF MaskKey
  <2>3. \A j \in 1..4 : KeyByte(0 + j) = MaskKey[j]
    BY <2>1 DEF KeyByte
  <2> QED
    BY <2>2, <2>3 DEF Turned
<1> QED
  BY <1>1, PayloadAssumption DEF MaskInit, MaskInv

LEMMA SendInv ==
    ASSUME MaskInv, NEW n \in 1..PayloadSize, SendPiece(n)
    PROVE  MaskInv'
<1>1. PICK L \in Nat : L = Len(wire) /\ L + n <= PayloadSize
  BY LenProperties DEF MaskInv, SendPiece
<1>2. PICK b : b = SubSeq(Payload, L + 1, L + n)
  OBVIOUS
<1>3. /\ Payload \in Seq(SUBSET Int) /\ Len(Payload) = PayloadSize
      /\ \A i \in 1..PayloadSize : Payload[i] = {i}
  <2>1. Payload \in [1..PayloadSize -> SUBSET Int]
    BY DEF Payload
  <2> QED
    BY <2>1, PayloadAssumption DEF Payload
<1>4. /\ b \in Seq(SUBSET Int) /\ Len(b) = n
      /\ \A i \in 1..n : b[i] = {L + i}
  <2>1. n \in Nat /\ PayloadSize \in Nat
    BY PayloadAssumption
  <2>2. \A i \in 1..n : (L + 1) + i - 1 = L + i /\ L + i \in 1..PayloadSize
    BY <1>1, <2>1
  <2>3. \A i \in L + 1..L + n : Payload[i] \in SUBSET Int
    BY <1>1, <1>3, <2>1
  <2> QED
    BY <1>1, <1>2, <1>3, <2>1, <2>2, <2>3, SubSeqProperties
<1>5. PICK m : m = maskedBytes(b, Turned(L))
  OBVIOUS
<1>6. /\ m \in Seq(SUBSET Int) /\ Len(m) = n
      /\ \A i \in 1..n : m[i] = XorBytes(b[i], KeyByte(L + i))
  BY <1>4, <1>5, PieceMasked
<1>7. /\ wire' = wire \o m /\ sendKey' = Turned(L + n) /\ n \in Nat
      /\ UNCHANGED <<unmasked, readKey>>
  <2>1. sendKey = Turned(L) /\ n \in Nat
    BY <1>1, PayloadAssumption DEF MaskInv
  <2>2. rotatedKey(b, Turned(L)) = Turned(L + n)
    BY <1>4, <2>1, KeyRotated
  <2>3. mask(b, sendKey) = [bytes |-> m, key |-> Turned(L + n)]
    BY <1>5, <2>1, <2>2 DEF mask
  <2>4. PICK x : x = mask(SubSeq(Payload, Len(wire) + 1, Len(wire) + n),
                          sendKey)
    OBVIOUS
  <2>5. /\ wire' = wire \o x.bytes /\ sendKey' = x.key
        /\ UNCHANGED <<unmasked, readKey>>
    BY <2>4, Zenon DEF SendPiece
  <2>6. x = mask(b, sendKey)
    BY <1>1, <1>2, <2>4
  <2>7. x.bytes = m /\ x.key = Turned(L + n)
    BY <2>3, <2>6
  <2> QED
    BY <2>1, <2>5, <2>7
<1>8. wire' \in Seq(SUBSET Int) /\ Len(wire') = L + n
  BY <1>1, <1>6, <1>7, ConcatProperties DEF MaskInv
<1>9. ASSUME NEW i \in 1..(L + n)
      PROVE  wire'[i] = XorBytes({i}, KeyByte(i))
  <2>1. CASE i <= L
    <3>1. wire'[i] = wire[i]
      BY <1>1, <1>6, <1>7, <2>1, ConcatProperties DEF MaskInv
    <3> QED
      BY <1>1, <2>1, <3>1 DEF MaskInv
  <2>2. CASE ~(i <= L)
    <3>1. PICK j \in 1..n : i = L + j
      <4>1. i - L \in 1..n /\ i = L + (i - L)
        BY <1>7, <2>2
      <4> QED
        BY <4>1
    <3>2. wire'[i] = m[j]
      BY <1>1, <1>6, <1>7, <2>2, <3>1, ConcatProperties DEF MaskInv
    <3>3. b[j] = {i}
      BY <1>4, <3>1
    <3> QED
      BY <1>6, <3>1, <3>2, <3>3
  <2> QED
    BY <2>1, <2>2
<1>10. Len(unmasked) <= L + n
  <2>1. Len(unmasked) \in Nat /\ Len(unmasked) <= L
    BY <1>1, LenProperties DEF MaskInv
  <2> QED
    BY <1>7, <2>1
<1> QED
  BY <1>1, <1>7, <1>8, <1>9, <1>10 DEF MaskInv

(* Xoring the same byte twice undoes it. *)
LEMMA XorTwice ==
    ASSUME NEW a, NEW b
    PROVE  XorBytes(XorBytes(a, b), b) = a
  BY DEF XorBytes

LEMMA ReadInv ==
    ASSUME MaskInv, NEW n \in 1..PayloadSize, ReadPiece(n)
    PROVE  MaskInv'
<1>1. PICK L \in Nat : L = Len(unmasked) /\ L + n <= Len(wire)
  BY LenProperties DEF MaskInv, ReadPiece
<1>2. PICK W \in Nat : W = Len(wire)
  BY LenProperties DEF MaskInv
<1>3. PICK b : b = SubSeq(wire, L + 1, L + n)
  OBVIOUS
<1>4. /\ b \in Seq(SUBSET Int) /\ Len(b) = n
      /\ \A i \in 1..n :
            b[i] = XorBytes({L + i}, KeyByte(L + i))
  <2>1. n \in Nat /\ wire \in Seq(SUBSET Int)
    BY DEF MaskInv
  <2>2. \A i \in 1..n : (L + 1) + i - 1 = L + i /\ L + i \in 1..W
    BY <1>1, <1>2, <2>1
  <2>3. \A i \in L + 1..L + n : wire[i] \in SUBSET Int
    BY <1>1, <1>2, <2>1, ElementOfSeq
  <2>4. /\ b \in Seq(SUBSET Int) /\ Len(b) = n
        /\ \A i \in 1..n : b[i] = wire[L + i]
    BY <1>1, <1>2, <1>3, <2>1, <2>2, <2>3, SubSeqProperties
  <2> QED
    BY <1>2, <2>2, <2>4 DEF MaskInv
<1>5. PICK m : m = maskedBytes(b, Turned(L))
  OBVIOUS
<1>6. /\ m \in Seq(SUBSET Int) /\ Len(m) = n
      /\ \A i \in 1..n : m[i] = XorBytes(b[i], KeyByte(L + i))
  BY <1>4, <1>5, PieceMasked
<1>7. \A i \in 1..n : m[i] = {L + i}
  <2> TAKE i \in 1..n
  <2>1. m[i] = XorBytes(XorBytes({L + i}, KeyByte(L + i)), KeyByte(L + i))
    BY <1>4, <1>6
  <2> QED
    BY <2>1, XorTwice, Zenon
<1>8. /\ unmasked' = unmasked \o m /\ readKey' = Turned(L + n) /\ n \in Nat
      /\ UNCHANGED <<wire, sendKey>>
  <2>1. readKey = Turned(L) /\ n \in Nat
    BY <1>1, PayloadAssumption DEF MaskInv
  <2>2. rotatedKey(b, Turned(L)) = Turned(L + n)
    BY <1>4, <2>1, KeyRotated
  <2>3. mask(b, readKey) = [bytes |-> m, key |-> Turned(L + n)]
    BY <1>5, <2>1, <2>2 DEF mask
  <2>4. PICK x : x = mask(SubSeq(wire, Len(unmasked) + 1, Len(unmasked) + n),
                          readKey)
    OBVIOUS
  <2>5. /\ unmasked' = unmasked \o x.bytes /\ readKey' = x.key
        /\ UNCHANGED <<wire, sendKey>>
    BY <2>4, Zenon DEF ReadPiece
  <2>6. x = mask(b, readKey)
    BY <1>1, <1>3, <2>4
  <2>7. x.bytes = m /\ x.key = Turned(L + n)
    BY <2>3, <2>6
  <2> QED
    BY <2>1, <2>5, <2>7
<1>9. unmasked' \in Seq(SUBSET Int) /\ Len(unmasked') = L + n
  <2>1. unmasked \in Seq(SUBSET Int) /\ Len(unmasked) = L
    BY <1>1 DEF MaskInv
  <2>2. m \in Seq(SUBSET Int) /\ Len(m) = n /\ unmasked' = unmasked \o m
    BY <1>6, <1>8
  <2>3. /\ unmasked \o m \in Seq(SUBSET Int)
        /\ Len(unmasked \o m) = Len(unmasked) + Len(m)
    BY <2>1, <2>2, ConcatProperties, Zenon
  <2> QED
    BY <2>1, <2>2, <2>3, Zenon
<1>10. ASSUME NEW i \in 1..(L + n) PROVE unmasked'[i] = {i}
  <2>1. CASE i <= L
    <3>1. unmasked'[i] = unmasked[i]
      BY <1>1, <1>6, <1>8, <2>1, ConcatProperties DEF MaskInv
    <3> QED
      BY <1>1, <2>1, <3>1 DEF MaskInv
  <2>2. CASE ~(i <= L)
    <3>1. PICK j \in 1..n : i = L + j
      <4>1. i - L \in 1..n /\ i = L + (i - L)
        BY <1>8, <2>2
      <4> QED
        BY <4>1
    <3>2. unmasked'[i] = m[j]
      BY <1>1, <1>6, <1>8, <2>2, <3>1, ConcatProperties DEF MaskInv
    <3> QED
      BY <1>7, <3>1, <3>2
  <2> QED
    BY <2>1, <2>2
<1> QED
  BY <1>1, <1>8, <1>9, <1>10 DEF MaskInv

LEMMA MaskNextInv == MaskInv /\ [MaskNext]_maskVars => MaskInv'
<1> SUFFICES ASSUME MaskInv, [MaskNext]_maskVars PROVE MaskInv'
  OBVIOUS
<1>1. CASE MaskNext
  BY <1>1, SendInv, ReadInv DEF MaskNext
<1>2. CASE UNCHANGED maskVars
  BY <1>2 DEF MaskInv, maskVars
<1> QED
  BY <1>1, <1>2

LEMMA MaskingFromInv == MaskInv => MaskingExact
<1> SUFFICES ASSUME MaskInv PROVE MaskingExact
  OBVIOUS
<1>1. PICK W \in Nat : W = Len(wire) /\ W <= PayloadSize
  BY LenProperties DEF MaskInv
<1>2. PICK U \in Nat : U = Len(unmasked) /\ U <= PayloadSize
  <2>1. Len(unmasked) \in Nat /\ Len(unmasked) <= Len(wire)
    BY LenProperties DEF MaskInv
  <2> QED
    BY <1>1, <2>1, PayloadAssumption
<1>3. Payload \in Seq(SUBSET Int) /\ Len(Payload) = PayloadSize
      /\ \A i \in 1..PayloadSize : Payload[i] = {i}
  <2>1. Payload \in [1..PayloadSize -> SUBSET Int]
    BY DEF Payload
  <2> QED
    BY <2>1, PayloadAssumption DEF Payload
<1>4. WireIsMasked
  <2> SUFFICES ASSUME NEW i \in DOMAIN wire
               PROVE  wire[i] = XorBytes(Payload[i], MaskKey[1 + ((i - 1) % 4)])
    BY DEF WireIsMasked
  <2>1. i \in 1..W
    BY <1>1, LenProperties DEF MaskInv
  <2>2. i \in 1..PayloadSize
    BY <1>1, <2>1, PayloadAssumption
  <2> QED
    BY <1>1, <1>3, <2>1, <2>2 DEF MaskInv, KeyByte
<1>5. PayloadRestored
  <2>1. PICK p : p = SubSeq(Payload, 1, U)
    OBVIOUS
  <2>2. /\ p \in Seq(SUBSET Int) /\ Len(p) = U
        /\ \A i \in 1..U : p[i] = Payload[i]
    <3>1. \A i \in 1..U : i \in 1..PayloadSize /\ 1 + i - 1 = i
      BY <1>2, PayloadAssumption
    <3> QED
      BY <1>2, <1>3, <2>1, <3>1, SubSeqProperties, PayloadAssumption
  <2>3. \A i \in 1..U : unmasked[i] = p[i]
    <3> TAKE i \in 1..U
    <3>1. i \in 1..PayloadSize
      BY <1>2, PayloadAssumption
    <3> QED
      BY <1>2, <1>3, <2>2, <3>1 DEF MaskInv
  <2>4. unmasked = p
    BY <1>2, <2>2, <2>3, SeqEqual DEF MaskInv
  <2> QED
    BY <1>2, <2>1, <2>4 DEF PayloadRestored
<1> QED
  BY <1>4, <1>5 DEF MaskingExact

(* A payload of any length, masked and unmasked in any pieces: byte i on    *)
(* the wire is xored with byte i mod 4 of the key, and the server's user    *)
(* gets the payload (mask.go:12).                                           *)
THEOREM PiecesMaskedExactly == MaskSpec => []MaskingExact
<1>1. MaskInit => MaskInv
  BY MaskInitInv
<1>2. MaskInv /\ [MaskNext]_maskVars => MaskInv'
  BY MaskNextInv
<1>3. MaskInv => MaskingExact
  BY MaskingFromInv
<1> QED
  BY <1>1, <1>2, <1>3, PTL DEF MaskSpec

-----------------------------------------------------------------------------
(* Negotiation. *)

(* The first of a list's positions that are in a set. *)
LEMMA FirstIsIn ==
    ASSUME NEW S, NEW n \in Nat, S \subseteq 1..n, S # {}
    PROVE  First(S) \in S /\ \A i \in S : First(S) <= i
<1>1. \E i \in S : \A j \in S : i <= j
  BY NatMin
<1> QED
  BY <1>1 DEF First

RequestOK ==
    /\ request.sent
    /\ IsList(request.protocols) /\ IsList(request.extensions)
    /\ ~client.foreign =>
          request.extensions = IF client.mode = "disabled" THEN <<>>
                               ELSE <<Deflate(opts(client.mode))>>

GrantedExtensions ==
    IF selectDeflate.on THEN <<Deflate(selectDeflate.flags)>> ELSE <<>>

(* What a foreign end makes of an answer. *)
AnswersOptions ==
    IF answer.extensions = <<>> THEN NoOptions
    ELSE Options(answer.extensions[1].params \cap Flags)

AnswerOK ==
    /\ answer.sent
    /\ \/ /\ server.foreign
          /\ serverConn = NewConn(answer.protocol, AnswersOptions)
       \/ /\ ~server.foreign
          /\ answer.defect = "status" /\ serverConn = NoConn
       \/ /\ ~server.foreign
          /\ answer.protocol = selectSubprotocol
          /\ answer.extensions = GrantedExtensions
          /\ serverConn \in {NoConn, NewConn(selectSubprotocol, selectDeflate)}

ClientOK ==
    /\ answer.sent /\ answer.defect = "none"
    /\ \/ /\ client.foreign
          /\ clientConn = NewConn(answer.protocol, AnswersOptions)
       \/ /\ ~client.foreign /\ verifySubprotocol /\ verifyServerExtensions
          /\ clientConn = NewConn(answer.protocol, clientOptions)

NegInv ==
    /\ client \in Sides /\ server \in Sides
    /\ server.foreign => ~client.foreign
    /\ request = Unset \/ RequestOK
    /\ \/ answer = Unset /\ serverConn = NoConn /\ clientConn = NoConn
       \/ RequestOK /\ AnswerOK
    /\ clientConn = NoConn \/ ClientOK

LEMMA NegInitInv == NegInit => NegInv
  BY DEF NegInit, NegInv

LEMMA UnsetIsNot == ~Unset.sent /\ ~NoConn.made
  BY DEF Unset, NoConn

LEMMA RequestInv ==
    ASSUME NegInv, handshakeRequest \/ ForeignRequest
    PROVE  NegInv'
<1>1. ~request.sent /\ answer = Unset /\ serverConn = NoConn
      /\ clientConn = NoConn
  BY DEF NegInv, RequestOK, handshakeRequest, ForeignRequest
<1>2. UNCHANGED <<client, server, answer, clientConn, serverConn>>
  BY DEF handshakeRequest, ForeignRequest
<1>3. RequestOK'
  <2>1. CASE handshakeRequest
    <3>1. PICK e : e = IF client.mode = "disabled" THEN <<>>
                       ELSE <<Deflate(opts(client.mode))>>
      OBVIOUS
    <3>2. IsList(e)
      <4>1. PICK x : x = Deflate(opts(client.mode))
        OBVIOUS
      <4>2. IsList(<<>>) /\ IsList(<<x>>)
        BY DEF IsList
      <4> QED
        BY <3>1, <4>1, <4>2
    <3>3. request' = [sent |-> TRUE, defect |-> "none",
                      protocols |-> client.protocols, extensions |-> e]
      BY <2>1, <3>1 DEF handshakeRequest
    <3>4. IsList(client.protocols)
      BY ListsAssumption DEF NegInv, Sides
    <3>5. /\ request'.sent /\ request'.protocols = client.protocols
          /\ request'.extensions = e
      BY <3>3
    <3> QED
      BY <1>2, <3>1, <3>2, <3>4, <3>5, Zenon DEF RequestOK, opts
  <2>2. CASE ForeignRequest
    <3>1. PICK d \in RequestDefects, e \in ClientOffers :
             request' = [sent |-> TRUE, defect |-> d,
                         protocols |-> client.protocols, extensions |-> e]
      BY <2>2 DEF ForeignRequest
    <3>2. IsList(client.protocols) /\ IsList(e)
      BY ListsAssumption DEF NegInv, Sides
    <3>3. /\ request'.sent /\ request'.protocols = client.protocols
          /\ request'.extensions = e
      BY <3>1
    <3>4. client'.foreign
      BY <1>2, <2>2 DEF ForeignRequest
    <3> QED
      BY <3>2, <3>3, <3>4, Zenon DEF RequestOK
  <2> QED
    BY <2>1, <2>2
<1> QED
  BY <1>1, <1>2, <1>3 DEF NegInv

LEMMA AnswerInv ==
    ASSUME NegInv, AcceptFails \/ Accept \/ ForeignAccept
    PROVE  NegInv'
<1>1. request.sent /\ ~answer.sent
  BY DEF AcceptFails, Accept, ForeignAccept
<1>2. RequestOK /\ clientConn = NoConn
  BY <1>1, UnsetIsNot DEF NegInv, AnswerOK
<1>3. UNCHANGED <<client, server, request, clientConn>>
  BY DEF AcceptFails, Accept, ForeignAccept
<1>4. RequestOK'
  BY <1>2, <1>3 DEF RequestOK
<1>5. /\ selectSubprotocol' = selectSubprotocol
      /\ selectDeflate' = selectDeflate
      /\ GrantedExtensions' = GrantedExtensions
  BY <1>3 DEF selectSubprotocol, selectDeflate, GrantedExtensions, Common,
              Offered, opts
<1>6. AnswerOK'
  <2>1. CASE AcceptFails
    <3>1. answer'.sent /\ answer'.defect = "status"
      BY <2>1 DEF AcceptFails
    <3>2. ~server'.foreign /\ serverConn' = NoConn
      BY <1>1, <2>1, UnsetIsNot DEF AcceptFails, NegInv, AnswerOK
    <3> QED
      BY <3>1, <3>2 DEF AnswerOK
  <2>2. CASE Accept
    <3>1. answer' = [sent |-> TRUE, defect |-> "none",
                     protocol |-> selectSubprotocol,
                     extensions |-> GrantedExtensions]
      BY <2>2, Zenon DEF Accept, GrantedExtensions
    <3>2. /\ answer'.sent /\ answer'.protocol = selectSubprotocol
          /\ answer'.extensions = GrantedExtensions
      BY <3>1
    <3>3. /\ ~server'.foreign
          /\ serverConn' \in {NoConn, NewConn(selectSubprotocol, selectDeflate)}
      BY <1>3, <2>2 DEF Accept
    <3> QED
      BY <1>5, <3>2, <3>3, Zenon DEF AnswerOK
  <2>3. CASE ForeignAccept
    <3>1. PICK d, e, p :
             /\ answer' = [sent |-> TRUE, defect |-> d, protocol |-> p,
                           extensions |-> e]
             /\ serverConn' = NewConn(p, IF e = <<>> THEN NoOptions
                                         ELSE Options(e[1].params \cap Flags))
      BY <2>3 DEF ForeignAccept
    <3>2. answer'.sent /\ answer'.protocol = p /\ answer'.extensions = e
      BY <3>1
    <3>3. AnswersOptions' = IF e = <<>> THEN NoOptions
                            ELSE Options(e[1].params \cap Flags)
      BY <3>2, Zenon DEF AnswersOptions
    <3>4. server'.foreign
      BY <1>3, <2>3 DEF ForeignAccept
    <3> QED
      BY <3>1, <3>2, <3>3, <3>4, Zenon DEF AnswerOK
  <2> QED
    BY <2>1, <2>2, <2>3
<1> QED
  BY <1>2, <1>3, <1>4, <1>6 DEF NegInv

LEMMA VerifyInv ==
    ASSUME NegInv, verifyServerResponse \/ ForeignVerify
    PROVE  NegInv'
<1>1. /\ answer.sent /\ answer.defect = "none"
      /\ UNCHANGED <<client, server, request, answer, serverConn>>
  BY DEF verifyServerResponse, ForeignVerify
<1>2. RequestOK /\ AnswerOK
  BY <1>1, UnsetIsNot DEF NegInv
<1>3. RequestOK'
  BY <1>1, <1>2 DEF RequestOK
<1>4. /\ selectSubprotocol' = selectSubprotocol
      /\ selectDeflate' = selectDeflate
      /\ GrantedExtensions' = GrantedExtensions
  BY <1>1 DEF selectSubprotocol, selectDeflate, GrantedExtensions, Common,
              Offered, opts
<1>5. AnswersOptions' = AnswersOptions
  BY <1>1 DEF AnswersOptions
<1>6. AnswerOK'
  BY <1>1, <1>2, <1>4, <1>5 DEF AnswerOK
<1>7. ClientOK'
  <2>1. CASE verifyServerResponse
    <3>1. /\ ~client.foreign /\ verifySubprotocol /\ verifyServerExtensions
          /\ clientConn' = NewConn(answer.protocol, clientOptions)
      BY <2>1 DEF verifyServerResponse
    <3>2. /\ verifySubprotocol' /\ verifyServerExtensions'
          /\ clientOptions' = clientOptions
      BY <1>1, <3>1
         DEF verifySubprotocol, verifyServerExtensions, clientOptions, opts
    <3> QED
      BY <1>1, <3>1, <3>2, Zenon DEF ClientOK
  <2>2. CASE ForeignVerify
    BY <1>1, <1>5, <2>2, Zenon DEF ForeignVerify, ClientOK, AnswersOptions
  <2> QED
    BY <2>1, <2>2
<1> QED
  BY <1>1, <1>3, <1>6, <1>7 DEF NegInv

LEMMA NegNextInv == NegInv /\ [NegNext]_negVars => NegInv'
<1> SUFFICES ASSUME NegInv, [NegNext]_negVars PROVE NegInv'
  OBVIOUS
<1>1. CASE UNCHANGED negVars
  <2>1. UNCHANGED <<client, server, request, answer, clientConn, serverConn>>
    BY <1>1 DEF negVars
  <2>2. /\ selectSubprotocol' = selectSubprotocol
        /\ selectDeflate' = selectDeflate
    BY <2>1 DEF selectSubprotocol, selectDeflate, Common, Offered, opts
  <2>3. GrantedExtensions' = GrantedExtensions
    BY <2>2 DEF GrantedExtensions
  <2>4. AnswersOptions' = AnswersOptions
    BY <2>1 DEF AnswersOptions
  <2>5. RequestOK' <=> RequestOK
    BY <2>1 DEF RequestOK
  <2>6. AnswerOK' <=> AnswerOK
    BY <2>1, <2>2, <2>3, <2>4, Zenon DEF AnswerOK
  <2>7. verifySubprotocol' <=> verifySubprotocol
    BY <2>1 DEF verifySubprotocol
  <2>8. verifyServerExtensions' <=> verifyServerExtensions
    BY <2>1 DEF verifyServerExtensions
  <2>9. clientOptions' = clientOptions
    BY <2>1 DEF clientOptions
  <2>10. ClientOK' <=> ClientOK
    BY <2>1, <2>4, <2>7, <2>8, <2>9, Zenon DEF ClientOK
  <2> QED
    BY <2>1, <2>5, <2>6, <2>10, Zenon DEF NegInv
<1> QED
  BY <1>1, RequestInv, AnswerInv, VerifyInv DEF NegNext

(* What the server grants, if anything: an offer's flags and its own. *)
LEMMA DeflateGranted ==
    ASSUME RequestOK, selectDeflate.on
    PROVE  /\ server.mode # "disabled"
           /\ \E i \in DOMAIN request.extensions :
                 /\ acceptsDeflate(request.extensions[i])
                 /\ selectDeflate =
                       Options(opts(server.mode)
                               \cup (request.extensions[i].params \cap Flags))
<1>1. PICK granted : granted = {i \in DOMAIN request.extensions :
                                  acceptsDeflate(request.extensions[i])}
  OBVIOUS
<1>2. PICK n \in Nat : DOMAIN request.extensions = 1..n
  BY DEF RequestOK, IsList
<1>3. server.mode # "disabled" /\ granted # {}
  <2>1. CASE server.mode = "disabled" \/ granted = {}
    <3>1. selectDeflate = NoOptions
      BY <1>1, <2>1, Zenon DEF selectDeflate
    <3> QED
      BY <3>1 DEF NoOptions
  <2> QED
    BY <2>1
<1>4. First(granted) \in granted
  BY <1>1, <1>2, <1>3, FirstIsIn
<1>5. selectDeflate =
         Options(opts(server.mode)
                 \cup (request.extensions[First(granted)].params \cap Flags))
  BY <1>1, <1>3, Zenon DEF selectDeflate
<1> QED
  BY <1>1, <1>3, <1>4, <1>5

LEMMA SubprotocolOffered ==
    ASSUME NegInv, RequestOK
    PROVE  \/ selectSubprotocol = NoProtocol
           \/ \E i \in DOMAIN request.protocols :
                 selectSubprotocol = request.protocols[i]
<1> SUFFICES ASSUME Common # {}
             PROVE  \E i \in DOMAIN request.protocols :
                       selectSubprotocol = request.protocols[i]
  BY DEF selectSubprotocol
<1>1. PICK n \in Nat : DOMAIN request.protocols = 1..n
  BY DEF RequestOK, IsList
<1>2. PICK m \in Nat : DOMAIN server.protocols = 1..m
  BY ListsAssumption DEF NegInv, Sides, IsList
<1>3. First(Common) \in Common
  BY <1>2, FirstIsIn DEF Common
<1>4. /\ Offered(First(Common)) # {}
      /\ Offered(First(Common)) \subseteq DOMAIN request.protocols
  BY <1>3 DEF Common, Offered
<1>5. First(Offered(First(Common))) \in DOMAIN request.protocols
  BY <1>1, <1>4, FirstIsIn
<1> QED
  BY <1>5 DEF selectSubprotocol

LEMMA ConnFields ==
    ASSUME NEW p, NEW o
    PROVE  /\ NewConn(p, o).made /\ NewConn(p, o).protocol = p
           /\ NewConn(p, o).copts = o
  BY DEF NewConn

LEMMA OptionFields ==
    /\ ~NoOptions.on
    /\ \A f : Options(f).on /\ Options(f).flags = f
  BY DEF NoOptions, Options

LEMMA OfferedFromInv == NegInv => OnlyWhatWasOffered
<1> SUFFICES ASSUME NegInv PROVE OnlyWhatWasOffered
  OBVIOUS
<1>1. ASSUME serverConn.made, ~server.foreign
      PROVE  /\ \/ serverConn.protocol = NoProtocol
                \/ \E i \in DOMAIN request.protocols :
                      serverConn.protocol = request.protocols[i]
             /\ serverConn.copts.on =>
                   /\ server.mode # "disabled"
                   /\ \E i \in DOMAIN request.extensions :
                         /\ request.extensions[i].name = "permessage-deflate"
                         /\ "server_max_window_bits=10"
                               \notin request.extensions[i].params
                         /\ request.extensions[i].params \cap Flags
                               \subseteq serverConn.copts.flags
  <2>1. /\ RequestOK
        /\ serverConn = NewConn(selectSubprotocol, selectDeflate)
    BY <1>1, UnsetIsNot DEF NegInv, AnswerOK
  <2>2. /\ serverConn.protocol = selectSubprotocol
        /\ serverConn.copts = selectDeflate
    BY <2>1, ConnFields
  <2>3. ASSUME selectDeflate.on
        PROVE  /\ server.mode # "disabled"
               /\ \E i \in DOMAIN request.extensions :
                     /\ request.extensions[i].name = "permessage-deflate"
                     /\ "server_max_window_bits=10"
                           \notin request.extensions[i].params
                     /\ request.extensions[i].params \cap Flags
                           \subseteq selectDeflate.flags
    <3>1. PICK i \in DOMAIN request.extensions :
             /\ acceptsDeflate(request.extensions[i])
             /\ selectDeflate =
                   Options(opts(server.mode)
                           \cup (request.extensions[i].params \cap Flags))
      BY <2>1, <2>3, DeflateGranted
    <3>2. server.mode # "disabled"
      BY <2>1, <2>3, DeflateGranted
    <3>3. request.extensions[i].params \cap Flags \subseteq selectDeflate.flags
      BY <3>1, OptionFields
    <3>4. /\ request.extensions[i].name = "permessage-deflate"
          /\ "server_max_window_bits=10" \notin request.extensions[i].params
      BY <3>1 DEF acceptsDeflate, Grantable, Flags, ClientNo, ServerNo
    <3> QED
      BY <3>2, <3>3, <3>4
  <2> QED
    BY <2>1, <2>2, <2>3, SubprotocolOffered
<1>2. ASSUME clientConn.made, ~client.foreign
      PROVE  /\ \/ clientConn.protocol = NoProtocol
                \/ \E i \in DOMAIN client.protocols :
                      SameProtocol(clientConn.protocol, client.protocols[i])
             /\ clientConn.copts.on =>
                   /\ client.mode # "disabled"
                   /\ opts(client.mode) \subseteq clientConn.copts.flags
  <2>1. /\ verifySubprotocol /\ verifyServerExtensions
        /\ clientConn = NewConn(answer.protocol, clientOptions)
    BY <1>2, UnsetIsNot DEF NegInv, ClientOK
  <2>2. /\ clientConn.protocol = answer.protocol
        /\ clientConn.copts = clientOptions
    BY <2>1, ConnFields
  <2>3. \/ clientConn.protocol = NoProtocol
        \/ \E i \in DOMAIN client.protocols :
              SameProtocol(clientConn.protocol, client.protocols[i])
    BY <2>1, <2>2 DEF verifySubprotocol, SameProtocol
  <2>4. ASSUME clientOptions.on
        PROVE  /\ client.mode # "disabled"
               /\ opts(client.mode) \subseteq clientOptions.flags
    <3>1. answer.extensions # <<>>
      BY <2>4, OptionFields DEF clientOptions
    <3>2. client.mode # "disabled"
      BY <2>1, <3>1 DEF verifyServerExtensions
    <3>3. opts(client.mode) \subseteq clientOptions.flags
      BY <3>1, OptionFields DEF clientOptions
    <3> QED
      BY <3>2, <3>3
  <2> QED
    BY <2>2, <2>3, <2>4
<1> QED
  BY <1>1, <1>2 DEF OnlyWhatWasOffered

LEMMA NothingAtAll == \A i : i \notin DOMAIN <<>>
  OBVIOUS

(* A client of this library: what the server grants it are flags of the     *)
(* server and those it asked for, all of them.                              *)
LEMMA OwnOfferGranted ==
    ASSUME RequestOK, ~client.foreign, selectDeflate.on
    PROVE  selectDeflate = Options(opts(server.mode) \cup opts(client.mode))
<1>1. PICK i \in DOMAIN request.extensions :
         selectDeflate =
            Options(opts(server.mode)
                    \cup (request.extensions[i].params \cap Flags))
  BY DeflateGranted
<1>2. client.mode # "disabled"
        /\ request.extensions = <<Deflate(opts(client.mode))>>
  BY <1>1, NothingAtAll, Zenon DEF RequestOK
<1>3. i = 1
  BY <1>2
<1>4. request.extensions[i].params = opts(client.mode)
  BY <1>2, <1>3 DEF Deflate
<1>5. opts(client.mode) \cap Flags = opts(client.mode)
  BY DEF opts
<1> QED
  BY <1>1, <1>4, <1>5

LEMMA AgreeFromInv == NegInv => EndsAgree
<1> SUFFICES
      ASSUME NegInv, clientConn.made, serverConn.made, ServerKeepsRFC
      PROVE  /\ clientConn.protocol = serverConn.protocol
             /\ clientConn.copts.on = serverConn.copts.on
             /\ clientConn.copts.on =>
                /\ Understands(clientConn.copts, serverConn.copts, ClientNo)
                /\ Understands(serverConn.copts, clientConn.copts, ServerNo)
             /\ ~client.foreign /\ ~server.foreign
                   => clientConn.copts = serverConn.copts
  BY DEF EndsAgree, Established
<1>1. RequestOK /\ AnswerOK /\ ClientOK
  BY UnsetIsNot DEF NegInv
<1>2. PICK copts : clientConn = NewConn(answer.protocol, copts)
                   /\ copts \in {AnswersOptions, clientOptions}
  BY <1>1 DEF ClientOK
<1>3. clientConn.protocol = answer.protocol /\ clientConn.copts = copts
  BY <1>2, ConnFields
<1>4. PICK sopts : serverConn = NewConn(answer.protocol, sopts)
                   /\ sopts = IF server.foreign THEN AnswersOptions
                              ELSE selectDeflate
  BY <1>1, UnsetIsNot DEF AnswerOK
<1>5. serverConn.protocol = answer.protocol /\ serverConn.copts = sopts
  BY <1>4, ConnFields
<1>6. clientConn.copts = IF client.foreign THEN AnswersOptions
                         ELSE clientOptions
  BY <1>1, ConnFields DEF ClientOK
<1>7. CASE answer.extensions = <<>>
  <2>1. AnswersOptions = NoOptions /\ clientOptions = NoOptions
    BY <1>7 DEF AnswersOptions, clientOptions
  <2>2. sopts = NoOptions
    <3>1. CASE server.foreign
      BY <1>4, <2>1, <3>1
    <3>2. CASE ~server.foreign
      <4>1. answer.extensions = GrantedExtensions
        BY <1>1, <1>4, <3>2, UnsetIsNot, ConnFields DEF AnswerOK
      <4>2. ~selectDeflate.on
        <5>1. PICK x : x = Deflate(selectDeflate.flags)
          OBVIOUS
        <5>2. <<x>> # <<>>
          OBVIOUS
        <5> QED
          BY <1>7, <4>1, <5>1, <5>2, Zenon DEF GrantedExtensions
      <4> QED
        BY <1>4, <3>2, <4>2, OptionFields, Zenon DEF selectDeflate
    <3> QED
      BY <3>1, <3>2
  <2>3. clientConn.copts = NoOptions
    BY <1>6, <2>1
  <2> QED
    BY <1>3, <1>5, <2>2, <2>3, OptionFields
<1>8. CASE answer.extensions # <<>>
  <2>1. PICK F : F = answer.extensions[1].params \cap Flags
    OBVIOUS
  <2>2. /\ AnswersOptions = Options(F)
        /\ clientOptions = Options(opts(client.mode) \cup F)
    BY <1>8, <2>1 DEF AnswersOptions, clientOptions
  <2>3. CASE server.foreign
    <3>1. ~client.foreign /\ sopts = Options(F)
          /\ clientConn.copts = Options(opts(client.mode) \cup F)
      BY <1>4, <1>6, <2>2, <2>3 DEF NegInv
    <3>2. ASSUME ServerNo \notin F PROVE ServerNo \notin opts(client.mode)
      <4>1. PICK i \in DOMAIN request.extensions :
               ServerNo \in request.extensions[i].params => ServerNo \in F
        BY <1>8, <2>1, <2>3 DEF ServerKeepsRFC, Flags
      <4>2. request.extensions = <<Deflate(opts(client.mode))>>
        BY <1>1, <3>1, <4>1, NothingAtAll, Zenon DEF RequestOK
      <4>3. request.extensions[i].params = opts(client.mode)
        BY <4>2 DEF Deflate
      <4> QED
        BY <3>2, <4>1, <4>3
    <3> QED
      BY <1>3, <1>5, <2>3, <3>1, <3>2, OptionFields DEF Understands
  <2>4. CASE ~server.foreign
    <3>1. answer.extensions = GrantedExtensions
      BY <1>1, <1>4, <2>4, UnsetIsNot, ConnFields DEF AnswerOK
    <3>2. selectDeflate.on
          /\ answer.extensions = <<Deflate(selectDeflate.flags)>>
      BY <1>8, <3>1, Zenon DEF GrantedExtensions
    <3>3. PICK G \in SUBSET Flags :
             /\ selectDeflate = Options(G)
             /\ ~client.foreign => opts(client.mode) \subseteq G
      <4>1. PICK i \in DOMAIN request.extensions :
               selectDeflate =
                  Options(opts(server.mode)
                          \cup (request.extensions[i].params \cap Flags))
        BY <1>1, <3>2, DeflateGranted
      <4>2. /\ opts(server.mode) \subseteq Flags
            /\ opts(client.mode) \subseteq Flags
        BY DEF opts
      <4>3. CASE client.foreign
        BY <4>1, <4>2, <4>3
      <4>4. CASE ~client.foreign
        BY <1>1, <3>2, <4>2, <4>4, OwnOfferGranted
      <4> QED
        BY <4>3, <4>4
    <3>4. F = G
      <4>1. answer.extensions[1].params = selectDeflate.flags
        BY <3>2 DEF Deflate
      <4> QED
        BY <2>1, <3>3, <4>1, OptionFields
    <3>5. sopts = Options(G) /\ clientConn.copts = Options(G)
      <4>1. CASE client.foreign
        BY <1>4, <1>6, <2>2, <2>4, <3>3, <3>4, <4>1
      <4>2. CASE ~client.foreign
        <5>1. opts(client.mode) \cup G = G
          BY <3>3, <4>2
        <5> QED
          BY <1>4, <1>6, <2>2, <2>4, <3>3, <3>4, <4>2, <5>1
      <4> QED
        BY <4>1, <4>2
    <3> QED
      BY <1>3, <1>5, <3>5, OptionFields DEF Understands
  <2> QED
    BY <2>3, <2>4
<1> QED
  BY <1>7, <1>8

(* Two ends of this library with any options, or one and a foreign end that *)
(* keeps to RFC 7692: they use one subprotocol, both compress or neither,   *)
(* and each can read what the other compresses (accept.go, dial.go).        *)
THEOREM BothEndsAgree == NegSpec => []EndsAgree
<1>1. NegInit => NegInv
  BY NegInitInv
<1>2. NegInv /\ [NegNext]_negVars => NegInv'
  BY NegNextInv
<1>3. NegInv => EndsAgree
  BY AgreeFromInv
<1> QED
  BY <1>1, <1>2, <1>3, PTL DEF NegSpec

(* Whatever the other end sends: a side of this library uses only what the  *)
(* client offered and what it enabled itself (accept.go, dial.go).          *)
THEOREM NothingBeyondTheOffer == NegSpec => []OnlyWhatWasOffered
<1>1. NegInit => NegInv
  BY NegInitInv
<1>2. NegInv /\ [NegNext]_negVars => NegInv'
  BY NegNextInv
<1>3. NegInv => OnlyWhatWasOffered
  BY OfferedFromInv
<1> QED
  BY <1>1, <1>2, <1>3, PTL DEF NegSpec

-----------------------------------------------------------------------------
(* The buffered reader. *)

(* n bytes of the source, those after the first lo. *)
Run(lo, n) == [i \in 1..n |-> lo + i]

LEMMA RunType ==
    ASSUME NEW lo \in Nat, NEW n \in Nat
    PROVE  /\ Run(lo, n) \in Seq(Nat) /\ Len(Run(lo, n)) = n
           /\ \A i \in 1..n : Run(lo, n)[i] = lo + i
<1>0. Run(lo, n) \in [1..n -> Nat]
  BY DEF Run
<1>1. PICK r \in [1..n -> Nat] : r = Run(lo, n)
  BY <1>0
<1>2. r \in Seq(Nat) /\ Len(r) = n
  OBVIOUS
<1> QED
  BY <1>1, <1>2 DEF Run

LEMMA RunIs ==
    ASSUME NEW S, NEW s \in Seq(S), NEW lo \in Nat, NEW n \in Nat, Len(s) = n,
           \A i \in 1..n : s[i] = lo + i
    PROVE  s = Run(lo, n)
<1>1. s = [i \in 1..n |-> s[i]]
  BY LenProperties
<1> QED
  BY <1>1 DEF Run

LEMMA RunsMeet ==
    ASSUME NEW lo \in Nat, NEW m \in Nat, NEW n \in Nat
    PROVE  Run(lo, m) \o Run(lo + m, n) = Run(lo, m + n)
<1>0. lo + m \in Nat /\ m + n \in Nat
  OBVIOUS
<1>1. PICK a \in Seq(Nat) : a = Run(lo, m) /\ Len(a) = m
                           /\ \A i \in 1..m : a[i] = lo + i
  BY RunType
<1>2. PICK b \in Seq(Nat) : b = Run(lo + m, n) /\ Len(b) = n
                           /\ \A i \in 1..n : b[i] = (lo + m) + i
  BY <1>0, RunType
<1>3. a \o b \in Seq(Nat) /\ Len(a \o b) = m + n
  <2>1. a \in Seq(Nat) /\ b \in Seq(Nat) /\ Len(a) = m /\ Len(b) = n
    BY <1>1, <1>2
  <2> QED
    BY <2>1, ConcatProperties
<1>4. ASSUME NEW i \in 1..(m + n) PROVE (a \o b)[i] = lo + i
  <2>1. CASE i <= m
    BY <1>1, <1>2, <2>1, ConcatProperties
  <2>2. CASE ~(i <= m)
    <3>1. (a \o b)[i] = b[i - m]
      BY <1>1, <1>2, <2>2, ConcatProperties
    <3>2. i - m \in 1..n
      BY <2>2
    <3>3. b[i - m] = (lo + m) + (i - m)
      BY <1>2, <3>2
    <3>4. (lo + m) + (i - m) = lo + i
      OBVIOUS
    <3> QED
      BY <3>1, <3>3, <3>4
  <2> QED
    BY <2>1, <2>2
<1> QED
  BY <1>0, <1>1, <1>2, <1>3, <1>4, RunIs

LEMMA RunOrdered ==
    ASSUME NEW lo \in Nat, NEW n \in Nat
    PROVE  \A i \in 1..Len(Run(lo, n))-1 :
              Run(lo, n)[i+1] = Run(lo, n)[i] + 1
<1>1. PICK r \in Seq(Nat) : r = Run(lo, n) /\ Len(r) = n
                           /\ \A i \in 1..n : r[i] = lo + i
  BY RunType
<1>2. \A i \in 1..n-1 : i \in 1..n /\ i + 1 \in 1..n
  OBVIOUS
<1>3. \A i \in 1..n-1 : r[i+1] = r[i] + 1
  BY <1>1, <1>2
<1> QED
  BY <1>1, <1>3

Ops == [kind : OpKinds \cup {"none"}, n : 0..MaxBytes + 1,
        skipped : Seq(Nat), filled : BOOLEAN]

(* What the buffer holds is what the source returned and no call took. *)
BufferOK ==
    /\ buffer \in [1..BufSize -> 0..MaxBytes]
    /\ readPos \in 0..writePos /\ writePos \in 0..BufSize
    /\ err \in Errors \ {"bufferFull"}
    /\ sent \in 0..MaxBytes /\ ended \in BOOLEAN /\ taken \in 0..sent
    /\ \A i \in 1..Buffered : buffer[readPos + i] = taken + i
    /\ taken + Buffered = sent

(* What a Discard has skipped is what was taken last. *)
OpOK ==
    /\ op \in Ops
    /\ op.kind = "discard" =>
          \E k \in 0..taken : /\ op.skipped = Run(taken - k, k)
                              /\ k < op.n \/ k = 0

ResultOK ==
    /\ result.err \in Errors
    /\ \E lo, n \in Nat : result.bytes = Run(lo, n)

ReaderInv == BufferOK /\ OpOK /\ ResultOK

ErrorsStep ==
    result' # result =>
         /\ result'.kind \in {"read", "readByte", "discard"}
               /\ result'.n > 0 /\ result'.err # "nil" => taken' = sent'
         /\ result'.kind \in {"peek", "discard"} =>
               (Len(result'.bytes) < result'.n <=> result'.err # "nil")
         /\ result'.kind = "pop" =>
               (result'.bytes = <<>> /\ result'.n > 0 <=> result'.err # "nil")
         /\ result'.kind = "discard" /\ Len(result'.bytes) > 0 =>
               result'.bytes[Len(result'.bytes)] = taken'

LEMMA BytesFromInv == ReaderInv => BytesInOrder
<1> SUFFICES ASSUME ReaderInv PROVE BytesInOrder
  OBVIOUS
<1>1. ReaderTypeOK
  BY DEF ReaderInv, BufferOK, OpOK, ResultOK, ReaderTypeOK, Ops
<1>2. \A i \in 1..Len(result.bytes)-1 :
         result.bytes[i+1] = result.bytes[i] + 1
  <2>1. PICK lo \in Nat, n \in Nat : result.bytes = Run(lo, n)
    BY DEF ReaderInv, ResultOK
  <2> QED
    BY <2>1, RunOrdered
<1> QED
  BY <1>1, <1>2 DEF BytesInOrder, ReaderInv, BufferOK

LEMMA ReaderInitInv == ReaderInit => ReaderInv
<1> SUFFICES ASSUME ReaderInit PROVE ReaderInv
  OBVIOUS
<1> USE DEF ReaderInit
<1>1. BufferOK
  <2>1. PICK B \in Nat, M \in Nat : B = BufSize /\ M = MaxBytes
    BY SizesAssumption
  <2>2. buffer \in [1..BufSize -> 0..MaxBytes]
    BY <2>1
  <2>3. Buffered = 0 /\ readPos \in 0..writePos /\ writePos \in 0..BufSize
        /\ sent \in 0..MaxBytes /\ taken \in 0..sent
    BY <2>1 DEF Buffered
  <2>4. err \in Errors \ {"bufferFull"} /\ ended \in BOOLEAN
    BY DEF Errors
  <2>5. \A i \in 1..Buffered : buffer[readPos + i] = taken + i
    BY <2>3
  <2> QED
    BY <2>2, <2>3, <2>4, <2>5 DEF BufferOK
<1>2. OpOK
  BY SizesAssumption DEF OpOK, Ops, NoOp
<1>3. <<>> = Run(0, 0)
  <2>1. Run(0, 0) \in Seq(Nat) /\ Len(Run(0, 0)) = 0
    BY RunType
  <2> QED
    BY <2>1, EmptySeq
<1>4. ResultOK
  BY <1>3 DEF ResultOK, Errors
<1> QED
  BY <1>1, <1>2, <1>4 DEF ReaderInv

(* A call's slice of the buffer. *)
LEMMA SliceIsRun ==
    ASSUME BufferOK, NEW n \in 0..Buffered
    PROVE  Slice(n) = Run(taken, n)
<1>1. PICK lo \in Nat, w \in Nat, B \in Nat :
         lo = readPos /\ w = writePos /\ B = BufSize /\ lo <= w /\ w <= B
         /\ n \in 0..(w - lo)
  BY SizesAssumption DEF BufferOK, Buffered
<1>2. buffer \in Seq(Nat) /\ Len(buffer) = B
  <2>1. PICK b \in [1..B -> Nat] : b = buffer
    BY <1>1, SizesAssumption DEF BufferOK
  <2>2. b \in Seq(Nat) /\ Len(b) = B
    BY <1>1
  <2> QED
    BY <2>1, <2>2
<1>3. PICK s : s = SubSeq(buffer, lo + 1, lo + n)
  OBVIOUS
<1>4. /\ s \in Seq(Nat) /\ Len(s) = n
      /\ \A i \in 1..n : s[i] = buffer[lo + i]
  <2>1. \A i \in lo + 1..lo + n : i \in 1..B
    BY <1>1
  <2>2. \A i \in lo + 1..lo + n : buffer[i] \in Nat
    BY <1>2, <2>1, ElementOfSeq
  <2>3. \A i \in 1..n : (lo + 1) + i - 1 = lo + i
    BY <1>1
  <2>4. /\ lo + 1 \in Int /\ lo + n \in Int
        /\ (lo + n) - (lo + 1) + 1 = n
        /\ (IF lo + 1 <= lo + n THEN (lo + n) - (lo + 1) + 1 ELSE 0) = n
    BY <1>1
  <2>6. PICK from \in Int, to \in Int : from = lo + 1 /\ to = lo + n
    BY <2>4
  <2>7. \A i \in from..to : buffer[i] \in Nat
    BY <2>2, <2>6
  <2>8. /\ SubSeq(buffer, from, to) \in Seq(Nat)
        /\ Len(SubSeq(buffer, from, to))
              = IF from <= to THEN to - from + 1 ELSE 0
        /\ \A i \in 1..to - from + 1 :
              SubSeq(buffer, from, to)[i] = buffer[from + i - 1]
    BY <2>7, SubSeqProperties
  <2>5. /\ s \in Seq(Nat) /\ Len(s) = n
        /\ \A i \in 1..n : s[i] = buffer[(lo + 1) + i - 1]
    BY <1>3, <2>4, <2>6, <2>8
  <2> QED
    BY <2>3, <2>5
<1>5. taken \in Nat /\ \A i \in 1..n : s[i] = taken + i
  <2>1. \A i \in 1..n : i \in 1..Buffered
    BY <1>1 DEF Buffered
  <2> QED
    BY <1>1, <1>4, <2>1 DEF BufferOK
<1>6. s = Run(taken, n)
  BY <1>1, <1>4, <1>5, RunIs
<1> QED
  BY <1>1, <1>3, <1>6 DEF Slice

(* fillBuffer. *)
LEMMA FillKeeps ==
    ASSUME BufferOK, NEW k \in 0..BufSize, NEW e \in Errors, Fill(k, e),
           taken' = taken
    PROVE  BufferOK'
<1>1. PICK B \in Nat, M \in Nat, lo \in Nat, b \in Nat, s \in Nat, t \in Nat :
         /\ B = BufSize /\ M = MaxBytes /\ lo = readPos /\ b = Buffered
         /\ s = sent /\ t = taken /\ lo + b = writePos /\ lo + b <= B
         /\ s <= M /\ t + b = s
  BY SizesAssumption DEF BufferOK, Buffered
<1>2. /\ k \in 0..(B - b) /\ s + k <= M /\ k \in Nat
      /\ e \in {"nil", "source", "noProgress"}
      /\ sent' = s + k /\ ended' \in BOOLEAN
  BY <1>1 DEF Fill, SourceReturns, BufferOK
<1>3. /\ readPos' = 0 /\ writePos' = b + k
      /\ err' = IF e = "nil" THEN err ELSE e
  BY <1>1 DEF Fill
<1>4. buffer' = [i \in 1..B |->
                   IF i <= b THEN buffer[lo + i]
                   ELSE IF i <= b + k THEN s + i - b ELSE buffer[i]]
  BY <1>1 DEF Fill
<1>5. buffer' \in [1..BufSize -> 0..MaxBytes]
  <2>1. ASSUME NEW i \in 1..B PROVE buffer'[i] \in 0..M
    <3>1. CASE i <= b
      <4>1. lo + i \in 1..B
        BY <1>1, <3>1
      <4>2. buffer[lo + i] \in 0..M
        BY <1>1, <4>1 DEF BufferOK
      <4> QED
        BY <1>4, <3>1, <4>2
    <3>2. CASE ~(i <= b) /\ i <= b + k
      <4>1. s + i - b \in 0..M
        BY <1>1, <1>2, <3>2
      <4> QED
        BY <1>4, <3>2, <4>1
    <3>3. CASE ~(i <= b) /\ ~(i <= b + k)
      <4>1. buffer[i] \in 0..M
        BY <1>1 DEF BufferOK
      <4> QED
        BY <1>4, <3>3, <4>1
    <3> QED
      BY <3>1, <3>2, <3>3
  <2> QED
    BY <1>1, <1>4, <2>1
<1>6. Buffered' = b + k
  BY <1>1, <1>2, <1>3 DEF Buffered
<1>7. ASSUME NEW i \in 1..(b + k) PROVE buffer'[0 + i] = t + i
  <2>1. i \in 1..B /\ 0 + i = i
    BY <1>1, <1>2
  <2>2. CASE i <= b
    <3>1. i \in 1..Buffered
      BY <1>1, <2>2
    <3>2. buffer[lo + i] = t + i
      BY <1>1, <3>1 DEF BufferOK
    <3> QED
      BY <1>4, <2>1, <2>2, <3>2
  <2>3. CASE ~(i <= b)
    <3>1. buffer'[i] = s + i - b
      BY <1>2, <1>4, <2>1, <2>3
    <3>2. s + i - b = t + i
      BY <1>1
    <3> QED
      BY <2>1, <3>1, <3>2
  <2> QED
    BY <2>2, <2>3
<1>8. err' \in Errors \ {"bufferFull"}
  BY <1>2, <1>3 DEF BufferOK, Errors
<1>9. /\ readPos' \in 0..writePos' /\ writePos' \in 0..BufSize
      /\ sent' \in 0..MaxBytes /\ taken' \in 0..sent'
      /\ taken' + Buffered' = sent'
  BY <1>1, <1>2, <1>3, <1>6
<1>10. \A i \in 1..Buffered' : buffer'[readPos' + i] = taken' + i
  BY <1>1, <1>3, <1>6, <1>7
<1> QED
  BY <1>2, <1>5, <1>8, <1>9, <1>10 DEF BufferOK

LEMMA FillsInv ==
    ASSUME ReaderInv, NEW k \in 0..BufSize, NEW e \in Errors, Fill(k, e),
           UNCHANGED <<taken, result>>,
           op' = op \/ op' = [op EXCEPT !.filled = TRUE]
    PROVE  ReaderInv' /\ ErrorsStep
<1>1. BufferOK'
  BY FillKeeps DEF ReaderInv
<1>2. OpOK'
  BY DEF ReaderInv, OpOK, Ops
<1>3. ResultOK' /\ ErrorsStep
  BY DEF ReaderInv, ResultOK, ErrorsStep
<1> QED
  BY <1>1, <1>2, <1>3 DEF ReaderInv

(* Bytes leave the buffer from its front. *)
LEMMA TakenFromFront ==
    ASSUME BufferOK, NEW n \in 0..Buffered,
           readPos' = readPos + n, taken' = taken + n,
           UNCHANGED <<buffer, writePos, sent, ended>>,
           err' = err \/ err' = "nil"
    PROVE  BufferOK' /\ taken' + (Buffered - n) = sent'
<1>1. PICK lo \in Nat, b \in Nat, t \in Nat :
         /\ lo = readPos /\ b = Buffered /\ t = taken /\ lo + b = writePos
         /\ t + b = sent /\ n \in 0..b
  BY SizesAssumption DEF BufferOK, Buffered
<1>2. Buffered' = b - n /\ readPos' = lo + n /\ taken' = t + n
  BY <1>1 DEF Buffered
<1>3. ASSUME NEW i \in 1..(b - n) PROVE buffer[(lo + n) + i] = (t + n) + i
  <2>1. n + i \in 1..Buffered /\ lo + (n + i) = (lo + n) + i
        /\ t + (n + i) = (t + n) + i
    BY <1>1
  <2> QED
    BY <1>1, <2>1 DEF BufferOK
<1>4. \A i \in 1..Buffered' : buffer'[readPos' + i] = taken' + i
  BY <1>2, <1>3
<1>5. /\ readPos' \in 0..writePos' /\ taken' \in 0..sent'
      /\ taken' + Buffered' = sent' /\ taken' + (Buffered - n) = sent'
  BY <1>1, <1>2
<1>6. err' \in Errors \ {"bufferFull"}
  BY DEF BufferOK, Errors
<1> QED
  BY <1>4, <1>5, <1>6 DEF BufferOK

LEMMA ReturnFields ==
    ASSUME NEW bytes, NEW e, Return(bytes, e)
    PROVE  /\ op' = NoOp
           /\ result'.kind = op.kind /\ result'.n = op.n
           /\ result'.bytes = bytes /\ result'.err = e
  BY DEF Return

LEMMA NoOpOK ==
    ASSUME op' = NoOp
    PROVE  OpOK'
  BY SizesAssumption DEF OpOK, Ops, NoOp

LEMMA TakingInv ==
    ASSUME ReaderInv, NEW n \in 0..Buffered, NEW e \in Errors,
           ReturnTaking(n, e), err' = err \/ err' = "nil"
    PROVE  /\ ReaderInv' /\ n \in Nat /\ taken' + (Buffered - n) = sent'
           /\ result'.kind = op.kind /\ result'.n = op.n /\ result'.err = e
           /\ Len(result'.bytes) = n
           /\ n > 0 => result'.bytes # <<>>
<1>1. BufferOK' /\ taken' + (Buffered - n) = sent'
  BY TakenFromFront DEF ReaderInv, ReturnTaking
<1>2. n \in Nat /\ taken \in Nat
  BY SizesAssumption DEF ReaderInv, BufferOK, Buffered
<1>3. /\ op' = NoOp
      /\ result'.kind = op.kind /\ result'.n = op.n
      /\ result'.bytes = Slice(n) /\ result'.err = e
  BY ReturnFields DEF ReturnTaking
<1>4. Slice(n) = Run(taken, n)
  BY SliceIsRun DEF ReaderInv
<1>5. ResultOK'
  BY <1>2, <1>3, <1>4 DEF ResultOK
<1>6. Len(Run(taken, n)) = n
  BY <1>2, RunType
<1>7. n > 0 => Run(taken, n) # <<>>
  BY <1>2, <1>6
<1> QED
  BY <1>1, <1>2, <1>3, <1>4, <1>5, <1>6, <1>7, NoOpOK DEF ReaderInv

-----------------------------------------------------------------------------
(* The calls. *)

LEMMA NothingReturned ==
    ASSUME ReaderInv, result' = result
    PROVE  ResultOK' /\ ErrorsStep
BY DEF ReaderInv, ResultOK, ErrorsStep

LEMMA BeginInv ==
    ASSUME ReaderInv, NEW kind \in OpKinds, NEW n \in 0..MaxBytes + 1,
           Begin(kind, n)
    PROVE  ReaderInv' /\ ErrorsStep
<1>1. /\ UNCHANGED <<buffer, readPos, writePos, err, sent, ended, taken>>
      /\ result' = result
      /\ op' = [kind |-> kind, n |-> n, skipped |-> <<>>, filled |-> FALSE]
  BY DEF Begin
<1>2. BufferOK'
  BY <1>1 DEF ReaderInv, BufferOK, Buffered
<1>3. OpOK'
  <2>1. op' \in Ops
    BY <1>1 DEF Ops
  <2>2. PICK t \in Nat : t = taken
    BY SizesAssumption DEF ReaderInv, BufferOK
  <2>3. Run(t - 0, 0) = <<>>
    <3>1. t - 0 = t
      OBVIOUS
    <3>2. Run(t, 0) \in Seq(Nat) /\ Len(Run(t, 0)) = 0
      BY RunType
    <3> QED
      BY <3>1, <3>2, EmptySeq
  <2>4. 0 \in 0..taken' /\ op'.skipped = Run(taken' - 0, 0)
    BY <1>1, <2>2, <2>3
  <2> QED
    BY <2>1, <2>4 DEF OpOK
<1> QED
  BY <1>1, <1>2, <1>3, NothingReturned DEF ReaderInv

(* Peek and PeekTooMuch return bytes that stay in the buffer. *)
LEMMA StaysInv ==
    ASSUME ReaderInv, NEW n \in 0..Buffered, NEW e \in Errors,
           Return(Slice(n), e), err' = err \/ err' = "nil",
           UNCHANGED <<buffer, readPos, writePos, sent, ended, taken>>
    PROVE  /\ ReaderInv' /\ n \in Nat
           /\ result'.kind = op.kind /\ result'.n = op.n /\ result'.err = e
           /\ Len(result'.bytes) = n
<1>1. BufferOK'
  BY DEF ReaderInv, BufferOK, Buffered, Errors
<1>2. n \in Nat /\ taken \in Nat
  BY SizesAssumption DEF ReaderInv, BufferOK, Buffered
<1>3. /\ op' = NoOp
      /\ result'.kind = op.kind /\ result'.n = op.n
      /\ result'.bytes = Slice(n) /\ result'.err = e
  BY ReturnFields
<1>4. Slice(n) = Run(taken, n)
  BY SliceIsRun DEF ReaderInv
<1>5. ResultOK'
  BY <1>2, <1>3, <1>4 DEF ResultOK
<1>6. Len(Run(taken, n)) = n
  BY <1>2, RunType
<1> QED
  BY <1>1, <1>2, <1>3, <1>4, <1>5, <1>6, NoOpOK DEF ReaderInv

LEMMA NoneReturned ==
    ASSUME ReaderInv
    PROVE  0 \in 0..Buffered /\ Slice(0) = <<>>
<1>1. 0 \in 0..Buffered /\ taken \in Nat
  BY SizesAssumption DEF ReaderInv, BufferOK, Buffered
<1>2. Slice(0) = Run(taken, 0)
  BY <1>1, SliceIsRun DEF ReaderInv
<1>3. Run(taken, 0) \in Seq(Nat) /\ Len(Run(taken, 0)) = 0
  BY <1>1, RunType
<1> QED
  BY <1>1, <1>2, <1>3, EmptySeq

(* What is buffered, and what the call that runs asks for. *)
LEMMA Counts ==
    ASSUME ReaderInv
    PROVE  Buffered \in Nat /\ op.n \in Nat
<1>1. Buffered \in Nat
  BY SizesAssumption DEF ReaderInv, BufferOK, Buffered
<1>2. op.n \in 0..MaxBytes + 1
  BY DEF ReaderInv, OpOK, Ops
<1>3. op.n \in Nat
  BY <1>2, SizesAssumption
<1> QED
  BY <1>1, <1>3

(* The errors in a Peek's return. *)
LEMMA PeekInv ==
    ASSUME ReaderInv, Peek
    PROVE  ReaderInv' /\ ErrorsStep
<1>0. PICK b \in Nat, want \in Nat : b = Buffered /\ want = op.n
  BY Counts
<1>1. CASE PeekFills
  BY <1>1, FillsInv DEF PeekFills
<1>2. CASE PeekReturns
  <2>1. /\ op.kind = "peek" /\ want <= b
        /\ Return(Slice(want), "nil")
        /\ UNCHANGED <<buffer, readPos, writePos, err, sent, ended, taken>>
    BY <1>0, <1>2 DEF PeekReturns
  <2>2. want \in 0..Buffered /\ "nil" \in Errors
    BY <1>0, <2>1 DEF Errors
  <2>3. /\ ReaderInv' /\ result'.kind = "peek" /\ result'.n = want
        /\ result'.err = "nil" /\ Len(result'.bytes) = want
    BY <1>0, <2>1, <2>2, StaysInv
  <2>4. ~(want < want)
    OBVIOUS
  <2> QED
    BY <2>3, <2>4, Zenon DEF ErrorsStep
<1>3. CASE PopReturns
  <2>1. op.kind = "pop" /\ want <= b /\ ReturnTaking(want, "nil") /\ err' = err
    BY <1>0, <1>3 DEF PopReturns, ReturnBytes
  <2>2. want \in 0..Buffered /\ "nil" \in Errors
    BY <1>0, <2>1 DEF Errors
  <2>3. /\ ReaderInv' /\ result'.kind = "pop" /\ result'.n = want
        /\ result'.err = "nil" /\ (want > 0 => result'.bytes # <<>>)
    BY <1>0, <2>1, <2>2, TakingInv
  <2> QED
    BY <2>3 DEF ErrorsStep
<1>4. CASE PeekTooMuch
  <2>1. /\ op.kind \in {"peek", "pop"} /\ want > 0
        /\ Return(<<>>, "bufferFull")
        /\ UNCHANGED <<buffer, readPos, writePos, err, sent, ended, taken>>
    BY <1>0, <1>4, SizesAssumption DEF PeekTooMuch, Peeking
  <2>2. 0 \in 0..Buffered /\ Slice(0) = <<>> /\ "bufferFull" \in Errors
    BY NoneReturned DEF Errors
  <2>3. /\ ReaderInv' /\ result'.kind \in {"peek", "pop"}
        /\ result'.n = want
        /\ result'.err = "bufferFull" /\ Len(result'.bytes) = 0
    BY <1>0, <2>1, <2>2, StaysInv
  <2>4. result'.bytes = <<>>
    BY <2>1, ReturnFields
  <2>5. 0 < want
    BY <2>1
  <2> QED
    BY <2>1, <2>3, <2>4, <2>5 DEF ErrorsStep
<1>5. CASE PeekShort
  <2>1. /\ b < want /\ op.kind \in {"peek", "pop"}
        /\ err # "nil" /\ err \in Errors /\ err' = "nil"
        /\ Return(IF op.kind = "peek" THEN Slice(b) ELSE <<>>, err)
        /\ UNCHANGED <<buffer, readPos, writePos, sent, ended, taken>>
    BY <1>0, <1>5 DEF PeekShort, Peeking, ReaderInv, BufferOK
  <2>2. CASE op.kind = "peek"
    <3>1. Return(Slice(b), err) /\ b \in 0..Buffered
      BY <1>0, <2>1, <2>2
    <3>2. /\ ReaderInv' /\ result'.kind = "peek" /\ result'.n = want
          /\ result'.err = err /\ Len(result'.bytes) = b
      BY <1>0, <2>1, <2>2, <3>1, StaysInv
    <3> QED
      BY <2>1, <3>2 DEF ErrorsStep
  <2>3. CASE op.kind = "pop"
    <3>1. Return(<<>>, err) /\ 0 \in 0..Buffered /\ Slice(0) = <<>>
      BY <2>1, <2>3, NoneReturned
    <3>2. /\ ReaderInv' /\ result'.kind = "pop" /\ result'.n = want
          /\ result'.err = err
      BY <1>0, <2>1, <2>3, <3>1, StaysInv
    <3>3. result'.bytes = <<>> /\ want > 0
      BY <1>0, <2>1, <3>1, ReturnFields
    <3> QED
      BY <2>1, <3>2, <3>3 DEF ErrorsStep
  <2> QED
    BY <2>1, <2>2, <2>3
<1> QED
  BY <1>1, <1>2, <1>3, <1>4, <1>5 DEF Peek

(* Everything buffered was returned: no byte is left before the error. *)
LEMMA AllTaken ==
    ASSUME ReaderInv, NEW e \in Errors, ReturnTaking(Buffered, e),
           err' = err \/ err' = "nil",
           op.kind \notin {"peek", "pop", "discard"}
    PROVE  ReaderInv' /\ ErrorsStep
<1>1. PICK b \in Nat : b = Buffered
  BY Counts
<1>2. b \in 0..Buffered /\ b - b = 0
  BY <1>1
<1>3. /\ ReaderInv' /\ taken' + (b - b) = sent'
      /\ result'.kind = op.kind
  BY <1>1, <1>2, TakingInv
<1>4. taken' \in 0..sent' /\ sent' \in 0..MaxBytes
  BY <1>3 DEF ReaderInv, BufferOK
<1>5. PICK t \in Nat, s \in Nat : t = taken' /\ s = sent'
  BY <1>4, SizesAssumption
<1>6. t + 0 = s
  BY <1>2, <1>3, <1>5
<1>7. t = s
  BY <1>6
<1>8. taken' = sent'
  BY <1>5, <1>7
<1> QED
  BY <1>3, <1>8 DEF ErrorsStep

(* Bytes without an error. *)
LEMMA NoError ==
    ASSUME ReaderInv, NEW n \in 0..Buffered, ReturnTaking(n, "nil"),
           err' = err, op.kind \notin {"peek", "pop", "discard"}
    PROVE  ReaderInv' /\ ErrorsStep
<1>1. "nil" \in Errors
  BY DEF Errors
<1>2. ReaderInv' /\ result'.kind = op.kind /\ result'.err = "nil"
  BY <1>1, TakingInv
<1> QED
  BY <1>2 DEF ErrorsStep

LEMMA ReadByteInv ==
    ASSUME ReaderInv, ReadByte
    PROVE  ReaderInv' /\ ErrorsStep
<1>0. PICK b \in Nat : b = Buffered
  BY Counts
<1>1. CASE ReadByteFills
  BY <1>1, FillsInv DEF ReadByteFills
<1>2. CASE ReadByteFails
  <2>1. /\ op.kind = "readByte" /\ ReturnTaking(Buffered, err)
        /\ err' = "nil" /\ err \in Errors
    BY <1>2 DEF ReadByteFails, ReturnError, ReaderInv, BufferOK
  <2> QED
    BY <2>1, AllTaken
<1>3. CASE ReadByteReturns
  <2>1. /\ op.kind = "readByte" /\ ReturnTaking(1, "nil") /\ err' = err
        /\ 1 \in 0..Buffered
    BY <1>0, <1>3 DEF ReadByteReturns, ReturnBytes
  <2> QED
    BY <2>1, NoError
<1> QED
  BY <1>1, <1>2, <1>3 DEF ReadByte

LEMMA ReadSliceInv ==
    ASSUME ReaderInv, ReadSlice
    PROVE  ReaderInv' /\ ErrorsStep
<1>0. PICK b \in Nat : b = Buffered
  BY Counts
<1>1. CASE ReadSliceFills
  BY <1>1, FillsInv DEF ReadSliceFills
<1>2. CASE ReadSliceFails
  <2>1. /\ op.kind = "readSlice" /\ ReturnTaking(Buffered, err)
        /\ err' = "nil" /\ err \in Errors
    BY <1>2 DEF ReadSliceFails, ReturnError, ReaderInv, BufferOK
  <2> QED
    BY <2>1, AllTaken
<1>3. CASE ReadSliceFull
  <2>1. /\ op.kind = "readSlice" /\ ReturnTaking(Buffered, "bufferFull")
        /\ err' = err /\ "bufferFull" \in Errors
    BY <1>3 DEF ReadSliceFull, Errors
  <2> QED
    BY <2>1, AllTaken
<1>4. CASE ReadSliceReturns
  <2>1. PICK i \in Delims : ReturnTaking(i, "nil") /\ err' = err
    BY <1>4 DEF ReadSliceReturns, ReturnBytes
  <2>2. i \in 0..Buffered /\ op.kind = "readSlice"
    BY <1>0, <1>4, <2>1 DEF Delims, ReadSliceReturns
  <2> QED
    BY <2>1, <2>2, NoError
<1> QED
  BY <1>1, <1>2, <1>3, <1>4 DEF ReadSlice

LEMMA ReadCallInv ==
    ASSUME ReaderInv, Read
    PROVE  ReaderInv' /\ ErrorsStep
<1>0. PICK b \in Nat, want \in Nat : b = Buffered /\ want = op.n
  BY Counts
<1>1. CASE ReadFills
  BY <1>1, FillsInv DEF ReadFills
<1>2. CASE ReadPending
  <2>1. /\ op.kind = "read" /\ ReturnTaking(Buffered, err)
        /\ err' = "nil" /\ err \in Errors
    BY <1>2 DEF ReadPending, ReturnError, ReaderInv, BufferOK
  <2> QED
    BY <2>1, AllTaken
<1>3. CASE ReadCopies
  <2>1. PICK n : n = IF want < b THEN want ELSE b
    OBVIOUS
  <2>2. op.kind = "read" /\ ReturnTaking(n, "nil") /\ err' = err
    BY <1>0, <1>3, <2>1 DEF ReadCopies, ReturnBytes
  <2>3. n \in 0..Buffered
    BY <1>0, <2>1
  <2> QED
    BY <2>2, <2>3, NoError
<1>4. CASE ReadNothing
  <2>1. /\ op.kind = "read" /\ op.n = 0 /\ ReturnTaking(0, err)
        /\ err' = "nil" /\ err \in Errors
    BY <1>4 DEF ReadNothing, ReturnError, ReaderInv, BufferOK
  <2>2. 0 \in 0..Buffered
    BY <1>0
  <2>3. ReaderInv' /\ result'.kind = "read" /\ result'.n = 0
    BY <2>1, <2>2, TakingInv
  <2>4. ~(result'.n > 0)
    BY <2>3
  <2> QED
    BY <2>3, <2>4 DEF ErrorsStep
<1>5. CASE ReadDirectly
  <2>1. PICK k \in 0..op.n, e \in Errors :
           /\ \/ SourceReturns(op.n, k, e)
              \/ k = 0 /\ e = "nil" /\ UNCHANGED <<sent, ended>>
           /\ Return([i \in 1..k |-> sent + i], e)
           /\ taken' = taken + k
    BY <1>5 DEF ReadDirectly
  <2>2. /\ op.kind = "read" /\ Buffered = 0
        /\ UNCHANGED <<buffer, readPos, writePos, err>>
    BY <1>5 DEF ReadDirectly
  <2>3. PICK s \in Nat, t \in Nat, M \in Nat :
           s = sent /\ t = taken /\ M = MaxBytes /\ t = s
    BY <1>0, <2>2, SizesAssumption DEF ReaderInv, BufferOK
  <2>4. k \in Nat /\ s + k <= M /\ sent' = s + k /\ ended' \in BOOLEAN
    <3>1. s <= M /\ ended \in BOOLEAN
      BY <1>0, <2>3 DEF ReaderInv, BufferOK
    <3>2. CASE SourceReturns(op.n, k, e)
      BY <2>3, <3>1, <3>2 DEF SourceReturns
    <3>3. CASE k = 0 /\ e = "nil" /\ UNCHANGED <<sent, ended>>
      BY <2>3, <3>1, <3>3
    <3> QED
      BY <2>1, <3>2, <3>3
  <2>5. Buffered' = 0 /\ taken' = s + k /\ taken' \in 0..sent'
        /\ sent' \in 0..MaxBytes /\ taken' + Buffered' = sent'
    BY <2>1, <2>2, <2>3, <2>4 DEF Buffered
  <2>6. \A i \in 1..Buffered' : buffer'[readPos' + i] = taken' + i
    BY <2>5
  <2>7. BufferOK'
    BY <2>2, <2>4, <2>5, <2>6 DEF ReaderInv, BufferOK
  <2>8. /\ op' = NoOp /\ result'.kind = "read" /\ result'.err = e
        /\ result'.bytes = Run(s, k)
    BY <2>1, <2>2, <2>3, ReturnFields DEF Run
  <2>9. ResultOK'
    BY <2>3, <2>4, <2>8 DEF ResultOK
  <2>10. taken' = sent'
    BY <2>4, <2>5
  <2> QED
    BY <2>7, <2>8, <2>9, <2>10, NoOpOK DEF ReaderInv, ErrorsStep
<1> QED
  BY <1>1, <1>2, <1>3, <1>4, <1>5 DEF Read

(* Returning what a Discard skipped: l bytes, the last of them just taken.  *)
LEMMA SkippedReturned ==
    ASSUME NEW lo \in Nat, NEW l \in Nat, NEW e \in Errors,
           op.kind = "discard", op.n \in Nat, l <= op.n,
           l < op.n <=> e # "nil",
           Return(Run(lo, l), e), taken' = lo + l,
           e # "nil" => taken' = sent'
    PROVE  OpOK' /\ ResultOK' /\ ErrorsStep
<1>1. /\ op' = NoOp
      /\ result'.kind = "discard" /\ result'.n = op.n
      /\ result'.bytes = Run(lo, l) /\ result'.err = e
  BY ReturnFields
<1>2. ResultOK'
  BY <1>1 DEF ResultOK
<1>3. Len(result'.bytes) = l /\ (l \in 1..l => Run(lo, l)[l] = lo + l)
  BY <1>1, RunType
<1>4. l > 0 => l \in 1..l
  OBVIOUS
<1>5. Len(result'.bytes) > 0 => result'.bytes[Len(result'.bytes)] = taken'
  BY <1>1, <1>3, <1>4
<1>6. Len(result'.bytes) < result'.n <=> result'.err # "nil"
  BY <1>1, <1>3
<1> QED
  BY <1>1, <1>2, <1>5, <1>6, NoOpOK DEF ErrorsStep

LEMMA DiscardSkipsInv ==
    ASSUME ReaderInv, DiscardSkips
    PROVE  ReaderInv' /\ ErrorsStep
<1>1. PICK b \in Nat, want \in Nat, t \in Nat :
         b = Buffered /\ want = op.n /\ t = taken
  BY Counts, SizesAssumption DEF ReaderInv, BufferOK
<1>2. op.kind = "discard" /\ want > 0
  BY <1>1 DEF DiscardSkips
<1>3. PICK k \in 0..t : op.skipped = Run(t - k, k) /\ k < want
  BY <1>1, <1>2 DEF ReaderInv, OpOK
<1>4. PICK lo \in Nat : lo = t - k /\ lo + k = t /\ k \in Nat
  OBVIOUS
<1>5. Len(op.skipped) = k
  <2>1. lo \in Nat /\ k \in Nat /\ op.skipped = Run(lo, k)
    BY <1>3, <1>4
  <2>2. Len(Run(lo, k)) = k
    BY <2>1, RunType
  <2>3. QED
    BY <2>1, <2>2
<1>6. PICK remain \in Nat : remain = want - k /\ k + remain = want
  BY <1>3, <1>4
<1>7. PICK skip \in Nat : skip = IF b > remain THEN remain ELSE b
  OBVIOUS
<1>8. PICK skipped : skipped = op.skipped \o Slice(skip)
  OBVIOUS
<1>9. /\ readPos' = readPos + skip /\ taken' = taken + skip
      /\ IF skip = remain THEN Return(skipped, "nil") /\ UNCHANGED err
         ELSE IF err # "nil" THEN Return(skipped, err) /\ err' = "nil"
         ELSE /\ op' = [op EXCEPT !.skipped = skipped, !.filled = FALSE]
              /\ UNCHANGED <<err, result>>
      /\ UNCHANGED <<buffer, writePos, sent, ended>>
  <2>1. op.n - Len(op.skipped) = remain
    BY <1>1, <1>5, <1>6
  <2>2. skip = IF Buffered > remain THEN remain ELSE Buffered
    BY <1>1, <1>7
  <2> QED
    BY <1>8, <2>1, <2>2, Zenon DEF DiscardSkips
<1>10. skip \in 0..b /\ skip <= remain /\ (skip # remain => skip = b)
  BY <1>7
<1>11. skipped = Run(lo, k + skip) /\ k + skip \in Nat
  <2>1. skip \in 0..Buffered
    BY <1>1, <1>10
  <2>2. Slice(skip) = Run(taken, skip)
    BY <2>1, SliceIsRun DEF ReaderInv
  <2>3. skipped = Run(lo, k) \o Run(lo + k, skip)
    BY <1>1, <1>3, <1>4, <1>8, <2>2
  <2>4. k \in Nat /\ k + skip \in Nat
    BY <1>4
  <2>5. Run(lo, k) \o Run(lo + k, skip) = Run(lo, k + skip)
    <3>1. \A x, y, z \in Nat : Run(x, y) \o Run(x + y, z) = Run(x, y + z)
      BY RunsMeet
    <3>2. lo \in Nat /\ k \in Nat /\ skip \in Nat
      BY <1>4
    <3> QED
      BY <3>1, <3>2, Zenon
  <2> QED
    BY <2>3, <2>4, <2>5
<1>12. BufferOK' /\ taken' + (b - skip) = sent'
  <2>1. err' = err \/ err' = "nil"
    BY <1>9
  <2>2. skip \in 0..Buffered
    BY <1>1, <1>10
  <2> QED
    BY <1>1, <1>9, <2>1, <2>2, TakenFromFront DEF ReaderInv
<1>13. taken' = lo + (k + skip)
  BY <1>1, <1>4, <1>9
<1>14. CASE skip = remain
  <2>1. k + skip = want
    BY <1>6, <1>14
  <2>2. Return(Run(lo, k + skip), "nil") /\ "nil" \in Errors
    BY <1>9, <1>11, <1>14 DEF Errors
  <2>3. k + skip <= op.n /\ ~(k + skip < op.n) /\ op.n \in Nat
    BY <1>1, <2>1
  <2>4. OpOK' /\ ResultOK' /\ ErrorsStep
    BY <1>2, <1>4, <1>11, <1>13, <2>2, <2>3, SkippedReturned
  <2> QED
    BY <1>12, <2>4 DEF ReaderInv
<1>15. CASE skip # remain
  <2>1. k + skip < want /\ skip = b
    BY <1>4, <1>6, <1>10, <1>15
  <2>2. CASE err # "nil"
    <3>1. Return(Run(lo, k + skip), err) /\ err \in Errors
      BY <1>9, <1>11, <1>15, <2>2 DEF ReaderInv, BufferOK
    <3>2. k + skip <= op.n /\ k + skip < op.n /\ op.n \in Nat
      BY <1>1, <1>11, <2>1
    <3>3. PICK u \in Nat, v \in Nat : u = taken' /\ v = sent'
      BY <1>12, SizesAssumption DEF BufferOK
    <3>4. u + (b - b) = v
      BY <1>12, <2>1, <3>3
    <3>5. u = v
      BY <3>4
    <3>6. taken' = sent'
      BY <3>3, <3>5
    <3>7. OpOK' /\ ResultOK' /\ ErrorsStep
      BY <1>2, <1>4, <1>11, <1>13, <2>2, <3>1, <3>2, <3>6, SkippedReturned
    <3> QED
      BY <1>12, <3>7 DEF ReaderInv
  <2>3. CASE err = "nil"
    <3>1. /\ op' = [op EXCEPT !.skipped = skipped, !.filled = FALSE]
          /\ result' = result
      BY <1>9, <1>15, <2>3
    <3>2. skipped \in Seq(Nat)
      BY <1>4, <1>11, RunType
    <3>3. op' \in Ops /\ op'.kind = op.kind /\ op'.n = op.n
          /\ op'.skipped = skipped
      BY <3>1, <3>2 DEF ReaderInv, OpOK, Ops
    <3>4. k + skip \in 0..taken' /\ taken' - (k + skip) = lo
      BY <1>4, <1>13
    <3>5. op'.skipped = Run(taken' - (k + skip), k + skip)
      BY <1>11, <3>3, <3>4
    <3>6. k + skip < op'.n
      BY <1>1, <2>1, <3>3
    <3>7. OpOK'
      BY <3>3, <3>4, <3>5, <3>6 DEF OpOK
    <3> QED
      BY <1>12, <3>1, <3>7, NothingReturned DEF ReaderInv
  <2> QED
    BY <2>2, <2>3
<1> QED
  BY <1>14, <1>15

LEMMA DiscardInv ==
    ASSUME ReaderInv, Discard
    PROVE  ReaderInv' /\ ErrorsStep
<1>1. CASE DiscardFills
  BY <1>1, FillsInv DEF DiscardFills
<1>2. CASE DiscardSkips
  BY <1>2, DiscardSkipsInv
<1>3. CASE DiscardNothing
  <2>1. /\ op.kind = "discard" /\ op.n = 0 /\ ReturnTaking(0, "nil")
        /\ err' = err /\ "nil" \in Errors
    BY <1>3 DEF DiscardNothing, ReturnBytes, Errors
  <2>2. 0 \in 0..Buffered
    BY NoneReturned
  <2>3. /\ ReaderInv' /\ result'.kind = "discard" /\ result'.n = 0
        /\ result'.err = "nil" /\ Len(result'.bytes) = 0
    BY <2>1, <2>2, TakingInv
  <2>4. ~(Len(result'.bytes) > 0) /\ ~(Len(result'.bytes) < result'.n)
    BY <2>3
  <2> QED
    BY <2>3, <2>4 DEF ErrorsStep
<1> QED
  BY <1>1, <1>2, <1>3 DEF Discard

LEMMA ReaderStepInv ==
    ASSUME ReaderInv, [ReaderNext]_readerVars
    PROVE  ReaderInv' /\ [ErrorsStep]_readerVars
<1>1. CASE UNCHANGED readerVars
  <2>1. ReaderInv'
    BY <1>1 DEF readerVars, ReaderInv, BufferOK, OpOK, ResultOK, Buffered
  <2> QED
    BY <1>1, <2>1
<1>2. CASE ReaderNext
  <2>1. ReaderInv' /\ ErrorsStep
    BY <1>2, BeginInv, PeekInv, DiscardInv, ReadCallInv, ReadByteInv,
       ReadSliceInv DEF ReaderNext
  <2> QED
    BY <2>1
<1> QED
  BY <1>1, <1>2

(* Whatever the source's reads return and however the calls follow each     *)
(* other, the buffer holds the bytes that came and were not taken, in order *)
(* (bufio.go:80-109).                                                       *)
THEOREM ReaderLosesNothing == ReaderSpec => []BytesInOrder
<1>1. ReaderInit => ReaderInv
  BY ReaderInitInv
<1>2. ReaderInv /\ [ReaderNext]_readerVars => ReaderInv'
  BY ReaderStepInv
<1>3. ReaderInv => BytesInOrder
  BY BytesFromInv
<1> QED
  BY <1>1, <1>2, <1>3, PTL DEF ReaderSpec

(* No call reports an error while bytes that came before it are left, and   *)
(* none returns less than it was asked for without one (bufio.go:119-187).  *)
THEOREM ErrorsComeLast == ReaderSpec => ErrorsInOrder
<1>1. ReaderInit => ReaderInv
  BY ReaderInitInv
<1>2. ReaderInv /\ [ReaderNext]_readerVars
         => ReaderInv' /\ [ErrorsStep]_readerVars
  BY ReaderStepInv
<1>3. ReaderSpec => [][ErrorsStep]_readerVars
  BY <1>1, <1>2, PTL DEF ReaderSpec
<1> QED
  BY <1>3 DEF ErrorsInOrder, ErrorsStep

-----------------------------------------------------------------------------
(* The buffer pool. *)

(* The places where a connection keeps a buffer, and what is there. *)
Places == {"br", "bw", "flate"}
Slots == Conns \X Places

Holding == [s \in Slots |-> IF s[2] = "br" THEN brBuf[s[1]]
                            ELSE IF s[2] = "bw" THEN bwBuf[s[1]]
                            ELSE flateBuf[s[1]]]

(* A connection has its reader's buffer until PutReader, its writer's until *)
(* PutWriter, so neither of them puts the nil pointer.                      *)
BuffersMade ==
    \A c \in Conns :
        /\ conn[c] \in {"reading", "open", "putReader"} => brBuf[c] # Nil
        /\ conn[c] \in {"open", "putReader", "putWriter"} => bwBuf[c] # Nil

PoolInv ==
    /\ BufferPoolTypeOK
    /\ PoolOK(Slots, MaxBuffers, freeList, next, allocated, Holding)
    /\ BuffersMade

LEMMA PoolSizes ==
    /\ MaxBuffers \in Nat /\ BufNum \in 1..MaxBuffers
    /\ Buffers = 1..MaxBuffers /\ Nil = 0
  BY BoundsAssumption DEF Buffers, Nil

LEMMA SlotFacts ==
    /\ \A c \in Conns : /\ <<c, "br">> \in Slots /\ <<c, "bw">> \in Slots
                        /\ <<c, "flate">> \in Slots
    /\ \A s \in Slots : /\ s[1] \in Conns /\ s[2] \in Places
                        /\ s = <<s[1], s[2]>>
  BY DEF Slots, Places

LEMMA HoldingFacts ==
    ASSUME NEW c \in Conns
    PROVE  /\ Holding[<<c, "br">>] = brBuf[c]
           /\ Holding[<<c, "bw">>] = bwBuf[c]
           /\ Holding[<<c, "flate">>] = flateBuf[c]
  BY SlotFacts DEF Holding

(* One place changes. *)
LEMMA HoldsThere ==
    ASSUME NEW s \in Slots, NEW b, Holding'[s] = b,
           \A t \in Slots : t # s => Holding'[t] = Holding[t]
    PROVE  Holding' = [Holding EXCEPT ![s] = b]
<1>1. PICK g, h : g = Holding /\ h = Holding'
  OBVIOUS
<1>2. g = [t \in Slots |-> g[t]] /\ h = [t \in Slots |-> h[t]]
  <2>1. g = [t \in Slots |-> g[t]]
    BY <1>1 DEF Holding
  <2>2. h = [t \in Slots |-> h[t]]
    BY <1>1 DEF Holding
  <2> QED
    BY <2>1, <2>2
<1>3. h[s] = b /\ \A t \in Slots : t # s => h[t] = g[t]
  BY <1>1
<1>4. h = [g EXCEPT ![s] = b]
  BY <1>2, <1>3
<1> QED
  BY <1>1, <1>4

LEMMA ReaderHolds ==
    ASSUME NEW c \in Conns, NEW b, BufferPoolTypeOK,
           brBuf' = [brBuf EXCEPT ![c] = b], UNCHANGED <<bwBuf, flateBuf>>
    PROVE  Holding' = [Holding EXCEPT ![<<c, "br">>] = b]
<1>1. <<c, "br">> \in Slots /\ Holding'[<<c, "br">>] = b
  BY SlotFacts DEF Holding, BufferPoolTypeOK
<1>2. ASSUME NEW t \in Slots, t # <<c, "br">>
      PROVE  Holding'[t] = Holding[t]
  <2>1. t[1] \in Conns /\ t[2] \in Places /\ t = <<t[1], t[2]>>
    BY SlotFacts
  <2> QED
    BY <1>2, <2>1 DEF Holding, Places, BufferPoolTypeOK
<1> QED
  BY <1>1, <1>2, HoldsThere

LEMMA WriterHolds ==
    ASSUME NEW c \in Conns, NEW b, BufferPoolTypeOK,
           bwBuf' = [bwBuf EXCEPT ![c] = b], UNCHANGED <<brBuf, flateBuf>>
    PROVE  Holding' = [Holding EXCEPT ![<<c, "bw">>] = b]
<1>1. <<c, "bw">> \in Slots /\ Holding'[<<c, "bw">>] = b
  BY SlotFacts DEF Holding, BufferPoolTypeOK
<1>2. ASSUME NEW t \in Slots, t # <<c, "bw">>
      PROVE  Holding'[t] = Holding[t]
  <2>1. t[1] \in Conns /\ t[2] \in Places /\ t = <<t[1], t[2]>>
    BY SlotFacts
  <2> QED
    BY <1>2, <2>1 DEF Holding, Places, BufferPoolTypeOK
<1> QED
  BY <1>1, <1>2, HoldsThere

LEMMA FlateHolds ==
    ASSUME NEW c \in Conns, NEW b, BufferPoolTypeOK,
           flateBuf' = [flateBuf EXCEPT ![c] = b], UNCHANGED <<brBuf, bwBuf>>
    PROVE  Holding' = [Holding EXCEPT ![<<c, "flate">>] = b]
<1>1. <<c, "flate">> \in Slots /\ Holding'[<<c, "flate">>] = b
  BY SlotFacts DEF Holding, BufferPoolTypeOK
<1>2. ASSUME NEW t \in Slots, t # <<c, "flate">>
      PROVE  Holding'[t] = Holding[t]
  <2>1. t[1] \in Conns /\ t[2] \in Places /\ t = <<t[1], t[2]>>
    BY SlotFacts
  <2> QED
    BY <1>2, <2>1 DEF Holding, Places, BufferPoolTypeOK
<1> QED
  BY <1>1, <1>2, HoldsThere

PoolTyped ==
    /\ freeList \in Buffers \cup {Nil}
    /\ next \in [Buffers -> Buffers \cup {Nil}]
    /\ allocated \in 0..MaxBuffers

LEMMA PoolIsTyped ==
    ASSUME NEW fr, NEW nx, NEW al, NEW hd,
           PoolOK(Slots, MaxBuffers, fr, nx, al, hd)
    PROVE  /\ fr \in Buffers \cup {Nil}
           /\ nx \in [Buffers -> Buffers \cup {Nil}]
           /\ al \in 0..MaxBuffers
<1>1. al \in 0..MaxBuffers /\ fr \in 1..al \cup {0}
      /\ nx \in [1..MaxBuffers -> (1..MaxBuffers) \cup {0}]
  BY PoolSizes, PoolHead DEF PoolOK
<1> QED
  BY <1>1, PoolSizes

(* Pool's methods. *)
LEMMA GetKeeps ==
    ASSUME PoolInv, NEW b, Get(b), NEW s \in Slots,
           Holding' = [Holding EXCEPT ![s] = b]
    PROVE  /\ PoolOK(Slots, MaxBuffers, freeList, next, allocated, Holding)'
           /\ PoolTyped' /\ b \in Buffers /\ b # Nil
<1>1. PICK fr, nx, al : fr = freeList' /\ nx = next' /\ al = allocated'
  OBVIOUS
<1>2. Takes(MaxBuffers, BufNum, freeList, next, allocated, b, fr, nx, al)
  <2>1. CASE freeList # 0
    BY <1>1, <2>1 DEF Get, Takes, Nil
  <2>2. CASE freeList = 0
    BY <1>1, <2>2 DEF Get, Takes, Batch, BatchFree, Buffers, Nil
  <2> QED
    BY <2>1, <2>2
<1>3. /\ PoolOK(Slots, MaxBuffers, fr, nx, al, [Holding EXCEPT ![s] = b])
      /\ b \in 1..MaxBuffers
  BY <1>2, PoolSizes, PoolTakes DEF PoolInv
<1>4. PoolOK(Slots, MaxBuffers, freeList', next', allocated', Holding')
  BY <1>1, <1>3
<1>5. PoolTyped'
  BY <1>4, PoolIsTyped DEF PoolTyped
<1> QED
  BY <1>3, <1>4, <1>5, PoolSizes

LEMMA PutKeeps ==
    ASSUME PoolInv, NEW s \in Slots, Holding[s] # Nil, Put(Holding[s]),
           Holding' = [Holding EXCEPT ![s] = Nil]
    PROVE  /\ PoolOK(Slots, MaxBuffers, freeList, next, allocated, Holding)'
           /\ PoolTyped'
<1>1. PoolOK(Slots, MaxBuffers, Holding[s],
             [next EXCEPT ![Holding[s]] = freeList], allocated,
             [Holding EXCEPT ![s] = 0])
  BY PoolSizes, PoolPuts DEF PoolInv
<1>2. PoolOK(Slots, MaxBuffers, freeList', next', allocated', Holding')
  BY <1>1 DEF Put, Nil
<1> QED
  BY <1>2, PoolIsTyped DEF PoolTyped

-----------------------------------------------------------------------------
(* The connections. *)

LEMMA ReaderPut ==
    ASSUME PoolInv, NEW c \in Conns, PutReader(c)
    PROVE  PoolInv'
<1> USE DEF PoolInv, BufferPoolTypeOK
<1>1. /\ conn[c] = "putReader" /\ conn' = [conn EXCEPT ![c] = "putWriter"]
      /\ Put(brBuf[c]) /\ brPool' = [brPool EXCEPT ![c] = FALSE]
      /\ brBuf' = [brBuf EXCEPT ![c] = Nil]
      /\ UNCHANGED <<bwBuf, flateBuf, reader, writer, panicked>>
  BY DEF PutReader, Move
<1>2. <<c, "br">> \in Slots /\ Holding[<<c, "br">>] = brBuf[c] /\ brBuf[c] # Nil
  BY <1>1, SlotFacts, HoldingFacts DEF BuffersMade
<1>3. Holding' = [Holding EXCEPT ![<<c, "br">>] = Nil]
  BY <1>1, ReaderHolds
<1>4. /\ PoolOK(Slots, MaxBuffers, freeList, next, allocated, Holding)'
      /\ PoolTyped'
  BY <1>1, <1>2, <1>3, PutKeeps
<1>5. BufferPoolTypeOK'
  BY <1>1, <1>4 DEF PoolTyped, ConnLabels
<1>6. BuffersMade'
  BY <1>1 DEF BuffersMade
<1> QED
  BY <1>4, <1>5, <1>6

LEMMA WriterPut ==
    ASSUME PoolInv, NEW c \in Conns, PutWriter(c)
    PROVE  PoolInv'
<1> USE DEF PoolInv, BufferPoolTypeOK
<1>1. /\ conn[c] = "putWriter" /\ conn' = [conn EXCEPT ![c] = "closeTransport"]
      /\ Put(bwBuf[c]) /\ bwBuf' = [bwBuf EXCEPT ![c] = Nil]
      /\ UNCHANGED <<brBuf, flateBuf, brPool, reader, writer, panicked>>
  BY DEF PutWriter, Move
<1>2. <<c, "bw">> \in Slots /\ Holding[<<c, "bw">>] = bwBuf[c] /\ bwBuf[c] # Nil
  BY <1>1, SlotFacts, HoldingFacts DEF BuffersMade
<1>3. Holding' = [Holding EXCEPT ![<<c, "bw">>] = Nil]
  BY <1>1, WriterHolds
<1>4. /\ PoolOK(Slots, MaxBuffers, freeList, next, allocated, Holding)'
      /\ PoolTyped'
  BY <1>1, <1>2, <1>3, PutKeeps
<1>5. BufferPoolTypeOK'
  BY <1>1, <1>4 DEF PoolTyped, ConnLabels
<1>6. BuffersMade'
  BY <1>1 DEF BuffersMade
<1> QED
  BY <1>4, <1>5, <1>6

LEMMA FlatePut ==
    ASSUME PoolInv, NEW c \in Conns, CloseReader(c)
    PROVE  PoolInv'
<1> USE DEF PoolInv, BufferPoolTypeOK
<1>1. /\ conn[c] = "closeReader" /\ conn' = [conn EXCEPT ![c] = "closed"]
      /\ flateBuf' = [flateBuf EXCEPT ![c] = Nil]
      /\ UNCHANGED <<brBuf, bwBuf, brPool, reader, writer, panicked>>
  BY DEF CloseReader, Move
<1>2. /\ <<c, "flate">> \in Slots
      /\ Holding[<<c, "flate">>] = flateBuf[c]
  BY SlotFacts, HoldingFacts
<1>3. Holding' = [Holding EXCEPT ![<<c, "flate">>] = Nil]
  BY <1>1, FlateHolds
<1>4. /\ PoolOK(Slots, MaxBuffers, freeList, next, allocated, Holding)'
      /\ PoolTyped'
  <2>1. CASE brPool[c] /\ flateBuf[c] # Nil
    <3>1. Put(flateBuf[c])
      BY <2>1 DEF CloseReader
    <3> QED
      BY <1>2, <1>3, <2>1, <3>1, PutKeeps
  <2>2. CASE ~(brPool[c] /\ flateBuf[c] # Nil)
    <3>1. UNCHANGED <<freeList, next, allocated>>
      BY <2>2 DEF CloseReader, poolVars
    <3>2. PoolOK(Slots, MaxBuffers, freeList, next, allocated,
                 [Holding EXCEPT ![<<c, "flate">>] = 0])
      BY <1>2, PoolSizes, PoolForgets
    <3> QED
      BY <1>3, <3>1, <3>2, PoolSizes DEF PoolTyped
  <2> QED
    BY <2>1, <2>2
<1>5. BufferPoolTypeOK'
  BY <1>1, <1>4 DEF PoolTyped, ConnLabels
<1>6. BuffersMade'
  BY <1>1 DEF BuffersMade
<1> QED
  BY <1>4, <1>5, <1>6

LEMMA ReaderMade ==
    ASSUME PoolInv, NEW c \in Conns, MakeReader(c)
    PROVE  PoolInv'
<1> USE DEF PoolInv, BufferPoolTypeOK
<1>1. /\ conn[c] = "none" /\ conn' = [conn EXCEPT ![c] = "reading"]
      /\ UNCHANGED <<bwBuf, flateBuf, brPool, reader, writer, panicked>>
  BY DEF MakeReader, Move
<1>2. PICK b \in Buffers : Get(b) /\ brBuf' = [brBuf EXCEPT ![c] = b]
  BY DEF MakeReader
<1>3. /\ <<c, "br">> \in Slots
      /\ Holding' = [Holding EXCEPT ![<<c, "br">>] = b]
  BY <1>1, <1>2, SlotFacts, ReaderHolds
<1>4. /\ PoolOK(Slots, MaxBuffers, freeList, next, allocated, Holding)'
      /\ PoolTyped' /\ b # Nil
  BY <1>2, <1>3, GetKeeps
<1>5. BufferPoolTypeOK'
  BY <1>1, <1>2, <1>4 DEF PoolTyped, ConnLabels
<1>6. BuffersMade'
  BY <1>1, <1>2, <1>4 DEF BuffersMade
<1> QED
  BY <1>4, <1>5, <1>6

LEMMA WriterMade ==
    ASSUME PoolInv, NEW c \in Conns, MakeWriter(c)
    PROVE  PoolInv'
<1> USE DEF PoolInv, BufferPoolTypeOK
<1>1. /\ conn[c] = "reading" /\ conn' = [conn EXCEPT ![c] = "open"]
      /\ UNCHANGED <<brBuf, flateBuf, brPool, reader, writer, panicked>>
  BY DEF MakeWriter, Move
<1>2. PICK b \in Buffers : Get(b) /\ bwBuf' = [bwBuf EXCEPT ![c] = b]
  BY DEF MakeWriter
<1>3. /\ <<c, "bw">> \in Slots
      /\ Holding' = [Holding EXCEPT ![<<c, "bw">>] = b]
  BY <1>1, <1>2, SlotFacts, WriterHolds
<1>4. /\ PoolOK(Slots, MaxBuffers, freeList, next, allocated, Holding)'
      /\ PoolTyped' /\ b # Nil
  BY <1>2, <1>3, GetKeeps
<1>5. BufferPoolTypeOK'
  BY <1>1, <1>2, <1>4 DEF PoolTyped, ConnLabels
<1>6. BuffersMade'
  BY <1>1, <1>2, <1>4 DEF BuffersMade
<1> QED
  BY <1>4, <1>5, <1>6

LEMMA FlateTaken ==
    ASSUME PoolInv, NEW c \in Conns, GetFlate(c)
    PROVE  PoolInv'
<1> USE DEF PoolInv, BufferPoolTypeOK
<1>1. /\ reader' = [reader EXCEPT ![c] = "reading"]
      /\ UNCHANGED <<conn, brBuf, bwBuf, brPool, writer, panicked>>
  BY DEF GetFlate
<1>2. PICK b \in Buffers : Get(b) /\ flateBuf' = [flateBuf EXCEPT ![c] = b]
  BY DEF GetFlate
<1>3. /\ <<c, "flate">> \in Slots
      /\ Holding' = [Holding EXCEPT ![<<c, "flate">>] = b]
  BY <1>1, <1>2, SlotFacts, FlateHolds
<1>4. /\ PoolOK(Slots, MaxBuffers, freeList, next, allocated, Holding)'
      /\ PoolTyped' /\ b # Nil
  BY <1>2, <1>3, GetKeeps
<1>5. BufferPoolTypeOK'
  BY <1>1, <1>2, <1>4 DEF PoolTyped
<1>6. BuffersMade'
  BY <1>1 DEF BuffersMade
<1> QED
  BY <1>4, <1>5, <1>6

(* The other steps leave the pool and the buffers alone. *)
LEMMA BuffersStay ==
    ASSUME PoolInv,
           UNCHANGED <<freeList, next, allocated, brBuf, bwBuf, flateBuf>>,
           conn' \in [Conns -> ConnLabels], BuffersMade',
           brPool' \in [Conns -> BOOLEAN],
           reader' \in [Conns -> {"idle", "reading", "resetFlate"}],
           writer' \in [Conns -> {"idle", "writing"}], panicked' \in BOOLEAN
    PROVE  PoolInv'
<1>1. Holding' = Holding
  BY DEF Holding
<1>2. PoolOK(Slots, MaxBuffers, freeList, next, allocated, Holding)'
  BY <1>1 DEF PoolInv
<1>3. BufferPoolTypeOK'
  BY DEF PoolInv, BufferPoolTypeOK
<1> QED
  BY <1>2, <1>3 DEF PoolInv

LEMMA PoolStepInv == PoolInv /\ [BufferPoolNext]_bufferPoolVars => PoolInv'
<1> SUFFICES ASSUME PoolInv, [BufferPoolNext]_bufferPoolVars PROVE PoolInv'
  OBVIOUS
<1> USE DEF poolVars, bufVars
<1>0. /\ conn \in [Conns -> ConnLabels] /\ brPool \in [Conns -> BOOLEAN]
      /\ reader \in [Conns -> {"idle", "reading", "resetFlate"}]
      /\ writer \in [Conns -> {"idle", "writing"}] /\ panicked \in BOOLEAN
      /\ BuffersMade
  BY DEF PoolInv, BufferPoolTypeOK
<1>1. CASE UNCHANGED bufferPoolVars
  <2>1. UNCHANGED <<freeList, next, allocated, brBuf, bwBuf, flateBuf>>
        /\ UNCHANGED <<conn, brPool, reader, writer, panicked>>
    BY <1>1 DEF bufferPoolVars
  <2>2. BuffersMade'
    BY <1>0, <2>1 DEF BuffersMade
  <2> QED
    BY <1>0, <2>1, <2>2, BuffersStay
<1>2. ASSUME NEW c \in Conns, MakeReader(c) PROVE PoolInv'
  BY <1>2, ReaderMade
<1>3. ASSUME NEW c \in Conns, MakeWriter(c) PROVE PoolInv'
  BY <1>3, WriterMade
<1>4. ASSUME NEW c \in Conns,
             ReadBegins(c) \/ ReadEnds(c) \/ ResetFlate(c)
      PROVE  PoolInv'
  <2>1. /\ UNCHANGED <<freeList, next, allocated, brBuf, bwBuf, flateBuf>>
        /\ UNCHANGED <<conn, brPool, writer, panicked>>
        /\ reader' \in [Conns -> {"idle", "reading", "resetFlate"}]
    BY <1>0, <1>4 DEF ReadBegins, ReadEnds, ResetFlate
  <2>2. BuffersMade'
    BY <1>0, <2>1 DEF BuffersMade
  <2> QED
    BY <1>0, <2>1, <2>2, BuffersStay
<1>5. ASSUME NEW c \in Conns, WriteBegins(c) \/ WriteEnds(c) PROVE PoolInv'
  <2>1. /\ UNCHANGED <<freeList, next, allocated, brBuf, bwBuf, flateBuf>>
        /\ UNCHANGED <<conn, brPool, reader, panicked>>
        /\ writer' \in [Conns -> {"idle", "writing"}]
    BY <1>0, <1>5 DEF WriteBegins, WriteEnds
  <2>2. BuffersMade'
    BY <1>0, <2>1 DEF BuffersMade
  <2> QED
    BY <1>0, <2>1, <2>2, BuffersStay
<1>6. ASSUME NEW c \in Conns, GetFlate(c) PROVE PoolInv'
  BY <1>6, FlateTaken
<1>7. ASSUME NEW c \in Conns, GetFlatePanics(c) PROVE PoolInv'
  <2>1. /\ UNCHANGED <<freeList, next, allocated, brBuf, bwBuf, flateBuf>>
        /\ UNCHANGED <<conn, brPool, reader, writer>> /\ panicked' = TRUE
    BY <1>7 DEF GetFlatePanics
  <2>2. BuffersMade'
    BY <1>0, <2>1 DEF BuffersMade
  <2> QED
    BY <1>0, <2>1, <2>2, BuffersStay
<1>8. ASSUME NEW c \in Conns, CloseBegins(c) \/ CloseTransport(c) PROVE PoolInv'
  <2>1. /\ UNCHANGED <<freeList, next, allocated, brBuf, bwBuf, flateBuf>>
        /\ UNCHANGED <<brPool, reader, writer, panicked>>
    BY <1>8 DEF CloseBegins, CloseTransport
  <2>2. \/ conn[c] = "open" /\ conn' = [conn EXCEPT ![c] = "putReader"]
        \/ conn[c] = "closeTransport"
              /\ conn' = [conn EXCEPT ![c] = "closeReader"]
    BY <1>8 DEF CloseBegins, CloseTransport, Move
  <2>3. conn' \in [Conns -> ConnLabels] /\ BuffersMade'
    BY <1>0, <2>1, <2>2 DEF BuffersMade, ConnLabels
  <2> QED
    BY <1>0, <2>1, <2>3, BuffersStay
<1>9. ASSUME NEW c \in Conns, PutReader(c) \/ PutWriter(c) \/ CloseReader(c)
      PROVE  PoolInv'
  BY <1>9, ReaderPut, WriterPut, FlatePut
<1> QED
  BY <1>1, <1>2, <1>3, <1>4, <1>5, <1>6, <1>7, <1>8, <1>9
     DEF BufferPoolNext, Closing

LEMMA PoolInitInv == BufferPoolInit => PoolInv
<1> SUFFICES ASSUME BufferPoolInit PROVE PoolInv
  OBVIOUS
<1> USE DEF BufferPoolInit
<1>1. Holding = [s \in Slots |-> 0]
  <2>1. \A s \in Slots : s[1] \in Conns
    BY SlotFacts
  <2> QED
    BY <2>1 DEF Holding, Nil
<1>2. next = [b \in 1..MaxBuffers |-> IF b < BufNum THEN b + 1 ELSE 0]
  BY DEF Buffers, Nil
<1>3. PoolOK(Slots, MaxBuffers, freeList, next, allocated, Holding)
  BY <1>1, <1>2, PoolSizes, PoolStarts
<1>4. PoolTyped
  BY <1>3, PoolIsTyped DEF PoolTyped
<1>5. BufferPoolTypeOK
  BY <1>4 DEF PoolTyped, BufferPoolTypeOK, ConnLabels
<1> QED
  BY <1>3, <1>5 DEF PoolInv, BuffersMade

(* As many buffers as places that have one. *)
LEMMA HeldCounted ==
    ASSUME PoolInv, NEW c \in Conns
    PROVE  Cardinality(Held(c)) =
              Cardinality({x \in {"br", "bw", "flate"} :
                 CASE x = "br" -> brBuf[c] # Nil
                   [] x = "bw" -> bwBuf[c] # Nil
                   [] x = "flate" -> flateBuf[c] # Nil})
<1> DEFINE Full == {x \in Places : Holding[<<c, x>>] # Nil}
           F == [x \in Full |-> Holding[<<c, x>>]]
<1>1. {x \in {"br", "bw", "flate"} :
                 CASE x = "br" -> brBuf[c] # Nil
                   [] x = "bw" -> bwBuf[c] # Nil
                   [] x = "flate" -> flateBuf[c] # Nil} = Full
  BY HoldingFacts DEF Places
<1>2. Held(c) = {Holding[<<c, x>>] : x \in Places} \ {Nil}
  BY HoldingFacts DEF Held, Places
<1>3. IsFiniteSet(Full)
  <2>1. IsFiniteSet({"br", "bw", "flate"})
    <3>1. IsFiniteSet({} \cup {"br"})
      BY FS_EmptySet, FS_AddElement
    <3>2. IsFiniteSet(({} \cup {"br"}) \cup {"bw"})
      BY <3>1, FS_AddElement
    <3>3. IsFiniteSet((({} \cup {"br"}) \cup {"bw"}) \cup {"flate"})
      BY <3>2, FS_AddElement
    <3>4. (({} \cup {"br"}) \cup {"bw"}) \cup {"flate"} = {"br", "bw", "flate"}
      OBVIOUS
    <3> QED
      BY <3>3, <3>4
  <2> QED
    BY <2>1, FS_Subset DEF Places
<1>4. \A x \in Places : <<c, x>> \in Slots
  BY DEF Slots
<1>5. \A x, y \in Full : F[x] = F[y] => x = y
  <2> TAKE x, y \in Full
  <2> HAVE F[x] = F[y]
  <2>1. Holding[<<c, x>>] # 0 /\ Holding[<<c, x>>] = Holding[<<c, y>>]
    BY PoolSizes
  <2>2. <<c, x>> = <<c, y>>
    BY <1>4, <2>1 DEF PoolInv, PoolOK
  <2> QED
    BY <2>2
<1>6. F \in [Full -> Held(c)] /\ \A b \in Held(c) : \E x \in Full : F[x] = b
  BY <1>2
<1>7. F \in Bijection(Full, Held(c))
  BY <1>5, <1>6 DEF Bijection, Injection, Surjection, IsInjective
<1>8. ExistsBijection(Full, Held(c))
  BY <1>7 DEF ExistsBijection
<1>9. Cardinality(Held(c)) = Cardinality(Full)
  BY <1>3, <1>8, FS_Bijection
<1> QED
  BY <1>1, <1>9

LEMMA ExclusiveFromPool == PoolInv => BuffersExclusive
<1> SUFFICES ASSUME PoolInv PROVE BuffersExclusive
  OBVIOUS
<1>1. PoolOK(Slots, MaxBuffers, freeList, next, allocated, Holding)
  BY DEF PoolInv
<1>2. Walk = WalkOf(MaxBuffers, freeList, next)
  BY DEF Walk, WalkOf, Nil
<1>3. WalkMisses(Slots, MaxBuffers, Holding, Walk)
  BY <1>1, <1>2, PoolSizes, PoolWalk
<1>4. \A s \in Slots : Holding[s] # Nil => Holding[s] \notin InPool
  BY <1>3 DEF WalkMisses, InPool, Nil
<1>5. \A c \in Conns : \A b \in Held(c) :
         \E s \in Slots : b = Holding[s] /\ b # Nil /\ s[1] = c
  <2> TAKE c \in Conns
  <2> TAKE b \in Held(c)
  <2>1. /\ <<c, "br">> \in Slots /\ <<c, "bw">> \in Slots
        /\ <<c, "flate">> \in Slots
    BY SlotFacts
  <2>2. b # Nil /\ (b = brBuf[c] \/ b = bwBuf[c] \/ b = flateBuf[c])
    BY DEF Held
  <2> QED
    BY <2>1, <2>2, HoldingFacts
<1>6. \A s, t \in Slots : Holding[s] # Nil /\ Holding[s] = Holding[t] => s = t
  BY <1>1 DEF PoolOK, Nil
<1>7. \A c \in Conns : Held(c) \cap InPool = {}
  BY <1>4, <1>5
<1>8. ASSUME NEW c \in Conns, NEW d \in Conns, c # d
      PROVE  Held(c) \cap Held(d) = {}
  BY <1>5, <1>6, <1>8
<1>9. Walk[MaxBuffers] = Nil
  BY <1>3 DEF WalkMisses, Nil
<1> QED
  BY <1>7, <1>8, <1>9, HeldCounted DEF BuffersExclusive, PoolInv

(* A buffer is in the pool or with one connection, in one of its places,    *)
(* however connections are made, used and closed (buffer.go:71-94,          *)
(* conn.go:323-333).                                                        *)
THEOREM BuffersHaveOneOwner == BufferPoolSpec => []BuffersExclusive
<1>1. PoolInv => BuffersExclusive
  BY ExclusiveFromPool
<1> QED
  BY <1>1, PoolInitInv, PoolStepInv, PTL DEF BufferPoolSpec

-----------------------------------------------------------------------------
(* Frames. *)

(* Where a sequence in the middle is. *)
LEMMA MiddleOf ==
    ASSUME NEW S, NEW s \in Seq(S), NEW t \in Seq(S), NEW u \in Seq(S)
    PROVE  SubSeq(s \o t \o u, Len(s) + 1, Len(s) + Len(t)) = t
<1> DEFINE c == s \o t \o u
<1>1. /\ Len(s) \in Nat /\ Len(t) \in Nat /\ Len(u) \in Nat
      /\ s \o t \in Seq(S) /\ Len(s \o t) = Len(s) + Len(t)
  BY LenProperties, ConcatProperties
<1>2. c \in Seq(S) /\ Len(c) = Len(s) + Len(t) + Len(u)
  BY <1>1, ConcatProperties
<1>3. ASSUME NEW i \in 1..Len(t) PROVE c[Len(s) + i] = t[i]
  <2>1. Len(s) + i \in 1..Len(s) + Len(t) /\ Len(s) + i - Len(s) = i
        /\ ~(Len(s) + i <= Len(s))
    BY <1>1
  <2>2. (s \o t)[Len(s) + i] = t[i]
    BY <2>1, ConcatProperties
  <2>3. Len(s) + i \in 1..Len(s \o t) + Len(u) /\ Len(s) + i <= Len(s \o t)
    BY <1>1, <2>1
  <2>4. c[Len(s) + i] = (s \o t)[Len(s) + i]
    BY <1>1, <2>3, ConcatProperties
  <2>5. QED
    BY <2>2, <2>4
<1> HIDE DEF c
<1> DEFINE m == Len(s) + 1
           n == Len(s) + Len(t)
<1>4. m \in Int /\ n \in Int /\ n - m + 1 = Len(t)
  BY <1>1
<1>5. ASSUME NEW i \in m..n PROVE c[i] \in S
  <2>1. i \in 1..Len(c)
    BY <1>1, <1>2
  <2>2. QED
    BY <1>2, <2>1, ElementOfSeq
<1>6. /\ SubSeq(c, m, n) \in Seq(S)
      /\ Len(SubSeq(c, m, n)) = IF m <= n THEN n - m + 1 ELSE 0
      /\ \A i \in 1 .. n - m + 1 : SubSeq(c, m, n)[i] = c[m + i - 1]
  <2> HIDE DEF m, n
  <2>1. QED
    BY <1>4, <1>5, SubSeqProperties
<1>7. Len(SubSeq(c, m, n)) = Len(t)
  BY <1>1, <1>4, <1>6
<1>8. ASSUME NEW i \in 1..Len(t) PROVE SubSeq(c, m, n)[i] = t[i]
  <2>1. m + i - 1 = Len(s) + i
    BY <1>1
  <2>2. SubSeq(c, m, n)[i] = c[m + i - 1]
    BY <1>4, <1>6
  <2>3. QED
    BY <1>3, <2>1, <2>2
<1>9. SubSeq(c, m, n) = t
  BY <1>6, <1>7, <1>8, SeqEqual
<1>10. QED
  BY <1>9 DEF c

(* The bits of the first byte. *)
LEMMA BitsOfSum ==
    ASSUME NEW a \in {0, 1}, NEW b \in {0, 1}, NEW c \in {0, 1},
           NEW d \in {0, 1}, NEW code \in 0..15
    PROVE  LET n == 128 * a + 64 * b + 32 * c + 16 * d + code
           IN  /\ (n \div 128) % 2 = a /\ (n \div 64) % 2 = b
               /\ (n \div 32) % 2 = c /\ (n \div 16) % 2 = d
               /\ n % 16 = code /\ n \in 0..255
OBVIOUS

LEMMA BitOfFlag ==
    ASSUME NEW flag \in BOOLEAN
    PROVE  /\ Bit(flag, 7) = 128 * (IF flag THEN 1 ELSE 0)
           /\ Bit(flag, 6) = 64 * (IF flag THEN 1 ELSE 0)
           /\ Bit(flag, 5) = 32 * (IF flag THEN 1 ELSE 0)
           /\ Bit(flag, 4) = 16 * (IF flag THEN 1 ELSE 0)
           /\ (IF flag THEN 1 ELSE 0) \in {0, 1}
           /\ (IF flag THEN 1 ELSE 0) = 1 <=> flag
BY DEF Bit

FirstByte(h) ==
    Bit(h.fin, 7) + Bit(h.rsv1, 6) + Bit(h.rsv2, 5) + Bit(h.rsv3, 4) + h.opcode

LEMMA FirstByteRead ==
    ASSUME NEW h \in Header
    PROVE  /\ HasBit(FirstByte(h), 7) <=> h.fin
           /\ HasBit(FirstByte(h), 6) <=> h.rsv1
           /\ HasBit(FirstByte(h), 5) <=> h.rsv2
           /\ HasBit(FirstByte(h), 4) <=> h.rsv3
           /\ FirstByte(h) % 16 = h.opcode
           /\ FirstByte(h) \in Byte
<1>1. /\ h.fin \in BOOLEAN /\ h.rsv1 \in BOOLEAN /\ h.rsv2 \in BOOLEAN
      /\ h.rsv3 \in BOOLEAN /\ h.opcode \in 0..15
  BY DEF Header
<1>2. PICK a \in {0, 1} : Bit(h.fin, 7) = 128 * a /\ (a = 1 <=> h.fin)
  BY <1>1, BitOfFlag
<1>3. PICK b \in {0, 1} : Bit(h.rsv1, 6) = 64 * b /\ (b = 1 <=> h.rsv1)
  BY <1>1, BitOfFlag
<1>4. PICK c \in {0, 1} : Bit(h.rsv2, 5) = 32 * c /\ (c = 1 <=> h.rsv2)
  BY <1>1, BitOfFlag
<1>5. PICK d \in {0, 1} : Bit(h.rsv3, 4) = 16 * d /\ (d = 1 <=> h.rsv3)
  BY <1>1, BitOfFlag
<1> DEFINE n == 128 * a + 64 * b + 32 * c + 16 * d + h.opcode
<1>6. FirstByte(h) = n
  BY <1>2, <1>3, <1>4, <1>5 DEF FirstByte
<1>7. /\ (n \div 128) % 2 = a /\ (n \div 64) % 2 = b
      /\ (n \div 32) % 2 = c /\ (n \div 16) % 2 = d
      /\ n % 16 = h.opcode /\ n \in 0..255
  BY <1>1, BitsOfSum
<1>8. 2^7 = 128 /\ 2^6 = 64 /\ 2^5 = 32 /\ 2^4 = 16
  OBVIOUS
<1> HIDE DEF n
<1>9. /\ HasBit(n, 7) <=> a = 1
      /\ HasBit(n, 6) <=> b = 1
  BY <1>7, <1>8 DEF HasBit
<1>10. /\ HasBit(n, 5) <=> c = 1 
       /\ HasBit(n, 4) <=> d = 1
  BY <1>7, <1>8 DEF HasBit
<1>11. QED
  BY <1>2, <1>3, <1>4, <1>5, <1>6, <1>7, <1>9, <1>10 DEF Byte

(* The flag and the seven bits of the second byte. *)
LEMMA SecondByteRead ==
    ASSUME NEW masked \in BOOLEAN, NEW form \in 0..127
    PROVE  /\ HasBit(Bit(masked, 7) + form, 7) <=> masked
           /\ (Bit(masked, 7) + form) % 128 = form
           /\ Bit(masked, 7) + form \in Byte
<1>1. 2^7 = 128
  OBVIOUS
<1>2. PICK a \in {0, 1} : Bit(masked, 7) = 128 * a /\ (a = 1 <=> masked)
  BY BitOfFlag
<1>3. /\ ((128 * a + form) \div 128) % 2 = a /\ (128 * a + form) % 128 = form
      /\ 128 * a + form \in 0..255
  OBVIOUS
<1>4. QED
  BY <1>1, <1>2, <1>3 DEF HasBit, Byte

(* The headers that may be written. *)
Writable(h) ==
    /\ h \in Header
    /\ h.payloadLength[1] < 128
    /\ ~h.masked => h.maskKey = NoKey

(* The eight bytes of a length. *)
LEMMA EightBytes ==
    ASSUME NEW len \in [1..8 -> Byte]
    PROVE  /\ len \in Seq(Byte) /\ Len(len) = 8
           /\ \A i \in 1..8 : len[i] \in 0..255
           /\ SubSeq(len, 7, 8) = <<len[7], len[8]>>
           /\ SubSeq(len, 7, 8) \in Seq(Byte)
           /\ Len(SubSeq(len, 7, 8)) = 2
<1>1. \A i \in 1..8 : len[i] \in Byte
  OBVIOUS
<1>2. len \in Seq(Byte)
  BY 8 \in Nat, SeqDef, Zenon
<1>3. Len(len) = 8
  OBVIOUS
<1>4. /\ SubSeq(len, 7, 8) \in Seq(Byte) /\ Len(SubSeq(len, 7, 8)) = 2
      /\ \A i \in 1..2 : SubSeq(len, 7, 8)[i] = len[7 + i - 1]
  <2>1. \A i \in 7..8 : len[i] \in Byte
    BY <1>1
  <2>2. /\ SubSeq(len, 7, 8) \in Seq(Byte)
        /\ Len(SubSeq(len, 7, 8)) = IF 7 <= 8 THEN 8 - 7 + 1 ELSE 0
        /\ \A i \in 1..8 - 7 + 1 : SubSeq(len, 7, 8)[i] = len[7 + i - 1]
    BY <2>1, SubSeqProperties
  <2>3. QED
    BY <2>2
<1>5. <<len[7], len[8]>> \in Seq(Byte) /\ Len(<<len[7], len[8]>>) = 2
  BY <1>1
<1>6. \A i \in 1..2 : SubSeq(len, 7, 8)[i] = <<len[7], len[8]>>[i]
  BY <1>4
<1>7. SubSeq(len, 7, 8) = <<len[7], len[8]>>
  <2>1. Len(SubSeq(len, 7, 8)) = Len(<<len[7], len[8]>>)
    BY <1>4, <1>5
  <2>2. \A i \in 1..Len(SubSeq(len, 7, 8)) :
            SubSeq(len, 7, 8)[i] = <<len[7], len[8]>>[i]
    BY <1>4, <1>6
  <2>3. QED
    BY <1>4, <1>5, <2>1, <2>2, SeqEqual
<1>8. QED
  BY <1>1, <1>2, <1>3, <1>4, <1>7 DEF Byte

(* A length in two bytes, padded to eight, is the length. *)
LEMMA PaddedLength ==
    ASSUME NEW len \in [1..8 -> Byte], Fits16(len)
    PROVE  LengthOf16(<<len[7], len[8]>>) = len
<1> DEFINE pad == <<0, 0, 0, 0, 0, 0>>
           low == <<len[7], len[8]>>
<1>1. pad \in Seq(Byte) /\ Len(pad) = 6
      /\ \A i \in 1..6 : pad[i] = 0
  BY DEF Byte
<1>2. low \in Seq(Byte) /\ Len(low) = 2
      /\ low[1] = len[7] /\ low[2] = len[8]
  OBVIOUS
<1>3. len \in Seq(Byte) /\ Len(len) = 8
  BY EightBytes
<1>4. \A i \in 1..6 : len[i] = 0
  BY DEF Fits16
<1> HIDE DEF pad, low
<1>5. /\ pad \o low \in Seq(Byte) /\ Len(pad \o low) = 8
      /\ \A i \in 1..8 : (pad \o low)[i] =
            IF i <= 6 THEN pad[i] ELSE low[i - 6]
  <2>1. /\ pad \o low \in Seq(Byte) /\ Len(pad \o low) = Len(pad) + Len(low)
        /\ \A i \in 1..Len(pad) + Len(low) : (pad \o low)[i] =
              IF i <= Len(pad) THEN pad[i] ELSE low[i - Len(pad)]
    BY <1>1, <1>2, ConcatProperties, Zenon
  <2>2. Len(pad) = 6 /\ Len(low) = 2
    BY <1>1, <1>2
  <2>3. Len(pad) + Len(low) = 8
    BY <2>2
  <2>4. ASSUME NEW i \in 1..8
        PROVE  (pad \o low)[i] = IF i <= 6 THEN pad[i] ELSE low[i - 6]
    <3>1. i \in 1..Len(pad) + Len(low)
      BY <2>3, Zenon
    <3>2. (pad \o low)[i] =
             IF i <= Len(pad) THEN pad[i] ELSE low[i - Len(pad)]
      BY <2>1, <3>1, Zenon
    <3>3. QED
      BY <2>2, <3>2, Zenon
  <2>5. QED
    BY <2>1, <2>3, <2>4, Zenon
<1>6. \A i \in 1..6 : (pad \o low)[i] = len[i]
  <2>1. TAKE i \in 1..6
  <2>2. i \in 1..8 /\ i <= 6
    OBVIOUS
  <2>3. (pad \o low)[i] = pad[i]
    BY <1>5, <2>2, Zenon
  <2>4. pad[i] = 0 /\ len[i] = 0
    BY <1>1, <1>4, Zenon
  <2>5. QED
    BY <2>3, <2>4, Zenon
<1>7. (pad \o low)[7] = len[7] /\ (pad \o low)[8] = len[8]
  BY <1>2, <1>5
<1>8. \A i \in 1..8 : (pad \o low)[i] = len[i]
  <2>1. \A i \in 1..8 : i \in 1..6 \/ i = 7 \/ i = 8
    OBVIOUS
  <2>2. QED
    BY <1>6, <1>7, <2>1
<1>9. pad \o low = len
  BY <1>3, <1>5, <1>8, SeqEqual
<1>10. QED
  BY <1>9 DEF pad, low, LengthOf16

(* The seven bits say how the length is written, and it is read back. *)
LEMMA LengthRead ==
    ASSUME NEW len \in [1..8 -> Byte]
    PROVE  /\ LengthForm(len) \in 0..127
           /\ ExtendedLength(len) \in Seq(Byte)
           /\ Len(ExtendedLength(len)) = ExtraBytes(LengthForm(len))
           /\ ExtraBytes(LengthForm(len)) \in {0, 2, 8}
           /\ (CASE LengthForm(len) = 126 -> LengthOf16(ExtendedLength(len))
                 [] LengthForm(len) = 127 -> ExtendedLength(len)
                 [] OTHER -> LengthOf16(<<0, LengthForm(len)>>)) = len
<1>1. /\ len \in Seq(Byte) /\ Len(len) = 8
      /\ \A i \in 1..8 : len[i] \in 0..255
      /\ SubSeq(len, 7, 8) = <<len[7], len[8]>>
      /\ SubSeq(len, 7, 8) \in Seq(Byte)
      /\ Len(SubSeq(len, 7, 8)) = 2
  BY EightBytes
<1>2. Uint16(SubSeq(len, 7, 8)) = 256 * len[7] + len[8]
  BY <1>1 DEF Uint16
<1>3. CASE ~Fits16(len)
  <2>1. LengthForm(len) = 127
    BY <1>3 DEF LengthForm
  <2>2. ExtendedLength(len) = len /\ ExtraBytes(LengthForm(len)) = 8
    BY <2>1 DEF ExtendedLength, ExtraBytes
  <2>3. QED
    BY <1>1, <2>1, <2>2
<1>4. CASE Fits16(len) /\ 256 * len[7] + len[8] > 125
  <2>1. LengthForm(len) = 126
    BY <1>2, <1>4 DEF LengthForm
  <2>2. /\ ExtendedLength(len) = <<len[7], len[8]>>
        /\ ExtraBytes(LengthForm(len)) = 2
    BY <1>1, <2>1 DEF ExtendedLength, ExtraBytes
  <2>3. LengthOf16(ExtendedLength(len)) = len
    BY <1>4, <2>2, PaddedLength
  <2>4. QED
    BY <1>1, <2>1, <2>2, <2>3
<1>5. CASE Fits16(len) /\ ~(256 * len[7] + len[8] > 125)
  <2>1. LengthForm(len) = len[8]
    BY <1>2, <1>5 DEF LengthForm
  <2>2. len[7] \in 0..255 /\ len[8] \in 0..255
    BY <1>1
  <2>3. len[7] = 0 /\ len[8] \in 0..125
    <3>1. PICK a \in 0..255, b \in 0..255 : a = len[7] /\ b = len[8]
      BY <2>2
    <3>2. ~(256 * a + b > 125)
      BY <1>5, <3>1
    <3>3. a = 0 /\ b \in 0..125
      BY <3>2
    <3>4. QED
      BY <3>1, <3>3
  <2>4. LengthForm(len) # 126 /\ LengthForm(len) # 127
    BY <2>1, <2>3
  <2>5. ExtendedLength(len) = <<>> /\ ExtraBytes(LengthForm(len)) = 0
    BY <2>4 DEF ExtendedLength, ExtraBytes
  <2>6. LengthOf16(<<0, LengthForm(len)>>) = len
    BY <1>5, <2>1, <2>3, PaddedLength
  <2>7. ExtendedLength(len) \in Seq(Byte) /\ Len(ExtendedLength(len)) = 0
    BY <2>5
  <2>8. QED
    BY <2>1, <2>3, <2>4, <2>5, <2>6, <2>7
<1>6. QED
  BY <1>3, <1>4, <1>5

KeyBytes(h) == IF h.masked THEN h.maskKey ELSE <<>>
KeySize(h) == IF h.masked THEN 4 ELSE 0
HeaderSize(h) == 2 + ExtraBytes(LengthForm(h.payloadLength)) + KeySize(h)
TwoBytes(h) ==
    <<FirstByte(h), Bit(h.masked, 7) + LengthForm(h.payloadLength)>>

(* What is written, its size and its first two bytes. *)
LEMMA HeaderBytes ==
    ASSUME NEW h, Writable(h)
    PROVE  /\ writeFrameHeader(h) =
                TwoBytes(h) \o ExtendedLength(h.payloadLength) \o KeyBytes(h)
           /\ TwoBytes(h) \in Seq(Byte) /\ Len(TwoBytes(h)) = 2
           /\ ExtendedLength(h.payloadLength) \in Seq(Byte)
           /\ Len(ExtendedLength(h.payloadLength)) =
                ExtraBytes(LengthForm(h.payloadLength))
           /\ KeyBytes(h) \in Seq(Byte) /\ Len(KeyBytes(h)) = KeySize(h)
           /\ writeFrameHeader(h) \in Seq(Byte)
           /\ Len(writeFrameHeader(h)) = HeaderSize(h)
           /\ HeaderSize(h) \in Nat /\ HeaderSize(h) >= 2
           /\ writeFrameHeader(h)[1] = TwoBytes(h)[1]
           /\ writeFrameHeader(h)[2] = TwoBytes(h)[2]
<1> DEFINE len == h.payloadLength
           ext == ExtendedLength(len)
           key == KeyBytes(h)
           two == TwoBytes(h)
<1>1. /\ h.masked \in BOOLEAN /\ len \in [1..8 -> Byte]
      /\ h.maskKey \in [1..4 -> Byte]
  BY DEF Writable, Header
<1>2. /\ LengthForm(len) \in 0..127
      /\ ext \in Seq(Byte) /\ Len(ext) = ExtraBytes(LengthForm(len))
      /\ ExtraBytes(LengthForm(len)) \in {0, 2, 8}
  BY <1>1, LengthRead
<1>3. two \in Seq(Byte) /\ Len(two) = 2
  <2>1. FirstByte(h) \in Byte
    BY FirstByteRead DEF Writable
  <2>2. Bit(h.masked, 7) + LengthForm(len) \in Byte
    BY <1>1, <1>2, SecondByteRead
  <2>3. QED
    BY <2>1, <2>2 DEF TwoBytes
<1>4. key \in Seq(Byte) /\ Len(key) = KeySize(h) /\ KeySize(h) \in {0, 4}
  <2>1. CASE h.masked
    <3>1. h.maskKey \in Seq(Byte)
      BY <1>1, 4 \in Nat, SeqDef, Zenon
    <3>2. Len(h.maskKey) = 4
      BY <1>1
    <3>3. QED
      BY <2>1, <3>1, <3>2 DEF KeyBytes, KeySize
  <2>2. CASE ~h.masked
    <3>1. <<>> \in Seq(Byte) /\ Len(<<>>) = 0
      OBVIOUS
    <3>2. QED
      BY <2>2, <3>1 DEF KeyBytes, KeySize
  <2>3. QED
    BY <1>1, <2>1, <2>2
<1>5. writeFrameHeader(h) = two \o ext \o key
  BY DEF writeFrameHeader, TwoBytes, FirstByte, KeyBytes
<1> HIDE DEF two, ext, key
<1>6. /\ two \o ext \in Seq(Byte) /\ Len(two \o ext) = Len(two) + Len(ext)
      /\ \A i \in 1..Len(two) + Len(ext) : (two \o ext)[i] =
            IF i <= Len(two) THEN two[i] ELSE ext[i - Len(two)]
  BY <1>2, <1>3, ConcatProperties
<1>7. /\ two \o ext \o key \in Seq(Byte)
      /\ Len(two \o ext \o key) = Len(two \o ext) + Len(key)
      /\ \A i \in 1..Len(two \o ext) + Len(key) : (two \o ext \o key)[i] =
            IF i <= Len(two \o ext) THEN (two \o ext)[i]
            ELSE key[i - Len(two \o ext)]
  BY <1>4, <1>6, ConcatProperties
<1>8. Len(two \o ext \o key) = HeaderSize(h)
  BY <1>2, <1>3, <1>4, <1>6, <1>7 DEF HeaderSize, len
<1>9. HeaderSize(h) \in Nat /\ HeaderSize(h) >= 2
  BY <1>2, <1>4 DEF HeaderSize, len
<1>10. 1 \in 1..2 /\ 2 \in 1..2
  OBVIOUS
<1>11. (two \o ext)[1] = two[1] /\ (two \o ext)[2] = two[2]
  <2>1. \A i \in 1..2 : i \in 1..Len(two) + Len(ext) /\ i <= Len(two)
    BY <1>2, <1>3
  <2>2. QED
    BY <1>6, <1>10, <2>1, Zenon
<1>12. /\ (two \o ext \o key)[1] = two[1]
       /\ (two \o ext \o key)[2] = two[2]
  <2>1. \A i \in 1..2 : /\ i \in 1..Len(two \o ext) + Len(key)
                        /\ i <= Len(two \o ext)
    BY <1>2, <1>3, <1>4, <1>6
  <2>2. QED
    BY <1>7, <1>10, <1>11, <2>1, Zenon
<1>13. /\ writeFrameHeader(h) \in Seq(Byte)
       /\ Len(writeFrameHeader(h)) = HeaderSize(h)
       /\ writeFrameHeader(h)[1] = two[1]
       /\ writeFrameHeader(h)[2] = two[2]
  BY <1>5, <1>7, <1>8, <1>12, Zenon
<1>14. QED
  BY <1>2, <1>3, <1>4, <1>5, <1>9, <1>13, Zenon DEF two, ext, key, len

LEMMA BytesAssociate ==
    ASSUME NEW s \in Seq(Byte), NEW t \in Seq(Byte), NEW u \in Seq(Byte)
    PROVE  (s \o t) \o u = s \o (t \o u)
  BY ConcatAssociative

(* The bytes of a header with others after them. *)
LEMMA HeaderThenMore ==
    ASSUME NEW h, Writable(h), NEW rest \in Seq(Byte),
           NEW c, c = writeFrameHeader(h) \o rest
    PROVE  /\ Len(c) \in Nat /\ Len(c) >= HeaderSize(h)
           /\ c[1] = FirstByte(h)
           /\ c[2] = Bit(h.masked, 7) + LengthForm(h.payloadLength)
           /\ SubSeq(c, 3, 2 + ExtraBytes(LengthForm(h.payloadLength)))
                 = ExtendedLength(h.payloadLength)
           /\ h.masked => SubSeq(c, HeaderSize(h) - 3, HeaderSize(h))
                             = h.maskKey
<1> DEFINE len == h.payloadLength
           ext == ExtendedLength(len)
           key == KeyBytes(h)
           two == TwoBytes(h)
           b == writeFrameHeader(h)
<1>1. /\ b = two \o ext \o key
      /\ two \in Seq(Byte) /\ Len(two) = 2
      /\ ext \in Seq(Byte) /\ Len(ext) = ExtraBytes(LengthForm(len))
      /\ key \in Seq(Byte) /\ Len(key) = KeySize(h)
      /\ b \in Seq(Byte) /\ Len(b) = HeaderSize(h)
      /\ HeaderSize(h) \in Nat /\ HeaderSize(h) >= 2
      /\ b[1] = two[1] /\ b[2] = two[2]
  BY HeaderBytes
<1>2. two[1] = FirstByte(h) /\ two[2] = Bit(h.masked, 7) + LengthForm(len)
  BY DEF TwoBytes
<1>3. Len(ext) \in Nat /\ Len(key) \in Nat /\ Len(rest) \in Nat
  BY <1>1, LenProperties
<1> HIDE DEF two, ext, key, b
<1>4. /\ c \in Seq(Byte) /\ Len(c) = Len(b) + Len(rest)
      /\ \A i \in 1..Len(b) + Len(rest) : c[i] =
            IF i <= Len(b) THEN b[i] ELSE rest[i - Len(b)]
  BY <1>1, ConcatProperties DEF b
<1>5. Len(c) \in Nat /\ Len(c) >= HeaderSize(h)
  BY <1>1, <1>3, <1>4
<1>6. c[1] = b[1] /\ c[2] = b[2]
  <2>1. \A i \in 1..2 : i \in 1..Len(b) + Len(rest) /\ i <= Len(b)
    BY <1>1, <1>3
  <2>2. 1 \in 1..2 /\ 2 \in 1..2
    OBVIOUS
  <2>3. QED
    BY <1>4, <2>1, <2>2, Zenon
<1>7. two \o ext \in Seq(Byte) /\ Len(two \o ext) = 2 + Len(ext)
  <2>1. two \in Seq(Byte) /\ ext \in Seq(Byte) /\ Len(two) = 2
    BY <1>1
  <2>2. /\ two \o ext \in Seq(Byte)
        /\ Len(two \o ext) = Len(two) + Len(ext)
    BY <2>1, ConcatProperties
  <2>3. QED
    BY <2>1, <2>2
<1>8. SubSeq(c, 3, 2 + Len(ext)) = ext
  <2>1. key \o rest \in Seq(Byte)
    BY <1>1, ConcatProperties
  <2>2. c = (two \o ext) \o (key \o rest)
    <3>1. c = ((two \o ext) \o key) \o rest
      BY <1>1 DEF b
    <3>2. two \o ext \in Seq(Byte) /\ key \in Seq(Byte)
      BY <1>1, <1>7
    <3>3. PICK s \in Seq(Byte) : s = two \o ext
      BY <3>2
    <3>4. (s \o key) \o rest = s \o (key \o rest)
      BY <3>2, BytesAssociate, Zenon
    <3>5. QED
      BY <3>1, <3>3, <3>4, Zenon
  <2>3. SubSeq(c, Len(two) + 1, Len(two) + Len(ext)) = ext
    <3>1. two \in Seq(Byte) /\ ext \in Seq(Byte)
      BY <1>1
    <3>2. SubSeq((two \o ext) \o (key \o rest),
                 Len(two) + 1, Len(two) + Len(ext)) = ext
      BY <2>1, <3>1, MiddleOf
    <3>3. QED
      BY <2>2, <3>2
  <2>4. Len(two) + 1 = 3 /\ Len(two) + Len(ext) = 2 + Len(ext)
    BY <1>1
  <2>5. QED
    BY <2>3, <2>4
<1>9. ASSUME h.masked
      PROVE  SubSeq(c, HeaderSize(h) - 3, HeaderSize(h)) = h.maskKey
  <2>1. key = h.maskKey /\ Len(key) = 4
    BY <1>1, <1>9 DEF key, KeyBytes, KeySize
  <2>2. SubSeq(c, Len(two \o ext) + 1, Len(two \o ext) + Len(key)) = key
    <3>1. two \o ext \in Seq(Byte) /\ key \in Seq(Byte)
      BY <1>1, <1>7
    <3>2. c = (two \o ext) \o key \o rest
      BY <1>1 DEF b
    <3>3. SubSeq((two \o ext) \o key \o rest,
                 Len(two \o ext) + 1, Len(two \o ext) + Len(key)) = key
      BY <3>1, MiddleOf, Zenon
    <3>4. QED
      BY <3>2, <3>3, Zenon
  <2>3. HeaderSize(h) = 2 + Len(ext) + 4
    BY <1>1, <2>1 DEF HeaderSize, len
  <2>4. /\ Len(two \o ext) + 1 = HeaderSize(h) - 3
        /\ Len(two \o ext) + Len(key) = HeaderSize(h)
    BY <1>3, <1>7, <2>1, <2>3
  <2>5. QED
    BY <2>1, <2>2, <2>4
<1>10. QED
  BY <1>1, <1>2, <1>5, <1>6, <1>8, <1>9 DEF ext, len

(* The peer reads the header that was written, whatever follows it. *)
LEMMA HeaderRead ==
    ASSUME NEW h, Writable(h), NEW rest \in Seq(Byte)
    PROVE  readFrameHeader(writeFrameHeader(h) \o rest) =
             [ok |-> TRUE, size |-> Len(writeFrameHeader(h)), header |-> h]
<1> DEFINE c == writeFrameHeader(h) \o rest
           form == LengthForm(h.payloadLength)
           ext == SubSeq(c, 3, 2 + ExtraBytes(form))
<1>1. /\ Len(c) \in Nat /\ Len(c) >= HeaderSize(h)
      /\ c[1] = FirstByte(h) /\ c[2] = Bit(h.masked, 7) + form
      /\ ext = ExtendedLength(h.payloadLength)
      /\ h.masked => SubSeq(c, HeaderSize(h) - 3, HeaderSize(h)) = h.maskKey
  <2> HIDE DEF c
  <2>1. QED
    BY HeaderThenMore DEF c
<1> HIDE DEF c
<1>2. /\ h \in Header /\ h.payloadLength[1] < 128
      /\ ~h.masked => h.maskKey = NoKey
  BY DEF Writable
<1>3. h.payloadLength \in [1..8 -> Byte] /\ h.masked \in BOOLEAN
  BY <1>2 DEF Header
<1>4. /\ form \in 0..127 /\ ExtraBytes(form) \in {0, 2, 8}
      /\ (CASE form = 126 -> LengthOf16(ext)
            [] form = 127 -> ext
            [] OTHER -> LengthOf16(<<0, form>>)) = h.payloadLength
  <2> HIDE DEF ext
  <2>1. PICK len \in [1..8 -> Byte] : len = h.payloadLength
    BY <1>3
  <2>2. ext = ExtendedLength(len) /\ form = LengthForm(len)
    BY <1>1, <2>1
  <2> HIDE DEF form
  <2>3. /\ LengthForm(len) \in 0..127
        /\ ExtraBytes(LengthForm(len)) \in {0, 2, 8}
        /\ (CASE LengthForm(len) = 126 -> LengthOf16(ExtendedLength(len))
              [] LengthForm(len) = 127 -> ExtendedLength(len)
              [] OTHER -> LengthOf16(<<0, LengthForm(len)>>)) = len
    BY LengthRead
  <2>4. QED
    BY <2>1, <2>2, <2>3
<1> HIDE DEF form
<1>5. (HasBit(c[2], 7) <=> h.masked) /\ c[2] % 128 = form
  <2>1. /\ HasBit(Bit(h.masked, 7) + form, 7) <=> h.masked
        /\ (Bit(h.masked, 7) + form) % 128 = form
    BY <1>3, <1>4, SecondByteRead, Zenon
  <2>2. QED
    BY <1>1, <2>1
<1>6. /\ HasBit(c[1], 7) <=> h.fin
      /\ HasBit(c[1], 6) <=> h.rsv1
      /\ HasBit(c[1], 5) <=> h.rsv2
      /\ HasBit(c[1], 4) <=> h.rsv3
      /\ c[1] % 16 = h.opcode
  BY <1>1, <1>2, FirstByteRead
<1>7. /\ HeaderSize(h) = 2 + ExtraBytes(form) + (IF h.masked THEN 4 ELSE 0)
      /\ Len(writeFrameHeader(h)) = HeaderSize(h)
  BY HeaderBytes DEF HeaderSize, KeySize, form
<1>8. ~Negative(h.payloadLength)
  <2>1. h.payloadLength[1] \in 0..255
    BY <1>3 DEF Byte
  <2>2. \A n \in 0..255 : n < 128 => ~(n >= 128)
    OBVIOUS
  <2>3. QED
    BY <1>2, <2>1, <2>2, Zenon DEF Negative
<1>9. /\ ~(Len(c) < 2) /\ ~(Len(c) < 2 + ExtraBytes(form))
      /\ ~(Len(c) < HeaderSize(h))
  <2>1. HeaderSize(h) \in Nat /\ HeaderSize(h) >= 2 + ExtraBytes(form)
    BY <1>4, <1>7
  <2>2. QED
    BY <1>1, <1>4, <2>1
<1>10. HasBit(c[2], 7) = h.masked
  BY <1>3, <1>5 DEF HasBit
<1>11. /\ HasBit(c[1], 7) = h.fin /\ HasBit(c[1], 6) = h.rsv1
       /\ HasBit(c[1], 5) = h.rsv2 /\ HasBit(c[1], 4) = h.rsv3
  BY <1>2, <1>6 DEF HasBit, Header
<1>12. (IF h.masked THEN SubSeq(c, HeaderSize(h) - 3, HeaderSize(h))
        ELSE NoKey) = h.maskKey
  BY <1>1, <1>2
<1>13. h = [fin |-> h.fin, rsv1 |-> h.rsv1, rsv2 |-> h.rsv2, rsv3 |-> h.rsv3,
            opcode |-> h.opcode, payloadLength |-> h.payloadLength,
            masked |-> h.masked, maskKey |-> h.maskKey]
  BY <1>2 DEF Header
<1> HIDE DEF ext
<1>14. readFrameHeader(c) =
         [ok |-> TRUE, size |-> HeaderSize(h), header |->
            [fin |-> HasBit(c[1], 7), rsv1 |-> HasBit(c[1], 6),
             rsv2 |-> HasBit(c[1], 5), rsv3 |-> HasBit(c[1], 4),
             opcode |-> c[1] % 16, payloadLength |-> h.payloadLength,
             masked |-> h.masked, maskKey |-> h.maskKey]]
  <2> DEFINE F == c[2] % 128
             E == SubSeq(c, 3, 2 + ExtraBytes(F))
             L == CASE F = 126 -> LengthOf16(E)
                    [] F = 127 -> E
                    [] OTHER -> LengthOf16(<<0, F>>)
             M == HasBit(c[2], 7)
             Z == 2 + ExtraBytes(F) + (IF M THEN 4 ELSE 0)
             K == IF M THEN SubSeq(c, Z - 3, Z) ELSE NoKey
             H == [fin |-> HasBit(c[1], 7), rsv1 |-> HasBit(c[1], 6),
                   rsv2 |-> HasBit(c[1], 5), rsv3 |-> HasBit(c[1], 4),
                   opcode |-> c[1] % 16, payloadLength |-> L,
                   masked |-> M, maskKey |-> K]
  <2>1. readFrameHeader(c) =
          IF Len(c) < 2 THEN HeaderError
          ELSE IF Len(c) < 2 + ExtraBytes(F) THEN HeaderError
               ELSE IF Negative(L) \/ Len(c) < Z THEN HeaderError
                    ELSE [ok |-> TRUE, size |-> Z, header |-> H]
    BY Zenon DEF readFrameHeader
  <2>2. F = form
    BY <1>5
  <2>3. E = ext
    BY <2>2 DEF ext
  <2> HIDE DEF F, E
  <2>4. L = h.payloadLength
    BY <1>4, <2>2, <2>3
  <2>5. M = h.masked
    BY <1>10
  <2> HIDE DEF L, M
  <2>6. Z = HeaderSize(h)
    BY <1>7, <2>2, <2>5
  <2> HIDE DEF Z
  <2>7. K = h.maskKey
    BY <1>12, <2>5, <2>6
  <2> HIDE DEF K
  <2>8. readFrameHeader(c) = [ok |-> TRUE, size |-> Z, header |-> H]
    BY <1>8, <1>9, <2>1, <2>2, <2>4, <2>6, Zenon
  <2>9. QED
    BY <2>4, <2>5, <2>6, <2>7, <2>8, Zenon
<1>15. QED
  BY <1>6, <1>7, <1>11, <1>13, <1>14 DEF c

(* No part of a header is read as one. *)
LEMMA PartNotRead ==
    ASSUME NEW h, Writable(h), NEW n \in 0..HeaderSize(h) - 1
    PROVE  ~readFrameHeader(SubSeq(writeFrameHeader(h), 1, n)).ok
<1> DEFINE b == writeFrameHeader(h)
           c == SubSeq(b, 1, n)
           form == LengthForm(h.payloadLength)
<1>1. /\ b \in Seq(Byte) /\ Len(b) = HeaderSize(h)
      /\ HeaderSize(h) \in Nat /\ HeaderSize(h) >= 2
      /\ b[2] = Bit(h.masked, 7) + form
      /\ HeaderSize(h) = 2 + ExtraBytes(form) + (IF h.masked THEN 4 ELSE 0)
  BY HeaderBytes DEF TwoBytes, HeaderSize, KeySize
<1>2. /\ n \in Int /\ 1 \in Int /\ \A i \in 1..n : b[i] \in Byte
  <2>1. n \in Int /\ \A i \in 1..n : i \in 1..Len(b)
    BY <1>1
  <2>2. QED
    BY <1>1, <2>1, ElementOfSeq
<1> HIDE DEF b
<1>3. /\ Len(c) = IF 1 <= n THEN n - 1 + 1 ELSE 0
      /\ \A i \in 1..n - 1 + 1 : c[i] = b[1 + i - 1]
  BY <1>2, SubSeqProperties
<1>4. Len(c) = n
  BY <1>1, <1>3
<1>5. h.payloadLength \in [1..8 -> Byte] /\ h.masked \in BOOLEAN
  BY DEF Writable, Header
<1>6. form \in 0..127
  BY <1>5, LengthRead
<1>7. HeaderError.ok = FALSE
  BY DEF HeaderError
<1>8. CASE n < 2
  <2> HIDE DEF c
  <2>1. Len(c) < 2
    BY <1>4, <1>8
  <2>2. readFrameHeader(c) = HeaderError
    BY <2>1, Zenon DEF readFrameHeader
  <2>3. QED
    BY <1>7, <2>2 DEF c, b
<1>9. CASE ~(n < 2)
  <2>1. c[2] = b[2]
    <3>1. 2 \in 1..n - 1 + 1 /\ 1 + 2 - 1 = 2
      BY <1>1, <1>9
    <3>2. QED
      BY <1>3, <3>1
  <2>2. (HasBit(c[2], 7) <=> h.masked) /\ c[2] % 128 = form
    <3>1. /\ HasBit(Bit(h.masked, 7) + form, 7) <=> h.masked
          /\ (Bit(h.masked, 7) + form) % 128 = form
      BY <1>5, <1>6, SecondByteRead
    <3>2. QED
      BY <1>1, <2>1, <3>1
  <2> HIDE DEF c, form
  <2> DEFINE F == c[2] % 128
             E == SubSeq(c, 3, 2 + ExtraBytes(F))
             L == CASE F = 126 -> LengthOf16(E)
                    [] F = 127 -> E
                    [] OTHER -> LengthOf16(<<0, F>>)
             M == HasBit(c[2], 7)
             Z == 2 + ExtraBytes(F) + (IF M THEN 4 ELSE 0)
             K == IF M THEN SubSeq(c, Z - 3, Z) ELSE NoKey
             H == [fin |-> HasBit(c[1], 7), rsv1 |-> HasBit(c[1], 6),
                   rsv2 |-> HasBit(c[1], 5), rsv3 |-> HasBit(c[1], 4),
                   opcode |-> c[1] % 16, payloadLength |-> L,
                   masked |-> M, maskKey |-> K]
  <2>3. readFrameHeader(c) =
          IF Len(c) < 2 THEN HeaderError
          ELSE IF Len(c) < 2 + ExtraBytes(F) THEN HeaderError
               ELSE IF Negative(L) \/ Len(c) < Z THEN HeaderError
                    ELSE [ok |-> TRUE, size |-> Z, header |-> H]
    BY Zenon DEF readFrameHeader
  <2>4. Z = HeaderSize(h)
    <3>1. M <=> h.masked
      BY <2>2
    <3>2. F = form
      BY <2>2
    <3> HIDE DEF M, F
    <3>3. QED
      BY <1>1, <3>1, <3>2
  <2> HIDE DEF Z, H, L, F
  <2>5. Len(c) < Z
    BY <1>1, <1>4, <2>4
  <2>6. readFrameHeader(c) = HeaderError
    BY <2>3, <2>5, Zenon
  <2>7. QED
    BY <1>7, <2>6 DEF c, b
<1>10. QED
  BY <1>8, <1>9

LEMMA HeaderRoundTripOf ==
    ASSUME NEW h, Writable(h)
    PROVE  LET b == writeFrameHeader(h)
           IN  /\ \A following \in {<<>>, <<0, 0>>, <<0, 129, 255>>} :
                     readFrameHeader(b \o following)
                        = [ok |-> TRUE, size |-> Len(b), header |-> h]
               /\ \A n \in 0..Len(b)-1 : ~readFrameHeader(SubSeq(b, 1, n)).ok
<1>1. ASSUME NEW following \in {<<>>, <<0, 0>>, <<0, 129, 255>>}
      PROVE  following \in Seq(Byte)
  <2>1. <<>> \in Seq(Byte)
    OBVIOUS
  <2>2. <<0, 0>> \in Seq(Byte)
    BY DEF Byte
  <2>3. <<0, 129, 255>> \in Seq(Byte)
    BY DEF Byte
  <2>4. QED
    BY <2>1, <2>2, <2>3, Zenon
<1>2. Len(writeFrameHeader(h)) = HeaderSize(h)
  BY HeaderBytes
<1>3. QED
  BY <1>1, <1>2, HeaderRead, PartNotRead

TwoByteNumber == {n \in Nat : n < 256 * 256}

(* A code in two bytes. *)
LEMMA CodeBytes ==
    ASSUME NEW n \in TwoByteNumber, NEW reason \in Seq(Byte)
    PROVE  /\ PutUint16(n) \o reason \in Seq(Byte)
           /\ Len(PutUint16(n) \o reason) = 2 + Len(reason)
           /\ Len(reason) \in Nat
           /\ Uint16(PutUint16(n) \o reason) = n
           /\ SubSeq(PutUint16(n) \o reason, 3, 2 + Len(reason)) = reason
<1> DEFINE two == PutUint16(n)
           p == two \o reason
<1>1. n \div 256 \in 0..255 /\ n % 256 \in 0..255
      /\ 256 * (n \div 256) + (n % 256) = n
  BY DEF TwoByteNumber
<1>2. /\ two \in Seq(Byte) /\ Len(two) = 2
      /\ two[1] = n \div 256 /\ two[2] = n % 256
  BY <1>1 DEF PutUint16, Byte
<1> HIDE DEF two
<1>3. Len(reason) \in Nat
  BY LenProperties
<1>4. two \in Seq(Byte)
  BY <1>2
<1>5. /\ p \in Seq(Byte) /\ Len(p) = Len(two) + Len(reason)
      /\ \A i \in 1..Len(two) + Len(reason) : p[i] =
            IF i <= Len(two) THEN two[i] ELSE reason[i - Len(two)]
  BY <1>4, ConcatProperties, Zenon
<1>6. SubSeq(p, 3, 2 + Len(reason)) = reason
  <2>1. p \o <<>> = p
    BY <1>5, ConcatEmptySeq
  <2>2. <<>> \in Seq(Byte)
    OBVIOUS
  <2>3. SubSeq(p \o <<>>, Len(two) + 1, Len(two) + Len(reason)) = reason
    BY <1>4, <2>2, MiddleOf, Zenon
  <2>4. Len(two) + 1 = 3 /\ Len(two) + Len(reason) = 2 + Len(reason)
    BY <1>2
  <2>5. QED
    BY <2>1, <2>3, <2>4, Zenon
<1> HIDE DEF p
<1>7. p[1] = two[1] /\ p[2] = two[2]
  <2>1. \A i \in {1, 2} : i \in 1..Len(two) + Len(reason) /\ i <= Len(two)
    BY <1>2, <1>3
  <2>2. 1 \in {1, 2} /\ 2 \in {1, 2}
    OBVIOUS
  <2>3. QED
    BY <1>5, <2>1, <2>2, Zenon
<1>8. Uint16(p) = n
  BY <1>1, <1>2, <1>7 DEF Uint16
<1>9. Len(p) = 2 + Len(reason)
  BY <1>2, <1>5
<1>10. QED
  BY <1>3, <1>5, <1>6, <1>8, <1>9, Zenon DEF p, two

(* What is parsed out of it. *)
LEMMA ParsedCode ==
    ASSUME NEW n \in TwoByteNumber, NEW reason \in Seq(Byte)
    PROVE  parseClosePayload(PutUint16(n) \o reason) =
             IF validWireCloseCode(n) THEN CloseError(n, reason) ELSE Rejected
<1> DEFINE p == PutUint16(n) \o reason
<1>1. /\ Len(p) = 2 + Len(reason) /\ Len(reason) \in Nat
      /\ Uint16(p) = n /\ SubSeq(p, 3, 2 + Len(reason)) = reason
  BY CodeBytes, Zenon
<1> HIDE DEF p
<1>2. p # <<>> /\ Len(p) # 1
  BY <1>1
<1>3. parseClosePayload(p) =
        IF validWireCloseCode(Uint16(p))
        THEN CloseError(Uint16(p), SubSeq(p, 3, Len(p)))
        ELSE Rejected
  BY <1>2 DEF parseClosePayload
<1>4. QED
  BY <1>1, <1>3, Zenon DEF p

LEMMA ValidCodes ==
    ASSUME NEW n \in Int, validWireCloseCode(n)
    PROVE  /\ n % 2^16 = n /\ n \in TwoByteNumber
           /\ n # StatusNoStatusRcvd
<1>1. 2^16 = 65536
  OBVIOUS
<1>2. n \in 1000..4999 /\ n # 1005
  BY DEF validWireCloseCode, StatusReserved, StatusNoStatusRcvd,
         StatusAbnormalClosure, StatusTLSHandshake, StatusNormalClosure,
         StatusBadGateway
<1>3. n % 65536 = n /\ n \in Nat /\ n < 65536
  BY <1>2
<1>4. QED
  BY <1>1, <1>2, <1>3 DEF StatusNoStatusRcvd, TwoByteNumber

(* The payload of a close frame with a code that may be sent. *)
LEMMA SentPayload ==
    ASSUME NEW ce, bytesErr(ce).ok
    PROVE  /\ Len(ce.reason) <= maxCloseReason /\ validWireCloseCode(ce.code)
           /\ bytesErr(ce) = [ok |-> TRUE, payload |->
                                PutUint16(ce.code % 2^16) \o ce.reason]
<1>1. CASE Len(ce.reason) > maxCloseReason \/ ~validWireCloseCode(ce.code)
  <2>1. bytesErr(ce) = [ok |-> FALSE]
    BY <1>1 DEF bytesErr
  <2>2. QED
    BY <2>1
<1>2. CASE ~(Len(ce.reason) > maxCloseReason \/ ~validWireCloseCode(ce.code))
  <2>1. bytesErr(ce) = [ok |-> TRUE, payload |->
                          PutUint16(ce.code % 2^16) \o ce.reason]
    BY <1>2 DEF bytesErr
  <2>2. CASE Len(ce.reason) \in Int
    BY <1>2, <2>1, <2>2 DEF maxCloseReason, maxControlPayload
  <2>3. QED
    BY <1>2, <2>1, <2>2
<1>3. QED
  BY <1>1, <1>2

(* What Close sends is what the peer parses. *)
LEMMA CloseParsed ==
    ASSUME NEW ce \in [code : Int, reason : Seq(Byte)],
           writeClosePayload(ce).ok
    PROVE  LET p == writeClosePayload(ce).payload
           IN  /\ Len(p) <= maxControlPayload
               /\ parseClosePayload(p) =
                    IF ce.code = StatusNoStatusRcvd
                    THEN CloseError(StatusNoStatusRcvd, <<>>) ELSE ce
<1>1. /\ ce.code \in Int /\ ce.reason \in Seq(Byte)
      /\ ce = CloseError(ce.code, ce.reason)
  BY DEF CloseError
<1>2. CASE ce.code = StatusNoStatusRcvd
  <2>1. writeClosePayload(ce).payload = <<>>
    BY <1>2 DEF writeClosePayload
  <2>2. Len(<<>>) <= maxControlPayload
    BY DEF maxControlPayload
  <2>3. parseClosePayload(<<>>) = CloseError(StatusNoStatusRcvd, <<>>)
    BY DEF parseClosePayload
  <2>4. QED
    BY <1>2, <2>1, <2>2, <2>3
<1>3. CASE ce.code # StatusNoStatusRcvd
  <2>1. writeClosePayload(ce) = bytesErr(ce)
    BY <1>3 DEF writeClosePayload
  <2>2. /\ Len(ce.reason) <= maxCloseReason /\ validWireCloseCode(ce.code)
        /\ bytesErr(ce).payload = PutUint16(ce.code % 2^16) \o ce.reason
    <3>1. bytesErr(ce).ok
      BY <2>1
    <3>2. /\ Len(ce.reason) <= maxCloseReason /\ validWireCloseCode(ce.code)
          /\ bytesErr(ce) = [ok |-> TRUE, payload |->
                               PutUint16(ce.code % 2^16) \o ce.reason]
      BY <3>1, SentPayload, Zenon
    <3>3. \A q : [ok |-> TRUE, payload |-> q].payload = q
      OBVIOUS
    <3>4. QED
      BY <3>2, <3>3, Zenon
  <2>3. ce.code % 2^16 = ce.code /\ ce.code \in TwoByteNumber
    BY <1>1, <2>2, ValidCodes
  <2>4. writeClosePayload(ce).payload = PutUint16(ce.code) \o ce.reason
    BY <2>1, <2>2, <2>3
  <2>5. parseClosePayload(PutUint16(ce.code) \o ce.reason) = ce
    BY <1>1, <2>2, <2>3, ParsedCode, Zenon
  <2>6. Len(PutUint16(ce.code) \o ce.reason) <= maxControlPayload
    <3>1. /\ Len(PutUint16(ce.code) \o ce.reason) = 2 + Len(ce.reason)
          /\ Len(ce.reason) \in Nat
      BY <1>1, <2>3, CodeBytes, Zenon
    <3> DEFINE size == Len(PutUint16(ce.code) \o ce.reason)
               n == Len(ce.reason)
    <3>2. size = 2 + n /\ n \in Nat /\ n <= maxCloseReason
      BY <2>2, <3>1
    <3> HIDE DEF size, n
    <3>3. size <= maxControlPayload
      BY <3>2 DEF maxCloseReason, maxControlPayload
    <3>4. QED
      BY <3>3 DEF size
  <2>7. QED
    BY <1>3, <2>4, <2>5, <2>6, Zenon
<1>4. QED
  BY <1>2, <1>3

(* A close frame that was received is answered with its payload. *)
LEMMA CloseAnswered ==
    ASSUME NEW m \in TwoByteNumber, NEW reason \in Seq(Byte),
           NEW received, received = PutUint16(m) \o reason,
           parseClosePayload(received) # Rejected,
           Len(received) <= maxControlPayload
    PROVE  writeClosePayload(parseClosePayload(received))
             = [ok |-> TRUE, payload |-> received]
<1>1. /\ validWireCloseCode(m)
      /\ parseClosePayload(received) = CloseError(m, reason)
  BY ParsedCode, Zenon
<1>2. /\ Len(received) = 2 + Len(reason) /\ Len(reason) \in Nat
  BY CodeBytes, Zenon
<1>3. ~(Len(reason) > maxCloseReason)
  <2> DEFINE size == Len(received)
             n == Len(reason)
  <2>1. size = 2 + n /\ n \in Nat /\ size <= maxControlPayload
    BY <1>2
  <2> HIDE DEF size, n
  <2>2. ~(n > maxCloseReason)
    BY <2>1 DEF maxCloseReason, maxControlPayload
  <2>3. QED
    BY <2>2 DEF n
<1>4. m \in Int
  BY DEF TwoByteNumber
<1>5. m % 2^16 = m /\ m # StatusNoStatusRcvd
  BY <1>1, <1>4, ValidCodes
<1> DEFINE ce == CloseError(m, reason)
<1>6. ce.code = m /\ ce.reason = reason
  BY DEF CloseError
<1> HIDE DEF ce
<1>7. writeClosePayload(ce) = bytesErr(ce)
  BY <1>5, <1>6 DEF writeClosePayload
<1>8. bytesErr(ce) = [ok |-> TRUE, payload |-> PutUint16(m % 2^16) \o reason]
  BY <1>1, <1>3, <1>6, Zenon DEF bytesErr
<1>9. QED
  BY <1>1, <1>5, <1>7, <1>8 DEF ce

LEMMA CloseRoundTripOf ==
    ASSUME NEW ce \in [code : Int, reason : Seq(Byte)]
    PROVE  LET w == writeClosePayload(ce)
               received == PutUint16(ce.code % 2^16) \o ce.reason
               parsed == parseClosePayload(received)
           IN  /\ w.ok =>
                    /\ Len(w.payload) <= maxControlPayload
                    /\ parseClosePayload(w.payload) =
                         IF ce.code = StatusNoStatusRcvd
                         THEN CloseError(StatusNoStatusRcvd, <<>>) ELSE ce
               /\ parsed # Rejected /\ Len(received) <= maxControlPayload =>
                    writeClosePayload(parsed)
                      = [ok |-> TRUE, payload |-> received]
<1>1. ce.code % 2^16 \in TwoByteNumber /\ ce.reason \in Seq(Byte)
  <2>1. 2^16 = 65536 /\ 256 * 256 = 65536
    OBVIOUS
  <2>2. ce.code \in Int /\ ce.reason \in Seq(Byte)
    OBVIOUS
  <2>3. ce.code % 65536 \in Nat /\ ce.code % 65536 < 65536
    BY <2>2
  <2>4. QED
    BY <2>1, <2>2, <2>3 DEF TwoByteNumber
<1>2. QED
  BY <1>1, CloseParsed, CloseAnswered, Zenon

(* What was written is one of the headers and closings given. *)
FrameInv ==
    /\ header # NoHeader => header \in Headers
    /\ closing # NoClosing => closing \in Closings

LEMMA FrameInvHolds == FrameSpec => []FrameInv
<1>1. FrameInit => FrameInv
  BY DEF FrameInit, FrameInv
<1>2. FrameInv /\ [FrameNext]_frameVars => FrameInv'
  BY DEF FrameInv, FrameNext, WriteHeader, WriteClosing, frameVars
<1>3. QED
  BY <1>1, <1>2, PTL DEF FrameSpec

(* For every set of headers and of closings: the peer reads what was        *)
(* written, and no part of it as a header; a close frame carries the code   *)
(* and reason that Close was given, and is answered with its own payload    *)
(* (frame.go:49-172, close.go:143-169,233-301).                             *)
THEOREM FramesReadBack == FrameSpec => []FrameRoundTrip
<1>1. FrameInv => HeaderRoundTrip
  <2> SUFFICES ASSUME FrameInv, header # NoHeader
               PROVE  HeaderRoundTrip
    BY DEF HeaderRoundTrip
  <2>1. Writable(header)
    BY HeadersAssumption DEF FrameInv, Writable
  <2>2. QED
    BY <2>1, HeaderRoundTripOf, Zenon DEF HeaderRoundTrip
<1>2. FrameInv => CloseRoundTrip
  <2> SUFFICES ASSUME FrameInv, closing # NoClosing
               PROVE  CloseRoundTrip
    BY DEF CloseRoundTrip
  <2>1. closing \in [code : Int, reason : Seq(Byte)]
    BY ClosingsAssumption DEF FrameInv
  <2>2. QED
    BY <2>1, CloseRoundTripOf, Zenon DEF CloseRoundTrip
<1>3. FrameInv => FrameRoundTrip
  BY <1>1, <1>2 DEF FrameRoundTrip
<1>4. QED
  BY <1>3, FrameInvHolds, PTL
=============================================================================
