---------------------------- MODULE Timer_proofs ----------------------------
(***************************************************************************)
(* core/timer, for any number of clients, TimerData and instants: its heap *)
(* stays one, its free list and its clients never share a TimerData, and   *)
(* all of it implements the timer service.                                 *)
(***************************************************************************)
EXTENDS Timer, FreeList_proofs

-----------------------------------------------------------------------------
(* The heap's record, whose elements know their places; its first n are in *)
(* order, all of them, or all but one that may be too small or too large.  *)

HeapRecs == [slice : Seq(Data), index : [Data -> Int], expire : [Data -> Int]]

Contents(h) == {h.slice[k] : k \in 1..Len(h.slice)}

HeapOK(h) ==
    /\ h \in HeapRecs
    /\ \A k \in 1..Len(h.slice) : h.index[h.slice[k]] = k - 1

Key(h, k) == h.expire[h.slice[k + 1]]

Keys(h) == [k \in 0..(Len(h.slice) - 1) |-> Key(h, k)]

Ordered(K, n) == \A k \in 1..(n - 1) : K[Parent(k)] <= K[k]

UpOrdered(K, j, n) ==
    \A k \in 1..(n - 1) :
        /\ k # j => K[Parent(k)] <= K[k]
        /\ j > 0 /\ Parent(k) = j => K[Parent(j)] <= K[k]

DownOrdered(K, i, n) ==
    \A k \in 1..(n - 1) :
        /\ Parent(k) # i => K[Parent(k)] <= K[k]
        /\ i > 0 /\ Parent(k) = i => K[Parent(i)] <= K[k]

(* g is h with its first n elements rearranged. *)
Rearranged(g, h, n) ==
    /\ HeapOK(g) /\ g.expire = h.expire /\ Len(g.slice) = Len(h.slice)
    /\ Contents(g) = Contents(h)
    /\ \A d \in Data \ Contents(h) : g.index[d] = h.index[d]
    /\ \A k \in (n + 1)..Len(h.slice) : g.slice[k] = h.slice[k]

LEMMA ParentFacts ==
    ASSUME NEW j \in Nat \ {0}
    PROVE  /\ Parent(j) \in Nat /\ Parent(j) < j
           /\ j = 2 * Parent(j) + 1 \/ j = 2 * Parent(j) + 2
  BY DEF Parent

LEMMA ChildFacts ==
    ASSUME NEW i \in Nat
    PROVE  Parent(2 * i + 1) = i /\ Parent(2 * i + 2) = i
  BY DEF Parent

LEMMA KeyType ==
    ASSUME NEW h \in HeapRecs, NEW k \in Nat, k < Len(h.slice)
    PROVE  Key(h, k) \in Int
<1>1. h.slice \in Seq(Data) /\ h.expire \in [Data -> Int]
  BY DEF HeapRecs
<1>2. k + 1 \in 1..Len(h.slice)
  BY <1>1
<1>3. h.slice[k + 1] \in Data
  BY <1>1, <1>2
<1> QED
  BY <1>1, <1>3 DEF Key

LEMMA KeysType ==
    ASSUME NEW h \in HeapRecs
    PROVE  Keys(h) \in [0..(Len(h.slice) - 1) -> Int]
<1>1. Len(h.slice) \in Nat
  BY DEF HeapRecs
<1>2. \A k \in 0..(Len(h.slice) - 1) : Key(h, k) \in Int
  BY <1>1, KeyType
<1> QED
  BY <1>2 DEF Keys

LEMMA LessIsKey ==
    ASSUME NEW h, NEW i \in 0..(Len(h.slice) - 1), NEW j \in 0..(Len(h.slice) - 1)
    PROVE  Less(h, i, j) = (Keys(h)[i] < Keys(h)[j])
  BY DEF Less, Key, Keys

LEMMA RearrangedRefl ==
    ASSUME NEW h, HeapOK(h), NEW n
    PROVE  Rearranged(h, h, n)
  BY DEF Rearranged

LEMMA RearrangedTrans ==
    ASSUME NEW f, NEW g, NEW h, NEW n, Rearranged(f, g, n), Rearranged(g, h, n)
    PROVE  Rearranged(f, h, n)
  BY DEF Rearranged

LEMMA SwapFields ==
    ASSUME NEW h \in HeapRecs, NEW i, NEW j
    PROVE  /\ Swap(h, i, j).slice = [h.slice EXCEPT ![i + 1] = h.slice[j + 1],
                                                    ![j + 1] = h.slice[i + 1]]
           /\ Swap(h, i, j).index = [h.index EXCEPT ![h.slice[j + 1]] = i,
                                                    ![h.slice[i + 1]] = j]
           /\ Swap(h, i, j).expire = h.expire
  BY DEF Swap, HeapRecs

LEMMA SwapType ==
    ASSUME NEW h \in HeapRecs, NEW i \in Nat, NEW j \in Nat,
           i < Len(h.slice), j < Len(h.slice)
    PROVE  Swap(h, i, j) \in HeapRecs
<1>1. /\ h.slice \in Seq(Data) /\ h.index \in [Data -> Int]
      /\ i + 1 \in 1..Len(h.slice) /\ j + 1 \in 1..Len(h.slice)
  BY DEF HeapRecs
<1>2. h.slice[i + 1] \in Data /\ h.slice[j + 1] \in Data
  BY <1>1
<1>3. [h.slice EXCEPT ![i + 1] = h.slice[j + 1],
                      ![j + 1] = h.slice[i + 1]] \in Seq(Data)
  BY <1>1, <1>2
<1>4. [h.index EXCEPT ![h.slice[j + 1]] = i, ![h.slice[i + 1]] = j]
         \in [Data -> Int]
  <2>1. ASSUME NEW f \in [Data -> Int], NEW x \in Data, NEW v \in Int
        PROVE  [f EXCEPT ![x] = v] \in [Data -> Int]
    OBVIOUS
  <2>2. i \in Int /\ j \in Int
    OBVIOUS
  <2>3. PICK x \in Data : x = h.slice[j + 1]
    BY <1>2
  <2>4. PICK y \in Data : y = h.slice[i + 1]
    BY <1>2
  <2>5. PICK f \in [Data -> Int] : f = [h.index EXCEPT ![x] = i]
    BY <1>1, <2>1, <2>2, Zenon
  <2>6. [f EXCEPT ![y] = j] \in [Data -> Int]
    BY <2>1, <2>2, Zenon
  <2> QED
    BY <2>3, <2>4, <2>5, <2>6, Zenon
<1> QED
  BY <1>3, <1>4 DEF Swap, HeapRecs

(* What an exchange of two places does. *)
LEMMA SwapRearranges ==
    ASSUME NEW h, HeapOK(h), NEW i \in Nat, NEW j \in Nat, i # j,
           NEW n \in Nat, i < n, j < n, n <= Len(h.slice)
    PROVE  /\ Rearranged(Swap(h, i, j), h, n)
           /\ Key(Swap(h, i, j), i) = Key(h, j)
           /\ Key(Swap(h, i, j), j) = Key(h, i)
           /\ \A k \in Nat : k < Len(h.slice) /\ k # i /\ k # j =>
                 Key(Swap(h, i, j), k) = Key(h, k)
           /\ Swap(h, i, j).slice[i + 1] = h.slice[j + 1]
           /\ Swap(h, i, j).slice[j + 1] = h.slice[i + 1]
<1>0. /\ h \in HeapRecs /\ h.slice \in Seq(Data) /\ Len(h.slice) \in Nat
      /\ i < Len(h.slice) /\ j < Len(h.slice)
  <2>1. h \in HeapRecs
    BY DEF HeapOK
  <2>2. h.slice \in Seq(Data) /\ Len(h.slice) \in Nat
    BY <2>1 DEF HeapRecs
  <2> QED
    BY <2>1, <2>2
<1>1. PICK g \in HeapRecs : g = Swap(h, i, j)
  BY <1>0, SwapType
<1>2. PICK s \in Seq(Data) : s = h.slice
  BY <1>0
<1>3. PICK t \in Seq(Data) : t = g.slice
  BY <1>1 DEF HeapRecs
<1>4. /\ g.slice = [h.slice EXCEPT ![i + 1] = h.slice[j + 1],
                                   ![j + 1] = h.slice[i + 1]]
      /\ g.index = [h.index EXCEPT ![h.slice[j + 1]] = i,
                                   ![h.slice[i + 1]] = j]
      /\ g.expire = h.expire
  <2>1. /\ Swap(h, i, j).slice = [h.slice EXCEPT ![i + 1] = h.slice[j + 1],
                                                 ![j + 1] = h.slice[i + 1]]
        /\ Swap(h, i, j).index = [h.index EXCEPT ![h.slice[j + 1]] = i,
                                                 ![h.slice[i + 1]] = j]
        /\ Swap(h, i, j).expire = h.expire
    BY <1>0 DEF Swap, HeapRecs
  <2> QED
    BY <1>1, <2>1, Zenon
<1>5. /\ i + 1 \in 1..Len(s) /\ j + 1 \in 1..Len(s) /\ Len(s) \in Nat
      /\ i + 1 # j + 1 /\ n <= Len(s)
  BY <1>0, <1>2
<1>6. t = [s EXCEPT ![i + 1] = s[j + 1], ![j + 1] = s[i + 1]]
  BY <1>2, <1>3, <1>4
<1>7. /\ Len(t) = Len(s) /\ t[i + 1] = s[j + 1] /\ t[j + 1] = s[i + 1]
      /\ \A k \in 1..Len(s) : k # i + 1 /\ k # j + 1 => t[k] = s[k]
  BY <1>5, <1>6
<1>9. \A k \in 1..Len(s) : s[k] \in Data /\ h.index[s[k]] = k - 1
  BY <1>2 DEF HeapOK
<1>8. \A k, l \in 1..Len(s) : s[k] = s[l] => k = l
  <2> TAKE k, l \in 1..Len(s)
  <2> HAVE s[k] = s[l]
  <2>1. k - 1 = l - 1
    BY <1>9
  <2> QED
    BY <2>1
<1>10. g.index = [h.index EXCEPT ![s[j + 1]] = i, ![s[i + 1]] = j]
  BY <1>2, <1>4
<1>11. s[i + 1] # s[j + 1]
  BY <1>5, <1>8
<1>12. /\ g.index[s[j + 1]] = i /\ g.index[s[i + 1]] = j
       /\ \A d \in Data : d # s[i + 1] /\ d # s[j + 1] =>
             g.index[d] = h.index[d]
  BY <1>4, <1>5, <1>9, <1>10, <1>11 DEF HeapRecs
<1>13. \A k \in 1..Len(t) : g.index[t[k]] = k - 1
  <2> TAKE k \in 1..Len(t)
  <2>1. CASE k = i + 1
    BY <1>5, <1>7, <1>12, <2>1
  <2>2. CASE k = j + 1
    BY <1>5, <1>7, <1>12, <2>2
  <2>3. CASE k # i + 1 /\ k # j + 1
    <3>1. t[k] = s[k] /\ k \in 1..Len(s)
      BY <1>7, <2>3
    <3>2. s[k] # s[i + 1] /\ s[k] # s[j + 1] /\ s[k] \in Data
      BY <1>5, <1>8, <1>9, <2>3, <3>1
    <3> QED
      BY <1>9, <1>12, <3>1, <3>2
  <2> QED
    BY <2>1, <2>2, <2>3
<1>14. {t[k] : k \in 1..Len(t)} = {s[k] : k \in 1..Len(s)}
  <2>1. \A k \in 1..Len(s) : \E l \in 1..Len(t) : t[l] = s[k]
    <3> TAKE k \in 1..Len(s)
    <3>1. CASE k = i + 1
      BY <1>5, <1>7, <3>1
    <3>2. CASE k = j + 1
      BY <1>5, <1>7, <3>2
    <3>3. CASE k # i + 1 /\ k # j + 1
      BY <1>5, <1>7, <3>3
    <3> QED
      BY <3>1, <3>2, <3>3
  <2>2. \A k \in 1..Len(t) : \E l \in 1..Len(s) : s[l] = t[k]
    <3> TAKE k \in 1..Len(t)
    <3>1. CASE k = i + 1
      BY <1>5, <1>7, <3>1
    <3>2. CASE k = j + 1
      BY <1>5, <1>7, <3>2
    <3>3. CASE k # i + 1 /\ k # j + 1
      BY <1>5, <1>7, <3>3
    <3> QED
      BY <3>1, <3>2, <3>3
  <2>3. {t[k] : k \in 1..Len(t)} \subseteq {s[k] : k \in 1..Len(s)}
    BY <2>2, Zenon
  <2>4. {s[k] : k \in 1..Len(s)} \subseteq {t[k] : k \in 1..Len(t)}
    BY <2>1, Zenon
  <2> QED
    BY <2>3, <2>4, Zenon
<1>15. Rearranged(g, h, n)
  <2>1. HeapOK(g)
    BY <1>3, <1>4, <1>13 DEF HeapOK
  <2>2. Contents(g) = Contents(h)
    BY <1>2, <1>3, <1>14 DEF Contents
  <2>3. \A d \in Data \ Contents(h) : g.index[d] = h.index[d]
    <3>1. s[i + 1] \in Contents(h) /\ s[j + 1] \in Contents(h)
      BY <1>2, <1>5 DEF Contents
    <3> QED
      BY <1>12, <3>1
  <2>4. \A k \in (n + 1)..Len(s) : t[k] = s[k]
    BY <1>5, <1>7
  <2> QED
    BY <1>2, <1>3, <1>4, <1>7, <2>1, <2>2, <2>3, <2>4 DEF Rearranged
<1>16. Key(g, i) = Key(h, j) /\ Key(g, j) = Key(h, i)
  BY <1>2, <1>3, <1>4, <1>7 DEF Key
<1>17. \A k \in Nat : k < Len(s) /\ k # i /\ k # j => Key(g, k) = Key(h, k)
  <2> SUFFICES ASSUME NEW k \in Nat, k < Len(s), k # i, k # j
               PROVE  Key(g, k) = Key(h, k)
    OBVIOUS
  <2>1. k + 1 \in 1..Len(s) /\ k + 1 # i + 1 /\ k + 1 # j + 1
    BY <1>5
  <2> QED
    BY <1>2, <1>3, <1>4, <1>7, <2>1 DEF Key
<1> QED
  BY <1>1, <1>2, <1>3, <1>7, <1>15, <1>16, <1>17

LEMMA TwoBelow ==
    ASSUME NEW n \in Int, NEW j \in 1..(n - 1), NEW p \in 0..(j - 1),
           NEW q \in 0..(p - 1)
    PROVE  q \in 0..(n - 1) /\ q # p /\ q # j
  OBVIOUS

(* The exchange, seen by the keys. *)
LEMMA SwapKeys ==
    ASSUME NEW h, HeapOK(h), NEW i \in Nat, NEW j \in Nat, i # j,
           NEW n \in Nat, i < n, j < n, n <= Len(h.slice)
    PROVE  /\ Rearranged(Swap(h, i, j), h, n)
           /\ Keys(Swap(h, i, j)) =
                 [Keys(h) EXCEPT ![i] = Keys(h)[j], ![j] = Keys(h)[i]]
<1>1. PICK g : g = Swap(h, i, j)
  OBVIOUS
<1>2. /\ Rearranged(g, h, n)
      /\ Key(g, i) = Key(h, j) /\ Key(g, j) = Key(h, i)
      /\ \A k \in Nat : k < Len(h.slice) /\ k # i /\ k # j =>
            Key(g, k) = Key(h, k)
  BY <1>1, SwapRearranges
<1>3. Len(g.slice) = Len(h.slice)
  BY <1>2 DEF Rearranged
<1>4. PICK m \in Nat : m = Len(h.slice)
  BY DEF HeapOK, HeapRecs
<1>5. PICK K : K = Keys(h)
  OBVIOUS
<1>6. K = [k \in 0..(m - 1) |-> Key(h, k)]
  BY <1>4, <1>5 DEF Keys
<1>7. Keys(g) = [k \in 0..(m - 1) |-> Key(g, k)]
  BY <1>3, <1>4 DEF Keys
<1>8. i \in 0..(m - 1) /\ j \in 0..(m - 1)
  BY <1>4
<1>9. \A k \in 0..(m - 1) :
         Key(g, k) = IF k = j THEN K[i] ELSE IF k = i THEN K[j] ELSE K[k]
  BY <1>2, <1>4, <1>6, <1>8
<1>10. Keys(g) = [K EXCEPT ![i] = K[j], ![j] = K[i]]
  BY <1>6, <1>7, <1>8, <1>9
<1> QED
  BY <1>1, <1>2, <1>5, <1>10

LEMMA UpStepKeys ==
    ASSUME NEW m \in Nat, NEW K \in [0..(m - 1) -> Int], NEW n \in 0..m,
           NEW j \in 1..(n - 1), K[j] < K[Parent(j)], UpOrdered(K, j, n),
           NEW L, L = [K EXCEPT ![Parent(j)] = K[j], ![j] = K[Parent(j)]]
    PROVE  UpOrdered(L, Parent(j), n)
<1>1. PICK p \in 0..(j - 1) : p = Parent(j)
  BY ParentFacts
<1>2. /\ L[p] = K[j] /\ L[j] = K[p] /\ K[p] \in Int /\ K[j] \in Int
      /\ \A k \in 0..(n - 1) : k # p /\ k # j => L[k] = K[k] /\ K[k] \in Int
  BY <1>1
<1>3. K[j] < K[p]
  BY <1>1
<1>4. ASSUME NEW k \in 1..(n - 1) PROVE Parent(k) \in 0..(k - 1)
  BY ParentFacts
<1>5. ASSUME NEW k \in 1..(n - 1), k # j PROVE K[Parent(k)] <= K[k]
  BY <1>5 DEF UpOrdered
<1>6. ASSUME NEW k \in 1..(n - 1), Parent(k) = j PROVE K[p] <= K[k]
  BY <1>1, <1>6 DEF UpOrdered
<1>7. ASSUME NEW k \in 1..(n - 1), k # p PROVE L[Parent(k)] <= L[k]
  <2>1. CASE k = j
    BY <1>1, <1>2, <1>3, <2>1
  <2>2. CASE k # j /\ Parent(k) = p
    <3>1. K[p] <= K[k] /\ L[k] = K[k] /\ K[k] \in Int
      BY <1>2, <1>5, <1>7, <2>2
    <3> QED
      BY <1>2, <1>3, <2>2, <3>1
  <2>3. CASE k # j /\ Parent(k) = j
    <3>1. K[p] <= K[k] /\ L[k] = K[k] /\ K[k] \in Int
      BY <1>2, <1>6, <1>7, <2>3
    <3> QED
      BY <1>2, <2>3, <3>1
  <2>4. CASE k # j /\ Parent(k) # p /\ Parent(k) # j
    <3>1. PICK q \in 0..(k - 1) : q = Parent(k)
      BY <1>4
    <3>2. k \in 0..(n - 1) /\ q \in 0..(n - 1)
      OBVIOUS
    <3>3. L[k] = K[k]
      BY <1>2, <1>7, <2>4, <3>2, Zenon
    <3>4. L[q] = K[q]
      BY <1>2, <2>4, <3>1, <3>2, Zenon
    <3>5. K[Parent(k)] <= K[k]
      BY <1>5, <2>4, Zenon
    <3> QED
      BY <3>1, <3>3, <3>4, <3>5, Zenon
  <2> QED
    BY <2>1, <2>2, <2>3, <2>4
<1>8. ASSUME NEW k \in 1..(n - 1), p > 0, Parent(k) = p
      PROVE  L[Parent(p)] <= L[k]
  <2>1. p \in 1..(n - 1) /\ p # j
    BY <1>1, <1>8
  <2>2. Parent(p) \in 0..(n - 1) /\ Parent(p) # p /\ Parent(p) # j
    <3>1. Parent(p) \in 0..(p - 1)
      BY <1>4, <2>1
    <3> QED
      BY <3>1, TwoBelow
  <2>3. L[Parent(p)] = K[Parent(p)] /\ K[Parent(p)] \in Int
    BY <1>2, <2>2
  <2>4. K[Parent(p)] <= K[p]
    BY <1>5, <2>1
  <2>5. CASE k = j
    BY <1>2, <2>3, <2>4, <2>5
  <2>6. CASE k # j
    <3>1. k # p
      BY <1>4, <1>8
    <3>2. L[k] = K[k] /\ K[k] \in Int /\ K[p] <= K[k]
      BY <1>2, <1>5, <1>8, <2>6, <3>1
    <3> QED
      BY <1>2, <2>3, <2>4, <3>2
  <2> QED
    BY <2>5, <2>6
<1> QED
  BY <1>1, <1>7, <1>8 DEF UpOrdered

LEMMA UpStopped ==
    ASSUME NEW K, NEW n \in Nat, NEW j \in 0..(n - 1), UpOrdered(K, j, n),
           j > 0 => K[Parent(j)] <= K[j]
    PROVE  Ordered(K, n)
  BY DEF UpOrdered, Ordered

LEMMA DownStepKeys ==
    ASSUME NEW m \in Nat, NEW K \in [0..(m - 1) -> Int], NEW n \in 0..m,
           NEW i \in Nat, DownOrdered(K, i, n),
           NEW c \in 1..(n - 1), Parent(c) = i, K[c] < K[i],
           \A k \in 1..(n - 1) : Parent(k) = i => K[c] <= K[k],
           NEW L, L = [K EXCEPT ![i] = K[c], ![c] = K[i]]
    PROVE  DownOrdered(L, c, n)
<1>1. i \in 0..(c - 1)
  BY ParentFacts
<1>2. /\ L[i] = K[c] /\ L[c] = K[i] /\ K[i] \in Int /\ K[c] \in Int
      /\ \A k \in 0..(n - 1) : k # i /\ k # c => L[k] = K[k] /\ K[k] \in Int
  BY <1>1
<1>3. K[c] < K[i]
  OBVIOUS
<1>4. ASSUME NEW k \in 1..(n - 1) PROVE Parent(k) \in 0..(k - 1)
  BY ParentFacts
<1>5. ASSUME NEW k \in 1..(n - 1), Parent(k) # i PROVE K[Parent(k)] <= K[k]
  BY <1>5 DEF DownOrdered
<1>6. ASSUME i > 0 PROVE K[Parent(i)] <= K[c]
  BY <1>6 DEF DownOrdered
<1>7. ASSUME NEW k \in 1..(n - 1), Parent(k) # c PROVE L[Parent(k)] <= L[k]
  <2>1. CASE k = c
    BY <1>2, <1>3, <2>1
  <2>2. CASE k # c /\ Parent(k) = i
    <3>1. k # i
      BY <1>4, <2>2
    <3>2. K[c] <= K[k] /\ L[k] = K[k]
      BY <1>2, <2>2, <3>1
    <3> QED
      BY <1>2, <2>2, <3>2
  <2>3. CASE k = i
    <3>1. i > 0 /\ Parent(i) \in 0..(n - 1) /\ Parent(i) # i /\ Parent(i) # c
      <4>1. Parent(i) \in 0..(i - 1) /\ i \in 1..(n - 1)
        BY <1>4, <1>7, <2>3
      <4> QED
        <5>1. i > 0 /\ i \in 0..(c - 1)
          BY <1>1, <4>1
        <5> QED
          BY <4>1, <5>1, TwoBelow
    <3>2. L[Parent(i)] = K[Parent(i)]
      BY <1>2, <3>1
    <3> QED
      BY <1>2, <1>6, <2>3, <3>1, <3>2
  <2>4. CASE k # c /\ Parent(k) # i /\ k # i
    <3>1. L[k] = K[k] /\ L[Parent(k)] = K[Parent(k)]
      <4>1. Parent(k) \in 0..(n - 1)
        <5>1. Parent(k) \in 0..(k - 1)
          BY <1>4
        <5> QED
          BY <5>1
      <4> QED
        BY <1>2, <1>7, <2>4, <4>1
    <3> QED
      BY <1>5, <2>4, <3>1
  <2> QED
    BY <2>1, <2>2, <2>3, <2>4
<1>8. ASSUME NEW k \in 1..(n - 1), Parent(k) = c
      PROVE  L[Parent(c)] <= L[k]
  <2>1. k # c /\ k # i
    BY <1>1, <1>4, <1>8
  <2>2. K[c] <= K[k] /\ L[k] = K[k]
    BY <1>1, <1>2, <1>5, <1>8, <2>1
  <2> QED
    BY <1>2, <2>2
<1> QED
  BY <1>7, <1>8 DEF DownOrdered

LEMMA DownStopped ==
    ASSUME NEW K, NEW n \in Nat, NEW i \in Nat, DownOrdered(K, i, n),
           \A k \in 1..(n - 1) : Parent(k) = i => K[i] <= K[k]
    PROVE  Ordered(K, n)
  BY DEF DownOrdered, Ordered

(* Child is the smallest child. *)
LEMMA ChildIsLeast ==
    ASSUME NEW h \in HeapRecs, NEW n \in 0..Len(h.slice), NEW i \in Nat,
           2 * i + 1 < n
    PROVE  /\ Child(h, i, n) \in 1..(n - 1) /\ Parent(Child(h, i, n)) = i
           /\ \A k \in 1..(n - 1) : Parent(k) = i =>
                 Keys(h)[Child(h, i, n)] <= Keys(h)[k]
<1>1. PICK m \in Nat : m = Len(h.slice)
  BY DEF HeapRecs
<1>2. PICK K \in [0..(m - 1) -> Int] : K = Keys(h)
  BY <1>1, KeysType
<1>3. 2 * i + 1 \in 0..(m - 1) /\ K[2 * i + 1] \in Int
  BY <1>1, <1>2
<1>4. Parent(2 * i + 1) = i /\ Parent(2 * i + 2) = i
  BY ChildFacts
<1>5. ASSUME NEW k \in 1..(n - 1), Parent(k) = i
      PROVE  k = 2 * i + 1 \/ k = 2 * i + 2
  <2>1. k = 2 * Parent(k) + 1 \/ k = 2 * Parent(k) + 2
    BY ParentFacts
  <2> QED
    BY <1>5, <2>1
<1>6. CASE 2 * i + 2 < n
  <2>1. 2 * i + 2 \in 0..(m - 1) /\ K[2 * i + 2] \in Int
    BY <1>1, <1>2, <1>6
  <2>2. Less(h, 2 * i + 1, 2 * i + 2) = (K[2 * i + 1] < K[2 * i + 2])
    BY <1>1, <1>2, <1>3, <2>1, LessIsKey
  <2>3. CASE K[2 * i + 1] < K[2 * i + 2]
    <3>1. Child(h, i, n) = 2 * i + 1
      BY <2>2, <2>3 DEF Child
    <3>2. ASSUME NEW k \in 1..(n - 1), Parent(k) = i
          PROVE  K[2 * i + 1] <= K[k]
      <4>1. k = 2 * i + 1 \/ k = 2 * i + 2
        BY <1>5, <3>2
      <4>2. CASE k = 2 * i + 1
        BY <1>3, <2>1, <2>3, <4>2
      <4>3. CASE k = 2 * i + 2
        BY <1>3, <2>1, <2>3, <4>3
      <4> QED
        BY <4>1, <4>2, <4>3
    <3> QED
      BY <1>2, <1>4, <3>1, <3>2
  <2>4. CASE ~(K[2 * i + 1] < K[2 * i + 2])
    <3>1. Child(h, i, n) = 2 * i + 2
      BY <1>6, <2>2, <2>4 DEF Child
    <3>2. ASSUME NEW k \in 1..(n - 1), Parent(k) = i
          PROVE  K[2 * i + 2] <= K[k]
      <4>1. k = 2 * i + 1 \/ k = 2 * i + 2
        BY <1>5, <3>2
      <4>2. CASE k = 2 * i + 1
        BY <1>3, <2>1, <2>4, <4>2
      <4>3. CASE k = 2 * i + 2
        BY <1>3, <2>1, <2>4, <4>3
      <4> QED
        BY <4>1, <4>2, <4>3
    <3>3. 2 * i + 2 \in 1..(n - 1)
      BY <1>6
    <3> QED
      BY <1>2, <1>4, <3>1, <3>2, <3>3
  <2> QED
    BY <2>3, <2>4
<1>7. CASE ~(2 * i + 2 < n)
  <2>1. Child(h, i, n) = 2 * i + 1
    BY <1>7 DEF Child
  <2>2. ASSUME NEW k \in 1..(n - 1), Parent(k) = i
        PROVE  k = 2 * i + 1
    BY <1>5, <1>7, <2>2
  <2>3. ASSUME NEW k \in 1..(n - 1), Parent(k) = i
        PROVE  K[2 * i + 1] <= K[k]
    <3>1. K[k] = K[2 * i + 1]
      BY <2>2, <2>3
    <3> QED
      BY <1>3, <3>1
  <2>4. 2 * i + 1 \in 1..(n - 1)
    OBVIOUS
  <2> QED
    BY <1>2, <1>4, <2>1, <2>3, <2>4
<1> QED
  BY <1>6, <1>7

-----------------------------------------------------------------------------
(* The loops of up and down: a round keeps what holds of the rounds before, *)
(* and as many rounds as the heap has elements are enough.                  *)

LEMMA UpRoundKeeps ==
    ASSUME NEW h, HeapOK(h), NEW n \in 0..Len(h.slice),
           NEW g, Rearranged(g, h, n), NEW j \in 0..(n - 1),
           UpOrdered(Keys(g), j, n)
    PROVE  /\ Rearranged(UpRound(g, j)[1], h, n)
           /\ UpRound(g, j)[2] \in 0..(n - 1)
           /\ UpOrdered(Keys(UpRound(g, j)[1]), UpRound(g, j)[2], n)
           /\ \/ Ordered(Keys(UpRound(g, j)[1]), n)
              \/ UpRound(g, j)[2] < j /\ ~Ordered(Keys(g), n)
<1>1. /\ HeapOK(g) /\ g \in HeapRecs /\ Len(g.slice) = Len(h.slice)
      /\ Len(h.slice) \in Nat
  <2>1. HeapOK(g) /\ Len(g.slice) = Len(h.slice)
    BY DEF Rearranged
  <2>2. g \in HeapRecs /\ h \in HeapRecs
    BY <2>1 DEF HeapOK
  <2>3. h.slice \in Seq(Data)
    BY <2>2 DEF HeapRecs
  <2> QED
    BY <2>1, <2>2, <2>3
<1>2. PICK m \in Nat : m = Len(g.slice) /\ n \in 0..m
  BY <1>1
<1>3. PICK K \in [0..(m - 1) -> Int] : K = Keys(g)
  BY <1>1, <1>2, KeysType
<1>4. UpOrdered(K, j, n)
  BY <1>3
<1>5. CASE j > 0 /\ Less(g, j, Parent(j))
  <2>1. j \in 1..(n - 1)
    BY <1>5
  <2>2. PICK p \in 0..(j - 1) : p = Parent(j)
    BY <2>1, ParentFacts
  <2>3. j \in 0..(m - 1) /\ p \in 0..(m - 1)
    BY <1>2, <2>1
  <2>4. K[j] < K[Parent(j)]
    BY <1>2, <1>3, <1>5, <2>2, <2>3, LessIsKey
  <2>5. UpRound(g, j) = <<Swap(g, p, j), p>>
    BY <1>5, <2>2 DEF UpRound
  <2>6. /\ p \in Nat /\ j \in Nat /\ p # j /\ n \in Nat /\ p < n /\ j < n
        /\ n <= Len(g.slice)
    BY <1>2, <2>1
  <2>7. /\ Rearranged(Swap(g, p, j), g, n)
        /\ Keys(Swap(g, p, j)) = [K EXCEPT ![p] = K[j], ![j] = K[p]]
    BY <1>1, <1>3, <2>6, SwapKeys
  <2>8. UpOrdered(Keys(Swap(g, p, j)), p, n)
    BY <1>2, <1>4, <2>1, <2>2, <2>4, <2>7, UpStepKeys
  <2>9. Rearranged(Swap(g, p, j), h, n)
    BY <2>7, RearrangedTrans
  <2>10. ~Ordered(K, n)
    <3>1. K[j] \in Int /\ K[Parent(j)] \in Int
      BY <2>2, <2>3
    <3> QED
      BY <2>1, <2>4, <3>1 DEF Ordered
  <2>11. p \in 0..(n - 1) /\ p < j
    BY <2>1
  <2> QED
    BY <1>3, <2>5, <2>8, <2>9, <2>10, <2>11
<1>6. CASE ~(j > 0 /\ Less(g, j, Parent(j)))
  <2>1. UpRound(g, j) = <<g, j>>
    BY <1>6 DEF UpRound
  <2>2. ASSUME j > 0 PROVE K[Parent(j)] <= K[j]
    <3>1. PICK p \in 0..(j - 1) : p = Parent(j)
      BY <2>2, ParentFacts
    <3>2. j \in 0..(m - 1) /\ p \in 0..(m - 1)
      BY <1>2
    <3>3. ~(K[j] < K[p])
      BY <1>2, <1>3, <1>6, <2>2, <3>1, <3>2, LessIsKey
    <3>4. K[j] \in Int /\ K[p] \in Int
      BY <3>2
    <3> QED
      BY <3>1, <3>3, <3>4
  <2>3. Ordered(K, n)
    BY <1>2, <1>4, <2>2, UpStopped
  <2> QED
    BY <1>3, <2>1, <2>3
<1> QED
  BY <1>5, <1>6

LEMMA DownRoundKeeps ==
    ASSUME NEW h, HeapOK(h), NEW n \in 0..Len(h.slice),
           NEW g, Rearranged(g, h, n), NEW i \in 0..(n - 1),
           DownOrdered(Keys(g), i, n)
    PROVE  /\ Rearranged(DownRound(g, i, n)[1], h, n)
           /\ DownRound(g, i, n)[2] \in 0..(n - 1)
           /\ DownOrdered(Keys(DownRound(g, i, n)[1]), DownRound(g, i, n)[2], n)
           /\ \/ Ordered(Keys(DownRound(g, i, n)[1]), n)
              \/ DownRound(g, i, n)[2] > i /\ ~Ordered(Keys(g), n)
<1>1. /\ HeapOK(g) /\ g \in HeapRecs /\ Len(g.slice) = Len(h.slice)
      /\ Len(h.slice) \in Nat
  <2>1. HeapOK(g) /\ Len(g.slice) = Len(h.slice)
    BY DEF Rearranged
  <2>2. g \in HeapRecs /\ h \in HeapRecs
    BY <2>1 DEF HeapOK
  <2>3. h.slice \in Seq(Data)
    BY <2>2 DEF HeapRecs
  <2> QED
    BY <2>1, <2>2, <2>3
<1>2. PICK m \in Nat : m = Len(g.slice) /\ n \in 0..m
  BY <1>1
<1>3. PICK K \in [0..(m - 1) -> Int] : K = Keys(g)
  BY <1>1, <1>2, KeysType
<1>4. DownOrdered(K, i, n)
  BY <1>3
<1>5. CASE 2 * i + 1 < n
  <2>1. PICK c : c = Child(g, i, n)
    OBVIOUS
  <2>2. /\ c \in 1..(n - 1) /\ Parent(c) = i
        /\ \A k \in 1..(n - 1) : Parent(k) = i => K[c] <= K[k]
    <3>1. g \in HeapRecs
      BY <1>1
    <3>2. n \in 0..Len(g.slice)
      BY <1>2, Zenon
    <3>3. i \in Nat
      BY <1>2
    <3>4. /\ Child(g, i, n) \in 1..(n - 1) /\ Parent(Child(g, i, n)) = i
          /\ \A k \in 1..(n - 1) : Parent(k) = i =>
                Keys(g)[Child(g, i, n)] <= Keys(g)[k]
      BY <1>5, <3>1, <3>2, <3>3, ChildIsLeast, Zenon
    <3> QED
      BY <1>3, <2>1, <3>4, Zenon
  <2>3. i \in 0..(c - 1) /\ Parent(c) \in Nat
    BY <2>2, ParentFacts
  <2>4. c \in 0..(m - 1) /\ i \in 0..(m - 1)
    BY <1>2, <2>2
  <2>5. K[c] \in Int /\ K[i] \in Int
    BY <2>4
  <2>6. Less(g, c, i) = (K[c] < K[i])
    BY <1>2, <1>3, <2>4, LessIsKey
  <2>7. CASE K[c] < K[i]
    <3>1. DownRound(g, i, n) = <<Swap(g, i, c), c>>
      BY <1>5, <2>1, <2>6, <2>7 DEF DownRound
    <3>2. /\ i \in Nat /\ c \in Nat /\ i # c /\ n \in Nat /\ i < n /\ c < n
          /\ n <= Len(g.slice)
      BY <1>2, <2>2, <2>3
    <3>3. /\ Rearranged(Swap(g, i, c), g, n)
          /\ Keys(Swap(g, i, c)) = [K EXCEPT ![i] = K[c], ![c] = K[i]]
      BY <1>1, <1>3, <3>2, SwapKeys
    <3>4. DownOrdered(Keys(Swap(g, i, c)), c, n)
      BY <1>2, <1>4, <2>2, <2>7, <3>2, <3>3, DownStepKeys
    <3>5. Rearranged(Swap(g, i, c), h, n)
      BY <3>3, RearrangedTrans
    <3>6. ~Ordered(K, n)
      <4>1. ~(K[Parent(c)] <= K[c])
        BY <2>2, <2>5, <2>7
      <4> QED
        BY <2>2, <4>1 DEF Ordered
    <3>7. c \in 0..(n - 1) /\ c > i
      BY <2>2, <2>3
    <3> QED
      BY <1>3, <3>1, <3>4, <3>5, <3>6, <3>7
  <2>8. CASE ~(K[c] < K[i])
    <3>1. DownRound(g, i, n) = <<g, i>>
      BY <2>1, <2>6, <2>8 DEF DownRound
    <3>2. ASSUME NEW k \in 1..(n - 1), Parent(k) = i PROVE K[i] <= K[k]
      <4>1. K[c] <= K[k] /\ k \in 0..(m - 1)
        BY <1>2, <2>2, <3>2
      <4>2. K[k] \in Int
        BY <4>1
      <4> QED
        BY <2>5, <2>8, <4>1, <4>2
    <3>3. Ordered(K, n)
      BY <1>2, <1>4, <3>2, DownStopped
    <3> QED
      BY <1>3, <1>4, <3>1, <3>3
  <2> QED
    BY <2>7, <2>8
<1>6. CASE ~(2 * i + 1 < n)
  <2>1. DownRound(g, i, n) = <<g, i>>
    BY <1>6 DEF DownRound
  <2>2. ASSUME NEW k \in 1..(n - 1), Parent(k) = i PROVE FALSE
    <3>1. k = 2 * Parent(k) + 1 \/ k = 2 * Parent(k) + 2
      BY ParentFacts
    <3> QED
      BY <1>6, <2>2, <3>1
  <2>3. Ordered(K, n)
    BY <1>2, <1>4, <2>2, DownStopped
  <2> QED
    BY <1>3, <1>4, <2>1, <2>3
<1> QED
  BY <1>5, <1>6

(* The rounds of the two loops, as functions of their number. *)
UpRun(a, h, start) ==
    /\ a[0] = <<h, start>>
    /\ \A k \in 1..Len(h.slice) : a[k] = UpRound(a[k - 1][1], a[k - 1][2])
    /\ Up(h, start) = a[Len(h.slice)][1]

DownRun(a, h, start, n) ==
    /\ a[0] = <<h, start>>
    /\ \A k \in 1..Len(h.slice) : a[k] = DownRound(a[k - 1][1], a[k - 1][2], n)
    /\ Down(h, start, n) = a[Len(h.slice)][1]

LEMMA UpAfter ==
    ASSUME NEW h, NEW start, Len(h.slice) \in Nat
    PROVE  \E a : UpRun(a, h, start)
<1> DEFINE Rounds(m, a) ==
             a = [k \in 0..m |->
                    IF k = 0 THEN <<h, start>>
                    ELSE UpRound(a[k - 1][1], a[k - 1][2])]
           S == {m \in Nat : \E a : Rounds(m, a)}
<1>1. 0 \in S
  <2>1. Rounds(0, [k \in 0..0 |-> <<h, start>>])
    OBVIOUS
  <2> QED
    BY <2>1
<1>2. ASSUME NEW m \in Nat, m \in S PROVE m + 1 \in S
  <2>1. PICK a : Rounds(m, a)
    BY <1>2
  <2> DEFINE b == [k \in 0..(m + 1) |->
                     IF k = m + 1 THEN UpRound(a[m][1], a[m][2]) ELSE a[k]]
  <2>2. \A k \in 0..(m + 1) :
           b[k] = IF k = 0 THEN <<h, start>>
                  ELSE UpRound(b[k - 1][1], b[k - 1][2])
    <3> TAKE k \in 0..(m + 1)
    <3>1. CASE k = m + 1
      BY <3>1
    <3>2. CASE k \in 0..m
      BY <2>1, <3>2
    <3> QED
      BY <3>1, <3>2
  <2>3. b = [k \in 0..(m + 1) |-> b[k]]
    OBVIOUS
  <2>4. Rounds(m + 1, b)
    <3> HIDE DEF b
    <3> QED
      BY <2>2, <2>3
  <2>5. m + 1 \in Nat /\ \E c : Rounds(m + 1, c)
    <3> HIDE DEF Rounds
    <3> QED
      BY <2>4
  <2> QED
    BY <2>5
<1>3. Nat \subseteq S
  <2> HIDE DEF S
  <2> QED
    BY <1>1, <1>2, SetInduction
<1>4. PICK m \in Nat : m = Len(h.slice)
  OBVIOUS
<1>5. \E a : Rounds(m, a)
  BY <1>3
<1> DEFINE after == CHOOSE a : Rounds(m, a)
<1>6. Rounds(m, after)
  <2> HIDE DEF Rounds
  <2> QED
    BY <1>5
<1>7. Up(h, start) = after[m][1]
  BY <1>4 DEF Up
<1> HIDE DEF after
<1>8. after[0] = <<h, start>>
  BY <1>6
<1>9. \A k \in 1..m : after[k] = UpRound(after[k - 1][1], after[k - 1][2])
  BY <1>6
<1> QED
  BY <1>4, <1>7, <1>8, <1>9 DEF UpRun

LEMMA DownAfter ==
    ASSUME NEW h, NEW start, NEW n, Len(h.slice) \in Nat
    PROVE  \E a : DownRun(a, h, start, n)
<1> DEFINE Rounds(m, a) ==
             a = [k \in 0..m |->
                    IF k = 0 THEN <<h, start>>
                    ELSE DownRound(a[k - 1][1], a[k - 1][2], n)]
           S == {m \in Nat : \E a : Rounds(m, a)}
<1>1. 0 \in S
  <2>1. Rounds(0, [k \in 0..0 |-> <<h, start>>])
    OBVIOUS
  <2> QED
    BY <2>1
<1>2. ASSUME NEW m \in Nat, m \in S PROVE m + 1 \in S
  <2>1. PICK a : Rounds(m, a)
    BY <1>2
  <2> DEFINE b == [k \in 0..(m + 1) |->
                     IF k = m + 1 THEN DownRound(a[m][1], a[m][2], n) ELSE a[k]]
  <2>2. \A k \in 0..(m + 1) :
           b[k] = IF k = 0 THEN <<h, start>>
                  ELSE DownRound(b[k - 1][1], b[k - 1][2], n)
    <3> TAKE k \in 0..(m + 1)
    <3>1. CASE k = m + 1
      BY <3>1
    <3>2. CASE k \in 0..m
      BY <2>1, <3>2
    <3> QED
      BY <3>1, <3>2
  <2>3. b = [k \in 0..(m + 1) |-> b[k]]
    OBVIOUS
  <2>4. Rounds(m + 1, b)
    <3> HIDE DEF b
    <3> QED
      BY <2>2, <2>3
  <2>5. m + 1 \in Nat /\ \E c : Rounds(m + 1, c)
    <3> HIDE DEF Rounds
    <3> QED
      BY <2>4
  <2> QED
    BY <2>5
<1>3. Nat \subseteq S
  <2> HIDE DEF S
  <2> QED
    BY <1>1, <1>2, SetInduction
<1>4. PICK m \in Nat : m = Len(h.slice)
  OBVIOUS
<1>5. \E a : Rounds(m, a)
  BY <1>3
<1> DEFINE after == CHOOSE a : Rounds(m, a)
<1>6. Rounds(m, after)
  <2> HIDE DEF Rounds
  <2> QED
    BY <1>5
<1>7. Down(h, start, n) = after[m][1]
  BY <1>4 DEF Down
<1> HIDE DEF after
<1>8. after[0] = <<h, start>>
  BY <1>6
<1>9. \A k \in 1..m : after[k] = DownRound(after[k - 1][1], after[k - 1][2], n)
  BY <1>6
<1> QED
  BY <1>4, <1>7, <1>8, <1>9 DEF DownRun

(* up and down put the one key that was out of order in its place. *)
LEMMA UpRestores ==
    ASSUME NEW h, HeapOK(h), NEW n \in 1..Len(h.slice), NEW start \in 0..(n - 1),
           UpOrdered(Keys(h), start, n)
    PROVE  Rearranged(Up(h, start), h, n) /\ Ordered(Keys(Up(h, start)), n)
<1>1. PICK m \in Nat : m = Len(h.slice) /\ n \in 1..m
  BY DEF HeapOK, HeapRecs
<1>2. PICK a : /\ a[0] = <<h, start>>
               /\ \A k \in 1..m : a[k] = UpRound(a[k - 1][1], a[k - 1][2])
               /\ Up(h, start) = a[m][1]
  <2>1. Len(h.slice) \in Nat
    BY <1>1
  <2>2. PICK a : UpRun(a, h, start)
    BY <2>1, UpAfter
  <2> QED
    BY <1>1, <2>2 DEF UpRun
<1> DEFINE Kept(x, k) ==
             /\ Rearranged(x[1], h, n) /\ x[2] \in 0..(n - 1)
             /\ UpOrdered(Keys(x[1]), x[2], n)
             /\ Ordered(Keys(x[1]), n) \/ x[2] + k <= start
           S == {k \in Nat : k <= m => Kept(a[k], k)}
<1>3. Kept(a[0], 0)
  BY <1>2, RearrangedRefl
<1>4. ASSUME NEW k \in Nat, k + 1 <= m, Kept(a[k], k)
      PROVE  Kept(a[k + 1], k + 1)
  <2>1. PICK g, j : g = a[k][1] /\ j = a[k][2]
    OBVIOUS
  <2>2. /\ Rearranged(g, h, n) /\ j \in 0..(n - 1)
        /\ UpOrdered(Keys(g), j, n)
    BY <1>4, <2>1
  <2>3. Ordered(Keys(g), n) \/ j + k <= start
    BY <1>4, <2>1
  <2>4. a[k + 1] = UpRound(g, j)
    <3>1. k + 1 \in 1..m /\ (k + 1) - 1 = k
      BY <1>4
    <3> QED
      BY <1>2, <2>1, <3>1
  <2>5. n \in 0..Len(h.slice)
    BY <1>1
  <2>6. /\ Rearranged(UpRound(g, j)[1], h, n)
        /\ UpRound(g, j)[2] \in 0..(n - 1)
        /\ UpOrdered(Keys(UpRound(g, j)[1]), UpRound(g, j)[2], n)
        /\ \/ Ordered(Keys(UpRound(g, j)[1]), n)
           \/ UpRound(g, j)[2] < j /\ ~Ordered(Keys(g), n)
    BY <2>2, <2>5, UpRoundKeeps
  <2>7. CASE Ordered(Keys(UpRound(g, j)[1]), n)
    BY <2>4, <2>6, <2>7
  <2>8. CASE UpRound(g, j)[2] < j /\ ~Ordered(Keys(g), n)
    <3>1. PICK i \in 0..(n - 1) : i = UpRound(g, j)[2]
      BY <2>6
    <3>2. i < j /\ j + k <= start
      BY <2>3, <2>8, <3>1
    <3>3. i + (k + 1) <= start
      BY <2>2, <3>2
    <3> QED
      BY <2>4, <2>6, <3>1, <3>3
  <2> QED
    BY <2>6, <2>7, <2>8
<1>5. 0 \in S
  BY <1>3
<1>6. \A k \in Nat : k \in S => k + 1 \in S
  <2> HIDE DEF Kept
  <2> QED
    BY <1>4
<1>7. Kept(a[m], m)
  <2> HIDE DEF Kept, S
  <2>1. m \in S
    BY <1>5, <1>6, SetInduction
  <2> QED
    BY <2>1 DEF S
<1>8. Ordered(Keys(a[m][1]), n)
  <2>1. PICK j \in 0..(n - 1) : j = a[m][2]
    BY <1>7
  <2>2. ~(j + m <= start)
    BY <1>1
  <2> QED
    BY <1>7, <2>1, <2>2
<1> QED
  BY <1>2, <1>7, <1>8

LEMMA DownRestores ==
    ASSUME NEW h, HeapOK(h), NEW n \in 1..Len(h.slice), NEW start \in 0..(n - 1),
           DownOrdered(Keys(h), start, n)
    PROVE  /\ Rearranged(Down(h, start, n), h, n)
           /\ Ordered(Keys(Down(h, start, n)), n)
<1>1. PICK m \in Nat : m = Len(h.slice) /\ n \in 1..m
  BY DEF HeapOK, HeapRecs
<1>2. PICK a : /\ a[0] = <<h, start>>
               /\ \A k \in 1..m : a[k] = DownRound(a[k - 1][1], a[k - 1][2], n)
               /\ Down(h, start, n) = a[m][1]
  <2>1. Len(h.slice) \in Nat
    BY <1>1
  <2>2. PICK a : DownRun(a, h, start, n)
    BY <2>1, DownAfter
  <2> QED
    BY <1>1, <2>2 DEF DownRun
<1> DEFINE Kept(x, k) ==
             /\ Rearranged(x[1], h, n) /\ x[2] \in 0..(n - 1)
             /\ DownOrdered(Keys(x[1]), x[2], n)
             /\ Ordered(Keys(x[1]), n) \/ x[2] >= start + k
           S == {k \in Nat : k <= m => Kept(a[k], k)}
<1>3. Kept(a[0], 0)
  BY <1>2, RearrangedRefl
<1>4. ASSUME NEW k \in Nat, k + 1 <= m, Kept(a[k], k)
      PROVE  Kept(a[k + 1], k + 1)
  <2>1. PICK g, i : g = a[k][1] /\ i = a[k][2]
    OBVIOUS
  <2>2. /\ Rearranged(g, h, n) /\ i \in 0..(n - 1)
        /\ DownOrdered(Keys(g), i, n)
    BY <1>4, <2>1
  <2>3. Ordered(Keys(g), n) \/ i >= start + k
    BY <1>4, <2>1
  <2>4. a[k + 1] = DownRound(g, i, n)
    <3>1. k + 1 \in 1..m /\ (k + 1) - 1 = k
      BY <1>4
    <3> QED
      BY <1>2, <2>1, <3>1
  <2>5. n \in 0..Len(h.slice)
    BY <1>1
  <2>6. /\ Rearranged(DownRound(g, i, n)[1], h, n)
        /\ DownRound(g, i, n)[2] \in 0..(n - 1)
        /\ DownOrdered(Keys(DownRound(g, i, n)[1]), DownRound(g, i, n)[2], n)
        /\ \/ Ordered(Keys(DownRound(g, i, n)[1]), n)
           \/ DownRound(g, i, n)[2] > i /\ ~Ordered(Keys(g), n)
    BY <2>2, <2>5, DownRoundKeeps
  <2>7. CASE Ordered(Keys(DownRound(g, i, n)[1]), n)
    BY <2>4, <2>6, <2>7
  <2>8. CASE DownRound(g, i, n)[2] > i /\ ~Ordered(Keys(g), n)
    <3>1. PICK j \in 0..(n - 1) : j = DownRound(g, i, n)[2]
      BY <2>6
    <3>2. j > i /\ i >= start + k
      BY <2>3, <2>8, <3>1
    <3>3. j >= start + (k + 1)
      BY <2>2, <3>2
    <3> QED
      BY <2>4, <2>6, <3>1, <3>3
  <2> QED
    BY <2>6, <2>7, <2>8
<1>5. 0 \in S
  BY <1>3
<1>6. \A k \in Nat : k \in S => k + 1 \in S
  <2> HIDE DEF Kept
  <2> QED
    BY <1>4
<1>7. Kept(a[m], m)
  <2> HIDE DEF Kept, S
  <2>1. m \in S
    BY <1>5, <1>6, SetInduction
  <2> QED
    BY <2>1 DEF S
<1>8. Ordered(Keys(a[m][1]), n)
  <2>1. PICK j \in 0..(n - 1) : j = a[m][2]
    BY <1>7
  <2>2. ~(j >= start + m)
    BY <1>1
  <2> QED
    BY <1>7, <2>1, <2>2
<1> QED
  BY <1>2, <1>7, <1>8

(* down moves nothing that is in order with what is below it. *)
LEMMA DownStays ==
    ASSUME NEW h, NEW i, NEW n, Len(h.slice) \in Nat,
           DownRound(h, i, n) = <<h, i>>
    PROVE  Down(h, i, n) = h
<1>1. PICK m \in Nat : m = Len(h.slice)
  OBVIOUS
<1>2. PICK a : /\ a[0] = <<h, i>>
               /\ \A k \in 1..m : a[k] = DownRound(a[k - 1][1], a[k - 1][2], n)
               /\ Down(h, i, n) = a[m][1]
  <2>1. Len(h.slice) \in Nat
    BY <1>1
  <2>2. PICK a : DownRun(a, h, i, n)
    BY <2>1, DownAfter
  <2> QED
    BY <1>1, <2>2 DEF DownRun
<1> DEFINE S == {k \in Nat : k <= m => a[k] = <<h, i>>}
<1>3. 0 \in S
  BY <1>2
<1>4. ASSUME NEW k \in Nat, k \in S PROVE k + 1 \in S
  <2> SUFFICES ASSUME k + 1 <= m PROVE a[k + 1] = <<h, i>>
    OBVIOUS
  <2>1. k + 1 \in 1..m /\ (k + 1) - 1 = k /\ a[k] = <<h, i>>
    BY <1>4
  <2>2. a[k][1] = h /\ a[k][2] = i
    BY <2>1
  <2>3. a[k + 1] = DownRound(a[k][1], a[k][2], n)
    BY <1>2, <2>1
  <2> QED
    BY <2>2, <2>3
<1>5. m \in S
  <2> HIDE DEF S
  <2> QED
    BY <1>3, <1>4, SetInduction
<1> QED
  BY <1>2, <1>5

-----------------------------------------------------------------------------
(* What add, del and the first place of the heap come to. *)

IsTimerHeap(h) == HeapOK(h) /\ Ordered(Keys(h), Len(h.slice))

Appended(h, td) ==
    [h EXCEPT !.slice = Append(@, td), !.index[td] = Len(h.slice)]

LEMMA AppendedFields ==
    ASSUME NEW h \in HeapRecs, NEW td \in Data
    PROVE  /\ Appended(h, td).slice = Append(h.slice, td)
           /\ Appended(h, td).index = [h.index EXCEPT ![td] = Len(h.slice)]
           /\ Appended(h, td).expire = h.expire
           /\ Appended(h, td) \in HeapRecs
<1>1. /\ h.slice \in Seq(Data) /\ Len(h.slice) \in Nat
      /\ h.index \in [Data -> Int] /\ h.expire \in [Data -> Int]
  BY DEF HeapRecs
<1>2. /\ Appended(h, td).slice = Append(h.slice, td)
      /\ Appended(h, td).index = [h.index EXCEPT ![td] = Len(h.slice)]
      /\ Appended(h, td).expire = h.expire
  BY DEF HeapRecs, Appended
<1>3. /\ Append(h.slice, td) \in Seq(Data)
      /\ [h.index EXCEPT ![td] = Len(h.slice)] \in [Data -> Int]
  BY <1>1
<1>4. Appended(h, td) \in HeapRecs
  BY <1>1, <1>3 DEF Appended, HeapRecs
<1> QED
  BY <1>2, <1>4

LEMMA InsertKeeps ==
    ASSUME NEW h, IsTimerHeap(h), NEW td \in Data \ Contents(h)
    PROVE  /\ IsTimerHeap(Insert(h, td))
           /\ Contents(Insert(h, td)) = Contents(h) \cup {td}
           /\ Insert(h, td).expire = h.expire
           /\ \A d \in Data \ Contents(Insert(h, td)) :
                 Insert(h, td).index[d] = h.index[d]
<1>1. h \in HeapRecs
  BY DEF IsTimerHeap, HeapOK
<1>2. PICK s \in Seq(Data) : s = h.slice
  BY <1>1 DEF HeapRecs
<1>3. PICK n \in Nat : n = Len(s)
  OBVIOUS
<1>4. PICK a : a = Appended(h, td)
  OBVIOUS
<1>5. /\ a \in HeapRecs /\ a.slice = Append(s, td) /\ a.expire = h.expire
      /\ a.index = [h.index EXCEPT ![td] = n]
  BY <1>1, <1>2, <1>3, <1>4, AppendedFields
<1>6. PICK t \in Seq(Data) : t = Append(s, td)
  <2>1. td \in Data
    OBVIOUS
  <2>2. Append(s, td) \in Seq(Data)
    BY <2>1
  <2> QED
    BY <2>2
<1>7. /\ Len(t) = n + 1 /\ t[n + 1] = td
      /\ \A k \in 1..n : t[k] = s[k]
  BY <1>3, <1>6
<1>8. \A k \in 1..n : s[k] \in Contents(h) /\ s[k] \in Data
  BY <1>2, <1>3 DEF Contents
<1>9. \A k \in 1..n : h.index[s[k]] = k - 1
  BY <1>2, <1>3 DEF IsTimerHeap, HeapOK
<1>10. /\ a.index[td] = n
       /\ \A d \in Data : d # td => a.index[d] = h.index[d]
  BY <1>1, <1>5 DEF HeapRecs
<1>11. \A k \in 1..(n + 1) : a.index[t[k]] = k - 1
  <2> TAKE k \in 1..(n + 1)
  <2>1. CASE k = n + 1
    BY <1>7, <1>10, <2>1
  <2>2. CASE k \in 1..n
    BY <1>7, <1>8, <1>9, <1>10, <2>2
  <2> QED
    BY <2>1, <2>2
<1>12. HeapOK(a)
  BY <1>5, <1>6, <1>7, <1>11 DEF HeapOK
<1>13. Contents(a) = Contents(h) \cup {td}
  <2>1. Contents(a) = {t[k] : k \in 1..(n + 1)}
    BY <1>5, <1>6, <1>7 DEF Contents
  <2>2. Contents(h) = {s[k] : k \in 1..n}
    BY <1>2, <1>3 DEF Contents
  <2>3. \A k \in 1..(n + 1) : t[k] = td \/ t[k] \in {s[l] : l \in 1..n}
    <3> TAKE k \in 1..(n + 1)
    <3>1. CASE k = n + 1
      BY <1>7, <3>1
    <3>2. CASE k \in 1..n
      BY <1>7, <3>2
    <3> QED
      BY <3>1, <3>2
  <2>4. \A k \in 1..n : s[k] \in {t[l] : l \in 1..(n + 1)}
    <3> TAKE k \in 1..n
    <3>1. k \in 1..(n + 1) /\ s[k] = t[k]
      BY <1>7
    <3> QED
      BY <3>1
  <2>5. td \in {t[l] : l \in 1..(n + 1)}
    <3>1. n + 1 \in 1..(n + 1)
      OBVIOUS
    <3> QED
      BY <1>7, <3>1
  <2> QED
    BY <2>1, <2>2, <2>3, <2>4, <2>5
<1>14. Keys(h) \in [0..(n - 1) -> Int] /\ Keys(a) \in [0..n -> Int]
  BY <1>1, <1>2, <1>3, <1>5, <1>6, <1>7, KeysType
<1>15. \A k \in 0..(n - 1) : Keys(a)[k] = Keys(h)[k]
  <2> TAKE k \in 0..(n - 1)
  <2>1. k + 1 \in 1..n /\ k \in 0..n
    OBVIOUS
  <2>2. Keys(a)[k] = a.expire[t[k + 1]]
    BY <1>5, <1>6, <1>7, <2>1 DEF Keys, Key
  <2>3. Keys(h)[k] = h.expire[s[k + 1]]
    BY <1>2, <1>3, <2>1 DEF Keys, Key
  <2> QED
    BY <1>5, <1>7, <2>1, <2>2, <2>3
<1>16. UpOrdered(Keys(a), n, n + 1)
  <2>1. ASSUME NEW k \in 1..n, k # n
        PROVE  Keys(a)[Parent(k)] <= Keys(a)[k]
    <3>1. Keys(h)[Parent(k)] <= Keys(h)[k]
      BY <1>2, <1>3, <2>1 DEF IsTimerHeap, Ordered
    <3>2. k \in 0..(n - 1) /\ Parent(k) \in 0..(k - 1)
      BY <2>1, ParentFacts
    <3>3. Parent(k) \in 0..(n - 1)
      BY <3>2
    <3> QED
      BY <1>15, <3>1, <3>2, <3>3
  <2>2. ASSUME NEW k \in 1..n PROVE Parent(k) # n
    BY ParentFacts
  <2>3. (n + 1) - 1 = n
    OBVIOUS
  <2> QED
    BY <2>1, <2>2, <2>3 DEF UpOrdered
<1>17. Insert(h, td) = Up(a, n)
  BY <1>2, <1>3, <1>4 DEF Insert, Appended
<1>18. /\ n + 1 \in 1..Len(a.slice) /\ n \in 0..((n + 1) - 1)
       /\ Len(a.slice) = n + 1
  BY <1>5, <1>6, <1>7
<1>19. Rearranged(Up(a, n), a, n + 1) /\ Ordered(Keys(Up(a, n)), n + 1)
  BY <1>12, <1>16, <1>18, UpRestores
<1>20. IsTimerHeap(Up(a, n))
  BY <1>18, <1>19 DEF Rearranged, IsTimerHeap
<1>21. \A d \in Data \ Contents(Up(a, n)) : Up(a, n).index[d] = h.index[d]
  BY <1>10, <1>13, <1>19 DEF Rearranged
<1>22. Contents(Up(a, n)) = Contents(h) \cup {td} /\ Up(a, n).expire = h.expire
  BY <1>5, <1>13, <1>19 DEF Rearranged
<1> QED
  BY <1>17, <1>20, <1>21, <1>22

LEMMA FirstIsLeast ==
    ASSUME NEW n \in Nat, NEW K \in [0..(n - 1) -> Int], Ordered(K, n),
           NEW k \in 0..(n - 1)
    PROVE  K[0] <= K[k]
<1> DEFINE S == {l \in Nat : \A i \in 0..l : i < n => K[0] <= K[i]}
<1>1. 0 \in S
  <2>1. \A i \in 0..0 : i < n => K[0] <= K[i]
    <3> TAKE i \in 0..0
    <3> HAVE i < n
    <3>1. i = 0 /\ K[0] \in Int
      OBVIOUS
    <3> QED
      BY <3>1
  <2> QED
    BY <2>1
<1>2. ASSUME NEW l \in Nat, l \in S PROVE l + 1 \in S
  <2> SUFFICES ASSUME NEW i \in 0..(l + 1), i < n PROVE K[0] <= K[i]
    OBVIOUS
  <2>1. CASE i \in 0..l
    BY <1>2, <2>1
  <2>2. CASE i = l + 1
    <3>1. i \in 1..(n - 1)
      BY <2>2
    <3>2. PICK p \in 0..(i - 1) : p = Parent(i)
      BY <3>1, ParentFacts
    <3>3. p \in 0..l /\ p < n /\ p \in 0..(n - 1) /\ i \in 0..(n - 1)
          /\ 0 \in 0..(n - 1)
      BY <2>2, <3>1
    <3>4. K[0] <= K[p]
      BY <1>2, <3>3
    <3>5. K[p] <= K[i]
      BY <3>1, <3>2 DEF Ordered
    <3>6. K[p] \in Int /\ K[i] \in Int /\ K[0] \in Int
      BY <3>3
    <3> QED
      BY <3>4, <3>5, <3>6
  <2> QED
    BY <2>1, <2>2
<1>3. k \in S
  <2>1. k \in Nat
    OBVIOUS
  <2>2. Nat \subseteq S
    <3> HIDE DEF S
    <3> QED
      BY <1>1, <1>2, SetInduction
  <2> HIDE DEF S
  <2> QED
    BY <2>1, <2>2
<1> QED
  BY <1>3

LEMMA LeqTrans ==
    ASSUME NEW a \in Int, NEW b \in Int, NEW c \in Int, a <= b, b <= c
    PROVE  a <= c
  OBVIOUS

(* The last key in the place of the i-th is too small for it, or too large, *)
(* or in order.                                                             *)
LEMMA MovedKey ==
    ASSUME NEW n \in Nat, NEW K \in [0..n -> Int], Ordered(K, n + 1),
           NEW i \in 0..(n - 1), NEW L, L = [K EXCEPT ![i] = K[n], ![n] = K[i]]
    PROVE  /\ i > 0 /\ L[i] < L[Parent(i)] =>
                 /\ UpOrdered(L, i, n)
                 /\ \A k \in 1..(n - 1) : Parent(k) = i => L[i] <= L[k]
           /\ ~(i > 0 /\ L[i] < L[Parent(i)]) => DownOrdered(L, i, n)
<1>1. /\ L[i] \in Int
      /\ \A k \in 0..(n - 1) : k # i => L[k] = K[k]
      /\ \A k \in 0..(n - 1) : K[k] \in Int
  OBVIOUS
<1>2. ASSUME NEW k \in 1..(n - 1)
      PROVE  K[Parent(k)] <= K[k] /\ Parent(k) \in 0..(k - 1)
  <2>1. k \in 1..((n + 1) - 1)
    OBVIOUS
  <2> QED
    BY <2>1, ParentFacts DEF Ordered
<1>3. ASSUME NEW k \in 1..(n - 1) PROVE Parent(k) \in 0..(n - 1) /\ k # Parent(k)
  <2>1. Parent(k) \in 0..(k - 1)
    BY <1>2
  <2> QED
    BY <2>1
<1>4. ASSUME NEW k \in 1..(n - 1), k # i, Parent(k) # i
      PROVE  L[Parent(k)] <= L[k]
  <2>1. L[k] = K[k] /\ L[Parent(k)] = K[Parent(k)]
    BY <1>1, <1>3, <1>4
  <2> QED
    BY <1>2, <2>1
<1>5. ASSUME i > 0, NEW k \in 1..(n - 1), Parent(k) = i
      PROVE  L[Parent(i)] <= L[k]
  <2>1. i \in 1..(n - 1) /\ k # i
    BY <1>3, <1>5
  <2>2. L[Parent(i)] = K[Parent(i)] /\ L[k] = K[k]
    BY <1>1, <1>3, <2>1
  <2>3. K[Parent(i)] <= K[i] /\ K[i] <= K[k]
    BY <1>2, <1>5, <2>1
  <2>4. K[Parent(i)] \in Int /\ K[i] \in Int /\ K[k] \in Int
    BY <1>1, <1>3, <2>1
  <2> QED
    BY <2>2, <2>3, <2>4
<1>6. ASSUME i > 0, L[i] < L[Parent(i)], NEW k \in 1..(n - 1), Parent(k) = i
      PROVE  L[i] <= L[k]
  <2>1. i \in 1..(n - 1) /\ k # i
    BY <1>3, <1>6
  <2>2. L[Parent(i)] \in Int /\ L[k] \in Int
    BY <1>1, <1>3, <2>1
  <2>3. L[Parent(i)] <= L[k]
    BY <1>5, <1>6
  <2> QED
    BY <1>1, <1>6, <2>2, <2>3
<1>7. ASSUME i > 0, L[i] < L[Parent(i)] PROVE UpOrdered(L, i, n)
  <2>1. ASSUME NEW k \in 1..(n - 1), k # i PROVE L[Parent(k)] <= L[k]
    BY <1>4, <1>6, <1>7, <2>1
  <2> QED
    BY <1>5, <1>7, <2>1 DEF UpOrdered
<1>8. ASSUME ~(i > 0 /\ L[i] < L[Parent(i)]) PROVE DownOrdered(L, i, n)
  <2>1. ASSUME NEW k \in 1..(n - 1), Parent(k) # i PROVE L[Parent(k)] <= L[k]
    <3>1. CASE k = i
      <4>1. i \in 1..(n - 1)
        BY <3>1
      <4>2. L[Parent(i)] \in Int
        BY <1>1, <1>3, <4>1
      <4>3. ~(L[i] < L[Parent(i)])
        BY <1>8, <4>1
      <4> QED
        BY <1>1, <3>1, <4>2, <4>3
    <3>2. CASE k # i
      BY <1>4, <2>1, <3>2
    <3> QED
      BY <3>1, <3>2
  <2> QED
    BY <1>5, <2>1 DEF DownOrdered
<1> QED
  BY <1>6, <1>7, <1>8

LEMMA MovedOut ==
    ASSUME NEW h, IsTimerHeap(h), NEW n \in Nat, Len(h.slice) = n + 1,
           NEW i \in 0..(n - 1), NEW g, g = Up(Down(Swap(h, i, n), i, n), i)
    PROVE  /\ Rearranged(g, h, n + 1) /\ Ordered(Keys(g), n)
           /\ g.slice[n + 1] = h.slice[i + 1]
<1>1. PICK a : a = Swap(h, i, n)
  OBVIOUS
<1>2. PICK K \in [0..n -> Int] : K = Keys(h)
  <2>1. h \in HeapRecs
    BY DEF IsTimerHeap, HeapOK
  <2>2. (n + 1) - 1 = n
    OBVIOUS
  <2> QED
    BY <2>1, <2>2, KeysType
<1>3. /\ HeapOK(h) /\ i \in Nat /\ i # n /\ i < n + 1 /\ n < n + 1
      /\ n + 1 \in Nat /\ n + 1 <= Len(h.slice)
  BY DEF IsTimerHeap
<1>4. /\ Rearranged(a, h, n + 1)
      /\ Keys(a) = [K EXCEPT ![i] = K[n], ![n] = K[i]]
  BY <1>1, <1>2, <1>3, SwapKeys
<1>5. a.slice[n + 1] = h.slice[i + 1]
  BY <1>1, <1>3, SwapRearranges
<1>6. HeapOK(a) /\ Len(a.slice) = n + 1 /\ a \in HeapRecs
  BY <1>4 DEF Rearranged, HeapOK
<1>7. PICK L : L = Keys(a)
  OBVIOUS
<1>8. /\ i > 0 /\ L[i] < L[Parent(i)] =>
            /\ UpOrdered(L, i, n)
            /\ \A k \in 1..(n - 1) : Parent(k) = i => L[i] <= L[k]
      /\ ~(i > 0 /\ L[i] < L[Parent(i)]) => DownOrdered(L, i, n)
  <2>1. Ordered(K, n + 1)
    BY <1>2 DEF IsTimerHeap
  <2> QED
    BY <1>4, <1>7, <2>1, MovedKey
<1>9. n \in 1..Len(a.slice) /\ n \in 0..Len(a.slice)
  BY <1>6
<1>10. L \in [0..n -> Int]
  <2>1. (n + 1) - 1 = n
    OBVIOUS
  <2> QED
    BY <1>6, <1>7, <2>1, KeysType
<1>11. ASSUME NEW b, Rearranged(b, a, n), UpOrdered(Keys(b), i, n), g = Up(b, i)
       PROVE  /\ Rearranged(g, h, n + 1) /\ Ordered(Keys(g), n)
              /\ g.slice[n + 1] = h.slice[i + 1]
  <2>1. HeapOK(b) /\ Len(b.slice) = n + 1 /\ n \in 1..Len(b.slice)
    BY <1>6, <1>9, <1>11 DEF Rearranged
  <2>2. Rearranged(g, b, n) /\ Ordered(Keys(g), n)
    BY <1>11, <2>1, UpRestores
  <2>3. Rearranged(g, a, n)
    BY <1>11, <2>2, RearrangedTrans
  <2>4. g.slice[n + 1] = a.slice[n + 1]
    <3>1. n + 1 \in (n + 1)..Len(a.slice)
      BY <1>6
    <3> QED
      BY <2>3, <3>1 DEF Rearranged
  <2>5. Rearranged(g, a, n + 1)
    BY <1>6, <2>3 DEF Rearranged
  <2>6. Rearranged(g, h, n + 1)
    BY <1>4, <2>5, RearrangedTrans
  <2> QED
    BY <1>5, <2>2, <2>4, <2>6
<1>12. CASE i > 0 /\ L[i] < L[Parent(i)]
  <2>1. DownRound(a, i, n) = <<a, i>>
    <3>1. CASE 2 * i + 1 < n
      <4>1. PICK c : c = Child(a, i, n)
        OBVIOUS
      <4>2. c \in 1..(n - 1) /\ Parent(c) = i
        <5>1. a \in HeapRecs /\ i \in Nat
          BY <1>6
        <5>2. Child(a, i, n) \in 1..(n - 1) /\ Parent(Child(a, i, n)) = i
          BY <1>9, <3>1, <5>1, ChildIsLeast, Zenon
        <5> QED
          BY <4>1, <5>2, Zenon
      <4>3. L[i] <= L[c]
        BY <1>8, <1>12, <4>2
      <4>4. L[i] \in Int /\ L[c] \in Int
        BY <1>10, <4>2
      <4>5. c \in 0..(Len(a.slice) - 1) /\ i \in 0..(Len(a.slice) - 1)
        BY <1>6, <4>2
      <4>6. Less(a, c, i) = (L[c] < L[i])
        BY <1>7, <4>5, LessIsKey
      <4>7. ~(L[c] < L[i])
        BY <4>3, <4>4
      <4> QED
        BY <4>1, <4>6, <4>7 DEF DownRound
    <3>2. CASE ~(2 * i + 1 < n)
      BY <3>2 DEF DownRound
    <3> QED
      BY <3>1, <3>2
  <2>2. Down(a, i, n) = a
    BY <1>6, <2>1, DownStays
  <2>3. Rearranged(a, a, n)
    BY <1>6, RearrangedRefl
  <2>4. UpOrdered(Keys(a), i, n)
    BY <1>7, <1>8, <1>12
  <2>5. g = Up(a, i)
    BY <1>1, <2>2
  <2> QED
    BY <1>11, <2>3, <2>4, <2>5
<1>13. CASE ~(i > 0 /\ L[i] < L[Parent(i)])
  <2>1. DownOrdered(Keys(a), i, n)
    BY <1>7, <1>8, <1>13
  <2>2. PICK b : b = Down(a, i, n)
    OBVIOUS
  <2>3. Rearranged(b, a, n) /\ Ordered(Keys(b), n)
    BY <1>6, <1>9, <2>1, <2>2, DownRestores
  <2>4. PICK M \in [0..n -> Int] : M = Keys(b)
    <3>1. b \in HeapRecs /\ Len(b.slice) = n + 1
      BY <1>6, <2>3 DEF Rearranged, HeapOK
    <3>2. (n + 1) - 1 = n
      OBVIOUS
    <3> QED
      BY <3>1, <3>2, KeysType
  <2>5. UpOrdered(M, i, n)
    <3>1. Ordered(M, n)
      BY <2>3, <2>4
    <3>2. ASSUME i > 0, NEW k \in 1..(n - 1), Parent(k) = i
          PROVE  M[Parent(i)] <= M[k]
      <4>1. i \in 1..(n - 1)
        BY <3>2
      <4>2. M[Parent(i)] <= M[i] /\ M[i] <= M[k]
        BY <3>1, <3>2, <4>1 DEF Ordered
      <4>3. Parent(i) \in 0..n
        <5>1. Parent(i) \in Nat /\ Parent(i) < i
          BY <4>1, ParentFacts
        <5> QED
          BY <4>1, <5>1
      <4>4. M[Parent(i)] \in Int /\ M[i] \in Int /\ M[k] \in Int
        BY <4>3
      <4> QED
        BY <4>2, <4>4, LeqTrans
    <3> QED
      BY <3>1, <3>2 DEF UpOrdered, Ordered
  <2>6. g = Up(b, i)
    BY <1>1, <2>2
  <2> QED
    BY <1>11, <2>3, <2>4, <2>5, <2>6
<1> QED
  BY <1>12, <1>13

Dropped(g, n) ==
    [g EXCEPT !.index[g.slice[n + 1]] = -1, !.slice = SubSeq(@, 1, n)]

LEMMA LastDropped ==
    ASSUME NEW g, HeapOK(g), NEW n \in Nat, Len(g.slice) = n + 1,
           Ordered(Keys(g), n)
    PROVE  /\ IsTimerHeap(Dropped(g, n))
           /\ Contents(Dropped(g, n)) = Contents(g) \ {g.slice[n + 1]}
           /\ Dropped(g, n).expire = g.expire
           /\ Dropped(g, n).index[g.slice[n + 1]] = -1
           /\ \A d \in Data : d # g.slice[n + 1] =>
                 Dropped(g, n).index[d] = g.index[d]
<1>1. g \in HeapRecs
  BY DEF HeapOK
<1>2. PICK s \in Seq(Data) : s = g.slice
  BY <1>1 DEF HeapRecs
<1>3. Len(s) = n + 1 /\ n + 1 \in 1..Len(s)
  BY <1>2
<1>4. PICK td \in Data : td = s[n + 1]
  BY <1>3
<1>5. PICK r : r = Dropped(g, n)
  OBVIOUS
<1>6. PICK t \in Seq(Data) : t = SubSeq(s, 1, n)
  <2>1. n <= Len(s) /\ Len(s) \in Nat
    BY <1>3
  <2>2. SubSeq(s, 1, n) \in Seq(Data)
    BY <2>1
  <2> QED
    BY <2>2
<1>7. Len(t) = n /\ \A k \in 1..n : t[k] = s[k] /\ s[k] \in Data
  BY <1>3, <1>6
<1>8. /\ r.slice = t /\ r.expire = g.expire
      /\ r.index = [g.index EXCEPT ![td] = -1]
  BY <1>1, <1>2, <1>4, <1>5, <1>6 DEF Dropped, HeapRecs
<1>9. r \in HeapRecs
  <2>1. /\ g.slice \in Seq(Data) /\ g.index \in [Data -> Int]
        /\ g.expire \in [Data -> Int]
    BY <1>1 DEF HeapRecs
  <2>2. /\ SubSeq(g.slice, 1, n) \in Seq(Data)
        /\ [g.index EXCEPT ![g.slice[n + 1]] = -1] \in [Data -> Int]
    <3>1. -1 \in Int
      OBVIOUS
    <3> QED
      BY <1>2, <1>6, <2>1, <3>1
  <2> QED
    BY <1>1, <1>5, <2>1, <2>2 DEF Dropped, HeapRecs
<1>10. \A k \in 1..(n + 1) : g.index[s[k]] = k - 1
  BY <1>2, <1>3 DEF HeapOK
<1>11. \A k \in 1..n : s[k] # td
  <2> TAKE k \in 1..n
  <2>1. k \in 1..(n + 1) /\ n + 1 \in 1..(n + 1) /\ k - 1 # (n + 1) - 1
    OBVIOUS
  <2> QED
    BY <1>4, <1>10, <2>1
<1>12. /\ r.index[td] = -1
       /\ \A d \in Data : d # td => r.index[d] = g.index[d]
  BY <1>1, <1>8 DEF HeapRecs
<1>13. \A k \in 1..n : r.index[t[k]] = k - 1
  <2> TAKE k \in 1..n
  <2>1. k \in 1..(n + 1) /\ t[k] = s[k] /\ s[k] \in Data /\ s[k] # td
    BY <1>7, <1>11
  <2> QED
    BY <1>10, <1>12, <2>1
<1>14. HeapOK(r)
  BY <1>7, <1>8, <1>9, <1>13 DEF HeapOK
<1>15. Keys(g) \in [0..n -> Int] /\ Keys(r) \in [0..(n - 1) -> Int]
  <2>1. (n + 1) - 1 = n
    OBVIOUS
  <2> QED
    BY <1>1, <1>7, <1>8, <1>9, <2>1, KeysType
<1>16. \A k \in 0..(n - 1) : Keys(r)[k] = Keys(g)[k]
  <2> TAKE k \in 0..(n - 1)
  <2>1. k + 1 \in 1..n /\ k \in 0..n /\ (n + 1) - 1 = n
    OBVIOUS
  <2>2. Keys(r)[k] = r.expire[t[k + 1]]
    BY <1>7, <1>8, <2>1 DEF Keys, Key
  <2>3. Keys(g)[k] = g.expire[s[k + 1]]
    BY <1>2, <1>3, <2>1 DEF Keys, Key
  <2> QED
    BY <1>7, <1>8, <2>1, <2>2, <2>3
<1>17. Ordered(Keys(r), n)
  <2>1. ASSUME NEW k \in 1..(n - 1) PROVE Keys(r)[Parent(k)] <= Keys(r)[k]
    <3>1. Parent(k) \in Nat /\ Parent(k) < k
      BY ParentFacts
    <3>2. Parent(k) \in 0..(n - 1) /\ k \in 0..(n - 1)
      BY <3>1
    <3>3. Keys(g)[Parent(k)] <= Keys(g)[k]
      BY DEF Ordered
    <3> QED
      BY <1>16, <3>2, <3>3
  <2> QED
    BY <2>1 DEF Ordered
<1>18. IsTimerHeap(r)
  BY <1>7, <1>8, <1>14, <1>17 DEF IsTimerHeap
<1>19. Contents(r) = Contents(g) \ {td}
  <2>1. Contents(g) = {s[k] : k \in 1..(n + 1)}
    BY <1>2, <1>3 DEF Contents
  <2>2. Contents(r) = {t[k] : k \in 1..n}
    BY <1>7, <1>8 DEF Contents
  <2>3. \A k \in 1..n : t[k] # td /\ t[k] \in {s[l] : l \in 1..(n + 1)}
    <3> TAKE k \in 1..n
    <3>1. k \in 1..(n + 1) /\ t[k] = s[k]
      BY <1>7
    <3> QED
      BY <1>11, <3>1
  <2>4. \A k \in 1..(n + 1) : s[k] = td \/ s[k] \in {t[l] : l \in 1..n}
    <3> TAKE k \in 1..(n + 1)
    <3>1. CASE k = n + 1
      BY <1>4, <3>1
    <3>2. CASE k \in 1..n
      BY <1>7, <3>2
    <3> QED
      BY <3>1, <3>2
  <2> QED
    BY <2>1, <2>2, <2>3, <2>4
<1> QED
  BY <1>2, <1>4, <1>5, <1>8, <1>12, <1>18, <1>19

LEMMA RemoveKeeps ==
    ASSUME NEW h, IsTimerHeap(h), NEW td \in Data
    PROVE  /\ IsTimerHeap(Remove(h, td))
           /\ Contents(Remove(h, td)) = Contents(h) \ {td}
           /\ Remove(h, td).expire = h.expire
           /\ Remove(h, td).index[td] \in {-1, h.index[td]}
           /\ \A d \in Data \ Contents(h) : Remove(h, td).index[d] = h.index[d]
<1>1. h \in HeapRecs /\ HeapOK(h)
  BY DEF IsTimerHeap, HeapOK
<1>2. /\ h.slice \in Seq(Data) /\ Len(h.slice) \in Nat
      /\ h.index \in [Data -> Int]
  BY <1>1 DEF HeapRecs
<1>3. PICK i \in Int : i = h.index[td]
  BY <1>2
<1>4. PICK n \in Int : n = Len(h.slice) - 1
  <2>1. Len(h.slice) - 1 \in Int
    BY <1>2
  <2> QED
    BY <2>1
<1>5. CASE i < 0 \/ i > n \/ h.slice[i + 1] # td
  <2>1. Remove(h, td) = h
    BY <1>3, <1>4, <1>5 DEF Remove
  <2>2. td \notin Contents(h)
    <3> SUFFICES ASSUME NEW k \in 1..Len(h.slice), h.slice[k] = td
                 PROVE  FALSE
      BY DEF Contents
    <3>1. i = k - 1
      BY <1>1, <1>3 DEF HeapOK
    <3>2. i + 1 = k /\ 0 <= i /\ i <= n
      BY <1>2, <1>4, <3>1
    <3> QED
      BY <1>5, <3>2
  <2> QED
    BY <2>1, <2>2
<1>6. CASE ~(i < 0 \/ i > n \/ h.slice[i + 1] # td)
  <2>1. i \in 0..n /\ n \in Nat /\ Len(h.slice) = n + 1 /\ h.slice[i + 1] = td
    <3>1. ~(i < 0) /\ ~(i > n) /\ h.slice[i + 1] = td
      BY <1>6
    <3> QED
      BY <1>2, <1>4, <3>1
  <2>2. PICK g : g = IF i = n THEN h ELSE Up(Down(Swap(h, i, n), i, n), i)
    OBVIOUS
  <2>3. Remove(h, td) = Dropped(g, n)
    BY <1>3, <1>4, <1>6, <2>2 DEF Remove, Dropped
  <2>4. /\ Rearranged(g, h, n + 1) /\ Ordered(Keys(g), n)
        /\ g.slice[n + 1] = td
    <3>1. CASE i = n
      <4>1. Ordered(Keys(h), n + 1)
        BY <2>1 DEF IsTimerHeap
      <4>2. Ordered(Keys(h), n)
        <5>1. \A k \in 1..(n - 1) : k \in 1..((n + 1) - 1)
          BY <2>1
        <5> QED
          BY <4>1, <5>1 DEF Ordered
      <4> QED
        BY <1>1, <2>1, <2>2, <3>1, <4>2, RearrangedRefl
    <3>2. CASE i # n
      <4>1. i \in 0..(n - 1)
        BY <2>1, <3>2
      <4> QED
        BY <2>1, <2>2, <3>2, <4>1, MovedOut
    <3> QED
      BY <3>1, <3>2
  <2>5. /\ HeapOK(g) /\ Len(g.slice) = n + 1 /\ g.expire = h.expire
        /\ Contents(g) = Contents(h)
        /\ \A d \in Data \ Contents(h) : g.index[d] = h.index[d]
    BY <2>1, <2>4 DEF Rearranged
  <2>6. /\ IsTimerHeap(Dropped(g, n))
        /\ Contents(Dropped(g, n)) = Contents(g) \ {td}
        /\ Dropped(g, n).expire = g.expire
        /\ Dropped(g, n).index[td] = -1
        /\ \A d \in Data : d # td => Dropped(g, n).index[d] = g.index[d]
    BY <2>1, <2>4, <2>5, LastDropped
  <2>7. td \in Contents(h)
    <3>1. i + 1 \in 1..Len(h.slice)
      BY <2>1
    <3> QED
      BY <2>1, <3>1 DEF Contents
  <2> QED
    BY <2>3, <2>5, <2>6, <2>7
<1> QED
  BY <1>5, <1>6

-----------------------------------------------------------------------------
(* The heap of the TimerData that exist, whose fields keep their types.     *)

TypedHeap(h) ==
    /\ IsTimerHeap(h)
    /\ h.index \in [Data -> -1..MaxData] /\ h.expire \in [Data -> Instants]

LEMMA NumbersOK ==
    /\ MaxData \in Nat /\ Capacity \in 1..MaxData /\ MaxTime \in Nat
    /\ MaxDelay \in Nat /\ Nil = 0
  BY BoundsAssumption DEF Nil

LEMMA SliceIsShort ==
    ASSUME NEW h, HeapOK(h)
    PROVE  Len(h.slice) \in 0..MaxData
<1>1. h \in HeapRecs
  BY DEF HeapOK
<1>2. PICK s \in Seq(Data) : s = h.slice
  BY <1>1 DEF HeapRecs
<1>3. PICK n \in Nat : n = Len(s)
  OBVIOUS
<1>4. PICK f \in [1..n -> 1..MaxData] : \A i \in 1..n : f[i] = s[i]
  <2>1. \A i \in 1..n : s[i] \in Data
    BY <1>3
  <2>2. [i \in 1..n |-> s[i]] \in [1..n -> 1..MaxData]
    BY <2>1 DEF Data
  <2> QED
    BY <2>2
<1>5. \A i, j \in 1..n : f[i] = f[j] => i = j
  <2> TAKE i, j \in 1..n
  <2> HAVE f[i] = f[j]
  <2>1. i - 1 = j - 1
    BY <1>2, <1>3, <1>4 DEF HeapOK
  <2> QED
    BY <2>1
<1>6. MaxData \in Nat
  BY NumbersOK
<1>7. n <= MaxData
  BY <1>4, <1>5, <1>6, AtMost
<1> QED
  BY <1>2, <1>3, <1>6, <1>7

LEMMA IndexTyped ==
    ASSUME NEW h, HeapOK(h),
           \A d \in Data \ Contents(h) : h.index[d] \in -1..MaxData
    PROVE  h.index \in [Data -> -1..MaxData]
<1>1. h.index \in [Data -> Int]
  BY DEF HeapOK, HeapRecs
<1>2. PICK n \in Nat : n = Len(h.slice) /\ n <= MaxData
  BY SliceIsShort
<1>3. ASSUME NEW d \in Contents(h) PROVE h.index[d] \in -1..MaxData
  <2>1. PICK k \in 1..n : d = h.slice[k]
    BY <1>2 DEF Contents
  <2>2. h.index[d] = k - 1
    BY <1>2, <2>1 DEF HeapOK
  <2>3. k - 1 \in -1..MaxData
    BY <1>2, NumbersOK
  <2> QED
    BY <2>2, <2>3
<1> QED
  BY <1>1, <1>3

LEMMA InsertTyped ==
    ASSUME NEW h, TypedHeap(h), NEW td \in Data \ Contents(h)
    PROVE  /\ TypedHeap(Insert(h, td))
           /\ Contents(Insert(h, td)) = Contents(h) \cup {td}
           /\ Insert(h, td).expire = h.expire
<1>1. PICK g : g = Insert(h, td)
  OBVIOUS
<1>2. /\ IsTimerHeap(g) /\ Contents(g) = Contents(h) \cup {td}
      /\ g.expire = h.expire
      /\ \A d \in Data \ Contents(g) : g.index[d] = h.index[d]
  BY <1>1, InsertKeeps DEF TypedHeap
<1>3. \A d \in Data \ Contents(g) : g.index[d] \in -1..MaxData
  BY <1>2 DEF TypedHeap
<1>4. g.index \in [Data -> -1..MaxData]
  BY <1>2, <1>3, IndexTyped DEF IsTimerHeap
<1> QED
  BY <1>1, <1>2, <1>4 DEF TypedHeap

LEMMA RemoveTyped ==
    ASSUME NEW h, TypedHeap(h), NEW td \in Data
    PROVE  /\ TypedHeap(Remove(h, td))
           /\ Contents(Remove(h, td)) = Contents(h) \ {td}
           /\ Remove(h, td).expire = h.expire
<1>1. PICK g : g = Remove(h, td)
  OBVIOUS
<1>2. /\ IsTimerHeap(g) /\ Contents(g) = Contents(h) \ {td}
      /\ g.expire = h.expire /\ g.index[td] \in {-1, h.index[td]}
      /\ \A d \in Data \ Contents(h) : g.index[d] = h.index[d]
  BY <1>1, RemoveKeeps DEF TypedHeap
<1>3. -1 \in -1..MaxData
  BY NumbersOK
<1>4. \A d \in Data \ Contents(g) : g.index[d] \in -1..MaxData
  BY <1>2, <1>3 DEF TypedHeap
<1>5. g.index \in [Data -> -1..MaxData]
  BY <1>2, <1>4, IndexTyped DEF IsTimerHeap
<1> QED
  BY <1>1, <1>2, <1>5 DEF TypedHeap

Retimed(h, td, t) == [h EXCEPT !.expire[td] = t]

LEMMA RetimedTyped ==
    ASSUME NEW h, TypedHeap(h), NEW td \in Data \ Contents(h), NEW t \in Instants
    PROVE  /\ TypedHeap(Retimed(h, td, t))
           /\ Contents(Retimed(h, td, t)) = Contents(h)
           /\ Retimed(h, td, t).expire = [h.expire EXCEPT ![td] = t]
<1>1. HeapOK(h) /\ h \in HeapRecs
  BY DEF TypedHeap, IsTimerHeap, HeapOK
<1>2. PICK g : g = Retimed(h, td, t)
  OBVIOUS
<1>3. /\ g.slice = h.slice /\ g.index = h.index
      /\ g.expire = [h.expire EXCEPT ![td] = t]
  BY <1>1, <1>2 DEF Retimed, HeapRecs
<1>4. /\ h.expire \in [Data -> Instants] /\ g.expire \in [Data -> Instants]
      /\ g.expire \in [Data -> Int]
  <2>1. Instants \subseteq Int
    BY NumbersOK DEF Instants
  <2> QED
    BY <1>3, <2>1 DEF TypedHeap
<1>5. g \in HeapRecs
  <2>1. /\ h.slice \in Seq(Data) /\ h.index \in [Data -> Int]
        /\ [h.expire EXCEPT ![td] = t] \in [Data -> Int]
    BY <1>1, <1>3, <1>4 DEF HeapRecs
  <2> QED
    BY <1>1, <1>2, <2>1 DEF Retimed, HeapRecs
<1>6. HeapOK(g) /\ Contents(g) = Contents(h)
  BY <1>1, <1>3, <1>5 DEF HeapOK, Contents
<1>7. PICK n \in Nat : n = Len(h.slice)
  BY <1>1 DEF HeapRecs
<1>8. \A k \in 0..(n - 1) : Keys(g)[k] = Keys(h)[k]
  <2> TAKE k \in 0..(n - 1)
  <2>1. Keys(g)[k] = g.expire[h.slice[k + 1]]
    BY <1>3, <1>7 DEF Keys, Key
  <2>2. Keys(h)[k] = h.expire[h.slice[k + 1]]
    BY <1>7 DEF Keys, Key
  <2>3. h.slice[k + 1] \in Contents(h) /\ h.slice[k + 1] \in Data
    <3>1. k + 1 \in 1..n
      OBVIOUS
    <3> QED
      BY <1>1, <1>7, <3>1 DEF Contents, HeapRecs
  <2> QED
    BY <1>3, <1>4, <2>1, <2>2, <2>3
<1>9. Ordered(Keys(g), n)
  <2>1. ASSUME NEW k \in 1..(n - 1) PROVE Keys(g)[Parent(k)] <= Keys(g)[k]
    <3>1. Parent(k) \in Nat /\ Parent(k) < k
      BY ParentFacts
    <3>2. Parent(k) \in 0..(n - 1) /\ k \in 0..(n - 1)
      BY <3>1
    <3>3. Keys(h)[Parent(k)] <= Keys(h)[k]
      BY <1>7 DEF TypedHeap, IsTimerHeap, Ordered
    <3> QED
      BY <1>8, <3>2, <3>3
  <2> QED
    BY <2>1 DEF Ordered
<1>10. IsTimerHeap(g)
  BY <1>3, <1>6, <1>7, <1>9 DEF IsTimerHeap
<1> QED
  BY <1>2, <1>3, <1>4, <1>6, <1>10 DEF TypedHeap

LEMMA EmptiedTyped ==
    ASSUME NEW ix \in [Data -> -1..MaxData], NEW ex \in [Data -> Instants],
           NEW g, g = [slice |-> <<>>, index |-> ix, expire |-> ex]
    PROVE  TypedHeap(g) /\ Contents(g) = {}
<1>1. ix \in [Data -> Int] /\ ex \in [Data -> Int]
  BY NumbersOK DEF Instants
<1>2. g \in HeapRecs /\ g.slice = <<>>
  <2>1. <<>> \in Seq(Data)
    OBVIOUS
  <2> QED
    BY <1>1, <2>1 DEF HeapRecs
<1>3. Len(g.slice) = 0
  BY <1>2
<1>4. HeapOK(g) /\ Contents(g) = {}
  BY <1>2, <1>3 DEF HeapOK, Contents
<1>5. Ordered(Keys(g), 0)
  BY DEF Ordered
<1> QED
  BY <1>3, <1>4, <1>5 DEF TypedHeap, IsTimerHeap

LEMMA HeapRecIs ==
    ASSUME NEW h \in HeapRecs
    PROVE  h = [slice |-> h.slice, index |-> h.index, expire |-> h.expire]
  BY DEF HeapRecs

-----------------------------------------------------------------------------
(* The inductive invariant: TimerData are on the free list or with the one  *)
(* client that they call, the heap is one and holds none but clients', and  *)
(* a callback runs only where the loop calls one.                           *)

LinkedFree == PoolOK(Clients, MaxData, free, next, allocated, handle)

HandlesOwned ==
    \A c \in Clients :
        handle[c] # Nil => handle[c] <= allocated /\ fn[handle[c]] = c

HeapHeld ==
    /\ TypedHeap(Heap)
    /\ \A td \in InHeap : \E c \in Clients : handle[c] = td

IInv ==
    /\ TypeOK
    /\ LinkedFree
    /\ HandlesOwned
    /\ HeapHeld
    /\ loop # "call" => running = NoClient

LEMMA HeapFields ==
    ASSUME heap \in Seq(Data)
    PROVE  /\ Heap.slice = heap /\ Heap.index = index /\ Heap.expire = expire
           /\ Contents(Heap) = InHeap
<1>1. Heap.slice = heap /\ Heap.index = index /\ Heap.expire = expire
  BY DEF Heap
<1>2. DOMAIN heap = 1..Len(heap)
  OBVIOUS
<1> QED
  BY <1>1, <1>2 DEF Contents, InHeap

LEMMA HeapBecomes ==
    ASSUME NEW h, TypedHeap(h), BecomesHeap(h)
    PROVE  /\ Heap' = h /\ TypedHeap(Heap)'
           /\ heap' \in Seq(Data) /\ index' \in [Data -> -1..MaxData]
           /\ expire' \in [Data -> Instants]
           /\ InHeap' = Contents(h)
<1>1. h \in HeapRecs
  BY DEF TypedHeap, IsTimerHeap, HeapOK
<1>2. heap' = h.slice /\ index' = h.index /\ expire' = h.expire
  BY DEF BecomesHeap
<1>3. Heap' = h
  BY <1>1, <1>2, HeapRecIs DEF Heap
<1>4. heap' \in Seq(Data)
  BY <1>1, <1>2 DEF HeapRecs
<1>5. index' \in [Data -> -1..MaxData] /\ expire' \in [Data -> Instants]
  BY <1>2 DEF TypedHeap
<1>6. InHeap' = Contents(h)
  <2>1. DOMAIN heap' = 1..Len(heap')
    BY <1>4
  <2> QED
    BY <1>2, <2>1 DEF InHeap, Contents
<1>7. TypedHeap(Heap')
  BY <1>3
<1> QED
  BY <1>3, <1>4, <1>5, <1>6, <1>7

LEMMA GetEffect ==
    ASSUME IInv, NEW c \in Clients, NEW td, Get(td),
           handle' = [handle EXCEPT ![c] = td]
    PROVE  /\ LinkedFree' /\ free' \in 1..allocated' \cup {Nil}
           /\ next' \in [Data -> Data \cup {Nil}]
           /\ allocated' \in 0..MaxData /\ allocated <= allocated'
           /\ td \in Data /\ td <= allocated' /\ \A d \in Clients : handle[d] # td
<1>1. Takes(MaxData, Capacity, free, next, allocated, td, free', next', allocated')
  <2>1. CASE free # 0
    BY <2>1 DEF Get, Takes, Nil
  <2>2. CASE free = 0
    BY <2>2 DEF Get, Takes, Batch, BatchFree, Data, Nil
  <2> QED
    BY <2>1, <2>2
<1>2. PoolOK(Clients, MaxData, free, next, allocated, handle)
  BY DEF IInv, LinkedFree
<1>3. MaxData \in Nat /\ Capacity \in 1..MaxData
  BY NumbersOK
<1>4. PICK fr, nx, al : fr = free' /\ nx = next' /\ al = allocated'
  OBVIOUS
<1>5. /\ PoolOK(Clients, MaxData, fr, nx, al, [handle EXCEPT ![c] = td])
      /\ td \in 1..MaxData /\ td <= al /\ allocated <= al
      /\ Unheld(Clients, td, handle)
  <2>1. Takes(MaxData, Capacity, free, next, allocated, td, fr, nx, al)
    BY <1>1, <1>4
  <2> QED
    BY <1>2, <1>3, <2>1, PoolTakes
<1>6. PoolOK(Clients, MaxData, fr, nx, al, handle')
  BY <1>5
<1>7. /\ fr \in 1..al \cup {0} /\ al \in 0..MaxData
      /\ nx \in [1..MaxData -> (1..MaxData) \cup {0}]
  BY <1>3, <1>6, PoolHead DEF PoolOK
<1> QED
  BY <1>4, <1>5, <1>6, <1>7 DEF LinkedFree, Unheld, Data, Nil

LEMMA SignalTyped ==
    ASSUME TypeOK, NEW h, TypedHeap(h), NEW td \in Data, Signal(h, td)
    PROVE  signal' \in Instants \cup {Forever} /\ tick' \in BOOLEAN
  BY DEF TypeOK, TypedHeap, Signal

LEMMA NobodysIsOut ==
    ASSUME IInv, NEW td, \A c \in Clients : handle[c] # td
    PROVE  td \notin InHeap
  BY DEF IInv, HeapHeld

LEMMA AddInv ==
    ASSUME IInv, NEW c \in Clients, NEW delay \in 1..MaxDelay, Add(c, delay)
    PROVE  /\ IInv'
           /\ \E td \in Data :
                 /\ td \notin InHeap /\ \A d \in Clients : handle[d] # td
                 /\ handle' = [handle EXCEPT ![c] = td]
                 /\ InHeap' = InHeap \cup {td}
                 /\ expire' = [expire EXCEPT ![td] = now + delay]
<1>1. /\ TypeOK /\ TypedHeap(Heap) /\ heap \in Seq(Data) /\ now + delay \in Instants
  <2>1. now \in Nat /\ now + delay <= MaxTime
    BY NumbersOK DEF IInv, TypeOK, Instants, Add
  <2>2. now + delay \in Instants
    BY <2>1, NumbersOK DEF Instants
  <2> QED
    BY <2>2 DEF IInv, HeapHeld, TypeOK
<1>2. PICK td \in Data :
         LET h == Insert([Heap EXCEPT !.expire[td] = now + delay], td)
         IN  /\ Get(td)
             /\ fn' = [fn EXCEPT ![td] = c]
             /\ handle' = [handle EXCEPT ![c] = td]
             /\ BecomesHeap(h)
             /\ Signal(h, td)
  BY DEF Add
<1>3. PICK g : g = Retimed(Heap, td, now + delay)
  OBVIOUS
<1>4. PICK h : h = Insert(g, td)
  OBVIOUS
<1>5. /\ Get(td) /\ fn' = [fn EXCEPT ![td] = c]
      /\ handle' = [handle EXCEPT ![c] = td]
      /\ BecomesHeap(h) /\ Signal(h, td)
  BY <1>2, <1>3, <1>4 DEF Retimed
<1>6. /\ loop' = loop /\ running' = running /\ stopped' = stopped /\ now' = now
      /\ handle[c] = Nil
  BY DEF Add, loopVars
<1>7. /\ LinkedFree' /\ free' \in 1..allocated' \cup {Nil}
      /\ next' \in [Data -> Data \cup {Nil}]
      /\ allocated' \in 0..MaxData /\ allocated <= allocated'
      /\ td \in Data /\ td <= allocated' /\ \A d \in Clients : handle[d] # td
  BY <1>5, GetEffect
<1>8. Contents(Heap) = InHeap /\ td \in Data \ Contents(Heap)
  BY <1>1, <1>7, HeapFields, NobodysIsOut
<1>9. /\ TypedHeap(g) /\ Contents(g) = InHeap
      /\ g.expire = [expire EXCEPT ![td] = now + delay]
  BY <1>1, <1>3, <1>8, RetimedTyped, HeapFields
<1>10. TypedHeap(h) /\ Contents(h) = InHeap \cup {td} /\ h.expire = g.expire
  BY <1>4, <1>8, <1>9, InsertTyped
<1>11. /\ TypedHeap(Heap)' /\ InHeap' = Contents(h)
       /\ heap' \in Seq(Data) /\ index' \in [Data -> -1..MaxData]
       /\ expire' \in [Data -> Instants] /\ expire' = h.expire
  BY <1>5, <1>10, HeapBecomes DEF BecomesHeap
<1>12. signal' \in Instants \cup {Forever} /\ tick' \in BOOLEAN
  BY <1>1, <1>5, <1>10, SignalTyped
<1>13. /\ handle \in [Clients -> Data \cup {Nil}]
       /\ fn \in [Data -> Clients \cup {NoClient}]
  BY <1>1 DEF TypeOK
<1>14. TypeOK'
  <2>1. fn' \in [Data -> Clients \cup {NoClient}]
    BY <1>5, <1>13
  <2>2. handle' \in [Clients -> Data \cup {Nil}]
    BY <1>5, <1>13
  <2>3. /\ loop' \in {"expire", "call", "wait"}
        /\ running' \in Clients \cup {NoClient}
        /\ stopped' \in BOOLEAN /\ now' \in Instants
    BY <1>1, <1>6 DEF TypeOK
  <2> QED
    BY <1>7, <1>11, <1>12, <2>1, <2>2, <2>3 DEF TypeOK
<1>15. HandlesOwned'
  <2> SUFFICES ASSUME NEW d \in Clients, handle'[d] # Nil
               PROVE  handle'[d] <= allocated' /\ fn'[handle'[d]] = d
    BY DEF HandlesOwned
  <2>1. CASE d = c
    BY <1>5, <1>7, <1>13, <2>1
  <2>2. CASE d # c
    <3>1. handle'[d] = handle[d] /\ handle[d] # td /\ handle[d] \in Data
      BY <1>5, <1>7, <1>13, <2>2
    <3>2. handle[d] <= allocated /\ fn[handle[d]] = d
      BY <3>1 DEF IInv, HandlesOwned
    <3>3. fn'[handle[d]] = d
      BY <1>5, <1>13, <3>1, <3>2
    <3>4. handle[d] <= allocated'
      <4>1. PICK x \in Int : x = handle[d]
        BY <3>1, NumbersOK DEF Data
      <4>2. PICK y \in Int : y = allocated
        BY <1>1 DEF TypeOK
      <4>3. PICK z \in Int : z = allocated'
        BY <1>7
      <4>4. x <= y /\ y <= z
        BY <1>7, <3>2, <4>1, <4>2, <4>3
      <4> QED
        BY <4>1, <4>3, <4>4
    <3> QED
      BY <3>1, <3>3, <3>4
  <2> QED
    BY <2>1, <2>2
<1>16. \A d \in InHeap' : \E b \in Clients : handle'[b] = d
  <2> TAKE d \in InHeap'
  <2>1. CASE d = td
    BY <1>5, <1>13, <2>1
  <2>2. CASE d # td
    <3>1. d \in InHeap
      BY <1>10, <1>11, <2>2
    <3>2. PICK b \in Clients : handle[b] = d
      BY <3>1 DEF IInv, HeapHeld
    <3>3. d # Nil
      <4>1. d \in Data
        BY <1>13, <3>1, <1>1 DEF InHeap
      <4> QED
        BY <4>1, NumbersOK DEF Data
    <3>4. b # c
      BY <1>6, <3>2, <3>3
    <3> QED
      BY <1>5, <1>13, <3>2, <3>4
  <2> QED
    BY <2>1, <2>2
<1>17. HeapHeld'
  BY <1>11, <1>16 DEF HeapHeld
<1>18. loop' # "call" => running' = NoClient
  BY <1>6 DEF IInv
<1>19. IInv'
  BY <1>7, <1>14, <1>15, <1>17, <1>18 DEF IInv
<1> QED
  BY <1>5, <1>7, <1>8, <1>9, <1>10, <1>11, <1>19

LEMMA OwnersDiffer ==
    ASSUME IInv, NEW c \in Clients, NEW d \in Clients, handle[c] # Nil,
           handle[d] = handle[c]
    PROVE  d = c
  BY DEF IInv, HandlesOwned

LEMMA HeldInHeap ==
    ASSUME IInv, NEW td \in InHeap
    PROVE  /\ td \in Data /\ td # Nil
           /\ \E c \in Clients : handle[c] = td /\ fn[td] = c
<1>1. heap \in Seq(Data)
  BY DEF IInv, TypeOK
<1>2. td \in Data
  BY <1>1 DEF InHeap
<1>3. td # Nil
  BY <1>2, NumbersOK DEF Data
<1>4. PICK c \in Clients : handle[c] = td
  BY DEF IInv, HeapHeld
<1> QED
  BY <1>2, <1>3, <1>4 DEF IInv, HandlesOwned

LEMMA DelInv ==
    ASSUME IInv, NEW c \in Clients, Del(c)
    PROVE  /\ IInv'
           /\ handle[c] # Nil /\ handle' = [handle EXCEPT ![c] = Nil]
           /\ InHeap' = InHeap \ {handle[c]} /\ expire' = expire
<1>1. /\ TypeOK /\ TypedHeap(Heap) /\ heap \in Seq(Data)
      /\ handle \in [Clients -> Data \cup {Nil}]
      /\ fn \in [Data -> Clients \cup {NoClient}]
      /\ next \in [Data -> Data \cup {Nil}] /\ allocated \in 0..MaxData
  BY DEF IInv, HeapHeld, TypeOK
<1>2. PICK td : td = handle[c]
  OBVIOUS
<1>3. PICK h : h = Remove(Heap, td)
  OBVIOUS
<1>4. /\ td # Nil /\ td \in Data /\ BecomesHeap(h)
      /\ handle' = [handle EXCEPT ![c] = Nil]
      /\ fn' = [fn EXCEPT ![td] = NoClient]
      /\ next' = [next EXCEPT ![td] = free] /\ free' = td
      /\ allocated' = allocated
      /\ signal' = signal /\ tick' = tick /\ loop' = loop
      /\ running' = running /\ stopped' = stopped /\ now' = now
  BY <1>1, <1>2, <1>3 DEF Del, Put, loopVars
<1>5. td \in 1..allocated
  <2>1. td <= allocated
    BY <1>2, <1>4 DEF IInv, HandlesOwned
  <2> QED
    BY <1>1, <1>4, <2>1, NumbersOK DEF Data
<1>6. TypedHeap(h) /\ Contents(h) = InHeap \ {td} /\ h.expire = expire
  BY <1>1, <1>3, <1>4, RemoveTyped, HeapFields
<1>7. /\ TypedHeap(Heap)' /\ InHeap' = Contents(h)
      /\ heap' \in Seq(Data) /\ index' \in [Data -> -1..MaxData]
      /\ expire' \in [Data -> Instants] /\ expire' = h.expire
  BY <1>4, <1>6, HeapBecomes DEF BecomesHeap
<1>8. LinkedFree'
  <2>1. PoolOK(Clients, MaxData, free, next, allocated, handle)
    BY DEF IInv, LinkedFree
  <2>2. handle[c] # 0 /\ MaxData \in Nat
    BY <1>2, <1>4, NumbersOK
  <2>3. PoolOK(Clients, MaxData, handle[c], [next EXCEPT ![handle[c]] = free],
               allocated, [handle EXCEPT ![c] = 0])
    BY <1>1, <2>1, <2>2, PoolPuts
  <2>4. PoolOK(Clients, MaxData, free', next', allocated', handle')
    BY <1>2, <1>4, <2>3 DEF Nil
  <2> QED
    BY <2>4 DEF LinkedFree
<1>9. TypeOK'
  <2>1. fn' \in [Data -> Clients \cup {NoClient}]
    BY <1>1, <1>4
  <2>2. handle' \in [Clients -> Data \cup {Nil}]
    BY <1>1, <1>4
  <2>3. /\ free' \in 1..allocated' \cup {Nil} /\ allocated' \in 0..MaxData
        /\ next' \in [Data -> Data \cup {Nil}]
    <3>1. free \in Data \cup {Nil}
      BY <1>1, NumbersOK DEF TypeOK, Data
    <3> QED
      BY <1>1, <1>4, <1>5, <3>1
  <2>4. /\ signal' \in Instants \cup {Forever} /\ tick' \in BOOLEAN
        /\ loop' \in {"expire", "call", "wait"}
        /\ running' \in Clients \cup {NoClient}
        /\ stopped' \in BOOLEAN /\ now' \in Instants
    BY <1>1, <1>4 DEF TypeOK
  <2> QED
    BY <1>7, <2>1, <2>2, <2>3, <2>4 DEF TypeOK
<1>10. HandlesOwned'
  <2> SUFFICES ASSUME NEW d \in Clients, handle'[d] # Nil
               PROVE  handle'[d] <= allocated' /\ fn'[handle'[d]] = d
    BY DEF HandlesOwned
  <2>1. d # c /\ handle'[d] = handle[d]
    BY <1>1, <1>4
  <2>2. handle[d] # td
    BY <1>2, <1>4, <2>1, OwnersDiffer
  <2>3. handle[d] <= allocated /\ fn[handle[d]] = d /\ handle[d] \in Data
    BY <1>1, <2>1 DEF IInv, HandlesOwned
  <2>4. fn'[handle[d]] = d
    BY <1>1, <1>4, <2>2, <2>3
  <2> QED
    BY <1>4, <2>1, <2>3, <2>4
<1>11. \A d \in InHeap' : \E b \in Clients : handle'[b] = d
  <2> TAKE d \in InHeap'
  <2>1. d \in InHeap /\ d # td
    BY <1>6, <1>7
  <2>2. PICK b \in Clients : handle[b] = d
    BY <2>1 DEF IInv, HeapHeld
  <2>3. b # c
    BY <1>2, <2>1, <2>2
  <2> QED
    BY <1>1, <1>4, <2>2, <2>3
<1>12. HeapHeld'
  BY <1>7, <1>11 DEF HeapHeld
<1>13. loop' # "call" => running' = NoClient
  BY <1>4 DEF IInv
<1>14. IInv'
  BY <1>8, <1>9, <1>10, <1>12, <1>13 DEF IInv
<1> QED
  BY <1>2, <1>4, <1>6, <1>7, <1>14

(* Steps that leave the free list and the clients as they are. *)
LEMMA ListStays ==
    ASSUME IInv, UNCHANGED <<fn, next, free, allocated, handle>>
    PROVE  /\ LinkedFree' /\ HandlesOwned'
           /\ fn' \in [Data -> Clients \cup {NoClient}]
           /\ next' \in [Data -> Data \cup {Nil}]
           /\ allocated' \in 0..MaxData
           /\ free' \in 1..allocated' \cup {Nil}
           /\ handle' \in [Clients -> Data \cup {Nil}]
<1>1. LinkedFree'
  BY DEF IInv, LinkedFree
<1>2. HandlesOwned'
  BY DEF IInv, HandlesOwned
<1> QED
  BY <1>1, <1>2 DEF IInv, TypeOK

LEMMA SetInv ==
    ASSUME IInv, NEW c \in Clients, NEW delay \in 1..MaxDelay, Set(c, delay)
    PROVE  /\ IInv'
           /\ handle[c] # Nil /\ handle' = handle
           /\ InHeap' = InHeap \cup {handle[c]}
           /\ expire' = [expire EXCEPT ![handle[c]] = now + delay]
<1>1. /\ TypeOK /\ TypedHeap(Heap) /\ heap \in Seq(Data)
      /\ handle \in [Clients -> Data \cup {Nil}]
  BY DEF IInv, HeapHeld, TypeOK
<1>2. PICK td : td = handle[c]
  OBVIOUS
<1>3. PICK r : r = Remove(Heap, td)
  OBVIOUS
<1>4. PICK g : g = Retimed(r, td, now + delay)
  OBVIOUS
<1>5. PICK h : h = Insert(g, td)
  OBVIOUS
<1>6. /\ td # Nil /\ td \in Data /\ now + delay <= MaxTime
      /\ BecomesHeap(h) /\ Signal(h, td)
      /\ UNCHANGED <<fn, freeVars, loopVars, handle, stopped, now>>
  BY <1>1, <1>2, <1>3, <1>4, <1>5 DEF Set, Retimed
<1>7. now + delay \in Instants
  <2>1. now \in Nat
    BY <1>1, NumbersOK DEF TypeOK, Instants
  <2> QED
    BY <1>6, <2>1, NumbersOK DEF Instants
<1>8. TypedHeap(r) /\ Contents(r) = InHeap \ {td} /\ r.expire = expire
  BY <1>1, <1>3, <1>6, RemoveTyped, HeapFields
<1>9. td \in Data \ Contents(r)
  BY <1>6, <1>8
<1>10. /\ TypedHeap(g) /\ Contents(g) = InHeap \ {td}
       /\ g.expire = [expire EXCEPT ![td] = now + delay]
  BY <1>4, <1>7, <1>8, <1>9, RetimedTyped
<1>11. td \in Data \ Contents(g)
  BY <1>6, <1>10
<1>12. TypedHeap(h) /\ Contents(h) = InHeap \cup {td} /\ h.expire = g.expire
  <2>1. TypedHeap(h) /\ Contents(h) = Contents(g) \cup {td} /\ h.expire = g.expire
    BY <1>5, <1>10, <1>11, InsertTyped
  <2> QED
    BY <1>10, <2>1
<1>13. /\ TypedHeap(Heap)' /\ InHeap' = Contents(h)
       /\ heap' \in Seq(Data) /\ index' \in [Data -> -1..MaxData]
       /\ expire' \in [Data -> Instants] /\ expire' = h.expire
  BY <1>6, <1>12, HeapBecomes DEF BecomesHeap
<1>14. signal' \in Instants \cup {Forever} /\ tick' \in BOOLEAN
  BY <1>1, <1>6, <1>12, SignalTyped
<1>15. /\ LinkedFree' /\ HandlesOwned'
       /\ fn' \in [Data -> Clients \cup {NoClient}]
       /\ next' \in [Data -> Data \cup {Nil}]
       /\ allocated' \in 0..MaxData
       /\ free' \in 1..allocated' \cup {Nil}
       /\ handle' \in [Clients -> Data \cup {Nil}]
  BY <1>6, ListStays DEF freeVars
<1>16. /\ loop' = loop /\ running' = running /\ stopped' = stopped /\ now' = now
       /\ handle' = handle
  BY <1>6 DEF loopVars
<1>17. TypeOK'
  <2>1. /\ loop' \in {"expire", "call", "wait"}
        /\ running' \in Clients \cup {NoClient}
        /\ stopped' \in BOOLEAN /\ now' \in Instants
    BY <1>1, <1>16 DEF TypeOK
  <2> QED
    BY <1>13, <1>14, <1>15, <2>1 DEF TypeOK
<1>18. \A d \in InHeap' : \E b \in Clients : handle'[b] = d
  BY <1>2, <1>12, <1>13, <1>16 DEF IInv, HeapHeld
<1>19. HeapHeld'
  BY <1>13, <1>18 DEF HeapHeld
<1>20. loop' # "call" => running' = NoClient
  BY <1>16 DEF IInv
<1>21. IInv'
  BY <1>15, <1>17, <1>19, <1>20 DEF IInv
<1> QED
  BY <1>2, <1>6, <1>10, <1>12, <1>13, <1>16, <1>21

LEMMA StopInv ==
    ASSUME IInv, Stop
    PROVE  IInv' /\ InHeap' = {} /\ handle' = handle
<1>1. /\ heap' = <<>> /\ index' = index /\ expire' = expire
      /\ signal' = Forever /\ tick' = FALSE /\ stopped' = TRUE
      /\ loop' = loop /\ running' = running /\ now' = now /\ handle' = handle
      /\ UNCHANGED <<fn, next, free, allocated, handle>>
  BY DEF Stop, loopVars, freeVars
<1>2. index \in [Data -> -1..MaxData] /\ expire \in [Data -> Instants]
  BY DEF IInv, TypeOK
<1>3. PICK h : h = [slice |-> <<>>, index |-> index, expire |-> expire]
  OBVIOUS
<1>4. TypedHeap(h) /\ Contents(h) = {}
  BY <1>2, <1>3, EmptiedTyped
<1>5. BecomesHeap(h)
  BY <1>1, <1>3 DEF BecomesHeap
<1>6. /\ TypedHeap(Heap)' /\ InHeap' = {}
      /\ heap' \in Seq(Data) /\ index' \in [Data -> -1..MaxData]
      /\ expire' \in [Data -> Instants]
  BY <1>4, <1>5, HeapBecomes
<1>7. /\ LinkedFree' /\ HandlesOwned'
      /\ fn' \in [Data -> Clients \cup {NoClient}]
      /\ next' \in [Data -> Data \cup {Nil}]
      /\ allocated' \in 0..MaxData
      /\ free' \in 1..allocated' \cup {Nil}
      /\ handle' \in [Clients -> Data \cup {Nil}]
  BY <1>1, ListStays
<1>8. TypeOK'
  <2>1. /\ signal' \in Instants \cup {Forever} /\ tick' \in BOOLEAN
        /\ stopped' \in BOOLEAN
    BY <1>1
  <2>2. /\ loop' \in {"expire", "call", "wait"}
        /\ running' \in Clients \cup {NoClient} /\ now' \in Instants
    BY <1>1 DEF IInv, TypeOK
  <2> QED
    BY <1>6, <1>7, <2>1, <2>2 DEF TypeOK
<1>9. HeapHeld'
  BY <1>6 DEF HeapHeld
<1>10. loop' # "call" => running' = NoClient
  BY <1>1 DEF IInv
<1> QED
  BY <1>1, <1>6, <1>7, <1>8, <1>9, <1>10 DEF IInv

(* The goroutine finds the earliest timer in the first place. *)
LEMMA FirstIsEarliest ==
    ASSUME IInv, heap # <<>>
    PROVE  heap[1] \in InHeap /\ \A d \in InHeap : expire[heap[1]] <= expire[d]
<1>1. TypedHeap(Heap) /\ heap \in Seq(Data)
  BY DEF IInv, HeapHeld, TypeOK
<1>2. PICK n \in Nat : n = Len(heap) /\ n >= 1
  BY <1>1
<1>3. Heap \in HeapRecs /\ Heap.slice = heap /\ Heap.expire = expire
  BY <1>1, HeapFields DEF TypedHeap, IsTimerHeap, HeapOK
<1>4. PICK K \in [0..(n - 1) -> Int] : K = Keys(Heap)
  BY <1>2, <1>3, KeysType
<1>5. Ordered(K, n)
  BY <1>1, <1>2, <1>3, <1>4 DEF TypedHeap, IsTimerHeap
<1>6. \A k \in 0..(n - 1) : K[k] = expire[heap[k + 1]]
  BY <1>2, <1>3, <1>4 DEF Keys, Key
<1>7. 1 \in DOMAIN heap /\ heap[1] \in InHeap
  <2>1. DOMAIN heap = 1..n
    BY <1>1, <1>2
  <2>2. 1 \in DOMAIN heap
    BY <1>2, <2>1
  <2> QED
    BY <2>2 DEF InHeap
<1>8. ASSUME NEW d \in InHeap PROVE expire[heap[1]] <= expire[d]
  <2>1. PICK i \in DOMAIN heap : d = heap[i]
    BY <1>8 DEF InHeap
  <2>2. i \in 1..n
    BY <1>1, <1>2, <2>1
  <2>3. PICK k \in 0..(n - 1) : i = k + 1
    <3>1. i - 1 \in 0..(n - 1) /\ i = (i - 1) + 1
      BY <2>2
    <3> QED
      BY <3>1
  <2>4. K[0] <= K[k]
    BY <1>5, FirstIsLeast
  <2>5. K[0] = expire[heap[0 + 1]] /\ K[k] = expire[heap[k + 1]]
    <3>1. 0 \in 0..(n - 1)
      BY <1>2
    <3> QED
      BY <1>6, <3>1
  <2>6. 0 + 1 = 1
    OBVIOUS
  <2> QED
    BY <2>1, <2>3, <2>4, <2>5, <2>6
<1> QED
  BY <1>7, <1>8

LEMMA ExpireInv ==
    ASSUME IInv, Expire
    PROVE  /\ IInv'
           /\ running = NoClient /\ heap[1] \in InHeap
           /\ \A d \in InHeap : expire[heap[1]] <= expire[d]
           /\ expire[heap[1]] <= now
           /\ handle[running'] = heap[1] /\ running' \in Clients
           /\ InHeap' = InHeap \ {heap[1]} /\ expire' = expire
           /\ handle' = handle
<1>1. /\ TypeOK /\ TypedHeap(Heap) /\ heap \in Seq(Data)
      /\ handle \in [Clients -> Data \cup {Nil}]
  BY DEF IInv, HeapHeld, TypeOK
<1>2. PICK td : td = heap[1]
  OBVIOUS
<1>3. PICK h : h = Remove(Heap, td)
  OBVIOUS
<1>4. /\ loop = "expire" /\ heap # <<>> /\ expire[td] <= now
      /\ running' = fn[td] /\ loop' = "call" /\ BecomesHeap(h)
      /\ UNCHANGED <<fn, next, free, allocated, handle>>
      /\ signal' = signal /\ tick' = tick /\ stopped' = stopped /\ now' = now
  BY <1>2, <1>3 DEF Expire, FirstIsDue, freeVars
<1>5. td \in InHeap /\ \A d \in InHeap : expire[td] <= expire[d]
  BY <1>2, <1>4, FirstIsEarliest
<1>6. td \in Data /\ \E c \in Clients : handle[c] = td /\ fn[td] = c
  BY <1>5, HeldInHeap
<1>7. TypedHeap(h) /\ Contents(h) = InHeap \ {td} /\ h.expire = expire
  BY <1>1, <1>3, <1>6, RemoveTyped, HeapFields
<1>8. /\ TypedHeap(Heap)' /\ InHeap' = Contents(h)
      /\ heap' \in Seq(Data) /\ index' \in [Data -> -1..MaxData]
      /\ expire' \in [Data -> Instants] /\ expire' = h.expire
  BY <1>4, <1>7, HeapBecomes DEF BecomesHeap
<1>9. /\ LinkedFree' /\ HandlesOwned'
      /\ fn' \in [Data -> Clients \cup {NoClient}]
      /\ next' \in [Data -> Data \cup {Nil}]
      /\ allocated' \in 0..MaxData
      /\ free' \in 1..allocated' \cup {Nil}
      /\ handle' \in [Clients -> Data \cup {Nil}]
  BY <1>4, ListStays
<1>10. TypeOK'
  <2>1. /\ loop' \in {"expire", "call", "wait"}
        /\ running' \in Clients \cup {NoClient}
    BY <1>4, <1>6
  <2>2. /\ signal' \in Instants \cup {Forever} /\ tick' \in BOOLEAN
        /\ stopped' \in BOOLEAN /\ now' \in Instants
    BY <1>1, <1>4 DEF TypeOK
  <2> QED
    BY <1>8, <1>9, <2>1, <2>2 DEF TypeOK
<1>11. \A d \in InHeap' : \E b \in Clients : handle'[b] = d
  BY <1>4, <1>7, <1>8 DEF IInv, HeapHeld
<1>12. HeapHeld'
  BY <1>8, <1>11 DEF HeapHeld
<1>13. loop' = "call" /\ running = NoClient
  BY <1>4 DEF IInv
<1>14. IInv'
  BY <1>9, <1>10, <1>12, <1>13 DEF IInv
<1> QED
  BY <1>2, <1>4, <1>5, <1>6, <1>7, <1>8, <1>13, <1>14

(* The steps of the goroutine and of the clock that leave the heap too.     *)
LEMMA QuietInv ==
    ASSUME IInv, UNCHANGED <<dataVars, fn, freeVars, handle, stopped>>,
           /\ signal' \in Instants \cup {Forever} /\ tick' \in BOOLEAN
           /\ loop' \in {"expire", "call", "wait"} /\ now' \in Instants
           /\ running' \in Clients \cup {NoClient}
           /\ loop' # "call" => running' = NoClient
    PROVE  IInv' /\ InHeap' = InHeap /\ expire' = expire /\ handle' = handle
<1>1. /\ heap' = heap /\ index' = index /\ expire' = expire
      /\ stopped' = stopped /\ handle' = handle
      /\ UNCHANGED <<fn, next, free, allocated, handle>>
  BY DEF dataVars, freeVars
<1>2. /\ LinkedFree' /\ HandlesOwned'
      /\ fn' \in [Data -> Clients \cup {NoClient}]
      /\ next' \in [Data -> Data \cup {Nil}]
      /\ allocated' \in 0..MaxData
      /\ free' \in 1..allocated' \cup {Nil}
      /\ handle' \in [Clients -> Data \cup {Nil}]
  BY <1>1, ListStays
<1>3. TypeOK'
  <2>1. /\ heap' \in Seq(Data) /\ index' \in [Data -> -1..MaxData]
        /\ expire' \in [Data -> Instants] /\ stopped' \in BOOLEAN
    BY <1>1 DEF IInv, TypeOK
  <2> QED
    BY <1>2, <2>1 DEF TypeOK
<1>4. Heap' = Heap /\ InHeap' = InHeap
  BY <1>1 DEF Heap, InHeap
<1>5. HeapHeld'
  BY <1>1, <1>4 DEF IInv, HeapHeld
<1> QED
  BY <1>1, <1>2, <1>3, <1>4, <1>5 DEF IInv

LEMMA FirstTyped ==
    ASSUME IInv, heap # <<>>
    PROVE  expire[heap[1]] \in Instants
<1>1. heap[1] \in Data
  BY FirstIsEarliest, HeldInHeap
<1> QED
  BY <1>1 DEF IInv, TypeOK

Quiet == IInv' /\ InHeap' = InHeap /\ expire' = expire /\ handle' = handle

LEMMA WaitInv ==
    ASSUME IInv, Wait
    PROVE  Quiet /\ running' = running /\ now' = now
<1>1. /\ UNCHANGED <<dataVars, fn, freeVars, handle, stopped>>
      /\ loop = "expire" /\ loop' = "wait" /\ tick' = FALSE
      /\ running' = running /\ now' = now
      /\ signal' = IF heap = <<>> THEN Forever ELSE expire[heap[1]]
  BY DEF Wait
<1>2. signal' \in Instants \cup {Forever}
  BY <1>1, FirstTyped
<1>3. /\ now' \in Instants /\ running' \in Clients \cup {NoClient}
      /\ running' = NoClient
  BY <1>1 DEF IInv, TypeOK
<1> QED
  BY <1>1, <1>2, <1>3, QuietInv DEF Quiet

LEMMA ReturnInv ==
    ASSUME IInv, CallbackReturns
    PROVE  Quiet /\ running' = NoClient /\ now' = now
<1>1. /\ UNCHANGED <<dataVars, fn, freeVars, handle, stopped>>
      /\ loop' = "expire" /\ running' = NoClient /\ now' = now
      /\ signal' = signal /\ tick' = tick
  BY DEF CallbackReturns
<1>2. /\ now' \in Instants /\ signal' \in Instants \cup {Forever}
      /\ tick' \in BOOLEAN
  BY <1>1 DEF IInv, TypeOK
<1> QED
  BY <1>1, <1>2, QuietInv DEF Quiet

LEMMA WakeInv ==
    ASSUME IInv, Wake
    PROVE  Quiet /\ running' = running /\ now' = now
<1>1. /\ UNCHANGED <<dataVars, fn, freeVars, handle, stopped>>
      /\ loop = "wait" /\ loop' = "expire" /\ tick' = FALSE
      /\ running' = running /\ now' = now /\ signal' = signal
  BY DEF Wake
<1>2. /\ now' \in Instants /\ signal' \in Instants \cup {Forever}
      /\ running' \in Clients \cup {NoClient} /\ running' = NoClient
  BY <1>1 DEF IInv, TypeOK
<1> QED
  BY <1>1, <1>2, QuietInv DEF Quiet

LEMMA FiresInv ==
    ASSUME IInv, SignalFires
    PROVE  Quiet /\ running' = running /\ now' = now
<1>1. /\ UNCHANGED <<dataVars, fn, freeVars, handle, stopped>>
      /\ loop' = loop /\ running' = running
      /\ tick' = TRUE /\ signal' = Forever /\ now' = now
  BY DEF SignalFires, loopVars
<1>2. /\ now' \in Instants /\ loop' \in {"expire", "call", "wait"}
      /\ running' \in Clients \cup {NoClient}
      /\ loop' # "call" => running' = NoClient
  BY <1>1 DEF IInv, TypeOK
<1> QED
  BY <1>1, <1>2, QuietInv DEF Quiet

LEMMA TickInv ==
    ASSUME IInv, Tick
    PROVE  Quiet /\ running' = running /\ now' = now + 1
<1>1. /\ UNCHANGED <<dataVars, fn, freeVars, handle, stopped>>
      /\ loop' = loop /\ running' = running
      /\ tick' = tick /\ signal' = signal /\ now' = now + 1 /\ now < MaxTime
  BY DEF Tick, loopVars
<1>2. /\ loop' \in {"expire", "call", "wait"}
      /\ running' \in Clients \cup {NoClient}
      /\ loop' # "call" => running' = NoClient
      /\ signal' \in Instants \cup {Forever} /\ tick' \in BOOLEAN
  BY <1>1 DEF IInv, TypeOK
<1>3. now' \in Instants
  <2>1. now \in Nat
    BY NumbersOK DEF IInv, TypeOK, Instants
  <2> QED
    BY <1>1, <2>1, NumbersOK DEF Instants
<1> QED
  BY <1>1, <1>2, <1>3, QuietInv DEF Quiet

LEMMA StutterInv ==
    ASSUME IInv, UNCHANGED vars
    PROVE  Quiet /\ running' = running /\ now' = now
<1>1. /\ UNCHANGED <<dataVars, fn, freeVars, handle, stopped>>
      /\ loop' = loop /\ running' = running
      /\ tick' = tick /\ signal' = signal /\ now' = now
  BY DEF vars, loopVars
<1>2. /\ loop' \in {"expire", "call", "wait"}
      /\ running' \in Clients \cup {NoClient}
      /\ loop' # "call" => running' = NoClient
      /\ signal' \in Instants \cup {Forever} /\ tick' \in BOOLEAN
      /\ now' \in Instants
  BY <1>1 DEF IInv, TypeOK
<1> QED
  BY <1>1, <1>2, QuietInv DEF Quiet

LEMMA InitInv == Init => IInv
<1> SUFFICES ASSUME Init PROVE IInv
  OBVIOUS
<1>1. /\ heap = <<>> /\ index = [td \in Data |-> 0]
      /\ expire = [td \in Data |-> 0] /\ fn = [td \in Data |-> NoClient]
      /\ next = [td \in Data |-> IF td < Capacity THEN td + 1 ELSE Nil]
      /\ free = 1 /\ allocated = Capacity
      /\ signal = Forever /\ tick = FALSE
      /\ loop = "expire" /\ running = NoClient
      /\ handle = [c \in Clients |-> Nil]
      /\ stopped = FALSE /\ now = 0
  BY DEF Init
<1>2. PICK C, M \in Nat : C = Capacity /\ M = MaxData /\ C \in 1..M
  BY NumbersOK
<1>3. index \in [Data -> -1..MaxData] /\ expire \in [Data -> Instants]
  <2>1. 0 \in -1..MaxData /\ 0 \in Instants
    BY NumbersOK DEF Instants
  <2> QED
    BY <1>1, <2>1
<1>4. next \in [Data -> Data \cup {Nil}]
  <2>1. ASSUME NEW td \in Data, td < Capacity PROVE td + 1 \in Data
    BY <1>2, <2>1 DEF Data
  <2> QED
    BY <1>1, <2>1
<1>5. TypeOK
  <2>1. heap \in Seq(Data)
    BY <1>1
  <2>2. fn \in [Data -> Clients \cup {NoClient}]
    BY <1>1
  <2>3. allocated \in 0..MaxData /\ free \in 1..allocated \cup {Nil}
    BY <1>1, <1>2
  <2>4. handle \in [Clients -> Data \cup {Nil}]
    BY <1>1
  <2>5. /\ signal \in Instants \cup {Forever} /\ tick \in BOOLEAN
        /\ loop \in {"expire", "call", "wait"}
        /\ running \in Clients \cup {NoClient}
        /\ stopped \in BOOLEAN /\ now \in Instants
    <3>1. 0 \in Instants
      BY NumbersOK DEF Instants
    <3> QED
      BY <1>1, <3>1
  <2> QED
    BY <1>3, <1>4, <2>1, <2>2, <2>3, <2>4, <2>5 DEF TypeOK
<1>6. LinkedFree
  <2>1. next = [b \in 1..MaxData |-> IF b < Capacity THEN b + 1 ELSE 0]
    BY <1>1 DEF Data, Nil
  <2>2. handle = [c \in Clients |-> 0]
    BY <1>1 DEF Nil
  <2>3. PoolOK(Clients, MaxData, 1, next, Capacity, handle)
    BY <1>2, <2>1, <2>2, PoolStarts
  <2> QED
    BY <1>1, <2>3 DEF LinkedFree
<1>7. HandlesOwned
  BY <1>1 DEF HandlesOwned
<1>8. HeapHeld
  <2>1. Heap = [slice |-> <<>>, index |-> index, expire |-> expire]
    BY <1>1 DEF Heap
  <2>2. TypedHeap(Heap) /\ Contents(Heap) = {}
    BY <1>3, <2>1, EmptiedTyped
  <2>3. InHeap = {}
    <3>1. heap \in Seq(Data)
      BY <1>5 DEF TypeOK
    <3> QED
      BY <2>2, <3>1, HeapFields
  <2> QED
    BY <2>2, <2>3 DEF HeapHeld
<1> QED
  BY <1>1, <1>5, <1>6, <1>7, <1>8 DEF IInv

LEMMA NextInv == IInv /\ [Next]_vars => IInv'
<1> SUFFICES ASSUME IInv, [Next]_vars PROVE IInv'
  OBVIOUS
<1>1. ASSUME NEW c \in Clients, NEW delay \in 1..MaxDelay, Add(c, delay)
      PROVE  IInv'
  BY <1>1, AddInv
<1>2. ASSUME NEW c \in Clients, NEW delay \in 1..MaxDelay, Set(c, delay)
      PROVE  IInv'
  BY <1>2, SetInv
<1>3. ASSUME NEW c \in Clients, Del(c) PROVE IInv'
  BY <1>3, DelInv
<1>4. CASE Stop
  BY <1>4, StopInv
<1>5. CASE Wait
  BY <1>5, WaitInv DEF Quiet
<1>6. CASE Expire
  BY <1>6, ExpireInv
<1>7. CASE Wake
  BY <1>7, WakeInv DEF Quiet
<1>8. CASE CallbackReturns
  BY <1>8, ReturnInv DEF Quiet
<1>9. CASE SignalFires
  BY <1>9, FiresInv DEF Quiet
<1>10. CASE Tick
  BY <1>10, TickInv DEF Quiet
<1>11. CASE UNCHANGED vars
  BY <1>11, StutterInv DEF Quiet
<1> QED
  BY <1>1, <1>2, <1>3, <1>4, <1>5, <1>6, <1>7, <1>8, <1>9, <1>10, <1>11
     DEF Next, Loop

(* The heap, the free list and the clients stay consistent, in every        *)
(* interleaving of the methods of core/timer with its goroutine.            *)
THEOREM Invariance == Spec => []IInv
<1>1. Init => IInv
  BY InitInv
<1>2. IInv /\ [Next]_vars => IInv'
  BY NextInv
<1> QED
  BY <1>1, <1>2, PTL DEF Spec

-----------------------------------------------------------------------------
(* What the walk of the free list meets is what the list holds. *)
LEMMA ExclusiveFromInv ==
    ASSUME IInv
    PROVE  DataExclusive
<1>1. PoolOK(Clients, MaxData, free, next, allocated, handle)
  BY DEF IInv, LinkedFree
<1>2. Walk = WalkOf(MaxData, free, next)
  BY DEF Walk, WalkOf, Nil
<1>3. TypeOK
  BY DEF IInv
<1>4. WalkMisses(Clients, MaxData, handle, Walk)
  BY <1>1, <1>2, NumbersOK, PoolWalk
<1>5. Walk[MaxData] = Nil
  BY <1>4 DEF WalkMisses, Nil
<1>6. \A c \in Clients : handle[c] # Nil => handle[c] \notin InFree
  BY <1>4 DEF WalkMisses, InFree, Nil
<1>7. \A c, d \in Clients : handle[c] # Nil /\ handle[c] = handle[d] => c = d
  BY OwnersDiffer
<1>8. \A td \in InHeap : \E c \in Clients : handle[c] = td /\ fn[td] = c
  BY HeldInHeap
<1> QED
  BY <1>3, <1>5, <1>6, <1>7, <1>8 DEF DataExclusive

(* A TimerData is on the free list, or with one client, whatever Add, Del,  *)
(* Set, Stop and the goroutine did before.                                  *)
THEOREM DataHasOneOwner == Spec => []DataExclusive
<1>1. IInv => DataExclusive
  BY ExclusiveFromInv
<1> QED
  BY <1>1, Invariance, PTL

-----------------------------------------------------------------------------
(* The timers implement the service. *)

Due == [c \in Clients |-> Deadline(c)]

LEMMA DueIs ==
    ASSUME NEW c \in Clients
    PROVE  Due[c] = IF handle[c] # Nil /\ handle[c] \in InHeap
                    THEN expire[handle[c]] ELSE Forever
  BY DEF Due, Deadline

LEMMA DueNext ==
    ASSUME NEW c \in Clients
    PROVE  Due'[c] = IF handle'[c] # Nil /\ handle'[c] \in InHeap'
                     THEN expire'[handle'[c]] ELSE Forever
  BY DEF Due, Deadline

LEMMA DueStays ==
    ASSUME handle' = handle, InHeap' = InHeap, expire' = expire
    PROVE  Due' = Due
  BY DEF Due, Deadline

(* A client with a deadline is one whose TimerData is in the heap. *)
LEMMA DueArmed ==
    ASSUME IInv, NEW c \in Clients, Due[c] # Forever
    PROVE  handle[c] \in InHeap /\ Due[c] = expire[handle[c]]
  BY DueIs

LEMMA HeldDue ==
    ASSUME IInv, NEW c \in Clients, handle[c] \in InHeap
    PROVE  /\ Due[c] = expire[handle[c]] /\ Due[c] \in Instants
           /\ Due[c] # Forever
<1>1. handle[c] \in Data /\ handle[c] # Nil
  BY HeldInHeap
<1>2. Due[c] = expire[handle[c]]
  BY <1>1, DueIs
<1>3. expire[handle[c]] \in Instants
  BY <1>1 DEF IInv, TypeOK
<1> QED
  BY <1>2, <1>3, ForeverAssumption

ServiceStep == [Service!Next]_(Service!vars)

LEMMA ServiceStutters ==
    ASSUME Due' = Due, running' = running, now' = now
    PROVE  ServiceStep
  BY DEF ServiceStep, Service!vars, Due

LEMMA ServiceArms ==
    ASSUME IInv, NEW c \in Clients, NEW delay \in 1..MaxDelay,
           now + delay <= MaxTime, running' = running, now' = now,
           Due' = [Due EXCEPT ![c] = now + delay]
    PROVE  ServiceStep
<1>1. now + delay \in now+1..MaxTime
  <2>1. now \in Nat
    BY NumbersOK DEF IInv, TypeOK, Instants
  <2> QED
    BY <2>1, NumbersOK
<1>2. \E t \in now+1..MaxTime : Due' = [Due EXCEPT ![c] = t]
  BY <1>1
<1>3. Service!Arm(c)
  BY <1>2 DEF Service!Arm, Due
<1> QED
  BY <1>3 DEF ServiceStep, Service!Next

LEMMA DueOfAll ==
    ASSUME NEW f, f = [c \in Clients |-> f[c]],
           \A c \in Clients : Due'[c] = f[c]
    PROVE  Due' = f
<1>1. Due' = [c \in Clients |-> Due'[c]]
  BY DEF Due
<1> QED
  BY <1>1

LEMMA DueFunction == Due = [c \in Clients |-> Due[c]]
  BY DEF Due

LEMMA ServiceAdd ==
    ASSUME IInv, NEW c \in Clients, NEW delay \in 1..MaxDelay, Add(c, delay)
    PROVE  ServiceStep
<1>1. PICK td \in Data :
         /\ td \notin InHeap /\ \A d \in Clients : handle[d] # td
         /\ handle' = [handle EXCEPT ![c] = td]
         /\ InHeap' = InHeap \cup {td}
         /\ expire' = [expire EXCEPT ![td] = now + delay]
  BY AddInv
<1>2. now + delay <= MaxTime /\ running' = running /\ now' = now
  BY DEF Add, loopVars
<1>3. /\ handle \in [Clients -> Data \cup {Nil}]
      /\ expire \in [Data -> Instants] /\ td # Nil
  BY NumbersOK DEF IInv, TypeOK, Data
<1>4. ASSUME NEW d \in Clients
      PROVE  Due'[d] = [Due EXCEPT ![c] = now + delay][d]
  <2>1. CASE d = c
    <3>1. Due'[d] = now + delay
      BY <1>1, <1>3, <2>1, DueNext
    <3> QED
      BY <2>1, <3>1, DueFunction
  <2>2. CASE d # c
    <3>1. handle'[d] = handle[d] /\ handle[d] # td
      BY <1>1, <1>3, <2>2
    <3>2. handle[d] # Nil => expire'[handle[d]] = expire[handle[d]]
      BY <1>1, <1>3, <3>1
    <3>3. Due'[d] = Due[d]
      BY <1>1, <3>1, <3>2, DueIs, DueNext
    <3> QED
      BY <2>2, <3>3, DueFunction
  <2> QED
    BY <2>1, <2>2
<1>5. Due' = [Due EXCEPT ![c] = now + delay]
  <2>1. PICK f : f = [Due EXCEPT ![c] = now + delay]
    OBVIOUS
  <2>2. f = [d \in Clients |-> f[d]]
    BY <2>1, DueFunction
  <2>3. \A d \in Clients : Due'[d] = f[d]
    BY <1>4, <2>1
  <2> QED
    BY <2>1, <2>2, <2>3, DueOfAll
<1> QED
  BY <1>2, <1>5, ServiceArms

LEMMA ServiceSet ==
    ASSUME IInv, NEW c \in Clients, NEW delay \in 1..MaxDelay, Set(c, delay)
    PROVE  ServiceStep
<1>1. /\ handle[c] # Nil /\ handle' = handle
      /\ InHeap' = InHeap \cup {handle[c]}
      /\ expire' = [expire EXCEPT ![handle[c]] = now + delay]
  BY SetInv
<1>2. now + delay <= MaxTime /\ running' = running /\ now' = now
  BY DEF Set, loopVars
<1>3. /\ handle \in [Clients -> Data \cup {Nil}]
      /\ expire \in [Data -> Instants]
  BY DEF IInv, TypeOK
<1>4. ASSUME NEW d \in Clients
      PROVE  Due'[d] = [Due EXCEPT ![c] = now + delay][d]
  <2>1. CASE d = c
    <3>1. Due'[d] = now + delay
      BY <1>1, <1>3, <2>1, DueNext
    <3> QED
      BY <2>1, <3>1, DueFunction
  <2>2. CASE d # c
    <3>1. handle[d] # handle[c]
      BY <1>1, <2>2, OwnersDiffer
    <3>2. handle[d] # Nil => expire'[handle[d]] = expire[handle[d]]
      BY <1>1, <1>3, <3>1
    <3>3. Due'[d] = Due[d]
      BY <1>1, <3>1, <3>2, DueIs, DueNext
    <3> QED
      BY <2>2, <3>3, DueFunction
  <2> QED
    BY <2>1, <2>2
<1>5. Due' = [Due EXCEPT ![c] = now + delay]
  <2>1. PICK f : f = [Due EXCEPT ![c] = now + delay]
    OBVIOUS
  <2>2. f = [d \in Clients |-> f[d]]
    BY <2>1, DueFunction
  <2>3. \A d \in Clients : Due'[d] = f[d]
    BY <1>4, <2>1
  <2> QED
    BY <2>1, <2>2, <2>3, DueOfAll
<1> QED
  BY <1>2, <1>5, ServiceArms

(* The TimerData of one client leaves the heap. *)
LEMMA DueDropped ==
    ASSUME IInv, NEW c \in Clients, handle[c] # Nil,
           InHeap' = InHeap \ {handle[c]}, expire' = expire,
           handle' = handle \/ handle' = [handle EXCEPT ![c] = Nil]
    PROVE  Due' = [Due EXCEPT ![c] = Forever]
<1>1. handle \in [Clients -> Data \cup {Nil}]
  BY DEF IInv, TypeOK
<1>2. ASSUME NEW d \in Clients PROVE Due'[d] = [Due EXCEPT ![c] = Forever][d]
  <2>1. CASE d = c
    <3>1. Due'[d] = Forever
      BY <1>1, <2>1, DueNext
    <3> QED
      BY <2>1, <3>1, DueFunction
  <2>2. CASE d # c
    <3>1. handle[d] # handle[c] /\ handle'[d] = handle[d]
      BY <1>1, <2>2, OwnersDiffer
    <3>2. Due'[d] = Due[d]
      BY <3>1, DueIs, DueNext
    <3> QED
      BY <2>2, <3>2, DueFunction
  <2> QED
    BY <2>1, <2>2
<1>3. PICK f : f = [Due EXCEPT ![c] = Forever]
  OBVIOUS
<1>4. f = [d \in Clients |-> f[d]]
  BY <1>3, DueFunction
<1>5. \A d \in Clients : Due'[d] = f[d]
  BY <1>2, <1>3
<1> QED
  BY <1>3, <1>4, <1>5, DueOfAll

LEMMA ServiceDel ==
    ASSUME IInv, NEW c \in Clients, Del(c)
    PROVE  ServiceStep
<1>1. /\ handle[c] # Nil /\ handle' = [handle EXCEPT ![c] = Nil]
      /\ InHeap' = InHeap \ {handle[c]} /\ expire' = expire
  BY DelInv
<1>2. running' = running /\ now' = now
  BY DEF Del, loopVars
<1>3. Due' = [Due EXCEPT ![c] = Forever]
  BY <1>1, DueDropped
<1>4. Service!Cancel(c)
  BY <1>2, <1>3 DEF Service!Cancel, Due
<1> QED
  BY <1>4 DEF ServiceStep, Service!Next

LEMMA ServiceStop ==
    ASSUME IInv, Stop
    PROVE  ServiceStep
<1>1. InHeap' = {}
  BY StopInv
<1>2. running' = running /\ now' = now
  BY DEF Stop, loopVars
<1>3. \A d \in Clients : Due'[d] = Forever
  BY <1>1, DueNext
<1>4. Due' = [d \in Clients |-> Forever]
  <2>1. Due' = [d \in Clients |-> Due'[d]]
    BY DEF Due
  <2> QED
    BY <1>3, <2>1
<1>5. Service!CancelAll
  BY <1>2, <1>4 DEF Service!CancelAll, Due
<1> QED
  BY <1>5 DEF ServiceStep, Service!Next

LEMMA ServiceExpire ==
    ASSUME IInv, Expire
    PROVE  ServiceStep
<1>1. /\ running = NoClient /\ heap[1] \in InHeap
      /\ \A d \in InHeap : expire[heap[1]] <= expire[d]
      /\ expire[heap[1]] <= now
      /\ handle[running'] = heap[1] /\ running' \in Clients
      /\ InHeap' = InHeap \ {heap[1]} /\ expire' = expire
      /\ handle' = handle
  BY ExpireInv
<1>2. PICK c \in Clients : c = running'
  BY <1>1
<1>3. handle[c] = heap[1] /\ handle[c] \in InHeap /\ handle[c] # Nil
  BY <1>1, <1>2, HeldInHeap
<1>4. Due[c] = expire[handle[c]] /\ Due[c] # Forever
  BY <1>3, HeldDue
<1>5. Due[c] <= now
  BY <1>1, <1>3, <1>4
<1>6. \A d \in Clients : Due[d] # Forever => Due[c] <= Due[d]
  BY <1>1, <1>3, <1>4, DueArmed
<1>7. Due' = [Due EXCEPT ![c] = Forever]
  BY <1>1, <1>3, DueDropped
<1>8. now' = now
  BY DEF Expire
<1>9. Service!Call(c)
  BY <1>1, <1>2, <1>4, <1>5, <1>6, <1>7, <1>8 DEF Service!Call, Service!Armed, Due
<1> QED
  BY <1>9 DEF ServiceStep, Service!Next

LEMMA ServiceNext == IInv /\ [Next]_vars => ServiceStep
<1> SUFFICES ASSUME IInv, [Next]_vars PROVE ServiceStep
  OBVIOUS
<1>1. ASSUME NEW c \in Clients, NEW delay \in 1..MaxDelay, Add(c, delay)
      PROVE  ServiceStep
  BY <1>1, ServiceAdd
<1>2. ASSUME NEW c \in Clients, NEW delay \in 1..MaxDelay, Set(c, delay)
      PROVE  ServiceStep
  BY <1>2, ServiceSet
<1>3. ASSUME NEW c \in Clients, Del(c) PROVE ServiceStep
  BY <1>3, ServiceDel
<1>4. CASE Stop
  BY <1>4, ServiceStop
<1>5. CASE Expire
  BY <1>5, ServiceExpire
<1>6. CASE Wait \/ Wake \/ SignalFires \/ UNCHANGED vars
  <2>1. Quiet /\ running' = running /\ now' = now
    BY <1>6, WaitInv, WakeInv, FiresInv, StutterInv
  <2>2. Due' = Due
    BY <2>1, DueStays DEF Quiet
  <2> QED
    BY <2>1, <2>2, ServiceStutters
<1>7. CASE CallbackReturns
  <2>1. Quiet /\ running' = NoClient /\ now' = now
    BY <1>7, ReturnInv
  <2>2. Due' = Due
    BY <2>1, DueStays DEF Quiet
  <2>3. Service!Return
    BY <2>1, <2>2 DEF Service!Return, Due
  <2> QED
    BY <2>3 DEF ServiceStep, Service!Next
<1>8. CASE Tick
  <2>1. Quiet /\ running' = running /\ now' = now + 1
    BY <1>8, TickInv
  <2>2. Due' = Due
    BY <2>1, DueStays DEF Quiet
  <2>3. Service!Tick
    BY <2>1, <2>2 DEF Service!Tick, Due
  <2> QED
    BY <2>3 DEF ServiceStep, Service!Next
<1> QED
  BY <1>1, <1>2, <1>3, <1>4, <1>5, <1>6, <1>7, <1>8 DEF Next, Loop

(* A client is called once for what it armed, not before it is due, the     *)
(* earliest first, and not after it was cancelled (timer.go:103-235).       *)
THEOREM TimersAreAService == Spec => ImplementsService
<1>1. Init => Service!Init
  <2> SUFFICES ASSUME Init PROVE Service!Init
    OBVIOUS
  <2>1. /\ handle = [c \in Clients |-> Nil] /\ running = NoClient /\ now = 0
    BY DEF Init
  <2>2. \A c \in Clients : Due[c] = Forever
    BY <2>1, DueIs
  <2>3. Due = [c \in Clients |-> Forever]
    BY <2>2, DueFunction
  <2> QED
    BY <2>1, <2>3 DEF Service!Init, Due
<1>2. IInv /\ [Next]_vars => [Service!Next]_(Service!vars)
  BY ServiceNext DEF ServiceStep
<1> QED
  BY <1>1, <1>2, Invariance, PTL DEF Spec, ImplementsService, Service!Spec

-----------------------------------------------------------------------------
(* The heap is in order and every TimerData in it knows its place, for Del  *)
(* and Set to find it there (timer.go:143-179,239-282).                     *)
THEOREM HeapStaysAHeap == Spec => []IsHeap(Heap)
<1>1. ASSUME IInv PROVE IsHeap(Heap)
  <2>1. TypedHeap(Heap) /\ heap \in Seq(Data)
    BY <1>1 DEF IInv, HeapHeld, TypeOK
  <2>2. /\ Heap \in HeapRecs /\ Heap.slice = heap
        /\ \A k \in 1..Len(heap) : Heap.index[heap[k]] = k - 1
    BY <2>1, HeapFields DEF TypedHeap, IsTimerHeap, HeapOK
  <2>3. PICK n \in Nat : n = Len(heap) /\ DOMAIN heap = 1..n
    BY <2>1
  <2>4. PICK K \in [0..(n - 1) -> Int] : K = Keys(Heap)
    BY <2>2, <2>3, KeysType
  <2>5. ASSUME NEW j \in 1..(n - 1) PROVE ~Less(Heap, j, Parent(j))
    <3>1. K[Parent(j)] <= K[j]
      BY <2>1, <2>2, <2>3, <2>4 DEF TypedHeap, IsTimerHeap, Ordered
    <3>2. Parent(j) \in 0..(n - 1) /\ j \in 0..(n - 1)
      <4>1. Parent(j) \in Nat /\ Parent(j) < j
        BY ParentFacts
      <4> QED
        BY <4>1
    <3>3. Less(Heap, j, Parent(j)) = (K[j] < K[Parent(j)])
      BY <2>2, <2>3, <2>4, <3>2, LessIsKey
    <3>4. K[j] \in Int /\ K[Parent(j)] \in Int
      BY <3>2
    <3>5. ~(K[j] < K[Parent(j)])
      BY <3>1, <3>4
    <3> QED
      BY <3>3, <3>5
  <2> QED
    BY <2>2, <2>3, <2>5 DEF IsHeap
<1> QED
  BY <1>1, Invariance, PTL

(* On a heap of any size whose elements know their places, add puts its     *)
(* TimerData in and del takes it out, wherever it is, or leaves a heap it   *)
(* is not in as it was; the others stay, no expiration changes, the heap    *)
(* stays ordered and its elements still know their places                   *)
(* (core/timer/timer.go:142-179,238-282).                                   *)
THEOREM HeapOperationsExact ==
    ASSUME NEW h, IsTimerHeap(h), NEW td \in Data
    PROVE  /\ td \notin Contents(h) =>
                /\ IsTimerHeap(Insert(h, td))
                /\ Contents(Insert(h, td)) = Contents(h) \cup {td}
                /\ Insert(h, td).expire = h.expire
           /\ IsTimerHeap(Remove(h, td))
           /\ Contents(Remove(h, td)) = Contents(h) \ {td}
           /\ Remove(h, td).expire = h.expire
BY InsertKeeps, RemoveKeeps, Zenon
=============================================================================
