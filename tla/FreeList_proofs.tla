--------------------------- MODULE FreeList_proofs ---------------------------
(***************************************************************************)
(* Lemmas that several components need: induction over sets of naturals,   *)
(* and the free lists of core/timer and core/pool, which link the nodes    *)
(* themselves and grow by a batch when they are empty.                     *)
(*                                                                         *)
(* Nodes are the numbers 1..M, those up to al exist, 0 is the nil pointer; *)
(* fr is the head of the list, nx the links, and hd[p] the node that the   *)
(* holder p has.                                                           *)
(***************************************************************************)
EXTENDS Integers, FiniteSetTheorems, WellFoundedInduction, TLAPS

-----------------------------------------------------------------------------
(* Induction, as a fact about sets of naturals. *)

LEMMA NatMin ==
    ASSUME NEW S \in SUBSET Nat, S # {}
    PROVE  \E m \in S : \A n \in S : m <= n
<1> DEFINE R == {ss \in Nat \X Nat : ss[1] < ss[2]}
<1>1. IsWellFoundedOn(R, Nat)
  BY NatLessThanWellFounded DEF OpToRel
<1>2. PICK m \in S : \A n \in S : ~(<<n, m>> \in R)
  <2> HIDE DEF R
  <2> QED
    BY <1>1, WFMin
<1>3. ASSUME NEW n \in S, n < m PROVE FALSE
  <2>1. <<n, m>> \in Nat \X Nat /\ <<n, m>>[1] < <<n, m>>[2]
    BY <1>3
  <2>2. <<n, m>> \in R
    BY <2>1, Zenon
  <2> QED
    BY <1>2, <2>2
<1> QED
  BY <1>3

LEMMA SetInduction ==
    ASSUME NEW S, 0 \in S, \A n \in Nat : n \in S => n + 1 \in S
    PROVE  Nat \subseteq S
<1> DEFINE T == Nat \ S
<1>1. SUFFICES ASSUME T # {} PROVE FALSE
  OBVIOUS
<1>2. PICK m \in T : \A n \in T : m <= n
  BY <1>1, NatMin
<1>3. m # 0 /\ m - 1 \in Nat /\ m - 1 \notin T
  BY <1>2
<1> QED
  BY <1>2, <1>3

(* As many different numbers as there are. *)
LEMMA AtMost ==
    ASSUME NEW n \in Nat, NEW m \in Nat, NEW f \in [1..n -> 1..m],
           \A i, j \in 1..n : f[i] = f[j] => i = j
    PROVE  n <= m
<1> SUFFICES ASSUME m < n PROVE FALSE
  OBVIOUS
<1>1. IsFiniteSet(1..n) /\ IsFiniteSet(1..m)
  BY FS_Interval
<1>2. Cardinality(1..n) = n /\ Cardinality(1..m) = m
  <2>1. Cardinality(1..n) = IF 1 > n THEN 0 ELSE n - 1 + 1
    BY FS_Interval
  <2>2. Cardinality(1..m) = IF 1 > m THEN 0 ELSE m - 1 + 1
    BY FS_Interval
  <2> QED
    BY <2>1, <2>2
<1>3. Cardinality(1..m) < Cardinality(1..n)
  BY <1>2
<1>4. \E i, j \in 1..n : i # j /\ f[i] = f[j]
  BY <1>1, <1>3, FS_PigeonHole
<1> QED
  BY <1>4

-----------------------------------------------------------------------------
(* A free list: n different nodes that nobody holds, in the order in  *)
(* which next links them.                                                   *)

Listed(n, f, i) == IF i \in 1..n THEN f[i] ELSE 0

FreeList(P, n, f, fr, nx, al, hd) ==
    /\ f \in [1..n -> 1..al]
    /\ \A i, j \in 1..n : f[i] = f[j] => i = j
    /\ fr = Listed(n, f, 1)
    /\ \A i \in 1..n : nx[f[i]] = Listed(n, f, i + 1)
    /\ \A i \in 1..n : \A p \in P : hd[p] # f[i]

(* The types of the links and of what is held. *)
Ranged(P, M, nx, al, hd) ==
    /\ al \in 0..M /\ nx \in [1..M -> (1..M) \cup {0}]
    /\ hd \in [P -> (1..M) \cup {0}]

IsLinked(P, fr, nx, al, hd) ==
    \E n \in Nat : \E f : FreeList(P, n, f, fr, nx, al, hd)

HeldUpTo(P, al, hd) == \A d \in P : hd[d] # 0 => hd[d] <= al

Unheld(P, b, hd) == \A d \in P : hd[d] # b

LEMMA FirstFreed ==
    ASSUME NEW P, NEW n \in Nat, NEW f, NEW fr, NEW nx, NEW al, NEW hd,
           FreeList(P, n, f, fr, nx, al, hd)
    PROVE  fr # 0 => n >= 1 /\ fr = f[1]
  BY DEF FreeList, Listed

(* get takes the first and hands it to a holder. *)
LEMMA FirstTaken ==
    ASSUME NEW P, NEW M \in Nat, NEW n \in Nat, NEW f, NEW fr, NEW nx,
           NEW al, NEW hd,
           FreeList(P, n, f, fr, nx, al, hd), fr # 0,
           Ranged(P, M, nx, al, hd), NEW p \in P
    PROVE  /\ fr \in 1..al /\ Unheld(P, fr, hd)
           /\ IsLinked(P, nx[fr], [nx EXCEPT ![fr] = 0], al,
                       [hd EXCEPT ![p] = fr])
<1>0. /\ al \in 0..M /\ nx \in [1..M -> (1..M) \cup {0}]
      /\ hd \in [P -> (1..M) \cup {0}]
  BY DEF Ranged
<1>1. n >= 1 /\ fr = f[1]
  BY FirstFreed
<1>2. PICK m \in Nat : n = m + 1
  <2>1. n - 1 \in Nat /\ n = (n - 1) + 1
    BY <1>0, <1>1
  <2> QED
    BY <2>1
<1>3. /\ f \in [1..(m + 1) -> 1..al]
      /\ \A i, j \in 1..(m + 1) : f[i] = f[j] => i = j
      /\ \A i \in 1..(m + 1) : nx[f[i]] = Listed(n, f, i + 1)
      /\ \A i \in 1..(m + 1) : \A d \in P : hd[d] # f[i]
  BY <1>0, <1>2 DEF FreeList
<1>4. PICK g : g = [i \in 1..m |-> f[i + 1]]
  OBVIOUS
<1>5. \A i \in 1..m : i + 1 \in 1..(m + 1) /\ g[i] = f[i + 1]
  BY <1>0, <1>4
<1>6. g \in [1..m -> 1..al]
  BY <1>0, <1>3, <1>4, <1>5
<1>7. ASSUME NEW i \in 0..m
      PROVE  Listed(n, f, (i + 1) + 1) = Listed(m, g, i + 1)
  <2>1. CASE i + 1 \in 1..m
    <3>1. (i + 1) + 1 \in 1..n
      BY <1>0, <1>2, <2>1
    <3> QED
      BY <1>0, <1>5, <2>1, <3>1 DEF Listed
  <2>2. CASE i + 1 \notin 1..m
    <3>1. (i + 1) + 1 \notin 1..n
      BY <1>0, <1>2, <2>2
    <3> QED
      BY <2>2, <3>1 DEF Listed
  <2> QED
    BY <2>1, <2>2
<1>8. nx[fr] = Listed(m, g, 1)
  <2>1. nx[f[1]] = Listed(n, f, 2)
    BY <1>0, <1>2, <1>3
  <2>2. Listed(n, f, (0 + 1) + 1) = Listed(m, g, 0 + 1)
    BY <1>7
  <2> QED
    BY <1>0, <1>1, <2>1, <2>2
<1>9. 1 \in 1..(m + 1) /\ fr \in 1..al /\ fr \in 1..M
  BY <1>0, <1>1, <1>3
<1>10. \A i \in 1..m : g[i] # fr /\ g[i] \in 1..M
  <2> TAKE i \in 1..m
  <2>1. i + 1 # 1 /\ i + 1 \in 1..(m + 1)
    OBVIOUS
  <2>2. f[i + 1] # f[1] /\ f[i + 1] \in 1..al
    BY <1>0, <1>3, <1>9, <2>1
  <2>3. f[i + 1] \in 1..M
    BY <1>0, <2>2
  <2> QED
    BY <1>0, <1>1, <1>5, <2>2, <2>3
<1>11. \A i, j \in 1..m : g[i] = g[j] => i = j
  <2> TAKE i, j \in 1..m
  <2> HAVE g[i] = g[j]
  <2>1. i + 1 = j + 1
    BY <1>0, <1>3, <1>5
  <2> QED
    BY <2>1
<1>12. \A i \in 1..m : [nx EXCEPT ![fr] = 0][g[i]] = Listed(m, g, i + 1)
  <2> TAKE i \in 1..m
  <2>1. [nx EXCEPT ![fr] = 0][g[i]] = nx[g[i]]
    BY <1>0, <1>10
  <2>2. nx[g[i]] = Listed(n, f, (i + 1) + 1)
    BY <1>0, <1>3, <1>5
  <2>3. i \in 0..m
    OBVIOUS
  <2> QED
    BY <1>0, <1>7, <2>1, <2>2, <2>3
<1>13. \A i \in 1..m : \A d \in P : [hd EXCEPT ![p] = fr][d] # g[i]
  BY <1>0, <1>3, <1>5, <1>10
<1>14. FreeList(P, m, g, nx[fr], [nx EXCEPT ![fr] = 0], al,
                [hd EXCEPT ![p] = fr])
  BY <1>0, <1>6, <1>8, <1>11, <1>12, <1>13 DEF FreeList
<1>15. \A d \in P : hd[d] # fr
  BY <1>1, <1>3, <1>9
<1> QED
  BY <1>9, <1>14, <1>15 DEF Unheld, IsLinked

(* put makes it the first again. *)
LEMMA FirstPut ==
    ASSUME NEW P, NEW M \in Nat, NEW n \in Nat, NEW f, NEW fr, NEW nx,
           NEW al \in 0..M, NEW hd,
           FreeList(P, n, f, fr, nx, al, hd),
           nx \in [1..M -> (1..M) \cup {0}], hd \in [P -> (1..M) \cup {0}],
           NEW p \in P, hd[p] \in 1..al,
           \A d \in P : hd[d] = hd[p] => d = p
    PROVE  \E m \in Nat : \E g :
              FreeList(P, m, g, hd[p], [nx EXCEPT ![hd[p]] = fr], al,
                       [hd EXCEPT ![p] = 0])
<1>1. PICK b \in 1..al : b = hd[p]
  OBVIOUS
<1>2. b \in 1..M /\ b # 0
  OBVIOUS
<1>3. /\ f \in [1..n -> 1..al]
      /\ \A i, j \in 1..n : f[i] = f[j] => i = j
      /\ fr = Listed(n, f, 1)
      /\ \A i \in 1..n : nx[f[i]] = Listed(n, f, i + 1)
      /\ \A i \in 1..n : \A d \in P : hd[d] # f[i]
  BY DEF FreeList
<1>4. PICK g : g = [i \in 1..(n + 1) |-> IF i = 1 THEN b ELSE f[i - 1]]
  OBVIOUS
<1>5. /\ g[1] = b
      /\ \A i \in 2..(n + 1) : g[i] = f[i - 1] /\ i - 1 \in 1..n
  BY <1>4
<1>6. g \in [1..(n + 1) -> 1..al]
  BY <1>3, <1>4
<1>7. \A i \in 2..(n + 1) : g[i] # b /\ g[i] # 0 /\ g[i] \in 1..M
  <2> TAKE i \in 2..(n + 1)
  <2>1. g[i] = f[i - 1] /\ i - 1 \in 1..n
    BY <1>5
  <2>2. f[i - 1] # b /\ f[i - 1] \in 1..al
    BY <1>1, <1>3, <2>1
  <2> QED
    BY <2>1, <2>2
<1>8. \A i, j \in 1..(n + 1) : g[i] = g[j] => i = j
  <2> TAKE i, j \in 1..(n + 1)
  <2> HAVE g[i] = g[j]
  <2>1. CASE i = 1 /\ j = 1
    BY <2>1
  <2>2. CASE i = 1 /\ j \in 2..(n + 1)
    BY <1>5, <1>7, <2>2
  <2>3. CASE i \in 2..(n + 1) /\ j = 1
    BY <1>5, <1>7, <2>3
  <2>4. CASE i \in 2..(n + 1) /\ j \in 2..(n + 1)
    <3>1. i - 1 \in 1..n /\ j - 1 \in 1..n /\ f[i - 1] = f[j - 1]
      BY <1>5, <2>4
    <3>2. i - 1 = j - 1
      BY <1>3, <3>1
    <3> QED
      BY <3>2
  <2> QED
    BY <2>1, <2>2, <2>3, <2>4
<1>9. ASSUME NEW i \in 0..n
      PROVE  Listed(n + 1, g, (i + 1) + 1) = Listed(n, f, i + 1)
  <2>1. CASE i + 1 \in 1..n
    <3>1. (i + 1) + 1 \in 2..(n + 1) /\ ((i + 1) + 1) - 1 = i + 1
      BY <2>1
    <3>2. (i + 1) + 1 \in 1..(n + 1)
      BY <3>1
    <3> QED
      BY <1>5, <2>1, <3>1, <3>2 DEF Listed
  <2>2. CASE i + 1 \notin 1..n
    <3>1. (i + 1) + 1 \notin 1..(n + 1)
      BY <2>2
    <3> QED
      BY <2>2, <3>1 DEF Listed
  <2> QED
    BY <2>1, <2>2
<1>10. b = Listed(n + 1, g, 1)
  <2>1. 1 \in 1..(n + 1)
    OBVIOUS
  <2> QED
    BY <1>5, <2>1 DEF Listed
<1>11. PICK nx2 : nx2 = [nx EXCEPT ![b] = fr]
  OBVIOUS
<1>12. \A i \in 1..(n + 1) : nx2[g[i]] = Listed(n + 1, g, i + 1)
  <2> TAKE i \in 1..(n + 1)
  <2>1. CASE i = 1
    <3>1. nx2[g[i]] = fr
      BY <1>2, <1>5, <1>11, <2>1
    <3>2. Listed(n + 1, g, (0 + 1) + 1) = Listed(n, f, 0 + 1)
      BY <1>9
    <3> QED
      BY <1>3, <2>1, <3>1, <3>2
  <2>2. CASE i \in 2..(n + 1)
    <3>1. nx2[g[i]] = nx[g[i]]
      BY <1>2, <1>7, <1>11, <2>2
    <3>2. PICK k \in 1..n : k = i - 1 /\ g[i] = f[k]
      BY <1>5, <2>2
    <3>3. nx[g[i]] = Listed(n, f, k + 1)
      BY <1>3, <3>2
    <3>4. k \in 0..n /\ k + 1 = i
      BY <3>2
    <3>5. Listed(n + 1, g, (k + 1) + 1) = Listed(n, f, k + 1)
      BY <1>9, <3>4
    <3> QED
      BY <3>1, <3>3, <3>4, <3>5
  <2> QED
    BY <2>1, <2>2
<1>13. \A i \in 1..(n + 1) : \A d \in P : [hd EXCEPT ![p] = 0][d] # g[i]
  <2> TAKE i \in 1..(n + 1)
  <2> TAKE d \in P
  <2>1. CASE d = p
    <3>1. g[i] # 0
      BY <1>2, <1>5, <1>7
    <3> QED
      BY <2>1, <3>1
  <2>2. CASE d # p
    <3>1. hd[d] # b
      BY <1>1, <2>2
    <3>2. hd[d] # g[i]
      <4>1. CASE i = 1
        BY <1>5, <3>1, <4>1
      <4>2. CASE i \in 2..(n + 1)
        BY <1>3, <1>5, <4>2
      <4> QED
        BY <4>1, <4>2
    <3> QED
      BY <2>2, <3>2
  <2> QED
    BY <2>1, <2>2
<1>14. FreeList(P, n + 1, g, b, nx2, al, [hd EXCEPT ![p] = 0])
  BY <1>6, <1>8, <1>10, <1>12, <1>13 DEF FreeList
<1> QED
  BY <1>1, <1>11, <1>14

(* grow links the nodes of a new batch; get takes the first of them. *)
Batch(M, cap, nx, b) ==
    [d \in 1..M |-> IF d \in (b + 1)..(b + cap - 1)
                    THEN IF d = b + cap - 1 THEN 0 ELSE d + 1
                    ELSE nx[d]]

BatchFree(cap, b) == IF cap = 1 THEN 0 ELSE b + 1

Grows(M, cap, nx, al, b, nx2) ==
    al + cap <= M /\ b = al + 1 /\ nx2 = Batch(M, cap, nx, b)

LEMMA BatchLinked ==
    ASSUME NEW P, NEW M \in Nat, NEW cap \in 1..M, NEW n \in Nat, NEW f, NEW nx,
           NEW al, NEW hd,
           FreeList(P, n, f, 0, nx, al, hd),
           Ranged(P, M, nx, al, hd),
           HeldUpTo(P, al, hd), NEW p \in P,
           NEW b, NEW nx2, Grows(M, cap, nx, al, b, nx2)
    PROVE  /\ b \in 1..M /\ Unheld(P, b, hd)
           /\ al + cap \in 0..M
           /\ nx2 \in [1..M -> (1..M) \cup {0}]
           /\ IsLinked(P, BatchFree(cap, b), nx2, al + cap,
                       [hd EXCEPT ![p] = b])
<1>0. /\ al \in 0..M /\ nx \in [1..M -> (1..M) \cup {0}]
      /\ hd \in [P -> (1..M) \cup {0}]
      /\ al + cap <= M /\ b = al + 1 /\ nx2 = Batch(M, cap, nx, b)
  BY DEF Ranged, Grows
<1>1. PICK m \in Nat : cap = m + 1
  <2>1. cap - 1 \in Nat /\ cap = (cap - 1) + 1
    OBVIOUS
  <2> QED
    BY <1>0, <2>1
<1>2. M \in Nat
  OBVIOUS
<1>3. al \in 0..M /\ al + (m + 1) <= M /\ b = al + 1
  BY <1>0, <1>1, <1>2
<1>4. b \in 1..M /\ al + cap \in 0..M
  BY <1>0, <1>1, <1>2, <1>3
<1>5. \A d \in 1..M : nx2[d] = IF d \in (b + 1)..(b + m)
                               THEN IF d = b + m THEN 0 ELSE d + 1
                               ELSE nx[d]
  <2>1. b + cap - 1 = b + m
    BY <1>0, <1>1, <1>3
  <2> QED
    BY <1>0, <2>1 DEF Batch
<1>6. \A d \in P : hd[d] \in 0..al
  <2> TAKE d \in P
  <2>1. hd[d] \in (1..M) \cup {0} /\ (hd[d] # 0 => hd[d] <= al)
    BY <1>0 DEF HeldUpTo
  <2> QED
    BY <1>0, <1>2, <1>3, <2>1
<1>7. \A d \in P : hd[d] # b
  BY <1>0, <1>3, <1>6
<1>8. \A i \in 1..m : b + i \in 1..M /\ b + i \in 1..(al + cap)
  BY <1>0, <1>1, <1>2, <1>3
<1>9. nx2 \in [1..M -> (1..M) \cup {0}]
  <2>1. ASSUME NEW d \in 1..M PROVE nx2[d] \in 1..M \cup {0}
    <3>1. CASE d \in (b + 1)..(b + m) /\ d = b + m
      BY <1>0, <1>5, <3>1
    <3>2. CASE d \in (b + 1)..(b + m) /\ d # b + m
      <4>1. d + 1 \in 1..M
        BY <1>0, <1>2, <1>3, <3>2
      <4> QED
        BY <1>0, <1>5, <3>2, <4>1
    <3>3. CASE ~(d \in (b + 1)..(b + m))
      BY <1>0, <1>5, <3>3
    <3> QED
      BY <1>0, <3>1, <3>2, <3>3
  <2>2. nx2 = [d \in 1..M |-> nx2[d]]
    BY <1>0 DEF Batch
  <2> QED
    BY <1>0, <2>1, <2>2
<1>10. PICK g : g = [i \in 1..m |-> b + i]
  OBVIOUS
<1>11. g \in [1..m -> 1..(al + cap)]
  BY <1>0, <1>8, <1>10
<1>12. \A i, j \in 1..m : g[i] = g[j] => i = j
  BY <1>0, <1>3, <1>10
<1>13. BatchFree(cap, b) = Listed(m, g, 1)
  <2>1. CASE m = 0
    BY <1>0, <1>1, <2>1 DEF Listed, BatchFree
  <2>2. CASE m # 0
    <3>1. 1 \in 1..m /\ cap # 1
      BY <1>0, <1>1, <2>2
    <3> QED
      BY <1>0, <1>10, <3>1 DEF Listed, BatchFree
  <2> QED
    BY <1>0, <2>1, <2>2
<1>14. \A i \in 1..m : nx2[g[i]] = Listed(m, g, i + 1)
  <2> TAKE i \in 1..m
  <2>1. g[i] = b + i /\ b + i \in 1..M
    BY <1>0, <1>8, <1>10
  <2>2. b + i \in (b + 1)..(b + m)
    BY <1>0, <1>3
  <2>3. CASE i = m
    <3>1. nx2[b + i] = 0
      BY <1>0, <1>5, <2>1, <2>2, <2>3
    <3>2. i + 1 \notin 1..m
      BY <1>0, <2>3
    <3> QED
      BY <1>0, <2>1, <3>1, <3>2 DEF Listed
  <2>4. CASE i # m
    <3>1. b + i # b + m /\ i + 1 \in 1..m /\ b + (i + 1) = (b + i) + 1
      BY <1>0, <1>3, <2>4
    <3>2. nx2[b + i] = (b + i) + 1
      BY <1>0, <1>5, <2>1, <2>2, <3>1
    <3>3. g[i + 1] = b + (i + 1)
      BY <1>0, <1>10, <3>1
    <3> QED
      BY <1>0, <2>1, <3>1, <3>2, <3>3 DEF Listed
  <2> QED
    BY <1>0, <2>3, <2>4
<1>15. \A i \in 1..m : \A d \in P : [hd EXCEPT ![p] = b][d] # g[i]
  <2> TAKE i \in 1..m
  <2> TAKE d \in P
  <2>1. g[i] = b + i
    BY <1>0, <1>10
  <2>2. CASE d = p
    <3>1. b # b + i
      BY <1>0, <1>3
    <3> QED
      BY <1>0, <2>1, <2>2, <3>1
  <2>3. CASE d # p
    <3>1. hd[d] \in 0..al
      BY <1>0, <1>6
    <3>2. hd[d] # b + i
      BY <1>0, <1>3, <3>1
    <3> QED
      BY <1>0, <2>1, <2>3, <3>2
  <2> QED
    BY <1>0, <2>2, <2>3
<1>16. FreeList(P, m, g, BatchFree(cap, b), nx2, al + cap, [hd EXCEPT ![p] = b])
  BY <1>0, <1>11, <1>12, <1>13, <1>14, <1>15 DEF FreeList
<1> QED
  BY <1>0, <1>4, <1>7, <1>9, <1>16 DEF Unheld, IsLinked


(* The walk of a free list, as far as there are nodes. *)
WalkOf(M, fr, nx) ==
    LET node[k \in 0..M] ==
            IF k = 0 THEN fr ELSE IF node[k-1] = 0 THEN 0 ELSE nx[node[k-1]]
    IN  node

WalksList(M, n, f, W) == n <= M /\ \A k \in 0..M : W[k] = Listed(n, f, k + 1)

LEMMA WalkIsList ==
    ASSUME NEW P, NEW M \in Nat, NEW n \in Nat, NEW f, NEW fr, NEW nx,
           NEW al, NEW hd,
           FreeList(P, n, f, fr, nx, al, hd), Ranged(P, M, nx, al, hd)
    PROVE  WalksList(M, n, f, WalkOf(M, fr, nx))
<1>3. /\ f \in [1..n -> 1..al]
      /\ \A i, j \in 1..n : f[i] = f[j] => i = j
      /\ fr = Listed(n, f, 1)
      /\ \A i \in 1..n : nx[f[i]] = Listed(n, f, i + 1)
  BY DEF FreeList
<1>4. n <= M
  <2>1. n <= al
    <3>1. al \in Nat
      BY DEF Ranged
    <3> QED
      BY <1>3, <3>1, AtMost
  <2> QED
    BY <2>1 DEF Ranged
<1> DEFINE Walked(w) ==
             w = [k \in 0..M |->
                    IF k = 0 THEN fr
                    ELSE IF w[k-1] = 0 THEN 0 ELSE nx[w[k-1]]]
<1>5. PICK l : l = [k \in 0..M |-> Listed(n, f, k + 1)]
  OBVIOUS
<1>6. Walked(l)
  <2>1. ASSUME NEW k \in 0..M
        PROVE  l[k] = IF k = 0 THEN fr
                      ELSE IF l[k-1] = 0 THEN 0 ELSE nx[l[k-1]]
    <3>1. CASE k = 0
      <4>1. l[0] = Listed(n, f, 0 + 1)
        BY <1>5, <3>1
      <4> QED
        BY <1>3, <3>1, <4>1
    <3>2. CASE k # 0
      <4>1. k - 1 \in 0..M /\ (k - 1) + 1 = k
        BY <3>2
      <4>2. l[k - 1] = Listed(n, f, k) /\ l[k] = Listed(n, f, k + 1)
        BY <1>5, <4>1
      <4>3. CASE k \in 1..n
        <5>1. l[k - 1] = f[k] /\ f[k] \in 1..al
          BY <1>3, <4>2, <4>3 DEF Listed
        <5>2. l[k - 1] # 0
          BY <5>1
        <5> QED
          BY <1>3, <3>2, <4>2, <4>3, <5>1, <5>2
      <4>4. CASE k \notin 1..n
        <5>1. k + 1 \notin 1..n
          BY <3>2, <4>4
        <5> QED
          BY <3>2, <4>2, <4>4, <5>1 DEF Listed
      <4> QED
        BY <4>3, <4>4
    <3> QED
      BY <3>1, <3>2
  <2>2. l = [k \in 0..M |-> l[k]]
    BY <1>5
  <2> QED
    BY <2>1, <2>2
<1> DEFINE W == WalkOf(M, fr, nx)
<1>7. W = CHOOSE w : Walked(w)
  BY DEF WalkOf
<1>8. Walked(W)
  <2> HIDE DEF Walked, W
  <2> QED
    BY <1>6, <1>7
<1>9. \A k \in 0..M :
         W[k] = IF k = 0 THEN fr ELSE IF W[k-1] = 0 THEN 0 ELSE nx[W[k-1]]
  <2>1. PICK w : w = W
    OBVIOUS
  <2>2. w = [k \in 0..M |->
               IF k = 0 THEN fr ELSE IF w[k-1] = 0 THEN 0 ELSE nx[w[k-1]]]
    BY <1>8, <2>1
  <2>3. \A k \in 0..M :
           w[k] = IF k = 0 THEN fr ELSE IF w[k-1] = 0 THEN 0 ELSE nx[w[k-1]]
    BY <2>2
  <2> QED
    BY <2>1, <2>3
<1>10. \A k \in 0..M :
          l[k] = IF k = 0 THEN fr ELSE IF l[k-1] = 0 THEN 0 ELSE nx[l[k-1]]
  BY <1>6
<1> HIDE DEF W, Walked
<1> DEFINE S == {k \in Nat : k <= M => W[k] = l[k]}
<1>11. 0 \in S
  BY <1>9, <1>10
<1>12. ASSUME NEW k \in Nat, k \in S PROVE k + 1 \in S
  <2> SUFFICES ASSUME k + 1 <= M PROVE W[k + 1] = l[k + 1]
    OBVIOUS
  <2>1. W[k] = l[k]
    BY <1>12
  <2>2. k + 1 \in 0..M /\ k + 1 # 0 /\ (k + 1) - 1 = k
    OBVIOUS
  <2>3. W[k + 1] = IF W[k] = 0 THEN 0 ELSE nx[W[k]]
    BY <1>9, <2>2
  <2>4. l[k + 1] = IF l[k] = 0 THEN 0 ELSE nx[l[k]]
    BY <1>10, <2>2
  <2> QED
    BY <2>1, <2>3, <2>4
<1>13. \A k \in 0..M : W[k] = l[k]
  <2>1. Nat \subseteq S
    <3> HIDE DEF S
    <3> QED
      BY <1>11, <1>12, SetInduction
  <2> QED
    BY <2>1
<1> QED
  BY <1>4, <1>5, <1>13 DEF W, WalksList

-----------------------------------------------------------------------------
(* A pool: what is on the free list nobody holds, what one holds no other   *)
(* does, and what does not exist yet neither is free nor held.              *)

PoolOK(P, M, fr, nx, al, hd) ==
    /\ al \in 0..M /\ nx \in [1..M -> (1..M) \cup {0}]
    /\ hd \in [P -> (1..M) \cup {0}]
    /\ IsLinked(P, fr, nx, al, hd)
    /\ HeldUpTo(P, al, hd)
    /\ \A p, q \in P : hd[p] # 0 /\ hd[p] = hd[q] => p = q

LEMMA PoolHead ==
    ASSUME NEW P, NEW M \in Nat, NEW fr, NEW nx, NEW al, NEW hd,
           PoolOK(P, M, fr, nx, al, hd)
    PROVE  fr \in 1..al \cup {0}
<1>1. PICK n \in Nat : \E f : FreeList(P, n, f, fr, nx, al, hd)
  BY DEF PoolOK, IsLinked
<1> QED
  BY <1>1 DEF FreeList, Listed

LEMMA PoolStarts ==
    ASSUME NEW P, NEW M \in Nat, NEW cap \in 1..M, NEW nx, NEW hd,
           nx = [b \in 1..M |-> IF b < cap THEN b + 1 ELSE 0],
           hd = [p \in P |-> 0]
    PROVE  PoolOK(P, M, 1, nx, cap, hd)
<1>1. cap \in Nat /\ cap \in 0..M
  OBVIOUS
<1>2. nx \in [1..M -> (1..M) \cup {0}]
  <2>1. \A b \in 1..M : b < cap => b + 1 \in 1..M
    OBVIOUS
  <2> QED
    BY <2>1
<1>3. PICK f : f = [i \in 1..cap |-> i]
  OBVIOUS
<1>4. f \in [1..cap -> 1..cap] /\ \A i \in 1..cap : f[i] = i
  BY <1>3
<1>5. 1 = Listed(cap, f, 1)
  BY <1>4 DEF Listed
<1>6. \A i \in 1..cap : nx[f[i]] = Listed(cap, f, i + 1)
  <2> TAKE i \in 1..cap
  <2>1. i \in 1..M /\ f[i] = i
    BY <1>4
  <2>2. nx[i] = IF i < cap THEN i + 1 ELSE 0
    BY <2>1
  <2>3. CASE i < cap
    <3>1. i + 1 \in 1..cap
      BY <2>3
    <3> QED
      BY <1>4, <2>1, <2>2, <2>3, <3>1 DEF Listed
  <2>4. CASE ~(i < cap)
    <3>1. i + 1 \notin 1..cap
      BY <2>4
    <3> QED
      BY <2>1, <2>2, <2>4, <3>1 DEF Listed
  <2> QED
    BY <2>3, <2>4
<1>7. \A i \in 1..cap : \A p \in P : hd[p] # f[i]
  BY <1>4
<1>8. FreeList(P, cap, f, 1, nx, cap, hd)
  BY <1>4, <1>5, <1>6, <1>7 DEF FreeList
<1>9. IsLinked(P, 1, nx, cap, hd)
  BY <1>1, <1>8 DEF IsLinked
<1> QED
  BY <1>1, <1>2, <1>9 DEF PoolOK, HeldUpTo

(* Taking a node: the head of the list, or the first of a new batch. *)
Takes(M, cap, fr, nx, al, b, fr2, nx2, al2) ==
    \/ /\ fr # 0 /\ b = fr /\ fr2 = nx[b]
       /\ nx2 = [nx EXCEPT ![b] = 0] /\ al2 = al
    \/ /\ fr = 0 /\ al + cap <= M /\ b = al + 1
       /\ al2 = al + cap /\ fr2 = BatchFree(cap, b)
       /\ nx2 = Batch(M, cap, nx, b)

LEMMA PoolTakes ==
    ASSUME NEW P, NEW M \in Nat, NEW cap \in 1..M,
           NEW fr, NEW nx, NEW al, NEW hd, PoolOK(P, M, fr, nx, al, hd),
           NEW b, NEW fr2, NEW nx2, NEW al2,
           Takes(M, cap, fr, nx, al, b, fr2, nx2, al2), NEW p \in P
    PROVE  /\ PoolOK(P, M, fr2, nx2, al2, [hd EXCEPT ![p] = b])
           /\ b \in 1..M /\ b <= al2 /\ al <= al2 /\ Unheld(P, b, hd)
<1>1. /\ nx \in [1..M -> (1..M) \cup {0}] /\ al \in 0..M
      /\ hd \in [P -> (1..M) \cup {0}] /\ HeldUpTo(P, al, hd)
      /\ \A q, r \in P : hd[q] # 0 /\ hd[q] = hd[r] => q = r
  BY DEF PoolOK
<1>2. PICK n \in Nat : \E f : FreeList(P, n, f, fr, nx, al, hd)
  BY DEF PoolOK, IsLinked
<1>3. PICK f : FreeList(P, n, f, fr, nx, al, hd)
  BY <1>2
<1>4. /\ IsLinked(P, fr2, nx2, al2, [hd EXCEPT ![p] = b])
      /\ nx2 \in [1..M -> (1..M) \cup {0}] /\ al2 \in 0..M
      /\ b \in 1..M /\ b <= al2 /\ al <= al2 /\ Unheld(P, b, hd)
  <2>1. CASE fr # 0
    <3>1. /\ b = fr /\ fr2 = nx[b] /\ nx2 = [nx EXCEPT ![b] = 0] /\ al2 = al
      BY <2>1 DEF Takes
    <3>2. /\ fr \in 1..al /\ Unheld(P, fr, hd)
          /\ IsLinked(P, nx[fr], [nx EXCEPT ![fr] = 0], al,
                      [hd EXCEPT ![p] = fr])
      <4>1. Ranged(P, M, nx, al, hd)
        BY <1>1 DEF Ranged
      <4> QED
        BY <1>3, <2>1, <4>1, FirstTaken
    <3>3. IsLinked(P, fr2, nx2, al2, [hd EXCEPT ![p] = b])
      BY <3>1, <3>2
    <3>4. nx2 \in [1..M -> (1..M) \cup {0}]
      BY <1>1, <3>1
    <3>5. b \in 1..M /\ b <= al2 /\ al <= al2
      BY <1>1, <3>1, <3>2
    <3> QED
      BY <1>1, <3>1, <3>2, <3>3, <3>4, <3>5
  <2>2. CASE fr = 0
    <3>1. /\ al + cap <= M /\ b = al + 1 /\ al2 = al + cap
          /\ fr2 = BatchFree(cap, b) /\ nx2 = Batch(M, cap, nx, b)
      BY <2>2 DEF Takes
    <3>2. FreeList(P, n, f, 0, nx, al, hd)
      BY <1>3, <2>2
    <3>3. /\ b \in 1..M /\ Unheld(P, b, hd) /\ al + cap \in 0..M
          /\ nx2 \in [1..M -> (1..M) \cup {0}]
          /\ IsLinked(P, BatchFree(cap, b), nx2, al + cap,
                      [hd EXCEPT ![p] = b])
      <4>1. Ranged(P, M, nx, al, hd) /\ HeldUpTo(P, al, hd)
        BY <1>1 DEF Ranged
      <4>2. Grows(M, cap, nx, al, b, nx2)
        BY <3>1 DEF Grows
      <4> QED
        BY <3>2, <4>1, <4>2, BatchLinked
    <3>4. b <= al2 /\ al <= al2
      BY <1>1, <3>1
    <3> QED
      BY <3>1, <3>3, <3>4
  <2> QED
    BY <2>1, <2>2
<1>5. PICK h : h = [hd EXCEPT ![p] = b]
  OBVIOUS
<1>6. /\ h \in [P -> (1..M) \cup {0}] /\ h[p] = b
      /\ \A q \in P : q # p => h[q] = hd[q]
  BY <1>1, <1>4, <1>5
<1>7. HeldUpTo(P, al2, h)
  <2> SUFFICES ASSUME NEW q \in P, h[q] # 0 PROVE h[q] <= al2
    BY DEF HeldUpTo
  <2>1. CASE q = p
    BY <1>4, <1>6, <2>1
  <2>2. CASE q # p
    <3>1. hd[q] # 0 /\ h[q] = hd[q]
      BY <1>6, <2>2
    <3>2. hd[q] <= al /\ hd[q] \in 1..M
      BY <1>1, <3>1 DEF HeldUpTo
    <3> QED
      BY <1>1, <1>4, <3>1, <3>2
  <2> QED
    BY <2>1, <2>2
<1>8. \A q, r \in P : h[q] # 0 /\ h[q] = h[r] => q = r
  <2>1. \A q \in P : hd[q] # b
    BY <1>4 DEF Unheld
  <2> QED
    BY <1>1, <1>6, <2>1
<1>9. PoolOK(P, M, fr2, nx2, al2, h)
  BY <1>4, <1>5, <1>6, <1>7, <1>8 DEF PoolOK
<1> QED
  BY <1>4, <1>5, <1>9

(* A holder that loses its node. *)
LEMMA HeldLess ==
    ASSUME NEW P, NEW M \in Nat, NEW al \in 0..M, NEW hd,
           hd \in [P -> (1..M) \cup {0}], HeldUpTo(P, al, hd),
           \A q, r \in P : hd[q] # 0 /\ hd[q] = hd[r] => q = r,
           NEW p \in P, NEW h, h = [hd EXCEPT ![p] = 0]
    PROVE  /\ h \in [P -> (1..M) \cup {0}] /\ HeldUpTo(P, al, h)
           /\ \A q, r \in P : h[q] # 0 /\ h[q] = h[r] => q = r
<1>1. /\ h \in [P -> (1..M) \cup {0}] /\ h[p] = 0
      /\ \A q \in P : q # p => h[q] = hd[q]
  OBVIOUS
<1>2. HeldUpTo(P, al, h)
  BY <1>1 DEF HeldUpTo
<1>3. \A q, r \in P : h[q] # 0 /\ h[q] = h[r] => q = r
  BY <1>1
<1> QED
  BY <1>1, <1>2, <1>3

LEMMA PoolPuts ==
    ASSUME NEW P, NEW M \in Nat, NEW fr, NEW nx, NEW al, NEW hd,
           PoolOK(P, M, fr, nx, al, hd), NEW p \in P, hd[p] # 0
    PROVE  PoolOK(P, M, hd[p], [nx EXCEPT ![hd[p]] = fr], al,
                  [hd EXCEPT ![p] = 0])
<1>1. /\ nx \in [1..M -> (1..M) \cup {0}] /\ al \in 0..M
      /\ hd \in [P -> (1..M) \cup {0}] /\ HeldUpTo(P, al, hd)
      /\ \A q, r \in P : hd[q] # 0 /\ hd[q] = hd[r] => q = r
  BY DEF PoolOK
<1>2. PICK n \in Nat : \E f : FreeList(P, n, f, fr, nx, al, hd)
  BY DEF PoolOK, IsLinked
<1>3. PICK f : FreeList(P, n, f, fr, nx, al, hd)
  BY <1>2
<1>4. hd[p] \in 1..al
  <2>1. hd[p] \in 1..M /\ hd[p] <= al
    BY <1>1 DEF HeldUpTo
  <2> QED
    BY <1>1, <2>1
<1>5. \A d \in P : hd[d] = hd[p] => d = p
  BY <1>1
<1>6. \E m \in Nat : \E g :
         FreeList(P, m, g, hd[p], [nx EXCEPT ![hd[p]] = fr], al,
                  [hd EXCEPT ![p] = 0])
  BY <1>1, <1>3, <1>4, <1>5, FirstPut
<1>7. IsLinked(P, hd[p], [nx EXCEPT ![hd[p]] = fr], al, [hd EXCEPT ![p] = 0])
  BY <1>6 DEF IsLinked
<1>8. [nx EXCEPT ![hd[p]] = fr] \in [1..M -> (1..M) \cup {0}]
  <2>1. fr \in 1..al \cup {0}
    BY PoolHead
  <2>2. fr \in (1..M) \cup {0}
    BY <1>1, <2>1
  <2> QED
    BY <1>1, <2>2
<1>9. PICK h : h = [hd EXCEPT ![p] = 0]
  OBVIOUS
<1>10. /\ h \in [P -> (1..M) \cup {0}] /\ HeldUpTo(P, al, h)
       /\ \A q, r \in P : h[q] # 0 /\ h[q] = h[r] => q = r
  BY <1>1, <1>9, HeldLess
<1> QED
  BY <1>1, <1>7, <1>8, <1>9, <1>10 DEF PoolOK

LEMMA PoolForgets ==
    ASSUME NEW P, NEW M \in Nat, NEW fr, NEW nx, NEW al, NEW hd,
           PoolOK(P, M, fr, nx, al, hd), NEW p \in P
    PROVE  PoolOK(P, M, fr, nx, al, [hd EXCEPT ![p] = 0])
<1>1. /\ nx \in [1..M -> (1..M) \cup {0}] /\ al \in 0..M
      /\ hd \in [P -> (1..M) \cup {0}] /\ HeldUpTo(P, al, hd)
      /\ \A q, r \in P : hd[q] # 0 /\ hd[q] = hd[r] => q = r
  BY DEF PoolOK
<1>2. PICK n \in Nat : \E f : FreeList(P, n, f, fr, nx, al, hd)
  BY DEF PoolOK, IsLinked
<1>3. PICK f : FreeList(P, n, f, fr, nx, al, hd)
  BY <1>2
<1>4. PICK h : h = [hd EXCEPT ![p] = 0]
  OBVIOUS
<1>5. \A i \in 1..n : \A q \in P : h[q] # f[i]
  <2> TAKE i \in 1..n
  <2>1. f[i] # 0 /\ \A q \in P : hd[q] # f[i]
    BY <1>1, <1>3 DEF FreeList
  <2> QED
    BY <1>1, <1>4, <2>1
<1>6. FreeList(P, n, f, fr, nx, al, h)
  BY <1>3, <1>5 DEF FreeList
<1>7. IsLinked(P, fr, nx, al, h)
  BY <1>6 DEF IsLinked
<1>8. /\ h \in [P -> (1..M) \cup {0}] /\ HeldUpTo(P, al, h)
      /\ \A q, r \in P : h[q] # 0 /\ h[q] = h[r] => q = r
  BY <1>1, <1>4, HeldLess
<1> QED
  BY <1>1, <1>4, <1>7, <1>8 DEF PoolOK

(* The walk ends, and meets nothing that is held. *)
WalkMisses(P, M, hd, W) ==
    /\ W[M] = 0
    /\ \A p \in P : hd[p] # 0 => \A k \in 0..M : hd[p] # W[k]

LEMMA PoolWalk ==
    ASSUME NEW P, NEW M \in Nat, NEW fr, NEW nx, NEW al, NEW hd,
           PoolOK(P, M, fr, nx, al, hd)
    PROVE  WalkMisses(P, M, hd, WalkOf(M, fr, nx))
<1>1. Ranged(P, M, nx, al, hd)
  BY DEF PoolOK, Ranged
<1>2. PICK n \in Nat : \E f : FreeList(P, n, f, fr, nx, al, hd)
  BY DEF PoolOK, IsLinked
<1>3. PICK f : FreeList(P, n, f, fr, nx, al, hd)
  BY <1>2
<1>4. PICK W : W = WalkOf(M, fr, nx)
  OBVIOUS
<1>5. n <= M /\ \A k \in 0..M : W[k] = Listed(n, f, k + 1)
  <2>1. WalksList(M, n, f, WalkOf(M, fr, nx))
    BY <1>1, <1>3, WalkIsList
  <2> QED
    BY <1>4, <2>1 DEF WalksList
<1>6. W[M] = 0
  <2>1. M \in 0..M /\ M + 1 \notin 1..n
    BY <1>5
  <2> QED
    BY <1>5, <2>1 DEF Listed
<1>7. ASSUME NEW p \in P, hd[p] # 0, NEW k \in 0..M PROVE hd[p] # W[k]
  <2> SUFFICES ASSUME hd[p] = W[k] PROVE FALSE
    OBVIOUS
  <2>1. Listed(n, f, k + 1) # 0 /\ hd[p] = Listed(n, f, k + 1)
    BY <1>5, <1>7
  <2>2. k + 1 \in 1..n /\ hd[p] = f[k + 1]
    BY <2>1 DEF Listed
  <2> QED
    BY <1>3, <2>2 DEF FreeList
<1> QED
  BY <1>4, <1>6, <1>7 DEF WalkMisses
=============================================================================
