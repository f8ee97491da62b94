------------------------------ MODULE RingPool ------------------------------
(***************************************************************************)
(* core/pool.RingPool: a power of two of Pools, one of which serves each   *)
(* number (pool.go).                                                       *)
(***************************************************************************)
EXTENDS Integers, Bitwise

(* bits.Len: the bits a number takes. *)
BitsLen(n) == CHOOSE k \in 0..31 : n < 2^k /\ (k = 0 \/ n >= 2^(k-1))

(* Mutant: the size asked for is used as it is. *)
nextPowerOfTwoSame(n) == IF n <= 0 THEN 1 ELSE n

nextPowerOfTwo(n) == IF n <= 0 THEN 1 ELSE 2^BitsLen(n)

(* Reader, Writer and Timer: the pool of number rn. *)
PoolOf(rn, size) == rn & (nextPowerOfTwo(size) - 1)
=============================================================================
