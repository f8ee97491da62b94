-------------------------- MODULE MCCloseHandshake --------------------------
(* Instances of CloseHandshake for TLC. *)
EXTENDS CloseHandshake, TLC

Symmetry == Permutations(Readers) \cup Permutations(Closers)

AllFrames == {"data", "ping", "close", "bad"}
PlainFrames == {"data", "close"}
=============================================================================
