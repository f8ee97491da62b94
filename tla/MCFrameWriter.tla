--------------------------- MODULE MCFrameWriter ---------------------------
(* Instances of FrameWriter for TLC. *)
EXTENDS FrameWriter, TLC

Symmetry == Permutations(Writers)

CloseCalls == {"message", "close", "receiveClose"}
MessageCalls == {"stream", "compressed", "control", "closeNow", "repeatClose"}
RepeatCalls == {"stream", "repeatClose"}
=============================================================================
