---------------------------- MODULE ByteStream ----------------------------
(***************************************************************************)
(* What a net.Conn promises its reader: the peer's bytes, each once and in *)
(* order, and io.EOF when the peer has finished and every byte was read.   *)
(***************************************************************************)
EXTENDS Naturals

VARIABLES sent,         \* how many bytes the peer sent
          finished,     \* it sends no more
          delivered,    \* how many of them were read
          eof           \* io.EOF was returned

vars == <<sent, finished, delivered, eof>>

Init == sent = 0 /\ finished = FALSE /\ delivered = 0 /\ eof = FALSE

Send ==
    /\ ~finished
    /\ sent' = sent + 1
    /\ UNCHANGED <<finished, delivered, eof>>

Finish == finished' = TRUE /\ UNCHANGED <<sent, delivered, eof>>

Deliver ==
    /\ ~eof
    /\ delivered' \in delivered + 1..sent
    /\ UNCHANGED <<sent, finished, eof>>

End ==
    /\ finished /\ delivered = sent
    /\ eof' = TRUE
    /\ UNCHANGED <<sent, finished, delivered>>

Spec == Init /\ [][Send \/ Finish \/ Deliver \/ End]_vars
=============================================================================
