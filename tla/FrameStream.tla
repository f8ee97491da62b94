---------------------------- MODULE FrameStream ----------------------------
(***************************************************************************)
(* What the write side of a connection promises its peer: a stream of      *)
(* whole frames that only grows, in which the frames of a message belong   *)
(* to one writer and are not mixed with another message's (control frames  *)
(* may come between them), and in which nothing follows a close frame.     *)
(***************************************************************************)
EXTENDS Naturals, Sequences, SequencesExt

VARIABLE log    \* the complete frames on the wire, each with its writer

IsData(f) == f.frame.op \in {"data", "continuation"}

(* The positions of the data frames of a stream, and of the last of them.   *)
Data(s) == {i \in DOMAIN s : IsData(s[i])}
LastData(s) == {i \in Data(s) : \A j \in Data(s) : j <= i}

(* No message is open after stream s; the message of writer w is.           *)
NoMessage(s) == \A i \in LastData(s) : s[i].frame.fin
MessageOf(s, w) ==
    \E i \in LastData(s) : ~s[i].frame.fin /\ s[i].writer = w

(* Whether frame f may be the next one after stream s. *)
MayFollow(s, f) ==
    /\ \A i \in DOMAIN s : s[i].frame.op # "close"
    /\ f.frame.op = "data" => NoMessage(s)
    /\ f.frame.op = "continuation" => MessageOf(s, f.writer)

Init == log = <<>>

(* One transmission delivers one frame or, with a buffered writer, several. *)
Deliver ==
    /\ IsStrictPrefix(log, log')
    /\ \A i \in Len(log)+1..Len(log') :
          MayFollow(SubSeq(log', 1, i - 1), log'[i])

Spec == Init /\ [][Deliver]_log
=============================================================================
