------------------------------ MODULE Compress ------------------------------
(***************************************************************************)
(* The two buffers of compress.go around the flate streams: the writer     *)
(* that holds back the last four bytes of a compressed message, and the    *)
(* sliding window that a reader with context takeover gives to the next    *)
(* message as its dictionary.                                              *)
(*                                                                         *)
(* input and past remember what was written.  An error of the underlying   *)
(* writer ends the message: not modelled.                                  *)
(***************************************************************************)
EXTENDS Integers, Sequences

CONSTANTS Bytes,        \* the bytes written
          Writes,       \* the arguments of a write: sequences of bytes
          WindowSize,   \* the capacity of the window (32768)
          MaxInput      \* bound: bytes written to either

ASSUME WritesAssumption == Writes \subseteq Seq(Bytes)
ASSUME WindowSizeAssumption == WindowSize \in Nat \ {0}
ASSUME MaxInputAssumption == MaxInput \in Nat

VARIABLES input,        \* what flate wrote of this message
          trimmed,      \* what the trimLastFourBytesWriter passed on
          tail,         \* its tail
          past,         \* what was written to the window since it is in use
          window        \* slidingWindow.buf

trimVars == <<input, trimmed, tail>>
windowVars == <<past, window>>

Least(a, b) == IF a < b THEN a ELSE b
Prefix(s, n) == SubSeq(s, 1, n)
Drop(s, n) == SubSeq(s, n + 1, Len(s))

CompressInit ==
    /\ input = <<>> /\ trimmed = <<>> /\ tail = <<>>
    /\ past = <<>> /\ window = <<>>

-----------------------------------------------------------------------------
(* trimLastFourBytesWriter. *)

(* Everything fits the tail. *)
TrimShort(p) ==
    /\ Len(tail) + Len(p) <= 4
    /\ tail' = tail \o p
    /\ UNCHANGED trimmed

(* Mutant: the front of the tail is dropped, not passed on. *)
TrimLongDropping(p) ==
    /\ Len(tail) + Len(p) > 4
    /\ LET extra == Least(Len(tail) + Len(p) - 4, Len(tail))
           kept == Least(Len(p), 4)
       IN  /\ trimmed' = trimmed \o Prefix(p, Len(p) - kept)
           /\ tail' = Drop(tail, extra) \o Drop(p, Len(p) - kept)

(* The front of the tail is passed on, and all but the last four bytes of p. *)
TrimLong(p) ==
    /\ Len(tail) + Len(p) > 4
    /\ LET extra == Least(Len(tail) + Len(p) - 4, Len(tail))
           kept == Least(Len(p), 4)
       IN  /\ trimmed' = trimmed \o Prefix(tail, extra)
                                 \o Prefix(p, Len(p) - kept)
           /\ tail' = Drop(tail, extra) \o Drop(p, Len(p) - kept)

TrimWrite(p) ==
    /\ Len(input) + Len(p) <= MaxInput
    /\ input' = input \o p
    /\ TrimShort(p) \/ TrimLong(p)
    /\ UNCHANGED windowVars

(* The writer of the next message. *)
TrimReset ==
    /\ input' = <<>> /\ trimmed' = <<>> /\ tail' = <<>>
    /\ UNCHANGED windowVars

-----------------------------------------------------------------------------
(* slidingWindow. *)

(* The bytes the window lacks room for are shifted out at the front. *)
WindowShift(p) ==
    /\ Len(p) < WindowSize
    /\ LET left == WindowSize - Len(window)
           spaceNeeded == IF left < Len(p) THEN Len(p) - left ELSE 0
       IN  window' = Drop(window, spaceNeeded) \o p

WindowReplace(p) ==
    /\ Len(p) >= WindowSize
    /\ window' = Drop(p, Len(p) - WindowSize)

WindowWrite(p) ==
    /\ Len(past) + Len(p) <= MaxInput
    /\ past' = past \o p
    /\ WindowShift(p) \/ WindowReplace(p)
    /\ UNCHANGED trimVars

(* close() empties the window before it goes to the pool; init takes one    *)
(* from there.                                                              *)
WindowClose ==
    /\ past' = <<>> /\ window' = <<>>
    /\ UNCHANGED trimVars

CompressNext ==
    \/ \E p \in Writes : TrimWrite(p) \/ WindowWrite(p)
    \/ TrimReset \/ WindowClose

CompressSpec == CompressInit /\ [][CompressNext]_<<trimVars, windowVars>>

-----------------------------------------------------------------------------
(* "They are removed when sending" (compress.go:76): whatever the writes,   *)
(* all of the message but its last four bytes is passed on, in order.       *)
TrimExact ==
    /\ trimmed \o tail = input
    /\ Len(tail) = Least(4, Len(input))

(* The window is the end of what was read, as long as it can be: the        *)
(* dictionary the peer's compressor refers to (compress.go:217).            *)
WindowExact ==
    /\ Len(window) = Least(WindowSize, Len(past))
    /\ window = Drop(past, Len(past) - Len(window))

(* Sender and receiver keep what the next message needs, no more and no    *)
(* less (compress.go:76-118,196-234).                                       *)
CompressExact == TrimExact /\ WindowExact
=============================================================================
