--------------------------- MODULE MessageReader ---------------------------
(***************************************************************************)
(* The read side as its user sees it (read.go): the peer's frames and what *)
(* Reader, msgReader.Read and limitReader make of them.                    *)
(*                                                                         *)
(* The transport is a queue of headers and payload bytes; a byte is the    *)
(* number of its message.  The peer sends any frames, and nothing after    *)
(* one that breaks the protocol or closes; it may go away in the middle of *)
(* one.  One goroutine reads; what close() and Close do step by step is in *)
(* CloseHandshake and one step here, as are the frames the reader sends.   *)
(* Compression is left out.                                                *)
(***************************************************************************)
EXTENDS Integers, Sequences, SequencesExt

CONSTANTS Types,        \* of messages: opText, opBinary
          MaxFrames,    \* bound: frames the peer sends
          MaxBytes,     \* bound: bytes of their payloads, together
          MaxWire       \* bound: what the transport holds

ASSUME TypesAssumption ==
    Types \cap {"cont", "control", "closeNormal", "closeOther", "illegal",
                "byte"} = {}
ASSUME ReaderBoundsAssumption ==
    MaxFrames \in Nat /\ MaxBytes \in Nat /\ MaxWire \in Nat

VARIABLES
    peer,           \* where it is: in a frame, in a message, done, gone
    msgs,           \* the messages it sent: type, length, whether whole
    wire,           \* what it sent and nobody read
    closed,         \* the connection is
    fin, payloadLength,     \* msgReader's
    limited,        \* limitReader.n
    call,           \* the call that runs
    result,         \* of the last call
    got             \* the messages the user got: type, bytes, whether to EOF

peerVars == <<peer, msgs>>
msgReaderVars == <<fin, payloadLength, limited>>
readerVars == <<wire, closed, msgReaderVars, call, result, got>>

Header(op, f, n) == [kind |-> op, fin |-> f, len |-> n]
Byte(m) == [kind |-> "byte", fin |-> FALSE, len |-> m]

Controls == {"control"}                 \* a ping or a pong
Closes == {"closeNormal", "closeOther"}     \* normal: or going away
NoResult == [op |-> "none", err |-> "nil", n |-> 0]
NoCall == [op |-> "none", at |-> "none", p |-> 0, have |-> <<>>]
Result(op, err, n) == [op |-> op, err |-> err, n |-> n]
Errs == {"nil", "EOF", "unexpectedEOF", "closed", "closeNormal", "closeOther",
         "closeFrame", "protocol", "limit", "unfinished", "ctx"}

Least(a, b) == IF a < b THEN a ELSE b

ReaderTypeOK ==
    /\ peer \in [left : 0..MaxBytes, fin : BOOLEAN, open : BOOLEAN,
                 done : BOOLEAN, gone : BOOLEAN, frames : 0..MaxFrames,
                 bytes : 0..MaxBytes]
    /\ msgs \in Seq([type : Types, len : Nat, whole : BOOLEAN])
    /\ closed \in BOOLEAN /\ fin \in BOOLEAN
    /\ payloadLength \in 0..MaxBytes /\ limited \in Int
    /\ call.op \in {"none", "Reader", "Read"}
    /\ Len(call.have) <= call.p
    /\ call.at \in {"none", "header", "payload"} /\ result.err \in Errs

(* SetReadLimit: one byte more, to see the end of a message of that size. *)
(* Mutant: no byte more. *)
SetReadLimitExactly(n) == n

SetReadLimit(n) == IF n >= 0 THEN n + 1 ELSE n

(* newMsgReader, after SetReadLimit(limit); reset takes the limit over. *)
ReaderInit ==
    /\ peer = [left |-> 0, fin |-> TRUE, open |-> FALSE, done |-> FALSE,
               gone |-> FALSE, frames |-> 0, bytes |-> 0]
    /\ msgs = <<>> /\ wire = <<>>
    /\ closed = FALSE
    /\ fin = TRUE /\ payloadLength = 0 /\ limited = 0
    /\ call = NoCall /\ result = NoResult
    /\ got = <<>>

-----------------------------------------------------------------------------
(* The peer; what it sends on a closed connection arrives nowhere. *)

PeerSends(op, f, n) ==
    /\ ~peer.done /\ ~peer.gone /\ peer.left = 0
    /\ peer.frames < MaxFrames /\ peer.bytes + n <= MaxBytes
    /\ Len(wire) < MaxWire
    /\ wire' = Append(wire, Header(op, f, n))
    /\ peer' = [left |-> n, fin |-> f,
                open |-> IF op \in Types \cup {"cont"} THEN ~f ELSE peer.open,
                done |-> \/ op \in Closes \cup {"illegal"}
                         \/ op \in Types /\ peer.open
                         \/ op = "cont" /\ ~peer.open,
                gone |-> FALSE, frames |-> peer.frames + 1,
                bytes |-> peer.bytes + n]
    /\ UNCHANGED <<closed, msgReaderVars, call, result, got>>

SendData(f, n) ==
    \E t \in Types :
        /\ ~peer.open /\ PeerSends(t, f, n)
        /\ msgs' = Append(msgs, [type |-> t, len |-> n,
                                 whole |-> f /\ n = 0])

Longer(m, n, whole) == [m EXCEPT !.len = @ + n, !.whole = whole]

SendContinuation(f, n) ==
    /\ peer.open /\ PeerSends("cont", f, n)
    /\ msgs' = [msgs EXCEPT ![Len(msgs)] = Longer(@, n, f /\ n = 0)]

SendControl(op) == PeerSends(op, peer.fin, 0) /\ UNCHANGED msgs

(* A continuation of nothing, a message within a message, an illegal header. *)
BreakProtocol ==
    /\ \/ PeerSends("illegal", peer.fin, 0)
       \/ ~peer.open /\ PeerSends("cont", TRUE, 0)
       \/ peer.open /\ \E t \in Types : PeerSends(t, TRUE, 0)
    /\ UNCHANGED msgs

SendByte ==
    /\ peer.left > 0 /\ ~peer.gone /\ Len(wire) < MaxWire
    /\ wire' = Append(wire, Byte(Len(msgs)))
    /\ peer' = [peer EXCEPT !.left = @ - 1]
    /\ msgs' = [msgs EXCEPT ![Len(msgs)] =
                  Longer(@, 0, peer.fin /\ peer.left = 1)]
    /\ UNCHANGED <<closed, msgReaderVars, call, result, got>>

(* The transport ends; what was sent can still be read. *)
HangUp ==
    /\ ~peer.gone
    /\ peer' = [peer EXCEPT !.gone = TRUE]
    /\ UNCHANGED <<msgs, readerVars>>

Peer ==
    /\ ~closed
    /\ \/ \E f \in BOOLEAN, n \in 0..MaxBytes :
             SendData(f, n) \/ SendContinuation(f, n)
       \/ \E op \in Controls \cup Closes : SendControl(op)
       \/ BreakProtocol \/ SendByte \/ HangUp

-----------------------------------------------------------------------------
(* The calls. *)

Return(err, n) == call' = NoCall /\ result' = Result(call.op, err, n)

Refuse(op, err) ==
    /\ result' = Result(op, err, 0)
    /\ UNCHANGED <<wire, closed, msgReaderVars, call, got>>

(* Reader: a closed connection, or a context that is done, ends it; so does *)
(* a message whose last frame has not come yet.                             *)
BeginReader(ctxDone) ==
    /\ call.op = "none"
    /\ \/ closed /\ Refuse("Reader", "closed")
       \/ ctxDone /\ ~closed /\ Refuse("Reader", "ctx")
       \/ ~closed /\ ~fin /\ Refuse("Reader", "unfinished")
       \/ /\ ~closed /\ fin
          /\ call' = [op |-> "Reader", at |-> "header", p |-> 0,
                      have |-> <<>>]
          /\ UNCHANGED <<wire, closed, msgReaderVars, result, got>>
    /\ UNCHANGED peerVars

(* limitReader.Read: the limit is reached; writeError tells the peer. *)
LimitHit ==
    /\ ~closed /\ limited = 0
    /\ result' = Result("Read", "limit", 0)
    /\ UNCHANGED <<wire, closed, msgReaderVars, call, got>>

(* msgReader.Read into p: the end of the message, its next frame, or bytes  *)
(* of the current one.                                                      *)
EndOfMessage(op) ==
    /\ got' = [got EXCEPT ![Len(got)].eof = TRUE]
    /\ call' = NoCall /\ result' = Result(op, "EOF", 0)
    /\ UNCHANGED <<wire, closed, msgReaderVars>>

BeginRead(p, ctxDone) ==
    /\ call.op = "none"
    /\ LET q == IF limited < 0 THEN p ELSE Least(p, limited)
           frame == IF payloadLength = 0
                    THEN [op |-> "Read", at |-> "header", p |-> q,
                          have |-> <<>>]
                    ELSE [op |-> "Read", at |-> "payload",
                          p |-> Least(q, payloadLength), have |-> <<>>]
       IN  \/ closed /\ Refuse("Read", "closed")
           \/ ctxDone /\ ~closed /\ Refuse("Read", "ctx")
           \/ LimitHit
           \/ ~closed /\ limited # 0 /\ fin /\ payloadLength = 0
                 /\ EndOfMessage("Read")
           \/ /\ ~closed /\ limited # 0 /\ ~(fin /\ payloadLength = 0)
              /\ call' = frame
              /\ UNCHANGED <<wire, closed, msgReaderVars, result, got>>
    /\ UNCHANGED peerVars

-----------------------------------------------------------------------------
(* readLoop.  A header that is in the buffer is read even if the connection *)
(* has been closed meanwhile.                                               *)

Take(op) == wire # <<>> /\ Head(wire).kind = op /\ wire' = Tail(wire)

(* writeError tells the peer. *)
Violation ==
    /\ Return("protocol", 0)
    /\ UNCHANGED <<closed, msgReaderVars, got>>

ReadIllegal == Take("illegal") /\ Violation

(* A pong is sent, or noted; the next prepareRead finds the connection      *)
(* closed if it is.                                                         *)
ReadControl ==
    /\ \E op \in Controls : Take(op)
    /\ IF closed THEN Return("closed", 0) ELSE UNCHANGED <<call, result>>
    /\ UNCHANGED <<closed, msgReaderVars, got>>

(* The status is in Reader's error; wrapping it once more, in Read, loses it *)
(* (errors.go:166).                                                          *)
ReadClose ==
    /\ \E op \in Closes :
          /\ Take(op)
          /\ Return(IF call.op = "Reader" THEN op ELSE "closeFrame", 0)
    /\ closed' = TRUE
    /\ UNCHANGED <<msgReaderVars, got>>

(* Mutant: a byte of the payload is taken for the header's. *)
setFrameShort(h) == fin' = h.fin /\ payloadLength' = h.len - 1

setFrame(h) == fin' = h.fin /\ payloadLength' = h.len

(* Mutant: a continuation is taken for the last frame. *)
ReadContinuationFinal ==
    /\ Take("cont")
    /\ IF call.op = "Reader" THEN Violation
       ELSE /\ fin' = TRUE /\ payloadLength' = Head(wire).len
            /\ IF Head(wire).len = 0
               THEN /\ Return("EOF", 0)
                    /\ got' = [got EXCEPT ![Len(got)].eof = TRUE]
               ELSE /\ call' = [call EXCEPT !.at = "payload",
                                            !.p = Least(@, Head(wire).len)]
                    /\ UNCHANGED <<result, got>>
            /\ UNCHANGED <<closed, limited>>

ReadContinuation ==
    /\ Take("cont")
    /\ IF call.op = "Reader" THEN Violation
       ELSE /\ setFrame(Head(wire))
            /\ IF Head(wire).len = 0 /\ Head(wire).fin
               THEN /\ Return("EOF", 0)
                    /\ got' = [got EXCEPT ![Len(got)].eof = TRUE]
               ELSE /\ call' = [call EXCEPT
                                  !.at = IF Head(wire).len = 0 THEN "header"
                                         ELSE "payload",
                                  !.p = IF Head(wire).len = 0 THEN @
                                        ELSE Least(@, Head(wire).len)]
                    /\ UNCHANGED <<result, got>>
            /\ UNCHANGED <<closed, limited>>

ReadData(limit) ==
    \E t \in Types :
        /\ Take(t)
        /\ IF call.op = "Read" THEN Violation
           ELSE /\ setFrame(Head(wire))
                /\ limited' = SetReadLimit(limit)
                /\ got' = Append(got, [type |-> t, bytes |-> <<>>,
                                       eof |-> FALSE])
                /\ Return("nil", 0)
                /\ UNCHANGED closed

(* The transport is closed, or at its end: Reader then calls the connection *)
(* closed, but Read takes the io.EOF for the message's.                     *)
HeaderFails ==
    \/ closed /\ Return("closed", 0)
              /\ UNCHANGED <<wire, closed, msgReaderVars, got>>
    \/ /\ ~closed /\ peer.gone /\ wire = <<>>
       /\ IF call.op = "Reader"
          THEN Return("closed", 0)
                  /\ UNCHANGED <<wire, closed, msgReaderVars, got>>
          ELSE EndOfMessage("Read")

ReadHeader(limit) ==
    /\ call.at = "header"
    /\ \/ ReadIllegal \/ ReadControl \/ ReadClose \/ ReadContinuation
       \/ ReadData(limit) \/ HeaderFails
    /\ UNCHANGED peerVars

-----------------------------------------------------------------------------
(* readFramePayload: all of p, byte by byte.  On a connection that has been *)
(* closed meanwhile the bytes come with an error.                           *)

TakeByte ==
    /\ Take("byte")
    /\ LET have == Append(call.have, Head(wire).len)
       IN  IF Len(have) < call.p
           THEN /\ call' = [call EXCEPT !.have = have]
                /\ UNCHANGED <<msgReaderVars, result, got>>
           ELSE IF closed
           THEN Return("closed", Len(have)) /\ UNCHANGED <<msgReaderVars, got>>
           ELSE /\ payloadLength' = payloadLength - Len(have)
                /\ limited' = IF limited < 0 THEN limited
                              ELSE limited - Len(have)
                /\ got' = [got EXCEPT ![Len(got)].bytes = @ \o have]
                /\ Return("nil", Len(have))
                /\ UNCHANGED fin
    /\ UNCHANGED closed

(* The bytes that a part of p took are returned with the error, not         *)
(* unmasked; an end before the first byte is taken for the message's.       *)
PayloadFails ==
    \/ closed /\ Return("closed", Len(call.have))
              /\ UNCHANGED <<wire, closed, msgReaderVars, got>>
    \/ /\ ~closed /\ peer.gone /\ wire = <<>>
       /\ IF call.have = <<>> THEN EndOfMessage("Read")
          ELSE Return("unexpectedEOF", Len(call.have))
                  /\ UNCHANGED <<wire, closed, msgReaderVars, got>>

ReadPayload ==
    /\ call.at = "payload"
    /\ TakeByte \/ PayloadFails
    /\ UNCHANGED peerVars

(* Reader and Read, once they have the lock. *)
Reading(limit) == ReadHeader(limit) \/ ReadPayload

-----------------------------------------------------------------------------
(* A message that the user read to its end is the peer's, whole; what was   *)
(* read of it before is its beginning, and no byte of another message       *)
(* (read.go:505-568).                                                       *)
MessagesInOrder ==
    /\ Len(got) <= Len(msgs)
    /\ \A i \in DOMAIN got :
          /\ got[i].type = msgs[i].type
          /\ \A k \in DOMAIN got[i].bytes : got[i].bytes[k] = i
          /\ Len(got[i].bytes) <= msgs[i].len
          /\ i < Len(got) => Len(got[i].bytes) = msgs[i].len
          /\ got[i].eof => \/ peer.gone /\ i = Len(msgs)
                           \/ /\ msgs[i].whole
                              /\ Len(got[i].bytes) = msgs[i].len

(* "Read reads a message from the connection" (read.go:46): what it returns *)
(* at an EOF is a whole message, even if the peer goes away in it.          *)
MessagesWhole ==
    \A i \in DOMAIN got :
        got[i].eof => msgs[i].whole /\ Len(got[i].bytes) = msgs[i].len
=============================================================================
