------------------------------- MODULE Frame -------------------------------
(***************************************************************************)
(* What a frame looks like on the wire: the header (frame.go) and the      *)
(* payload of a close frame (close.go).                                    *)
(*                                                                         *)
(* A payload length is an int64, kept as its eight bytes, the highest      *)
(* first; a mask key is an uint32, kept as its four bytes, the lowest      *)
(* first.  A reason is a sequence of bytes.  A behaviour writes one header  *)
(* or one close frame.                                                     *)
(***************************************************************************)
EXTENDS Integers, Sequences

CONSTANTS Headers,      \* the headers that are written
          Closings      \* the codes and reasons given to Close

Byte == 0..255
Header == [fin : BOOLEAN, rsv1 : BOOLEAN, rsv2 : BOOLEAN, rsv3 : BOOLEAN,
           opcode : 0..15, payloadLength : [1..8 -> Byte],
           masked : BOOLEAN, maskKey : [1..4 -> Byte]]
NoKey == <<0, 0, 0, 0>>

(* The length of a payload in memory is not negative, and the mask key of a *)
(* frame that is not masked is the zero value.                              *)
ASSUME HeadersAssumption ==
    \A h \in Headers : /\ h \in Header
                       /\ h.payloadLength[1] < 128
                       /\ ~h.masked => h.maskKey = NoKey
ASSUME ClosingsAssumption ==
    \A ce \in Closings : ce \in [code : Int, reason : Seq(Byte)]

VARIABLES header,       \* the header that was written
          closing       \* the code and reason that were given to Close

frameVars == <<header, closing>>

Bit(flag, n) == IF flag THEN 2^n ELSE 0
HasBit(byte, n) == (byte \div 2^n) % 2 = 1
Uint16(b) == 256 * b[1] + b[2]
PutUint16(n) == <<n \div 256, n % 256>>

-----------------------------------------------------------------------------
(* The header. *)

Fits16(len) == \A i \in 1..6 : len[i] = 0
LengthOf16(b) == <<0, 0, 0, 0, 0, 0>> \o b
Negative(len) == len[1] >= 128

(* The seven bits of the second byte: the length itself, or how many bytes  *)
(* of it follow.                                                            *)
LengthForm(len) ==
    IF ~Fits16(len) THEN 127
    ELSE IF Uint16(SubSeq(len, 7, 8)) > 125 THEN 126 ELSE len[8]

ExtendedLength(len) ==
    CASE LengthForm(len) = 127 -> len
      [] LengthForm(len) = 126 -> SubSeq(len, 7, 8)
      [] OTHER -> <<>>

(* Mutant: the length is never written in eight bytes. *)
writeFrameHeader16(h) ==
    <<Bit(h.fin, 7) + Bit(h.rsv1, 6) + Bit(h.rsv2, 5) + Bit(h.rsv3, 4)
        + h.opcode,
      Bit(h.masked, 7) + IF LengthForm(h.payloadLength) = 127 THEN 126
                         ELSE LengthForm(h.payloadLength)>>
    \o (IF LengthForm(h.payloadLength) = 127 THEN SubSeq(h.payloadLength, 7, 8)
        ELSE ExtendedLength(h.payloadLength))
    \o (IF h.masked THEN h.maskKey ELSE <<>>)

writeFrameHeader(h) ==
    <<Bit(h.fin, 7) + Bit(h.rsv1, 6) + Bit(h.rsv2, 5) + Bit(h.rsv3, 4)
        + h.opcode,
      Bit(h.masked, 7) + LengthForm(h.payloadLength)>>
    \o ExtendedLength(h.payloadLength)
    \o (IF h.masked THEN h.maskKey ELSE <<>>)

HeaderError == [ok |-> FALSE]

(* How many bytes readFrameHeader takes, from the first two. *)
ExtraBytes(form) == CASE form = 126 -> 2 [] form = 127 -> 8 [] OTHER -> 0

(* The header at the front of the bytes b, after which the transport ends.  *)
readFrameHeader(b) ==
    IF Len(b) < 2 THEN HeaderError
    ELSE LET form == b[2] % 128
             ext == SubSeq(b, 3, 2 + ExtraBytes(form))
             len == CASE form = 126 -> LengthOf16(ext)
                      [] form = 127 -> ext
                      [] OTHER -> LengthOf16(<<0, form>>)
             masked == HasBit(b[2], 7)
             size == 2 + ExtraBytes(form) + (IF masked THEN 4 ELSE 0)
         IN  IF Len(b) < 2 + ExtraBytes(form) THEN HeaderError
             ELSE IF Negative(len) \/ Len(b) < size THEN HeaderError
             ELSE [ok |-> TRUE, size |-> size, header |->
                     [fin |-> HasBit(b[1], 7), rsv1 |-> HasBit(b[1], 6),
                      rsv2 |-> HasBit(b[1], 5), rsv3 |-> HasBit(b[1], 4),
                      opcode |-> b[1] % 16, payloadLength |-> len,
                      masked |-> masked,
                      maskKey |-> IF masked THEN SubSeq(b, size - 3, size)
                                  ELSE NoKey]]

-----------------------------------------------------------------------------
(* The payload of a close frame. *)

StatusNormalClosure == 1000
StatusReserved == 1004
StatusNoStatusRcvd == 1005
StatusAbnormalClosure == 1006
StatusBadGateway == 1014
StatusTLSHandshake == 1015

maxControlPayload == 125
maxCloseReason == maxControlPayload - 2

validWireCloseCode(code) ==
    /\ code \notin {StatusReserved, StatusNoStatusRcvd, StatusAbnormalClosure,
                    StatusTLSHandshake}
    /\ code \in StatusNormalClosure..StatusBadGateway \cup 3000..4999

CloseError(code, reason) == [code |-> code, reason |-> reason]
Rejected == [code |-> -1, reason |-> <<>>]

parseClosePayload(p) ==
    CASE p = <<>> -> CloseError(StatusNoStatusRcvd, <<>>)
      [] Len(p) = 1 -> Rejected
      [] OTHER -> IF validWireCloseCode(Uint16(p))
                  THEN CloseError(Uint16(p), SubSeq(p, 3, Len(p)))
                  ELSE Rejected

bytesErr(ce) ==
    IF Len(ce.reason) > maxCloseReason \/ ~validWireCloseCode(ce.code)
    THEN [ok |-> FALSE]
    ELSE [ok |-> TRUE, payload |-> PutUint16(ce.code % 2^16) \o ce.reason]

(* What writeClose hands to writeControl.  The payload bytes() falls back   *)
(* to is not used: writeClose returns its error first (close.go:152).       *)
writeClosePayload(ce) ==
    IF ce.code = StatusNoStatusRcvd THEN [ok |-> TRUE, payload |-> <<>>]
    ELSE bytesErr(ce)

-----------------------------------------------------------------------------
NoHeader == [none |-> TRUE]
NoClosing == [none |-> TRUE]

FrameInit == header = NoHeader /\ closing = NoClosing

WriteHeader(h) == header' = h /\ UNCHANGED closing
WriteClosing(ce) == closing' = ce /\ UNCHANGED header

FrameNext ==
    /\ header = NoHeader /\ closing = NoClosing
    /\ \/ \E h \in Headers : WriteHeader(h)
       \/ \E ce \in Closings : WriteClosing(ce)

FrameSpec == FrameInit /\ [][FrameNext]_frameVars

(* The peer reads the header that was written, whatever bytes follow it,    *)
(* and none from a part of it (frame.go:51-172).                            *)
HeaderRoundTrip ==
    header # NoHeader =>
    LET b == writeFrameHeader(header)
    IN  /\ \A following \in {<<>>, <<0, 0>>, <<0, 129, 255>>} :
              readFrameHeader(b \o following)
                 = [ok |-> TRUE, size |-> Len(b), header |-> header]
        /\ \A n \in 0..Len(b)-1 : ~readFrameHeader(SubSeq(b, 1, n)).ok

(* What Close puts into a close frame fits a control frame and is what the  *)
(* peer's parser gives its user; a close frame that was received is answered *)
(* with the same payload (close.go:143-169,233-301, read.go:404-427).       *)
CloseRoundTrip ==
    closing # NoClosing =>
    LET w == writeClosePayload(closing)
        received == PutUint16(closing.code % 2^16) \o closing.reason
        parsed == parseClosePayload(received)
    IN  /\ w.ok => /\ Len(w.payload) <= maxControlPayload
                   /\ parseClosePayload(w.payload) =
                        IF closing.code = StatusNoStatusRcvd
                        THEN CloseError(StatusNoStatusRcvd, <<>>) ELSE closing
        /\ parsed # Rejected /\ Len(received) <= maxControlPayload =>
              writeClosePayload(parsed) = [ok |-> TRUE, payload |-> received]

(* What one end writes about a frame the other end reads (frame.go:51-172). *)
FrameRoundTrip == HeaderRoundTrip /\ CloseRoundTrip
=============================================================================
