------------------------------ MODULE Masking ------------------------------
(***************************************************************************)
(* The masking of a client's payload (mask.go): the client masks it in the *)
(* pieces that fit its write buffer (write.go:357), the server unmasks it  *)
(* in the pieces its user reads (read.go:551), and both carry the key on   *)
(* from piece to piece.                                                    *)
(*                                                                         *)
(* A byte is the set of what was xored into it: xor is the symmetric       *)
(* difference.  A key is its four bytes, the lowest first.                 *)
(***************************************************************************)
EXTENDS Integers, Sequences

CONSTANT PayloadSize    \* bytes of the payload

ASSUME PayloadAssumption == PayloadSize \in Nat

VARIABLES wire,         \* the masked bytes sent
          sendKey,      \* the key for the next piece sent
          unmasked,     \* the bytes the server's user got
          readKey       \* the key for the next piece read

maskVars == <<wire, sendKey, unmasked, readKey>>

Payload == [i \in 1..PayloadSize |-> {i}]
MaskKey == [i \in 1..4 |-> {-i}]

XorBytes(a, b) == (a \ b) \cup (b \ a)
RotateLeft32by24(key) == Tail(key) \o <<Head(key)>>

(* The bytes in whole words are xored with the key as it is; each byte of   *)
(* the rest with its lowest byte, and the key is rotated by one byte.       *)
Words(b) == 4 * (Len(b) \div 4)

maskedBytes(b, key) ==
    [i \in 1..Len(b) |->
        XorBytes(b[i], IF i <= Words(b) THEN key[1 + ((i - 1) % 4)]
                                   ELSE key[i - Words(b)])]

rotatedKey(b, key) ==
    LET after[n \in 0..3] ==
            IF n = 0 THEN key ELSE RotateLeft32by24(after[n-1])
    IN  after[Len(b) % 4]

(* Mutant: the key of the next piece is the key of this one. *)
maskKeepingKey(b, key) == [bytes |-> maskedBytes(b, key), key |-> key]

mask(b, key) == [bytes |-> maskedBytes(b, key), key |-> rotatedKey(b, key)]

MaskInit ==
    /\ wire = <<>> /\ sendKey = MaskKey
    /\ unmasked = <<>> /\ readKey = MaskKey

SendPiece(n) ==
    /\ Len(wire) + n <= PayloadSize
    /\ LET m == mask(SubSeq(Payload, Len(wire) + 1, Len(wire) + n), sendKey)
       IN  wire' = wire \o m.bytes /\ sendKey' = m.key
    /\ UNCHANGED <<unmasked, readKey>>

ReadPiece(n) ==
    /\ Len(unmasked) + n <= Len(wire)
    /\ LET m == mask(SubSeq(wire, Len(unmasked) + 1, Len(unmasked) + n),
                     readKey)
       IN  unmasked' = unmasked \o m.bytes /\ readKey' = m.key
    /\ UNCHANGED <<wire, sendKey>>

MaskNext == \E n \in 1..PayloadSize : SendPiece(n) \/ ReadPiece(n)

MaskSpec == MaskInit /\ [][MaskNext]_maskVars

-----------------------------------------------------------------------------
(* Byte i on the wire is byte i of the payload xored with byte i mod 4 of   *)
(* the key, whatever the pieces (RFC 6455, 5.3; mask.go:12).                *)
WireIsMasked ==
    \A i \in DOMAIN wire :
        wire[i] = XorBytes(Payload[i], MaskKey[1 + ((i - 1) % 4)])

(* The server's user gets the payload, whatever the pieces of either side   *)
(* (read.go:562).                                                           *)
PayloadRestored == unmasked = SubSeq(Payload, 1, Len(unmasked))

(* Both ends agree with the RFC and so with each other (mask.go:12-93).     *)
MaskingExact == WireIsMasked /\ PayloadRestored
=============================================================================
