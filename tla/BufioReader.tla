---------------------------- MODULE BufioReader ----------------------------
(***************************************************************************)
(* internal/bufio.Reader: the buffer between the transport, or a message,  *)
(* and what is parsed from it.                                             *)
(*                                                                         *)
(* The source's bytes are the numbers from 1, in order.  A read of it      *)
(* returns any number of bytes, an error with them or without, and after   *)
(* its error nothing but that error.  A call is "begin", the reads it      *)
(* makes, one by one, and its return.                                      *)
(***************************************************************************)
EXTENDS Integers, Sequences

CONSTANTS BufSize,      \* len(Reader.buffer)
          MaxBytes      \* bound: the bytes of the source

ASSUME SizesAssumption == BufSize \in Nat /\ MaxBytes \in Nat

VARIABLES buffer,       \* Reader.buffer, 0 where nothing was written
          readPos, writePos,
          err,          \* Reader.err
          sent,         \* bytes the source has returned
          ended,        \* the source has returned its error
          taken,        \* bytes the calls have returned or discarded
          op,           \* the call that runs: its kind, its argument, what
                        \* it skipped, whether it has just filled the buffer
          result        \* of the last call: kind, argument, bytes and error

readerVars ==
    <<buffer, readPos, writePos, err, sent, ended, taken, op, result>>

OpKinds == {"peek", "pop", "discard", "read", "readByte", "readSlice"}
NoOp == [kind |-> "none", n |-> 0, skipped |-> <<>>, filled |-> FALSE]
Errors == {"nil", "source", "noProgress", "bufferFull"}

Buffered == writePos - readPos
Slice(n) == SubSeq(buffer, readPos + 1, readPos + n)
IsDelim(byte) == byte % 3 = 0

ReaderTypeOK ==
    /\ buffer \in [1..BufSize -> 0..MaxBytes]
    /\ readPos \in 0..writePos /\ writePos \in 0..BufSize
    /\ err \in Errors \ {"bufferFull"}
    /\ sent \in 0..MaxBytes /\ ended \in BOOLEAN /\ taken \in 0..sent
    /\ op.kind \in OpKinds \cup {"none"} /\ op.n \in 0..MaxBytes + 1
    /\ result.err \in Errors

(* resetReader: nothing is buffered. *)
ReaderInit ==
    /\ buffer = [i \in 1..BufSize |-> 0]
    /\ readPos = 0 /\ writePos = 0 /\ err = "nil"
    /\ sent = 0 /\ ended = FALSE /\ taken = 0
    /\ op = NoOp
    /\ result = [kind |-> "none", n |-> 0, bytes |-> <<>>, err |-> "nil"]

-----------------------------------------------------------------------------
(* A read of the source into room for n bytes, tried until it returns       *)
(* something, up to a hundred times: k bytes and the error e.               *)
SourceReturns(n, k, e) ==
    /\ sent + k <= MaxBytes
    /\ \/ e = "nil" /\ k \in 1..n /\ ~ended
       \/ e = "source" /\ k \in 0..n /\ (ended => k = 0)
       \/ e = "noProgress" /\ k = 0 /\ ~ended
    /\ sent' = sent + k
    /\ ended' = (ended \/ e = "source")

(* Mutant: what is left in the buffer is not slid to its beginning first. *)
FillWithoutSliding(k, e) ==
    /\ SourceReturns(BufSize - writePos, k, e)
    /\ buffer' = [i \in 1..BufSize |->
                    IF i \in writePos + 1..writePos + k
                    THEN sent + i - writePos ELSE buffer[i]]
    /\ readPos' = 0 /\ writePos' = writePos + k
    /\ err' = IF e = "nil" THEN err ELSE e

(* fillBuffer slides what is left and appends one read. *)
Fill(k, e) ==
    /\ SourceReturns(BufSize - Buffered, k, e)
    /\ buffer' = [i \in 1..BufSize |->
                    IF i <= Buffered THEN buffer[readPos + i]
                    ELSE IF i <= Buffered + k THEN sent + i - Buffered
                    ELSE buffer[i]]
    /\ readPos' = 0 /\ writePos' = Buffered + k
    /\ err' = IF e = "nil" THEN err ELSE e

Return(bytes, e) ==
    /\ op' = NoOp
    /\ result' = [kind |-> op.kind, n |-> op.n, bytes |-> bytes, err |-> e]

(* The call returns the next n bytes of the buffer and e; after consumeError *)
(* e is the pending error, which it clears.                                 *)
ReturnTaking(n, e) ==
    /\ Return(Slice(n), e)
    /\ readPos' = readPos + n /\ taken' = taken + n
    /\ UNCHANGED <<buffer, writePos, sent, ended>>

ReturnError(n) == ReturnTaking(n, err) /\ err' = "nil"
ReturnBytes(n) == ReturnTaking(n, "nil") /\ UNCHANGED err

Begin(kind, n) ==
    /\ op.kind = "none"
    /\ op' = [kind |-> kind, n |-> n, skipped |-> <<>>, filled |-> FALSE]
    /\ UNCHANGED <<buffer, readPos, writePos, err, sent, ended, taken, result>>

-----------------------------------------------------------------------------
(* Peek and Pop. *)

Peeking == op.kind \in {"peek", "pop"}

PeekFills ==
    /\ Peeking /\ Buffered < op.n /\ op.n <= BufSize /\ err = "nil"
    /\ \E k \in 0..BufSize, e \in Errors : Fill(k, e)
    /\ UNCHANGED <<taken, op, result>>

PeekReturns ==
    /\ op.kind = "peek" /\ Buffered >= op.n
    /\ Return(Slice(op.n), "nil")
    /\ UNCHANGED <<buffer, readPos, writePos, err, sent, ended, taken>>

PopReturns == op.kind = "pop" /\ Buffered >= op.n /\ ReturnBytes(op.n)

(* Too large for the buffer: nothing is read. *)
PeekTooMuch ==
    /\ Peeking /\ op.n > BufSize
    /\ Return(<<>>, "bufferFull")
    /\ UNCHANGED <<buffer, readPos, writePos, err, sent, ended, taken>>

(* The bytes there are, and why there are no more. *)
PeekShort ==
    /\ Peeking /\ Buffered < op.n /\ op.n <= BufSize /\ err # "nil"
    /\ Return(IF op.kind = "peek" THEN Slice(Buffered) ELSE <<>>, err)
    /\ err' = "nil"
    /\ UNCHANGED <<buffer, readPos, writePos, sent, ended, taken>>

Peek == PeekFills \/ PeekReturns \/ PopReturns \/ PeekTooMuch \/ PeekShort

-----------------------------------------------------------------------------
(* Discard skips what is buffered and fills an empty buffer, without a look *)
(* at the pending error, until n bytes are skipped.                         *)

DiscardFills ==
    /\ op.kind = "discard" /\ op.n > 0 /\ Buffered = 0 /\ ~op.filled
    /\ \E k \in 0..BufSize, e \in Errors : Fill(k, e)
    /\ op' = [op EXCEPT !.filled = TRUE]
    /\ UNCHANGED <<taken, result>>

DiscardSkips ==
    /\ op.kind = "discard" /\ op.n > 0 /\ (Buffered > 0 \/ op.filled)
    /\ LET remain == op.n - Len(op.skipped)
           skip == IF Buffered > remain THEN remain ELSE Buffered
           skipped == op.skipped \o Slice(skip)
       IN  /\ readPos' = readPos + skip /\ taken' = taken + skip
           /\ IF skip = remain THEN Return(skipped, "nil") /\ UNCHANGED err
              ELSE IF err # "nil" THEN Return(skipped, err) /\ err' = "nil"
              ELSE /\ op' = [op EXCEPT !.skipped = skipped, !.filled = FALSE]
                   /\ UNCHANGED <<err, result>>
    /\ UNCHANGED <<buffer, writePos, sent, ended>>

DiscardNothing == op.kind = "discard" /\ op.n = 0 /\ ReturnBytes(0)

Discard == DiscardFills \/ DiscardSkips \/ DiscardNothing

-----------------------------------------------------------------------------
(* Read returns what is buffered, or fills the buffer once; a large read    *)
(* into an empty buffer goes to the source directly.                        *)

ReadNothing == op.kind = "read" /\ op.n = 0 /\ ReturnError(0)

ReadPending ==
    /\ op.kind = "read" /\ op.n > 0 /\ Buffered = 0 /\ err # "nil"
    /\ ReturnError(0)

(* One read of the source, which may return nothing. *)
ReadDirectly ==
    /\ op.kind = "read" /\ op.n >= BufSize /\ Buffered = 0 /\ err = "nil"
    /\ \E k \in 0..op.n, e \in Errors \ {"noProgress", "bufferFull"} :
          /\ \/ SourceReturns(op.n, k, e)
             \/ k = 0 /\ e = "nil" /\ UNCHANGED <<sent, ended>>
          /\ Return([i \in 1..k |-> sent + i], e)
          /\ taken' = taken + k
    /\ UNCHANGED <<buffer, readPos, writePos, err>>

ReadFills ==
    /\ op.kind = "read" /\ op.n \in 1..BufSize-1 /\ Buffered = 0 /\ err = "nil"
    /\ \E k \in 0..BufSize, e \in Errors : Fill(k, e)
    /\ UNCHANGED <<taken, op, result>>

ReadCopies ==
    /\ op.kind = "read" /\ op.n > 0 /\ Buffered > 0
    /\ ReturnBytes(IF op.n < Buffered THEN op.n ELSE Buffered)

Read == ReadNothing \/ ReadPending \/ ReadDirectly \/ ReadFills \/ ReadCopies

-----------------------------------------------------------------------------
(* ReadByte, the header's bytes. *)

ReadByteFills ==
    /\ op.kind = "readByte" /\ Buffered = 0 /\ err = "nil"
    /\ \E k \in 0..BufSize, e \in Errors : Fill(k, e)
    /\ UNCHANGED <<taken, op, result>>

(* Mutant: the pending error comes before the bytes read with it. *)
ReadByteFailsEarly == op.kind = "readByte" /\ err # "nil" /\ ReturnError(0)

ReadByteFails ==
    op.kind = "readByte" /\ Buffered = 0 /\ err # "nil" /\ ReturnError(0)

ReadByteReturns == op.kind = "readByte" /\ Buffered > 0 /\ ReturnBytes(1)

ReadByte == ReadByteFills \/ ReadByteFails \/ ReadByteReturns

-----------------------------------------------------------------------------
(* ReadSlice, up to a delimiter. *)

Delims == {i \in 1..Buffered : IsDelim(buffer[readPos + i])}

ReadSliceReturns ==
    /\ op.kind = "readSlice"
    /\ \E i \in Delims : (\A j \in Delims : i <= j) /\ ReturnBytes(i)

ReadSliceFails ==
    /\ op.kind = "readSlice" /\ Delims = {} /\ err # "nil"
    /\ ReturnError(Buffered)

ReadSliceFull ==
    /\ op.kind = "readSlice" /\ Delims = {} /\ err = "nil"
    /\ Buffered >= BufSize
    /\ ReturnTaking(Buffered, "bufferFull") /\ UNCHANGED err

ReadSliceFills ==
    /\ op.kind = "readSlice" /\ Delims = {} /\ err = "nil"
    /\ Buffered < BufSize
    /\ \E k \in 0..BufSize, e \in Errors : Fill(k, e)
    /\ UNCHANGED <<taken, op, result>>

ReadSlice ==
    ReadSliceReturns \/ ReadSliceFails \/ ReadSliceFull \/ ReadSliceFills

-----------------------------------------------------------------------------
ReaderNext ==
    \/ \E kind \in OpKinds, n \in 0..MaxBytes + 1 : Begin(kind, n)
    \/ Peek \/ Discard \/ Read \/ ReadByte \/ ReadSlice

ReaderSpec == ReaderInit /\ [][ReaderNext]_readerVars

-----------------------------------------------------------------------------
(* No byte is lost, repeated or moved: the buffer holds what the source     *)
(* returned and the calls did not, in order (bufio.go:80-109,206-213).      *)
BytesInOrder ==
    /\ ReaderTypeOK
    /\ \A i \in 1..Buffered : buffer[readPos + i] = taken + i
    /\ taken + Buffered = sent
    /\ \A i \in 1..Len(result.bytes)-1 :
          result.bytes[i+1] = result.bytes[i] + 1

(* A frame is not cut short by an error that came after it: ReadByte, Read  *)
(* and Discard report one when no byte is left (bufio.go:183-187,231-236).  *)
(* "If Peek returns fewer than n bytes, it also returns an error", and so   *)
(* do Pop and Discard (bufio.go:119,147,161); they do not return one else,  *)
(* and Discard takes as many bytes as it says.                              *)
ErrorsInOrder ==
    [][result' # result =>
         /\ result'.kind \in {"read", "readByte", "discard"}
               /\ result'.n > 0 /\ result'.err # "nil" => taken' = sent'
         /\ result'.kind \in {"peek", "discard"} =>
               (Len(result'.bytes) < result'.n <=> result'.err # "nil")
         /\ result'.kind = "pop" =>
               (result'.bytes = <<>> /\ result'.n > 0 <=> result'.err # "nil")
         /\ result'.kind = "discard" /\ Len(result'.bytes) > 0 =>
               result'.bytes[Len(result'.bytes)] = taken'
      ]_readerVars
=============================================================================
