--------------------------- MODULE NetConn_proofs ---------------------------
(***************************************************************************)
(* What the user of the read side gets, for any number of frames, bytes    *)
(* and deadlines: the peer's messages in order, cut at the limit, and, of  *)
(* the adapter, its bytes.  The argument follows the transport: between    *)
(* the reader and the peer every frame and byte in it moves a position in  *)
(* the peer's stream of messages to the next one.                          *)
(***************************************************************************)
EXTENDS NetConn, TLAPS

(* The sets that the state is from. *)
Kinds == Types \cup Controls \cup Closes \cup {"cont", "illegal", "byte"}
Tokens == [kind : Kinds, fin : BOOLEAN, len : Nat]
Messages == [type : Types, len : Nat, whole : BOOLEAN]
Readings == [type : Types, bytes : Seq(Nat), eof : BOOLEAN]
Positions == [m : Nat, fin : BOOLEAN, left : Nat, n : Nat, total : Nat,
              done : BOOLEAN]

PeerTypeOK ==
    /\ peer \in [left : 0..MaxBytes, fin : BOOLEAN, open : BOOLEAN,
                 done : BOOLEAN, gone : BOOLEAN, frames : 0..MaxFrames,
                 bytes : 0..MaxBytes]
    /\ msgs \in Seq(Messages)
    /\ wire \in Seq(Tokens)
    /\ \A k \in 1..Len(wire) : wire[k].kind # "byte" => wire[k].len <= MaxBytes

CallTypeOK ==
    /\ got \in Seq(Readings)
    /\ closed \in BOOLEAN /\ fin \in BOOLEAN
    /\ payloadLength \in 0..MaxBytes /\ limited \in Int
    /\ call \in [op : {"none", "Reader", "Read"},
                 at : {"none", "header", "payload"}, p : Nat, have : Seq(Nat)]
    /\ result \in [op : {"none", "Reader", "Read"}, err : Errs, n : Nat]

NetTypeOK ==
    /\ user \in Users /\ pc \in {"idle", "loop", "call"}
    /\ want \in 0..MaxRead /\ reader \in BOOLEAN /\ readEOFed \in BOOLEAN
    /\ netErr \in {"nil", "EOF", "deadline", "failed"} /\ delivered \in Nat

TimerTypeOK ==
    /\ writing \in BOOLEAN
    /\ holder \in {"nobody", "user", "timer"}
    /\ expired \in BOOLEAN /\ ctxDone \in BOOLEAN
    /\ setting \in {"no", "stop", "reset"}
    /\ armed \in BOOLEAN
    /\ callback \in {"none", "tryLock", "expire"}
    /\ deadlines \in 0..MaxDeadlines
    /\ netClosing \in {"no", "closing", "closed"}

(* The payload bytes that the peer has handed over. *)
Sent == peer.bytes - peer.left

(* A message is open as long as its last frame has not begun; the last       *)
(* message is as long as its frames say, and whole once all of it is sent.   *)
PeerInv ==
    /\ peer.open <=> ~peer.fin
    /\ peer.left > 0 => ~peer.done /\ msgs # <<>>
    /\ peer.left <= peer.bytes
    /\ msgs = <<>> => peer.fin
    /\ msgs # <<>> =>
          /\ peer.left <= msgs[Len(msgs)].len
          /\ msgs[Len(msgs)].whole => peer.fin /\ peer.left = 0

(* A Reader waits for a header between messages; a Read for one within a    *)
(* message, or for bytes of the frame it is in, not more than are left of it. *)
CallInv ==
    /\ call.op = "none" => call = NoCall
    /\ call.op # "none" => call.at # "none"
    /\ call.op = "Reader" => call.at = "header" /\ fin
    /\ call.op = "Read" => got # <<>> /\ Len(call.have) < call.p
    /\ call.at = "header" => call.have = <<>>
    /\ call.at = "header" /\ call.op = "Read" => ~fin
    /\ call.at = "payload" => call.p <= payloadLength
    /\ \A k \in 1..Len(call.have) : call.have[k] = Len(got)

(* What the users keep to: no call after an error; the adapter reads until  *)
(* its io.EOF, and its reader is of a message it got.                       *)
UserInv ==
    /\ user = "write" => call.op = "none"
    /\ pc # "idle" => user = "read" /\ want > 0 /\ (netErr # "failed" \/ closed)
    /\ pc = "call" => ~readEOFed
    /\ user = "read" /\ call.op # "none" => pc = "call"
    /\ user = "read" /\ (pc # "call" \/ call.op # "none") => result = NoResult
    /\ user = "direct" /\ call.op # "none" => result.err \in {"nil", "EOF"}
    /\ reader => got # <<>>
    /\ result.op = "Reader" /\ result.err = "nil" => got # <<>>

(* Nothing more can be read in the order it was sent: the connection is     *)
(* closed, or its user has met an error and calls no more.                  *)
Over ==
    /\ call.op = "none"
    /\ \/ closed
       \/ user = "direct" /\ result.err \notin {"nil", "EOF"}
       \/ user = "read" /\ pc = "call" /\ result.err \notin {"nil", "EOF"}
       \/ user = "read" /\ pc = "idle" /\ netErr = "failed"

(* What was read of the message that is read. *)
LastBytes == IF got = <<>> THEN 0 ELSE Len(got[Len(got)].bytes)

(* A position in the stream of the peer's frames: in message m, of which n  *)
(* bytes are behind it, and in a frame of which left are ahead of it; total *)
(* bytes of all messages are behind it, and done says that no frame follows. *)
(* It is one of the peer's messages as they are known so far.               *)
PosOK(s) ==
    /\ s.m <= Len(msgs) /\ s.total <= Sent
    /\ s.m = 0 => s.fin /\ s.left = 0 /\ s.n = 0
    /\ s.m > 0 =>
          /\ s.n + s.left <= msgs[s.m].len
          /\ s.fin /\ ~s.done =>
                /\ s.n + s.left = msgs[s.m].len
                /\ s.left = 0 => msgs[s.m].whole
    /\ s.m > 0 /\ s.m = Len(msgs) =>
                /\ s.n + peer.left <= msgs[s.m].len
                /\ s.fin /\ ~s.done => peer.fin

(* Where a frame or a byte x of the transport moves a position. *)
IsAt(s, m, f, left, n, total) ==
    /\ s.m = m /\ (s.fin <=> f) /\ s.left = left /\ s.n = n /\ s.total = total
    /\ ~s.done

Move(s, x, t) ==
    /\ ~s.done
    /\ x.kind # "byte" => s.left = 0
    /\ \/ /\ x.kind = "byte" /\ x.len = s.m /\ s.left > 0
          /\ IsAt(t, s.m, s.fin, s.left - 1, s.n + 1, s.total + 1)
       \/ x.kind \in Controls /\ IsAt(t, s.m, s.fin, 0, s.n, s.total)
       \/ /\ x.kind \in Types /\ s.fin
          /\ IsAt(t, s.m + 1, x.fin, x.len, 0, s.total)
          /\ x.kind = msgs[t.m].type
       \/ /\ x.kind = "cont" /\ ~s.fin
          /\ IsAt(t, s.m, x.fin, x.len, s.n, s.total)
       \/ /\ \/ x.kind \in Closes \cup {"illegal"}
             \/ x.kind \in Types /\ ~s.fin
             \/ x.kind = "cont" /\ s.fin
          /\ t.done /\ t.m = s.m /\ t.left = 0 /\ t.n = s.n /\ t.total = s.total

(* Bytes of a Read that netConn.Read has not returned yet. *)
Pending == IF result.err = "nil" THEN result.n ELSE 0

(* The position of the reader, and that of the peer. *)
AtReader(s) ==
    /\ s.m = Len(got) /\ (s.fin <=> fin) /\ ~s.done
    /\ s.left = payloadLength - Len(call.have)
    /\ s.n = LastBytes + Len(call.have)
    /\ user = "read" => s.total = delivered + Pending + Len(call.have)

AtPeer(s) ==
    /\ s.m = Len(msgs) /\ (s.fin <=> peer.fin) /\ s.left = peer.left
    /\ (s.done <=> peer.done) /\ s.total = Sent
    /\ s.n = IF msgs = <<>> THEN 0 ELSE msgs[Len(msgs)].len - peer.left

(* The transport leads from one to the other. *)
Aligned(f) ==
    /\ f \in Seq(Positions) /\ Len(f) = Len(wire) + 1
    /\ AtReader(f[1]) /\ AtPeer(f[Len(wire) + 1])
    /\ \A k \in 1..(Len(wire) + 1) : PosOK(f[k])
    /\ \A k \in 1..Len(wire) : Move(f[k], wire[k], f[k + 1])

(* What may be read of the message and what was read of it are the limit and *)
(* one byte more: this byte tells that the message is longer.               *)
LimitInv ==
    user = "direct" /\ Limit >= 0 =>
      /\ got # <<>> => limited >= 0 /\ limited + LastBytes = Limit + 1
      /\ \A i \in 1..Len(got) : got[i].eof => Len(got[i].bytes) <= Limit
      /\ call.op = "Read" => call.p <= limited /\ ~got[Len(got)].eof
      /\ result.err = "limit" =>
           call.op = "none" /\ got # <<>> /\ msgs[Len(got)].len > Limit

(* The adapter returns no more than was sent, and io.EOF only at its end. *)
StreamInv ==
    user = "read" =>
    /\ delivered + Pending <= Sent
    /\ result.op = "Read" /\ result.err = "nil" => result.n > 0
    /\ result.op = "Reader" => result.n = 0
    /\ result.err = "closeNormal" =>
           closed /\ (result.op = "Reader" /\ peer.done /\ delivered = Sent)

AlignedInv == ~Over => \E f : Aligned(f)

(* The inductive invariant. *)
IInv ==
    /\ PeerTypeOK /\ CallTypeOK /\ NetTypeOK /\ TimerTypeOK
    /\ PeerInv /\ CallInv /\ UserInv
    /\ MessagesInOrder /\ LimitInv /\ StreamInv /\ AlignedInv

-----------------------------------------------------------------------------
(* The queue and its positions. *)

LEMMA InitInv == Init => IInv
<1> SUFFICES ASSUME Init PROVE IInv
  OBVIOUS
<1>1. /\ peer = [left |-> 0, fin |-> TRUE, open |-> FALSE, done |-> FALSE,
                 gone |-> FALSE, frames |-> 0, bytes |-> 0]
      /\ msgs = <<>> /\ wire = <<>> /\ got = <<>>
      /\ ~closed /\ fin /\ payloadLength = 0 /\ limited = 0
      /\ call = NoCall /\ result = NoResult
  BY DEF Init, ReaderInit
<1>2. /\ user \in Users /\ pc = "idle" /\ want = 0 /\ ~reader
      /\ ~readEOFed /\ netErr = "nil" /\ delivered = 0
  BY DEF Init
<1>3. PeerTypeOK /\ CallTypeOK
  <2>1. PeerTypeOK
    BY <1>1, ReaderBoundsAssumption DEF PeerTypeOK
  <2>2. NoCall \in [op : {"none", "Reader", "Read"},
                    at : {"none", "header", "payload"}, p : Nat, have : Seq(Nat)]
    BY DEF NoCall
  <2>3. NoResult \in [op : {"none", "Reader", "Read"}, err : Errs, n : Nat]
    BY DEF NoResult, Errs
  <2>4. closed \in BOOLEAN /\ fin \in BOOLEAN
    BY DEF Init, ReaderInit
  <2> QED
    BY <1>1, <2>1, <2>2, <2>3, <2>4, ReaderBoundsAssumption DEF CallTypeOK
<1>4. NetTypeOK /\ TimerTypeOK
  <2>1. /\ reader \in BOOLEAN /\ readEOFed \in BOOLEAN /\ writing \in BOOLEAN
        /\ expired \in BOOLEAN /\ ctxDone \in BOOLEAN /\ armed \in BOOLEAN
    BY DEF Init
  <2>2. /\ deadlines = 0 /\ holder = "nobody" /\ setting = "no"
        /\ callback = "none" /\ netClosing = "no"
    BY DEF Init
  <2> QED
    BY <1>2, <2>1, <2>2, BoundsAssumption DEF NetTypeOK, TimerTypeOK
<1>5. PeerInv /\ CallInv /\ UserInv
  <2>1. peer.left = 0 /\ peer.bytes = 0
    BY <1>1
  <2>2. peer.open = ~peer.fin /\ peer.fin
    BY <1>1
  <2>3. PeerInv
    BY <1>1, <2>1, <2>2 DEF PeerInv
  <2>4. CallInv /\ UserInv
    BY <1>1, <1>2 DEF CallInv, UserInv, NoCall, NoResult
  <2> QED
    BY <2>3, <2>4
<1>6. MessagesInOrder /\ LimitInv /\ StreamInv
  BY <1>1, <1>2 DEF MessagesInOrder, LimitInv, StreamInv, Pending, Sent,
     NoResult, NoCall
<1>7. AlignedInv
  <2> DEFINE s == [m |-> 0, fin |-> TRUE, left |-> 0, n |-> 0, total |-> 0,
                   done |-> FALSE]
  <2>1. s \in Positions
    BY DEF Positions
  <2>2. /\ s.m = 0 /\ s.fin /\ s.left = 0 /\ s.n = 0 /\ s.total = 0 /\ ~s.done
    OBVIOUS
  <2>6. /\ peer.left = 0 /\ peer.bytes = 0 /\ peer.fin /\ ~peer.done
    BY <1>1
  <2>7. AtReader(s) /\ AtPeer(s) /\ PosOK(s)
    <3> HIDE DEF s
    <3>1. /\ Len(got) = 0 /\ Len(msgs) = 0 /\ LastBytes = 0 /\ Pending = 0
          /\ Len(call.have) = 0 /\ Sent = 0
      BY <1>1, <2>6 DEF LastBytes, Pending, Sent, NoCall, NoResult
    <3>2. AtReader(s)
      BY <1>1, <1>2, <2>2, <3>1 DEF AtReader
    <3>3. AtPeer(s) /\ PosOK(s)
      BY <1>1, <2>2, <2>6, <3>1 DEF AtPeer, PosOK
    <3> QED
      BY <3>2, <3>3
  <2> HIDE DEF s
  <2>3. <<s>> \in Seq(Positions) /\ Len(<<s>>) = 1 /\ <<s>>[1] = s
    BY <2>1
  <2>4. Len(wire) = 0
    BY <1>1
  <2>5. Aligned(<<s>>)
    BY <2>7, <2>3, <2>4 DEF Aligned
  <2> QED
    BY <2>5 DEF AlignedInv
<1> QED
  BY <1>3, <1>4, <1>5, <1>6, <1>7 DEF IInv

(* What a step that moves nothing leaves. *)
LEMMA QuietAligned ==
    ASSUME AlignedInv, UNCHANGED <<msgs, wire, fin, payloadLength, user>>,
           peer'.left = peer.left /\ peer'.bytes = peer.bytes,
           peer'.fin <=> peer.fin, peer'.done <=> peer.done,
           Len(got') = Len(got), LastBytes' = LastBytes,
           Len(call'.have) = Len(call.have),
           user = "read" => delivered' + Pending' = delivered + Pending,
           Over => Over'
    PROVE  AlignedInv'
<1> SUFFICES ASSUME ~Over' PROVE \E f : Aligned(f)'
  BY DEF AlignedInv
<1>1. PICK f : Aligned(f)
  BY DEF AlignedInv
<1>2. AtReader(f[1])'
  BY <1>1 DEF Aligned, AtReader
<1>3. \A s : (AtPeer(s)' <=> AtPeer(s)) /\ (PosOK(s)' <=> PosOK(s))
  BY DEF AtPeer, PosOK, Sent
<1>4. \A s, x, t : Move(s, x, t)' <=> Move(s, x, t)
  BY DEF Move, IsAt
<1>5. Aligned(f)'
  BY <1>1, <1>2, <1>3, <1>4 DEF Aligned
<1> QED
  BY <1>5

(* The first of the transport, and what is left of it. *)
LEMMA TakeHead ==
    ASSUME PeerTypeOK, wire # <<>>
    PROVE  /\ Head(wire) = wire[1] /\ Head(wire) \in Tokens
           /\ Head(wire).kind # "byte" => Head(wire).len <= MaxBytes
           /\ Tail(wire) \in Seq(Tokens) /\ Len(Tail(wire)) = Len(wire) - 1
           /\ \A k \in 1..(Len(wire) - 1) : Tail(wire)[k] = wire[k + 1]
  BY DEF PeerTypeOK

LEMMA FirstMove ==
    ASSUME PeerTypeOK, wire # <<>>, NEW f, Aligned(f)
    PROVE  /\ f[1] \in Positions /\ f[2] \in Positions
           /\ AtReader(f[1]) /\ PosOK(f[1]) /\ PosOK(f[2])
           /\ Move(f[1], Head(wire), f[2])
<1>1. Head(wire) = wire[1] /\ Len(wire) \in Nat /\ Len(wire) > 0
  BY TakeHead DEF PeerTypeOK
<1>2. /\ f \in Seq(Positions) /\ Len(f) = Len(wire) + 1 /\ AtReader(f[1])
      /\ \A k \in 1..(Len(wire) + 1) : PosOK(f[k])
      /\ \A k \in 1..Len(wire) : Move(f[k], wire[k], f[k + 1])
  BY DEF Aligned
<1>3. 1 \in 1..(Len(wire) + 1) /\ 2 \in 1..(Len(wire) + 1) /\ 1 \in 1..Len(wire)
  BY <1>1
<1>4. PosOK(f[1]) /\ PosOK(f[2]) /\ Move(f[1], wire[1], f[1 + 1])
  BY <1>2, <1>3
<1> QED
  BY <1>1, <1>2, <1>3, <1>4

(* The reader takes the head. *)
LEMMA PopAligned ==
    ASSUME PeerTypeOK, wire # <<>>, wire' = Tail(wire), UNCHANGED <<peer, msgs>>,
           NEW f, Aligned(f), AtReader(f[2])'
    PROVE  AlignedInv'
<1>1. /\ f \in Seq(Positions) /\ Len(f) = Len(wire) + 1
      /\ AtPeer(f[Len(wire) + 1])
      /\ \A k \in 1..(Len(wire) + 1) : PosOK(f[k])
      /\ \A k \in 1..Len(wire) : Move(f[k], wire[k], f[k + 1])
  BY DEF Aligned
<1>2. /\ Len(wire) \in Nat /\ Len(wire) > 0
      /\ Len(wire') = Len(wire) - 1
      /\ \A k \in 1..(Len(wire) - 1) : wire'[k] = wire[k + 1]
  BY TakeHead DEF PeerTypeOK
<1>3. PICK g \in Seq(Positions) :
         Len(g) = Len(wire) /\ \A k \in 1..Len(wire) : g[k] = f[k + 1]
  <2>1. /\ Tail(f) \in Seq(Positions) /\ Len(Tail(f)) = Len(wire)
        /\ \A k \in 1..Len(wire) : Tail(f)[k] = f[k + 1]
    BY <1>1, <1>2
  <2> QED
    BY <2>1
<1>4. \A s : (AtPeer(s)' <=> AtPeer(s)) /\ (PosOK(s)' <=> PosOK(s))
  BY DEF AtPeer, PosOK, Sent
<1>5. \A s, x, t : Move(s, x, t)' <=> Move(s, x, t)
  BY DEF Move, IsAt
<1>6. AtReader(g[1])' /\ AtPeer(g[Len(wire) + 1])'
  BY <1>1, <1>2, <1>3, <1>4
<1>7. \A k \in 1..Len(wire) : PosOK(g[k])'
  BY <1>1, <1>2, <1>3, <1>4
<1>8. ASSUME NEW k \in 1..(Len(wire) - 1)
      PROVE  Move(g[k], wire[k], g[k + 1])'
  <2>1. k + 1 \in 1..Len(wire) /\ k \in 1..Len(wire)
    BY <1>2
  <2>2. Move(f[k + 1], wire[k + 1], f[(k + 1) + 1])
    BY <1>1, <2>1
  <2>3. g[k] = f[k + 1] /\ g[k + 1] = f[(k + 1) + 1] /\ wire'[k] = wire[k + 1]
    BY <1>2, <1>3, <2>1
  <2> QED
    BY <1>5, <2>2, <2>3
<1>9. Aligned(g)'
  BY <1>2, <1>3, <1>6, <1>7, <1>8 DEF Aligned
<1> QED
  BY <1>9 DEF AlignedInv

(* The peer sends x. *)
LEMMA AppendAligned ==
    ASSUME PeerTypeOK, PeerTypeOK', NEW x \in Tokens, wire' = Append(wire, x),
           UNCHANGED <<closed, fin, payloadLength, call, result, got, user, pc,
                       netErr, delivered>>,
           Len(msgs) <= Len(msgs'),
           \A i \in 1..Len(msgs) : msgs'[i].type = msgs[i].type,
           \A s \in Positions : PosOK(s) /\ ~s.done => PosOK(s)',
           \A s \in Positions :
              AtPeer(s) /\ PosOK(s) =>
                 \E t \in Positions : AtPeer(t)' /\ PosOK(t)' /\ Move(s, x, t)',
           AlignedInv
    PROVE  AlignedInv'
<1> SUFFICES ASSUME ~Over' PROVE \E f : Aligned(f)'
  BY DEF AlignedInv
<1>1. ~Over
  BY DEF Over
<1>2. PICK f : Aligned(f)
  BY <1>1 DEF AlignedInv
<1>4. PICK n \in Nat : n = Len(wire)
  BY DEF PeerTypeOK
<1>3. /\ f \in Seq(Positions) /\ Len(f) = n + 1
      /\ AtReader(f[1]) /\ AtPeer(f[n + 1])
      /\ \A k \in 1..(n + 1) : PosOK(f[k])
      /\ \A k \in 1..n : Move(f[k], wire[k], f[k + 1])
  BY <1>2, <1>4 DEF Aligned
<1>5. PICK t \in Positions :
         AtPeer(t)' /\ PosOK(t)' /\ Move(f[n + 1], x, t)'
  BY <1>3, <1>4
<1>6. PICK g \in Seq(Positions) :
         /\ Len(g) = n + 2 /\ g[n + 2] = t
         /\ \A k \in 1..(n + 1) : g[k] = f[k]
  <2>1. /\ Append(f, t) \in Seq(Positions)
        /\ Len(Append(f, t)) = n + 2 /\ Append(f, t)[n + 2] = t
        /\ \A k \in 1..(n + 1) : Append(f, t)[k] = f[k]
    BY <1>3, <1>4
  <2> QED
    BY <2>1
<1>7. /\ Len(wire') = n + 1 /\ wire'[n + 1] = x
      /\ \A k \in 1..n : wire'[k] = wire[k]
  BY <1>4 DEF PeerTypeOK
<1>8. AtReader(g[1])'
  <2>1. g[1] = f[1]
    BY <1>4, <1>6
  <2> QED
    BY <2>1, <1>3 DEF AtReader, LastBytes, Pending
<1>9. ASSUME NEW k \in 1..n
      PROVE  Move(g[k], wire[k], g[k + 1])' /\ PosOK(g[k])'
  <2>1. k \in 1..(n + 1) /\ k + 1 \in 1..(n + 1)
    BY <1>4
  <2>2. /\ Move(f[k], wire[k], f[k + 1]) /\ PosOK(f[k]) /\ PosOK(f[k + 1])
        /\ f[k] \in Positions /\ f[k + 1] \in Positions
    BY <1>3, <2>1
  <2>3. g[k] = f[k] /\ g[k + 1] = f[k + 1] /\ wire'[k] = wire[k]
    BY <1>6, <1>7, <2>1
  <2>4. f[k + 1].m \in 1..Len(msgs)
           => msgs'[f[k + 1].m].type = msgs[f[k + 1].m].type
    OBVIOUS
  <2>5. f[k].m \in Nat /\ f[k + 1].m \in Nat /\ f[k + 1].m <= Len(msgs)
    BY <2>2 DEF Positions, PosOK
  <2>6. Len(msgs) \in Nat
    BY DEF PeerTypeOK
  <2>7. Move(f[k], wire[k], f[k + 1])'
    BY <2>2, <2>3, <2>4, <2>5, <2>6 DEF Move, IsAt
  <2>8. PosOK(f[k])'
    BY <2>2 DEF Move
  <2> QED
    BY <2>3, <2>7, <2>8
<1>10. g[n + 1] = f[n + 1]
  BY <1>4, <1>6
<1>11. Move(g[n + 1], x, g[n + 2])'
  BY <1>5, <1>6, <1>10
<1>12. PosOK(g[n + 1])'
  BY <1>3, <1>4, <1>5, <1>10 DEF Move
<1>13. \A k \in 1..(n + 2) : PosOK(g[k])'
  <2> SUFFICES ASSUME NEW k \in 1..(n + 2) PROVE PosOK(g[k])'
    OBVIOUS
  <2>1. k \in 1..n \/ k = n + 1 \/ k = n + 2
    BY <1>4, <1>7
  <2> QED
    BY <2>1, <1>5, <1>6, <1>9, <1>12
<1>14. \A k \in 1..(n + 1) : Move(g[k], wire[k], g[k + 1])'
  <2> SUFFICES ASSUME NEW k \in 1..(n + 1) PROVE Move(g[k], wire[k], g[k + 1])'
    OBVIOUS
  <2>1. CASE k \in 1..n
    BY <2>1, <1>9
  <2>2. CASE k = n + 1
    <3>1. k + 1 = n + 2
      BY <2>2, <1>4
    <3> QED
      BY <2>2, <3>1, <1>7, <1>11
  <2> QED
    BY <2>1, <2>2, <1>4, <1>7
<1>15. Aligned(g)'
  <2>1. Len(wire') = n + 1 /\ Len(wire') + 1 = n + 2
    BY <1>4, <1>7
  <2>2. AtPeer(g[n + 2])'
    BY <1>5, <1>6
  <2>3. AtPeer(g[Len(wire) + 1])'
    BY <2>1, <2>2
  <2> QED
    BY <1>6, <1>8, <1>13, <1>14, <2>1, <2>3 DEF Aligned
<1> QED
  BY <1>15

-----------------------------------------------------------------------------
(* The peer. *)

LEMMA PeerKeeps ==
    ASSUME IInv, UNCHANGED <<closed, msgReaderVars, call, result, got>>,
           UNCHANGED Others, Len(msgs) <= Len(msgs'),
           \A i \in 1..Len(msgs) :
              /\ msgs'[i].type = msgs[i].type /\ msgs[i].len <= msgs'[i].len
              /\ msgs[i].whole => msgs'[i].whole /\ msgs'[i].len = msgs[i].len
              /\ i < Len(msgs) => msgs'[i] = msgs[i],
           ~peer.gone, Sent <= Sent', peer.done => peer'.done /\ Sent' = Sent,
           PeerTypeOK', PeerInv', AlignedInv'
    PROVE  IInv'
<1>1. UNCHANGED <<user, pc, want, reader, readEOFed, netErr, delivered>>
  BY DEF Others, netVars
<1>2. UNCHANGED <<closed, fin, payloadLength, limited, call, result, got>>
  BY DEF msgReaderVars
<1>3. /\ Len(msgs) \in Nat /\ Len(msgs') \in Nat /\ Len(got) \in Nat
      /\ got \in Seq(Readings)
      /\ \A i \in 1..Len(got) : Len(got[i].bytes) \in Nat
      /\ \A i \in 1..Len(msgs) : msgs[i].len \in Nat /\ msgs'[i].len \in Nat
  <2>1. /\ msgs \in Seq(Messages) /\ msgs' \in Seq(Messages)
        /\ got \in Seq(Readings)
    BY DEF IInv, PeerTypeOK, CallTypeOK
  <2>2. \A i \in 1..Len(msgs) : msgs[i] \in Messages /\ msgs'[i] \in Messages
    BY <2>1
  <2>3. \A i \in 1..Len(got) : got[i] \in Readings
    BY <2>1
  <2> QED
    BY <2>1, <2>2, <2>3 DEF Messages, Readings
<1>4. CallTypeOK' /\ NetTypeOK' /\ CallInv' /\ UserInv'
  BY <1>1, <1>2 DEF IInv, CallTypeOK, NetTypeOK, CallInv, UserInv
<1>5. TimerTypeOK'
  BY DEF IInv, TimerTypeOK, Others, timerVars, lockVars
<1>6. MessagesInOrder'
  <2>1. Len(got) <= Len(msgs)
    BY DEF IInv, MessagesInOrder
  <2>2. ASSUME NEW i \in DOMAIN got
        PROVE  /\ got[i].type = msgs'[i].type
               /\ \A k \in DOMAIN got[i].bytes : got[i].bytes[k] = i
               /\ Len(got[i].bytes) <= msgs'[i].len
               /\ i < Len(got) => Len(got[i].bytes) = msgs'[i].len
               /\ got[i].eof => /\ msgs'[i].whole
                                /\ Len(got[i].bytes) = msgs'[i].len
    <3>1. i \in 1..Len(got) /\ i \in 1..Len(msgs)
      BY <1>3, <2>1
    <3>2. /\ got[i].type = msgs[i].type
          /\ \A k \in DOMAIN got[i].bytes : got[i].bytes[k] = i
          /\ Len(got[i].bytes) <= msgs[i].len
          /\ i < Len(got) => Len(got[i].bytes) = msgs[i].len
          /\ got[i].eof => msgs[i].whole /\ Len(got[i].bytes) = msgs[i].len
      BY DEF IInv, MessagesInOrder
    <3>3. /\ msgs'[i].type = msgs[i].type /\ msgs[i].len <= msgs'[i].len
          /\ msgs[i].whole => msgs'[i].whole /\ msgs'[i].len = msgs[i].len
          /\ i < Len(msgs) => msgs'[i] = msgs[i]
      BY <3>1
    <3>4. msgs[i].len \in Nat /\ msgs'[i].len \in Nat /\ Len(got[i].bytes) \in Nat
      BY <1>3, <3>1
    <3> QED
      BY <1>3, <2>1, <3>1, <3>2, <3>3, <3>4
  <2> QED
    BY <1>2, <1>3, <2>1, <2>2 DEF MessagesInOrder
<1>7. LimitInv'
  <2>1. got # <<>> => Len(got) \in 1..Len(msgs)
    BY <1>3 DEF IInv, MessagesInOrder
  <2>2. got # <<>> => msgs[Len(got)].len <= msgs'[Len(got)].len
    BY <2>1
  <2>3. got # <<>> => msgs[Len(got)].len \in Nat /\ msgs'[Len(got)].len \in Nat
    BY <1>3, <2>1
  <2> QED
    BY <1>1, <1>2, <2>2, <2>3, LimitAssumption DEF IInv, LimitInv, LastBytes
<1>8. StreamInv'
  <2>1. Sent \in Int /\ Sent' \in Int /\ delivered \in Nat /\ result.n \in Nat
    <3>1. PeerTypeOK /\ NetTypeOK /\ CallTypeOK
      BY DEF IInv
    <3>2. Sent \in Int /\ Sent' \in Int
      <4>1. /\ peer.bytes \in 0..MaxBytes /\ peer.left \in 0..MaxBytes
            /\ peer'.bytes \in 0..MaxBytes /\ peer'.left \in 0..MaxBytes
        BY <3>1 DEF PeerTypeOK
      <4>2. /\ peer.bytes \in Int /\ peer.left \in Int
            /\ peer'.bytes \in Int /\ peer'.left \in Int
        BY <4>1
      <4> QED
        BY <4>2 DEF Sent
    <3>3. delivered \in Nat
      BY <3>1 DEF NetTypeOK
    <3>4. result.n \in Nat
      BY <3>1 DEF CallTypeOK
    <3> QED
      BY <3>2, <3>3, <3>4
  <2>2. Pending' = Pending /\ Pending \in Nat
    BY <1>2, <2>1 DEF Pending
  <2> QED
    BY <1>1, <1>2, <2>1, <2>2 DEF IInv, StreamInv
<1> QED
  BY <1>4, <1>5, <1>6, <1>7, <1>8 DEF IInv

(* The frame that the peer sends, and where it is then. *)
LEMMA Frame ==
    ASSUME IInv, NEW op \in Kinds \ {"byte"}, NEW f \in BOOLEAN,
           NEW n \in 0..MaxBytes, PeerSends(op, f, n)
    PROVE  /\ Header(op, f, n) \in Tokens /\ wire' = Append(wire, Header(op, f, n))
           /\ Header(op, f, n).kind = op /\ (Header(op, f, n).fin <=> f)
           /\ Header(op, f, n).len = n
           /\ wire' \in Seq(Tokens)
           /\ \A k \in 1..Len(wire') :
                 wire'[k].kind # "byte" => wire'[k].len <= MaxBytes
           /\ peer' \in [left : 0..MaxBytes, fin : BOOLEAN, open : BOOLEAN,
                         done : BOOLEAN, gone : BOOLEAN, frames : 0..MaxFrames,
                         bytes : 0..MaxBytes]
           /\ peer'.left = n /\ (peer'.fin <=> f)
           /\ peer'.bytes = peer.bytes + n /\ ~peer'.gone
           /\ peer.left = 0 /\ peer.bytes \in Nat /\ ~peer.done /\ ~peer.gone
           /\ Sent' = Sent /\ Sent \in Nat /\ Sent = peer.bytes
           /\ peer'.done <=> \/ op \in Closes \cup {"illegal"}
                             \/ op \in Types /\ peer.open
                             \/ op = "cont" /\ ~peer.open
           /\ peer'.open <=> IF op \in Types \cup {"cont"} THEN ~f ELSE peer.open
           /\ UNCHANGED <<closed, msgReaderVars, call, result, got>>
<1> DEFINE h == Header(op, f, n)
<1>1. h \in Tokens /\ h.kind = op /\ (h.fin <=> f) /\ h.len = n
  BY ReaderBoundsAssumption DEF Header, Tokens
<1>2. /\ peer \in [left : 0..MaxBytes, fin : BOOLEAN, open : BOOLEAN,
                   done : BOOLEAN, gone : BOOLEAN, frames : 0..MaxFrames,
                   bytes : 0..MaxBytes]
      /\ wire \in Seq(Tokens)
      /\ \A k \in 1..Len(wire) : wire[k].kind # "byte" => wire[k].len <= MaxBytes
  BY DEF IInv, PeerTypeOK
<1>3. /\ wire' = Append(wire, h) /\ ~peer.done /\ ~peer.gone /\ peer.left = 0
      /\ peer.frames < MaxFrames /\ peer.bytes + n <= MaxBytes
      /\ UNCHANGED <<closed, msgReaderVars, call, result, got>>
  BY DEF PeerSends
<1>4. /\ peer'.left = n /\ (peer'.fin <=> f) /\ peer'.bytes = peer.bytes + n
      /\ ~peer'.gone
      /\ peer'.done <=> \/ op \in Closes \cup {"illegal"}
                        \/ op \in Types /\ peer.open
                        \/ op = "cont" /\ ~peer.open
      /\ peer'.open <=> IF op \in Types \cup {"cont"} THEN ~f ELSE peer.open
  BY DEF PeerSends
<1>5. peer' \in [left : 0..MaxBytes, fin : BOOLEAN, open : BOOLEAN,
                 done : BOOLEAN, gone : BOOLEAN, frames : 0..MaxFrames,
                 bytes : 0..MaxBytes]
  <2>1. /\ peer.frames + 1 \in 0..MaxFrames /\ peer.bytes + n \in 0..MaxBytes
        /\ peer.open \in BOOLEAN
    BY <1>2, <1>3, ReaderBoundsAssumption
  <2>2. (IF op \in Types \cup {"cont"} THEN ~f ELSE peer.open) \in BOOLEAN
    BY <2>1
  <2> QED
    BY <2>1, <2>2 DEF PeerSends
<1> HIDE DEF h
<1>6. wire' \in Seq(Tokens)
  BY <1>1, <1>2, <1>3
<1>7. \A k \in 1..Len(wire') : wire'[k].kind # "byte" => wire'[k].len <= MaxBytes
  BY <1>1, <1>2, <1>3
<1>8. Sent' = Sent /\ Sent \in Nat /\ peer.bytes \in Nat /\ Sent = peer.bytes
  BY <1>2, <1>3, <1>4 DEF Sent
<1> QED
  BY <1>1, <1>3, <1>4, <1>5, <1>6, <1>7, <1>8 DEF h

LEMMA SendDataInv ==
    ASSUME IInv, NEW f \in BOOLEAN, NEW n \in 0..MaxBytes, SendData(f, n),
           UNCHANGED Others
    PROVE  IInv'
<1>1. PICK t \in Types :
         /\ ~peer.open /\ PeerSends(t, f, n)
         /\ msgs' = Append(msgs, [type |-> t, len |-> n, whole |-> f /\ n = 0])
  BY DEF SendData
<1> DEFINE m == [type |-> t, len |-> n, whole |-> f /\ n = 0]
           x == Header(t, f, n)
<1>2. /\ t \in Kinds \ {"byte"} /\ t \notin Closes \cup {"illegal"} /\ t # "cont"
      /\ t \notin Controls
  BY TypesAssumption DEF Kinds, Closes, Controls
<1>3. m \in Messages /\ m.type = t /\ m.len = n /\ (m.whole <=> f /\ n = 0)
  <2>1. (f /\ n = 0) \in BOOLEAN /\ n \in Nat
    BY ReaderBoundsAssumption
  <2>2. m \in Messages
    BY <2>1 DEF Messages
  <2>3. m.type = t /\ m.len = n
    OBVIOUS
  <2>4. m.whole <=> f /\ n = 0
    BY Zenon
  <2> QED
    BY <2>2, <2>3, <2>4
<1>4. msgs \in Seq(Messages) /\ msgs' = Append(msgs, m)
  BY <1>1 DEF IInv, PeerTypeOK
<1> HIDE DEF m
<1>5. /\ Len(msgs) \in Nat /\ Len(msgs') = Len(msgs) + 1
      /\ msgs' \in Seq(Messages) /\ msgs'[Len(msgs) + 1] = m /\ msgs' # <<>>
      /\ \A i \in 1..Len(msgs) : msgs'[i] = msgs[i]
  BY <1>3, <1>4
<1>6. PeerTypeOK'
  BY <1>1, <1>2, <1>5, Frame DEF PeerTypeOK
<1>7. /\ peer'.left = n /\ (peer'.fin <=> f) /\ ~peer'.done
      /\ (peer'.open <=> ~f) /\ Sent' = Sent /\ Sent \in Nat
      /\ peer.fin /\ peer'.bytes = peer.bytes + n /\ peer.bytes \in Nat
      /\ n \in Nat
  BY <1>1, <1>2, Frame, ReaderBoundsAssumption DEF IInv, PeerInv
<1>8. msgs'[Len(msgs')] = m
  BY <1>5
<1>9. PeerInv'
  BY <1>3, <1>5, <1>7, <1>8 DEF PeerInv
<1>10. AlignedInv'
  <2>1. ASSUME NEW s \in Positions, PosOK(s) PROVE PosOK(s)'
    <3>1. s.m \in Nat /\ s.m <= Len(msgs) /\ s.m # Len(msgs')
      BY <1>5, <2>1 DEF PosOK, Positions
    <3>2. s.m > 0 => msgs'[s.m] = msgs[s.m]
      BY <1>5, <3>1
    <3> QED
      BY <1>5, <1>7, <2>1, <3>1, <3>2 DEF PosOK
  <2>2. ASSUME NEW s \in Positions, AtPeer(s), PosOK(s)
        PROVE  \E p \in Positions : AtPeer(p)' /\ PosOK(p)' /\ Move(s, x, p)'
    <3> DEFINE p == [m |-> Len(msgs) + 1, fin |-> f, left |-> n, n |-> 0,
                     total |-> Sent, done |-> FALSE]
    <3>1. p \in Positions /\ IsAt(p, Len(msgs) + 1, f, n, 0, Sent)
      BY <1>5, <1>7 DEF Positions, IsAt
    <3> HIDE DEF p
    <3>2. PICK r \in Positions : IsAt(r, Len(msgs) + 1, f, n, 0, Sent)
      BY <3>1
    <3>3. /\ r.m = Len(msgs) + 1 /\ (r.fin <=> f) /\ r.left = n /\ r.n = 0
          /\ r.total = Sent /\ ~r.done
      BY <3>2 DEF IsAt
    <3>4. AtPeer(r)'
      BY <1>3, <1>5, <1>7, <1>8, <3>3 DEF AtPeer
    <3>5. PosOK(r)'
      BY <1>3, <1>5, <1>7, <3>3 DEF PosOK
    <3>6. s.m = Len(msgs) /\ s.fin /\ s.left = 0 /\ ~s.done /\ s.total = Sent
      BY <1>1, <1>2, <1>7, <2>2, Frame DEF AtPeer
    <3>7. x.kind = t /\ (x.fin <=> f) /\ x.len = n
      BY <1>1, <1>2, Frame
    <3>8. x.kind = msgs'[r.m].type
      BY <1>3, <1>5, <3>3, <3>7
    <3>9. Move(s, x, r)'
      BY <1>1, <3>3, <3>6, <3>7, <3>8 DEF Move, IsAt
    <3> QED
      BY <3>4, <3>5, <3>9
  <2>3. /\ x \in Tokens /\ wire' = Append(wire, x)
        /\ UNCHANGED <<closed, msgReaderVars, call, result, got>>
    BY <1>1, <1>2, Frame
  <2>4. UNCHANGED <<closed, fin, payloadLength, call, result, got, user, pc,
                    netErr, delivered>>
    BY <2>3 DEF Others, netVars, msgReaderVars
  <2>5. Len(msgs) <= Len(msgs')
        /\ \A i \in 1..Len(msgs) : msgs'[i].type = msgs[i].type
    BY <1>5
  <2> HIDE DEF x
  <2> QED
    BY <1>6, <2>1, <2>2, <2>3, <2>4, <2>5, AppendAligned DEF IInv
<1>11. UNCHANGED <<closed, msgReaderVars, call, result, got>> /\ ~peer.gone
       /\ ~peer.done
  BY <1>1, <1>2, Frame
<1>12. \A i \in 1..Len(msgs) :
          /\ msgs'[i].type = msgs[i].type /\ msgs[i].len <= msgs'[i].len
          /\ msgs[i].whole => msgs'[i].whole /\ msgs'[i].len = msgs[i].len
          /\ i < Len(msgs) => msgs'[i] = msgs[i]
  <2>1. \A i \in 1..Len(msgs) : msgs[i] \in Messages
    BY <1>4
  <2>2. \A i \in 1..Len(msgs) : msgs[i].len \in Nat
    BY <2>1 DEF Messages
  <2> QED
    BY <1>5, <2>2
<1>13. Len(msgs) <= Len(msgs') /\ Sent <= Sent'
  BY <1>5, <1>7
<1> QED
  BY <1>6, <1>9, <1>10, <1>11, <1>12, <1>13, PeerKeeps

(* A frame that neither begins a message nor adds to one; d: it is the last. *)
LEMMA OtherFrameInv ==
    ASSUME IInv, NEW op \in Kinds \ {"byte"}, NEW f \in BOOLEAN,
           PeerSends(op, f, 0), UNCHANGED msgs, UNCHANGED Others,
           \/ op \in Controls /\ f = peer.fin
           \/ op \in Closes \cup {"illegal"} /\ f = peer.fin
           \/ op = "cont" /\ ~peer.open /\ f
           \/ op \in Types /\ peer.open /\ f
    PROVE  IInv'
<1> DEFINE x == Header(op, f, 0)
<1>1. /\ x \in Tokens /\ wire' = Append(wire, x) /\ x.kind = op
      /\ (x.fin <=> f) /\ x.len = 0
      /\ UNCHANGED <<closed, msgReaderVars, call, result, got>>
      /\ peer'.left = 0 /\ (peer'.fin <=> f) /\ peer'.bytes = peer.bytes
      /\ peer.left = 0 /\ peer.bytes \in Nat /\ ~peer.done /\ ~peer.gone
      /\ Sent' = Sent /\ Sent \in Nat
  BY Frame, ReaderBoundsAssumption
<1>2. PeerTypeOK'
  BY Frame, ReaderBoundsAssumption DEF IInv, PeerTypeOK
<1>3. /\ peer'.open <=> ~f
      /\ peer.fin => f
      /\ peer'.done <=> op \notin Controls
  <2>1. /\ peer'.done <=> \/ op \in Closes \cup {"illegal"}
                          \/ op \in Types /\ peer.open
                          \/ op = "cont" /\ ~peer.open
        /\ peer'.open <=> IF op \in Types \cup {"cont"} THEN ~f ELSE peer.open
    BY Frame, ReaderBoundsAssumption
  <2>2. peer.open <=> ~peer.fin
    BY DEF IInv, PeerInv
  <2> QED
    BY <2>1, <2>2, TypesAssumption DEF Controls, Closes
<1>4. PeerInv'
  BY <1>1, <1>3 DEF IInv, PeerInv
<1>5. AlignedInv'
  <2>1. ASSUME NEW s \in Positions, PosOK(s) PROVE PosOK(s)'
    BY <1>1, <1>3, <2>1 DEF PosOK
  <2>2. ASSUME NEW s \in Positions, AtPeer(s), PosOK(s)
        PROVE  \E p \in Positions : AtPeer(p)' /\ PosOK(p)' /\ Move(s, x, p)'
    <3>1. /\ s.m = Len(msgs) /\ (s.fin <=> peer.fin) /\ s.left = 0 /\ ~s.done
          /\ s.total = Sent
          /\ s.n = IF msgs = <<>> THEN 0 ELSE msgs[Len(msgs)].len - peer.left
      BY <1>1, <2>2 DEF AtPeer
    <3>2. PICK p \in Positions :
             /\ p.m = s.m /\ (p.fin <=> f) /\ p.left = 0 /\ p.n = s.n
             /\ p.total = s.total /\ (p.done <=> op \notin Controls)
      <4>1. [s EXCEPT !.fin = f, !.left = 0, !.done = (op \notin Controls)]
               \in Positions
        BY DEF Positions
      <4> QED
        BY <4>1 DEF Positions
    <3>3. AtPeer(p)'
      BY <1>1, <1>3, <3>1, <3>2 DEF AtPeer
    <3>4. PosOK(p)'
      <4>1. op \in Controls => (f <=> s.fin)
        BY <3>1, TypesAssumption DEF Controls, Closes
      <4>2. s.n \in Nat /\ s.m \in Nat
        BY DEF Positions
      <4>3. p.fin /\ ~p.done => s.fin /\ ~s.done
        BY <3>1, <3>2, <4>1
      <4>4. s.m = 0 => p.fin
        BY <1>3, <2>2, <3>1, <3>2 DEF PosOK
      <4> QED
        BY <1>1, <2>2, <3>1, <3>2, <4>2, <4>3, <4>4 DEF PosOK
    <3>5. Move(s, x, p)'
      <4>1. peer.open <=> ~peer.fin
        BY DEF IInv, PeerInv
      <4>2. op \in Controls => (f <=> s.fin)
        BY <3>1, TypesAssumption DEF Controls, Closes
      <4> QED
        BY <1>1, <3>1, <3>2, <4>1, <4>2, TypesAssumption
           DEF Move, IsAt, Controls, Closes
    <3> QED
      BY <3>3, <3>4, <3>5
  <2>3. UNCHANGED <<closed, fin, payloadLength, call, result, got, user, pc,
                    netErr, delivered>>
    BY <1>1 DEF Others, netVars, msgReaderVars
  <2>4. Len(msgs) <= Len(msgs')
        /\ \A i \in 1..Len(msgs) : msgs'[i].type = msgs[i].type
    BY DEF IInv, PeerTypeOK
  <2> HIDE DEF x
  <2> QED
    BY <1>1, <1>2, <2>1, <2>2, <2>3, <2>4, AppendAligned DEF IInv
<1>6. /\ \A i \in 1..Len(msgs) :
            /\ msgs'[i].type = msgs[i].type /\ msgs[i].len <= msgs'[i].len
            /\ msgs[i].whole => msgs'[i].whole /\ msgs'[i].len = msgs[i].len
            /\ i < Len(msgs) => msgs'[i] = msgs[i]
      /\ Len(msgs) <= Len(msgs') /\ Sent <= Sent'
  <2>1. msgs \in Seq(Messages)
    BY DEF IInv, PeerTypeOK
  <2>2. \A i \in 1..Len(msgs) : msgs[i] \in Messages
    BY <2>1
  <2>3. \A i \in 1..Len(msgs) : msgs[i].len \in Nat
    BY <2>2 DEF Messages
  <2> QED
    BY <1>1, <2>1, <2>3
<1> QED
  BY <1>1, <1>2, <1>4, <1>5, <1>6, PeerKeeps

LEMMA SetLast ==
    ASSUME NEW S, NEW s \in Seq(S), s # <<>>, NEW m \in S
    PROVE  /\ [s EXCEPT ![Len(s)] = m] \in Seq(S)
           /\ Len([s EXCEPT ![Len(s)] = m]) = Len(s)
           /\ [s EXCEPT ![Len(s)] = m][Len(s)] = m
           /\ \A i \in 1..Len(s) : i < Len(s) => [s EXCEPT ![Len(s)] = m][i] = s[i]
           /\ Len(s) \in Nat /\ Len(s) > 0 /\ s[Len(s)] \in S
           /\ [s EXCEPT ![Len(s)] = m] # <<>>
  OBVIOUS

LEMMA LastMessage ==
    ASSUME IInv, msgs # <<>>
    PROVE  /\ msgs \in Seq(Messages) /\ Len(msgs) \in Nat /\ Len(msgs) > 0
           /\ msgs[Len(msgs)] \in Messages /\ msgs[Len(msgs)].len \in Nat
           /\ msgs[Len(msgs)].type \in Types
<1>1. msgs \in Seq(Messages)
  BY DEF IInv, PeerTypeOK
<1>2. msgs[Len(msgs)] \in Messages /\ Len(msgs) \in Nat /\ Len(msgs) > 0
  BY <1>1
<1> QED
  BY <1>1, <1>2 DEF Messages

LEMMA LongerFields ==
    ASSUME NEW r \in Messages, NEW n, NEW w
    PROVE  /\ Longer(r, n, w).type = r.type /\ Longer(r, n, w).len = r.len + n
           /\ Longer(r, n, w).whole = w
  BY DEF Messages, Longer

LEMMA LongerType ==
    ASSUME NEW r \in Messages, NEW n \in Nat, NEW w \in BOOLEAN
    PROVE  Longer(r, n, w) \in Messages
<1>1. r.len + n \in Nat
  BY DEF Messages
<1> DEFINE l == r.len + n
<1> HIDE DEF l
<1>2. [r EXCEPT !.len = l, !.whole = w] \in Messages
  BY <1>1 DEF Messages, l
<1> QED
  BY <1>2 DEF Longer, l

(* t: s with its last message grown. *)
LEMMA Grown ==
    ASSUME NEW s \in Seq(Messages), s # <<>>, NEW m \in Messages, NEW t,
           t = [s EXCEPT ![Len(s)] = m], m.type = s[Len(s)].type,
           s[Len(s)].len <= m.len
    PROVE  \A i \in 1..Len(s) :
              t[i].type = s[i].type /\ s[i].len <= t[i].len
<1> SUFFICES ASSUME NEW i \in 1..Len(s)
             PROVE  t[i].type = s[i].type /\ s[i].len <= t[i].len
  OBVIOUS
<1>1. /\ t[Len(s)] = m /\ Len(s) \in Nat
      /\ i < Len(s) => t[i] = s[i]
  BY SetLast
<1>2. s[i] \in Messages
  OBVIOUS
<1>3. s[i].len \in Nat
  BY <1>2 DEF Messages
<1>4. i < Len(s) \/ i = Len(s)
  BY <1>1
<1>5. CASE i < Len(s)
  BY <1>1, <1>3, <1>5
<1>6. CASE i = Len(s)
  BY <1>1, <1>6
<1> QED
  BY <1>4, <1>5, <1>6

(* The last message grows. *)
LEMMA LastGrows ==
    ASSUME IInv, msgs # <<>>, NEW m \in Messages,
           msgs' = [msgs EXCEPT ![Len(msgs)] = m],
           m.type = msgs[Len(msgs)].type, msgs[Len(msgs)].len <= m.len,
           ~msgs[Len(msgs)].whole
    PROVE  /\ msgs' \in Seq(Messages) /\ msgs' # <<>>
           /\ Len(msgs') = Len(msgs) /\ msgs'[Len(msgs)] = m
           /\ Len(msgs) \in Nat /\ Len(msgs) > 0
           /\ msgs[Len(msgs)].len \in Nat
           /\ \A i \in 1..Len(msgs) :
                 /\ msgs'[i].type = msgs[i].type /\ msgs[i].len <= msgs'[i].len
                 /\ msgs[i].whole => /\ msgs'[i].whole
                                     /\ msgs'[i].len = msgs[i].len
                 /\ i < Len(msgs) => msgs'[i] = msgs[i]
<1>1. /\ msgs \in Seq(Messages) /\ Len(msgs) \in Nat /\ Len(msgs) > 0
      /\ msgs[Len(msgs)].len \in Nat
  BY LastMessage
<1>2. /\ msgs' \in Seq(Messages) /\ Len(msgs') = Len(msgs)
      /\ msgs'[Len(msgs)] = m
      /\ \A i \in 1..Len(msgs) : i < Len(msgs) => msgs'[i] = msgs[i]
      /\ msgs' # <<>>
  BY <1>1, SetLast
<1>3. \A i \in 1..Len(msgs) :
         msgs'[i].type = msgs[i].type /\ msgs[i].len <= msgs'[i].len
  BY <1>1, Grown
<1>4. ASSUME NEW i \in 1..Len(msgs), msgs[i].whole PROVE msgs'[i] = msgs[i]
  <2>1. i # Len(msgs)
    BY <1>4
  <2>2. i < Len(msgs)
    BY <1>1, <2>1
  <2> QED
    BY <1>2, <2>2, Zenon
<1>5. \A i \in 1..Len(msgs) :
         msgs[i].whole => msgs'[i].whole /\ msgs'[i].len = msgs[i].len
  BY <1>4, Zenon
<1> QED
  BY <1>1, <1>2, <1>3, <1>5, Zenon

LEMMA SendContinuationInv ==
    ASSUME IInv, NEW f \in BOOLEAN, NEW n \in 0..MaxBytes,
           SendContinuation(f, n), UNCHANGED Others
    PROVE  IInv'
<1> DEFINE x == Header("cont", f, n)
<1>1. "cont" \in Kinds \ {"byte"} /\ PeerSends("cont", f, n) /\ peer.open
  BY DEF Kinds, SendContinuation
<1>2. /\ x \in Tokens /\ wire' = Append(wire, x) /\ x.kind = "cont"
      /\ (x.fin <=> f) /\ x.len = n
      /\ UNCHANGED <<closed, msgReaderVars, call, result, got>>
      /\ peer'.left = n /\ (peer'.fin <=> f) /\ peer'.bytes = peer.bytes + n
      /\ peer.left = 0 /\ peer.bytes \in Nat /\ ~peer.done /\ ~peer.gone
      /\ Sent' = Sent /\ Sent \in Nat
  BY <1>1, Frame
<1>3. (peer'.open <=> ~f) /\ ~peer'.done /\ ~peer.fin /\ msgs # <<>> /\ n \in Nat
  <2>1. /\ peer'.done <=> \/ "cont" \in Closes \cup {"illegal"}
                          \/ "cont" \in Types /\ peer.open
                          \/ "cont" = "cont" /\ ~peer.open
        /\ peer'.open <=> IF "cont" \in Types \cup {"cont"} THEN ~f ELSE peer.open
    BY <1>1, Frame
  <2>2. ~peer.fin /\ msgs # <<>>
    BY <1>1 DEF IInv, PeerInv
  <2> QED
    BY <1>1, <2>1, <2>2, TypesAssumption, ReaderBoundsAssumption DEF Closes
<1>14. PICK w \in BOOLEAN : w = (f /\ n = 0)
  BY Zenon
<1> DEFINE last == msgs[Len(msgs)]
           m == Longer(last, n, w)
<1>4. last \in Messages /\ last.len \in Nat
  BY <1>3, LastMessage
<1>5. /\ m \in Messages /\ m.type = last.type /\ m.len = last.len + n
      /\ (m.whole <=> f /\ n = 0)
  <2>1. m.type = last.type /\ m.len = last.len + n /\ m.whole = w
    BY <1>4, LongerFields
  <2>2. m \in Messages
    BY <1>3, <1>4, LongerType, Zenon
  <2> QED
    BY <1>14, <2>1, <2>2, Zenon
<1>6. msgs' = [msgs EXCEPT ![Len(msgs)] = m]
  BY <1>14, Zenon DEF SendContinuation
<1>7. ~last.whole
  BY <1>3 DEF IInv, PeerInv
<1>8. last.len <= m.len
  BY <1>3, <1>4, <1>5
<1> HIDE DEF m
<1>9. /\ msgs' \in Seq(Messages) /\ msgs' # <<>>
      /\ Len(msgs') = Len(msgs) /\ msgs'[Len(msgs)] = m
      /\ Len(msgs) \in Nat /\ Len(msgs) > 0
      /\ \A i \in 1..Len(msgs) :
            /\ msgs'[i].type = msgs[i].type /\ msgs[i].len <= msgs'[i].len
            /\ msgs[i].whole => msgs'[i].whole /\ msgs'[i].len = msgs[i].len
            /\ i < Len(msgs) => msgs'[i] = msgs[i]
  BY <1>3, <1>5, <1>6, <1>7, <1>8, LastGrows
<1>10. PeerTypeOK'
  BY <1>1, <1>9, Frame DEF PeerTypeOK
<1>11. PeerInv'
  BY <1>2, <1>3, <1>4, <1>5, <1>9 DEF PeerInv
<1>12. AlignedInv'
  <2>1. ASSUME NEW s \in Positions, PosOK(s), ~s.done PROVE PosOK(s)'
    <3>1. s.m \in Nat /\ s.n \in Nat /\ s.left \in Nat
      BY DEF Positions
    <3>2. CASE s.m > 0 /\ s.m = Len(msgs)
      <4>1. ~s.fin /\ s.n + s.left <= last.len /\ s.n + peer.left <= last.len
        BY <1>3, <2>1, <3>2 DEF PosOK
      <4>2. msgs'[s.m].len = last.len + n
        BY <1>5, <1>9, <3>2
      <4> QED
        BY <1>2, <1>3, <1>4, <1>9, <2>1, <3>1, <3>2, <4>1, <4>2 DEF PosOK
    <3>3. CASE s.m > 0 /\ s.m < Len(msgs)
      <4>1. msgs'[s.m] = msgs[s.m]
        BY <1>9, <3>1, <3>3
      <4> QED
        BY <1>2, <1>9, <2>1, <3>3, <4>1 DEF PosOK
    <3>4. CASE s.m = 0
      BY <1>2, <1>9, <2>1, <3>4 DEF PosOK
    <3> QED
      BY <1>9, <2>1, <3>1, <3>2, <3>3, <3>4 DEF PosOK
  <2>2. ASSUME NEW s \in Positions, AtPeer(s), PosOK(s)
        PROVE  \E p \in Positions : AtPeer(p)' /\ PosOK(p)' /\ Move(s, x, p)'
    <3>1. /\ s.m = Len(msgs) /\ ~s.fin /\ s.left = 0 /\ ~s.done
          /\ s.total = Sent /\ s.n = last.len
      BY <1>2, <1>3, <1>4, <2>2 DEF AtPeer
    <3>2. PICK p \in Positions :
             /\ p.m = s.m /\ (p.fin <=> f) /\ p.left = n /\ p.n = s.n
             /\ p.total = s.total /\ ~p.done
      <4>1. [s EXCEPT !.fin = f, !.left = n] \in Positions
        BY <1>3 DEF Positions
      <4> QED
        BY <3>1, <4>1 DEF Positions
    <3>3. AtPeer(p)' /\ PosOK(p)'
      BY <1>2, <1>3, <1>4, <1>5, <1>9, <3>1, <3>2 DEF AtPeer, PosOK
    <3>4. Move(s, x, p)'
      BY <1>2, <3>1, <3>2 DEF Move, IsAt
    <3> QED
      BY <3>3, <3>4
  <2>3. UNCHANGED <<closed, fin, payloadLength, call, result, got, user, pc,
                    netErr, delivered>>
    BY <1>2 DEF Others, netVars, msgReaderVars
  <2>4. Len(msgs) <= Len(msgs')
        /\ \A i \in 1..Len(msgs) : msgs'[i].type = msgs[i].type
    BY <1>9
  <2> HIDE DEF x
  <2> QED
    BY <1>2, <1>10, <2>1, <2>2, <2>3, <2>4, AppendAligned DEF IInv
<1> QED
  <2>1. Len(msgs) <= Len(msgs') /\ Sent <= Sent'
    BY <1>2, <1>9
  <2> QED
    BY <2>1, <1>2, <1>9, <1>10, <1>11, <1>12, PeerKeeps

LEMMA SendByteInv ==
    ASSUME IInv, SendByte, UNCHANGED Others
    PROVE  IInv'
<1>1. /\ peer.left > 0 /\ ~peer.gone /\ wire' = Append(wire, Byte(Len(msgs)))
      /\ peer' = [peer EXCEPT !.left = peer.left - 1]
      /\ msgs' = [msgs EXCEPT ![Len(msgs)] =
                    Longer(msgs[Len(msgs)], 0, peer.fin /\ peer.left = 1)]
      /\ UNCHANGED <<closed, msgReaderVars, call, result, got>>
  BY DEF SendByte
<1>2. /\ peer \in [left : 0..MaxBytes, fin : BOOLEAN, open : BOOLEAN,
                   done : BOOLEAN, gone : BOOLEAN, frames : 0..MaxFrames,
                   bytes : 0..MaxBytes]
      /\ msgs \in Seq(Messages) /\ wire \in Seq(Tokens)
      /\ \A k \in 1..Len(wire) : wire[k].kind # "byte" => wire[k].len <= MaxBytes
  BY DEF IInv, PeerTypeOK
<1>3. ~peer.done /\ msgs # <<>> /\ peer.left <= peer.bytes
  BY <1>1 DEF IInv, PeerInv
<1>4. PICK x \in Tokens :
         x.kind = "byte" /\ x.len = Len(msgs) /\ wire' = Append(wire, x)
  <2>1. Byte(Len(msgs)) \in Tokens /\ Byte(Len(msgs)).kind = "byte"
        /\ Byte(Len(msgs)).len = Len(msgs)
    BY <1>2 DEF Tokens, Kinds, Byte
  <2> QED
    BY <1>1, <2>1
<1>16. PICK w \in BOOLEAN : w = (peer.fin /\ peer.left = 1)
  BY Zenon
<1> DEFINE last == msgs[Len(msgs)]
           m == Longer(last, 0, w)
<1>5. last \in Messages /\ last.len \in Nat /\ last.type \in Types
  BY <1>3, LastMessage
<1>6. /\ m \in Messages /\ m.type = last.type /\ m.len = last.len
      /\ (m.whole <=> peer.fin /\ peer.left = 1)
  <2>1. m.type = last.type /\ m.len = last.len + 0 /\ m.whole = w
    BY <1>5, LongerFields
  <2>2. m \in Messages
    BY <1>5, LongerType
  <2>3. m.len = last.len
    BY <1>5, <2>1
  <2> QED
    BY <1>16, <2>1, <2>2, <2>3, Zenon
<1>7. msgs' = [msgs EXCEPT ![Len(msgs)] = m]
  BY <1>1, <1>16, Zenon
<1>8. ~last.whole /\ peer.left <= last.len
  BY <1>1, <1>3 DEF IInv, PeerInv
<1>9. last.len <= m.len
  BY <1>5, <1>6
<1> HIDE DEF m
<1>10. /\ msgs' \in Seq(Messages) /\ msgs' # <<>>
       /\ Len(msgs') = Len(msgs) /\ msgs'[Len(msgs)] = m
       /\ Len(msgs) \in Nat /\ Len(msgs) > 0
       /\ \A i \in 1..Len(msgs) :
             /\ msgs'[i].type = msgs[i].type /\ msgs[i].len <= msgs'[i].len
             /\ msgs[i].whole => msgs'[i].whole /\ msgs'[i].len = msgs[i].len
             /\ i < Len(msgs) => msgs'[i] = msgs[i]
  BY <1>3, <1>6, <1>7, <1>8, <1>9, LastGrows
<1>11. /\ peer'.left = peer.left - 1 /\ (peer'.fin <=> peer.fin)
       /\ (peer'.open <=> peer.open) /\ (peer'.done <=> peer.done)
       /\ peer'.bytes = peer.bytes /\ peer.left \in Nat /\ peer.bytes \in Nat
  BY <1>1, <1>2
<1>12. PeerTypeOK'
  <2>1. peer' \in [left : 0..MaxBytes, fin : BOOLEAN, open : BOOLEAN,
                   done : BOOLEAN, gone : BOOLEAN, frames : 0..MaxFrames,
                   bytes : 0..MaxBytes]
    <3>1. peer.left - 1 \in 0..MaxBytes
      BY <1>1, <1>2, ReaderBoundsAssumption
    <3> QED
      BY <1>1, <1>2, <3>1
  <2>2. /\ wire' \in Seq(Tokens)
        /\ \A k \in 1..Len(wire') :
              wire'[k].kind # "byte" => wire'[k].len <= MaxBytes
    BY <1>1, <1>2, <1>4
  <2> QED
    BY <1>10, <2>1, <2>2 DEF PeerTypeOK
<1>13. PeerInv'
  <2>1. peer.open <=> ~peer.fin
    BY DEF IInv, PeerInv
  <2>2. /\ peer'.left <= msgs'[Len(msgs')].len
        /\ msgs'[Len(msgs')].whole => peer'.fin /\ peer'.left = 0
    BY <1>5, <1>6, <1>8, <1>10, <1>11
  <2> QED
    BY <1>3, <1>10, <1>11, <2>1, <2>2 DEF PeerInv
<1>14. Sent' = Sent + 1 /\ Sent \in Nat
  BY <1>3, <1>11 DEF Sent
<1>15. AlignedInv'
  <2>1. ASSUME NEW s \in Positions, PosOK(s), ~s.done PROVE PosOK(s)'
    <3>1. s.m \in Nat /\ s.n \in Nat /\ s.left \in Nat /\ s.total \in Nat
      BY DEF Positions
    <3>2. CASE s.m > 0 /\ s.m = Len(msgs)
      <4>1. /\ s.n + s.left <= last.len /\ s.n + peer.left <= last.len
            /\ s.fin => s.n + s.left = last.len /\ peer.fin
        BY <2>1, <3>2 DEF PosOK
      <4>2. s.fin => s.left # 0
        BY <1>1, <1>5, <1>11, <3>1, <4>1
      <4>3. msgs'[s.m].len = last.len
        BY <1>6, <1>10, <3>2
      <4> QED
        BY <1>5, <1>10, <1>11, <1>14, <2>1, <3>1, <3>2, <4>1, <4>2, <4>3
           DEF PosOK
    <3>3. CASE s.m > 0 /\ s.m < Len(msgs)
      <4>1. msgs'[s.m] = msgs[s.m]
        BY <1>10, <3>1, <3>3
      <4> QED
        BY <1>10, <1>14, <2>1, <3>1, <3>3, <4>1 DEF PosOK
    <3>4. CASE s.m = 0
      BY <1>10, <1>14, <2>1, <3>1, <3>4 DEF PosOK
    <3> QED
      BY <1>10, <2>1, <3>1, <3>2, <3>3, <3>4 DEF PosOK
  <2>2. ASSUME NEW s \in Positions, AtPeer(s), PosOK(s)
        PROVE  \E p \in Positions : AtPeer(p)' /\ PosOK(p)' /\ Move(s, x, p)'
    <3>1. /\ s.m = Len(msgs) /\ (s.fin <=> peer.fin) /\ s.left = peer.left
          /\ ~s.done /\ s.total = Sent /\ s.n = last.len - peer.left
      BY <1>3, <1>10, <2>2 DEF AtPeer
    <3>2. s.n \in Nat /\ s.total \in Nat
      BY DEF Positions
    <3>3. PICK p \in Positions :
             /\ p.m = s.m /\ (p.fin <=> s.fin) /\ p.left = s.left - 1
             /\ p.n = s.n + 1 /\ p.total = s.total + 1 /\ ~p.done
      <4>1. [s EXCEPT !.left = s.left - 1, !.n = s.n + 1, !.total = s.total + 1]
               \in Positions
        <5>1. s.left - 1 \in Nat /\ s.n + 1 \in Nat /\ s.total + 1 \in Nat
          <6>1. s.left \in Nat /\ s.left > 0
            BY <1>1, <1>11, <3>1
          <6> QED
            BY <3>2, <6>1
        <5> QED
          BY <5>1 DEF Positions
      <4> QED
        BY <3>1, <4>1 DEF Positions
    <3>4. AtPeer(p)'
      BY <1>3, <1>5, <1>6, <1>10, <1>11, <1>14, <3>1, <3>3 DEF AtPeer
    <3>5. PosOK(p)'
      <4>1. p.m = Len(msgs) /\ msgs'[p.m].len = last.len /\ p.m > 0
        BY <1>6, <1>10, <3>1, <3>3
      <4>2. /\ p.n + p.left = last.len /\ p.n + peer'.left = last.len
            /\ p.total = Sent'
        <5>1. /\ s.left = peer.left /\ s.n = last.len - peer.left
              /\ p.left = peer.left - 1 /\ p.n = last.len - peer.left + 1
              /\ p.total = Sent + 1
          BY <3>1, <3>3
        <5>2. peer.left \in Nat /\ peer'.left = peer.left - 1 /\ last.len \in Nat
          BY <1>5, <1>11
        <5> QED
          BY <1>14, <5>1, <5>2
      <4>3. p.fin /\ p.left = 0 => msgs'[p.m].whole
        <5>1. p.left = 0 => peer.left = 1
          BY <1>11, <3>1, <3>3
        <5>2. p.fin <=> peer.fin
          BY <3>1, <3>3
        <5> QED
          BY <1>6, <1>10, <4>1, <5>1, <5>2, Zenon
      <4>4. p.fin => peer'.fin
        BY <1>11, <3>1, <3>3
      <4> QED
        BY <1>5, <1>10, <1>14, <4>1, <4>2, <4>3, <4>4 DEF PosOK
    <3>6. Move(s, x, p)'
      <4>1. s.left > 0 /\ x.kind = "byte" /\ x.len = s.m
        BY <1>1, <1>4, <3>1
      <4>2. IsAt(p, s.m, s.fin, s.left - 1, s.n + 1, s.total + 1)
        BY <3>3 DEF IsAt
      <4>3. ~s.done
        BY <3>1
      <4> QED
        BY <4>1, <4>2, <4>3 DEF Move
    <3> QED
      BY <3>4, <3>5, <3>6
  <2>3. UNCHANGED <<closed, fin, payloadLength, call, result, got, user, pc,
                    netErr, delivered>>
    BY <1>1 DEF Others, netVars, msgReaderVars
  <2>4. Len(msgs) <= Len(msgs')
        /\ \A i \in 1..Len(msgs) : msgs'[i].type = msgs[i].type
    BY <1>10
  <2> QED
    <3>1. x \in Tokens /\ wire' = Append(wire, x)
      BY <1>4
    <3>2. PeerTypeOK /\ AlignedInv
      BY DEF IInv
    <3> QED
      BY <3>1, <3>2, <1>12, <2>1, <2>2, <2>3, <2>4, AppendAligned
<1> QED
  <2>1. Len(msgs) <= Len(msgs') /\ Sent <= Sent'
    BY <1>10, <1>14
  <2> QED
    BY <2>1, <1>1, <1>3, <1>10, <1>12, <1>13, <1>15, PeerKeeps

LEMMA HangUpInv ==
    ASSUME IInv, HangUp, UNCHANGED Others
    PROVE  IInv'
<1>1. /\ ~peer.gone /\ peer' = [peer EXCEPT !.gone = TRUE]
      /\ UNCHANGED <<msgs, wire, closed, msgReaderVars, call, result, got>>
  BY DEF HangUp, readerVars
<1>2. /\ peer \in [left : 0..MaxBytes, fin : BOOLEAN, open : BOOLEAN,
                   done : BOOLEAN, gone : BOOLEAN, frames : 0..MaxFrames,
                   bytes : 0..MaxBytes]
      /\ msgs \in Seq(Messages)
  BY DEF IInv, PeerTypeOK
<1>3. /\ peer' \in [left : 0..MaxBytes, fin : BOOLEAN, open : BOOLEAN,
                    done : BOOLEAN, gone : BOOLEAN, frames : 0..MaxFrames,
                    bytes : 0..MaxBytes]
      /\ peer'.left = peer.left /\ peer'.bytes = peer.bytes
      /\ (peer'.fin <=> peer.fin) /\ (peer'.done <=> peer.done)
      /\ (peer'.open <=> peer.open)
  BY <1>1, <1>2
<1>4. PeerTypeOK' /\ PeerInv'
  BY <1>1, <1>3 DEF IInv, PeerTypeOK, PeerInv
<1>5. Sent' = Sent /\ Sent \in Int
  BY <1>2, <1>3 DEF Sent
<1>6. AlignedInv'
  <2>1. /\ UNCHANGED <<msgs, wire, fin, payloadLength, user>>
        /\ Len(got') = Len(got) /\ LastBytes' = LastBytes
        /\ Len(call'.have) = Len(call.have)
        /\ delivered' + Pending' = delivered + Pending
        /\ Over => Over'
    BY <1>1 DEF msgReaderVars, Others, netVars, LastBytes, Pending, Over
  <2> QED
    BY <1>3, <2>1, QuietAligned DEF IInv
<1>7. \A i \in 1..Len(msgs) :
         /\ msgs'[i].type = msgs[i].type /\ msgs[i].len <= msgs'[i].len
         /\ msgs[i].whole => msgs'[i].whole /\ msgs'[i].len = msgs[i].len
         /\ i < Len(msgs) => msgs'[i] = msgs[i]
  <2>1. \A i \in 1..Len(msgs) : msgs[i] \in Messages
    BY <1>2
  <2>2. \A i \in 1..Len(msgs) : msgs[i].len \in Nat
    BY <2>1 DEF Messages
  <2> QED
    BY <1>1, <2>2
<1>8. Len(msgs) <= Len(msgs') /\ Sent <= Sent'
  BY <1>1, <1>2, <1>5
<1> QED
  BY <1>1, <1>3, <1>4, <1>5, <1>6, <1>7, <1>8, PeerKeeps

LEMMA PeerStep == IInv /\ Peer /\ UNCHANGED Others => IInv'
<1> SUFFICES ASSUME IInv, Peer, UNCHANGED Others PROVE IInv'
  OBVIOUS
<1>1. /\ Types \subseteq Kinds \ {"byte"} /\ Controls \subseteq Kinds \ {"byte"}
      /\ Closes \cup {"illegal", "cont"} \subseteq Kinds \ {"byte"}
      /\ peer.fin \in BOOLEAN /\ (peer.open <=> ~peer.fin) /\ 0 \in 0..MaxBytes
  BY TypesAssumption, ReaderBoundsAssumption
     DEF Kinds, Controls, Closes, IInv, PeerTypeOK, PeerInv
<1>2. CASE \E f \in BOOLEAN, n \in 0..MaxBytes :
              SendData(f, n) \/ SendContinuation(f, n)
  BY <1>2, SendDataInv, SendContinuationInv
<1>3. CASE \E op \in Controls \cup Closes : SendControl(op)
  BY <1>1, <1>3, OtherFrameInv DEF SendControl
<1>4. CASE BreakProtocol
  <2>1. CASE PeerSends("illegal", peer.fin, 0) /\ UNCHANGED msgs
    BY <1>1, <2>1, OtherFrameInv
  <2>2. CASE ~peer.open /\ PeerSends("cont", TRUE, 0) /\ UNCHANGED msgs
    BY <1>1, <2>2, OtherFrameInv
  <2>3. CASE /\ peer.open /\ \E t \in Types : PeerSends(t, TRUE, 0)
             /\ UNCHANGED msgs
    BY <1>1, <2>3, OtherFrameInv
  <2> QED
    BY <1>4, <2>1, <2>2, <2>3 DEF BreakProtocol
<1>5. CASE SendByte
  BY <1>5, SendByteInv
<1>6. CASE HangUp
  BY <1>6, HangUpInv
<1> QED
  BY <1>2, <1>3, <1>4, <1>5, <1>6 DEF Peer

-----------------------------------------------------------------------------
(* Steps that leave the transport and the call alone. *)

(* Timers, deadlines and what the adapter's Close does first. *)
LEMMA TimerStep ==
    ASSUME IInv, TimerTypeOK',
           UNCHANGED <<peerVars, readerVars, user, netVars>>
    PROVE  IInv'
<1>1. UNCHANGED <<peer, msgs, wire, closed, fin, payloadLength, limited, call,
                  result, got, user, pc, want, reader, readEOFed, netErr,
                  delivered>>
  BY DEF peerVars, readerVars, msgReaderVars, netVars
<1>2. PeerTypeOK' /\ CallTypeOK' /\ NetTypeOK'
  BY <1>1 DEF IInv, PeerTypeOK, CallTypeOK, NetTypeOK
<1>3. PeerInv' /\ CallInv' /\ UserInv' /\ MessagesInOrder'
  BY <1>1 DEF IInv, PeerInv, CallInv, UserInv, MessagesInOrder
<1>4. LimitInv' /\ StreamInv'
  BY <1>1 DEF IInv, LimitInv, StreamInv, LastBytes, Pending, Sent
<1>5. AlignedInv'
  <2>1. /\ Len(got') = Len(got) /\ LastBytes' = LastBytes
        /\ Len(call'.have) = Len(call.have)
        /\ delivered' + Pending' = delivered + Pending
        /\ Over => Over'
    BY <1>1 DEF LastBytes, Pending, Over
  <2> QED
    BY <1>1, <2>1, QuietAligned DEF IInv
<1> QED
  BY <1>2, <1>3, <1>4, <1>5 DEF IInv

(* Closing from outside. *)
LEMMA CloseStep ==
    ASSUME IInv, TimerTypeOK', closed' = TRUE,
           UNCHANGED <<peerVars, wire, msgReaderVars, call, result, got, user,
                       netVars>>
    PROVE  IInv'
<1>1. UNCHANGED <<peer, msgs, wire, fin, payloadLength, limited, call, result,
                  got, user, pc, want, reader, readEOFed, netErr, delivered>>
  BY DEF peerVars, msgReaderVars, netVars
<1>2. PeerTypeOK' /\ CallTypeOK' /\ NetTypeOK'
  <2>1. closed' \in BOOLEAN
    OBVIOUS
  <2> QED
    BY <1>1, <2>1 DEF IInv, PeerTypeOK, CallTypeOK, NetTypeOK
<1>3. PeerInv' /\ CallInv' /\ UserInv' /\ MessagesInOrder'
  BY <1>1 DEF IInv, PeerInv, CallInv, UserInv, MessagesInOrder
<1>4. LimitInv' /\ StreamInv'
  BY <1>1 DEF IInv, LimitInv, StreamInv, LastBytes, Pending, Sent
<1>5. AlignedInv'
  <2>1. /\ Len(got') = Len(got) /\ LastBytes' = LastBytes
        /\ Len(call'.have) = Len(call.have)
        /\ delivered' + Pending' = delivered + Pending
        /\ Over => Over'
    BY <1>1 DEF LastBytes, Pending, Over
  <2> QED
    BY <1>1, <2>1, QuietAligned DEF IInv
<1> QED
  BY <1>2, <1>3, <1>4, <1>5 DEF IInv

LEMMA OtherSteps ==
    ASSUME IInv,
           \/ SetDeadline \/ SetTimer \/ Fire \/ TryLock \/ Expire
           \/ TimeoutCloses \/ NetWrite \/ NetWriteEnds \/ NetClose
           \/ NetCloseEnds \/ DirectClose
    PROVE  IInv'
<1>1. TimerTypeOK
  BY DEF IInv
<1> USE DEF lockVars, timerVars
<1>2. CASE SetDeadline
  <2>1. deadlines + 1 \in 0..MaxDeadlines
    BY <1>1, <1>2, BoundsAssumption DEF SetDeadline, TimerTypeOK
  <2>2. expired' \in BOOLEAN
    BY <1>2 DEF SetDeadline
  <2>3. TimerTypeOK'
    BY <1>1, <1>2, <2>1, <2>2 DEF SetDeadline, TimerTypeOK
  <2> QED
    BY <1>2, <2>3, TimerStep DEF SetDeadline
<1>3. CASE SetTimer
  <2>1. TimerTypeOK'
    BY <1>1, <1>3 DEF SetTimer, TimerTypeOK
  <2> QED
    BY <1>3, <2>1, TimerStep DEF SetTimer
<1>4. CASE Fire
  <2>1. armed' \in BOOLEAN
    BY <1>4 DEF Fire
  <2>2. TimerTypeOK'
    BY <1>1, <1>4, <2>1 DEF Fire, TimerTypeOK
  <2> QED
    BY <1>4, <2>2, TimerStep DEF Fire
<1>5. CASE TryLock
  <2>1. ctxDone' \in BOOLEAN
    BY <1>1, <1>5 DEF TryLock, TimerTypeOK
  <2>2. TimerTypeOK'
    BY <1>1, <1>5, <2>1 DEF TryLock, TimerTypeOK
  <2> QED
    BY <1>5, <2>2, TimerStep DEF TryLock
<1>6. CASE Expire
  <2>1. expired' \in BOOLEAN
    BY <1>6 DEF Expire
  <2>2. TimerTypeOK'
    BY <1>1, <1>6, <2>1 DEF Expire, TimerTypeOK
  <2> QED
    BY <1>6, <2>2, TimerStep DEF Expire
<1>7. CASE TimeoutCloses
  <2>1. TimerTypeOK'
    BY <1>1, <1>7 DEF TimeoutCloses, TimerTypeOK
  <2> QED
    BY <1>7, <2>1, CloseStep DEF TimeoutCloses
<1>8. CASE NetWrite
  <2>1. writing' \in BOOLEAN
    BY <1>8 DEF NetWrite
  <2>2. TimerTypeOK'
    BY <1>1, <1>8, <2>1 DEF NetWrite, TimerTypeOK
  <2> QED
    BY <1>8, <2>2, TimerStep DEF NetWrite
<1>9. CASE NetWriteEnds
  <2>1. writing' \in BOOLEAN
    BY <1>9 DEF NetWriteEnds
  <2>2. TimerTypeOK'
    BY <1>1, <1>9, <2>1 DEF NetWriteEnds, TimerTypeOK
  <2> QED
    BY <1>9, <2>2, TimerStep DEF NetWriteEnds
<1>10. CASE NetClose
  <2>1. armed' \in BOOLEAN /\ ctxDone' \in BOOLEAN
    BY <1>10 DEF NetClose
  <2>2. TimerTypeOK'
    BY <1>1, <1>10, <2>1 DEF NetClose, TimerTypeOK
  <2> QED
    BY <1>10, <2>2, TimerStep DEF NetClose
<1>11. CASE NetCloseEnds
  <2>1. TimerTypeOK'
    BY <1>1, <1>11 DEF NetCloseEnds, TimerTypeOK
  <2> QED
    BY <1>11, <2>1, CloseStep DEF NetCloseEnds
<1>12. CASE DirectClose
  <2>1. TimerTypeOK'
    BY <1>1, <1>12 DEF DirectClose, TimerTypeOK
  <2> QED
    BY <1>12, <2>1, CloseStep DEF DirectClose
<1> QED
  BY <1>2, <1>3, <1>4, <1>5, <1>6, <1>7, <1>8, <1>9, <1>10, <1>11, <1>12

-----------------------------------------------------------------------------
(* The beginning of a call. *)

Ends == got' = [got EXCEPT ![Len(got)].eof = TRUE]

LEMMA EndsMessage ==
    ASSUME CallTypeOK, got # <<>>, Ends
    PROVE  /\ got \in Seq(Readings) /\ got' \in Seq(Readings)
           /\ Len(got) \in Nat /\ Len(got) > 0 /\ Len(got') = Len(got)
           /\ got' # <<>>
           /\ \A i \in 1..Len(got) :
                 /\ got'[i].type = got[i].type /\ got'[i].bytes = got[i].bytes
                 /\ i < Len(got) => got'[i] = got[i]
                 /\ got[i].bytes \in Seq(Nat)
           /\ LastBytes' = LastBytes /\ LastBytes \in Nat
           /\ LastBytes = Len(got[Len(got)].bytes)
<1>1. got \in Seq(Readings)
  BY DEF CallTypeOK
<1> DEFINE last == got[Len(got)]
           m == [last EXCEPT !.eof = TRUE]
<1>2. last \in Readings
  BY <1>1
<1>3. m \in Readings /\ m.type = last.type /\ m.bytes = last.bytes
  BY <1>2 DEF Readings
<1>4. got' = [got EXCEPT ![Len(got)] = m]
  BY DEF Ends
<1> HIDE DEF m
<1>5. /\ got' \in Seq(Readings) /\ Len(got') = Len(got)
      /\ got'[Len(got)] = m /\ Len(got) \in Nat /\ Len(got) > 0
      /\ \A i \in 1..Len(got) : i < Len(got) => got'[i] = got[i]
      /\ got' # <<>>
  BY <1>1, <1>3, <1>4, SetLast
<1>6. \A i \in 1..Len(got) : got[i] \in Readings
  BY <1>1
<1>7. \A i \in 1..Len(got) : got[i].bytes \in Seq(Nat)
  BY <1>6 DEF Readings
<1>8. ASSUME NEW i \in 1..Len(got)
      PROVE  got'[i].type = got[i].type /\ got'[i].bytes = got[i].bytes
  <2>1. i < Len(got) \/ i = Len(got)
    BY <1>5
  <2> QED
    BY <1>3, <1>5, <2>1
<1>9. LastBytes = Len(last.bytes) /\ LastBytes' = Len(m.bytes)
  BY <1>5 DEF LastBytes
<1>10. LastBytes \in Nat /\ LastBytes' = LastBytes
  BY <1>3, <1>5, <1>7, <1>9
<1> QED
  BY <1>1, <1>5, <1>7, <1>8, <1>9, <1>10

(* A message ends where it should, or the transport did. *)
LEMMA EndInOrder ==
    ASSUME CallTypeOK, MessagesInOrder, got # <<>>, Ends, UNCHANGED <<peer, msgs>>,
           \/ peer.gone /\ Len(got) = Len(msgs)
           \/ msgs[Len(got)].whole /\ LastBytes = msgs[Len(got)].len
    PROVE  MessagesInOrder'
<1>1. /\ Len(got) \in Nat /\ Len(got) > 0 /\ Len(got') = Len(got)
      /\ got' \in Seq(Readings) /\ got \in Seq(Readings)
      /\ LastBytes = Len(got[Len(got)].bytes)
      /\ \A i \in 1..Len(got) :
            /\ got'[i].type = got[i].type /\ got'[i].bytes = got[i].bytes
            /\ i < Len(got) => got'[i] = got[i]
  BY EndsMessage
<1>2. Len(got') <= Len(msgs)
  BY <1>1 DEF MessagesInOrder
<1>3. ASSUME NEW i \in 1..Len(got)
      PROVE  /\ got'[i].type = msgs[i].type
             /\ \A k \in DOMAIN got'[i].bytes : got'[i].bytes[k] = i
             /\ Len(got'[i].bytes) <= msgs[i].len
             /\ i < Len(got) => Len(got'[i].bytes) = msgs[i].len
             /\ got'[i].eof => \/ peer.gone /\ i = Len(msgs)
                               \/ /\ msgs[i].whole
                                  /\ Len(got'[i].bytes) = msgs[i].len
  <2>1. /\ got[i].type = msgs[i].type
        /\ \A k \in DOMAIN got[i].bytes : got[i].bytes[k] = i
        /\ Len(got[i].bytes) <= msgs[i].len
        /\ i < Len(got) => Len(got[i].bytes) = msgs[i].len
        /\ got[i].eof => \/ peer.gone /\ i = Len(msgs)
                         \/ /\ msgs[i].whole
                            /\ Len(got[i].bytes) = msgs[i].len
    BY <1>1 DEF MessagesInOrder
  <2>2. got'[i].type = got[i].type /\ got'[i].bytes = got[i].bytes
    BY <1>1
  <2>3. CASE i = Len(got)
    BY <1>1, <2>1, <2>2, <2>3
  <2>4. CASE i < Len(got)
    BY <1>1, <2>1, <2>4
  <2>5. i < Len(got) \/ i = Len(got)
    BY <1>1
  <2> QED
    BY <2>3, <2>4, <2>5
<1>4. DOMAIN got' = 1..Len(got)
  BY <1>1
<1> QED
  BY <1>1, <1>2, <1>3, <1>4 DEF MessagesInOrder

LEMMA EndInLimit ==
    ASSUME CallTypeOK, LimitInv, got # <<>>, Ends, call'.op = "none",
           UNCHANGED <<user, limited, msgs>>, result'.err = "EOF",
           user = "direct" /\ Limit >= 0 => limited >= 1
    PROVE  LimitInv'
<1> SUFFICES ASSUME user = "direct", Limit >= 0
             PROVE  /\ limited >= 0 /\ limited + LastBytes' = Limit + 1
                    /\ \A i \in 1..Len(got') :
                          got'[i].eof => Len(got'[i].bytes) <= Limit
  BY DEF LimitInv
<1>1. /\ Len(got) \in Nat /\ Len(got) > 0 /\ Len(got') = Len(got)
      /\ LastBytes = Len(got[Len(got)].bytes) /\ LastBytes' = LastBytes
      /\ LastBytes \in Nat
      /\ \A i \in 1..Len(got) :
            /\ got'[i].bytes = got[i].bytes
            /\ i < Len(got) => got'[i] = got[i]
  BY EndsMessage
<1>2. /\ limited >= 1 /\ limited + LastBytes = Limit + 1
      /\ \A i \in 1..Len(got) : got[i].eof => Len(got[i].bytes) <= Limit
  BY DEF LimitInv
<1>3. LastBytes <= Limit
  BY <1>1, <1>2, LimitAssumption DEF CallTypeOK
<1>4. ASSUME NEW i \in 1..Len(got), got'[i].eof
      PROVE  Len(got'[i].bytes) <= Limit
  <2>1. i < Len(got) \/ i = Len(got)
    BY <1>1
  <2> QED
    BY <1>1, <1>2, <1>3, <1>4, <2>1
<1>5. limited >= 0 /\ LastBytes' = LastBytes
  BY <1>1, <1>2 DEF CallTypeOK
<1> QED
  BY <1>1, <1>2, <1>4, <1>5

(* Who begins a call, and what the adapter notes of it. *)
Beginning ==
    /\ UNCHANGED user
    /\ \/ user = "direct" /\ Continues /\ UNCHANGED netVars
       \/ /\ user = "read" /\ pc = "loop" /\ pc' = "call" /\ ~readEOFed
          /\ UNCHANGED <<want, reader, readEOFed, netErr, delivered>>

LEMMA BeginningFacts ==
    ASSUME IInv, Beginning, call.op = "none"
    PROVE  /\ UNCHANGED <<user, want, reader, readEOFed, netErr, delivered>>
           /\ NetTypeOK' /\ (Over => closed)
           /\ user = "read" => /\ result = NoResult /\ Pending = 0
                               /\ pc' = "call" /\ ~readEOFed
                               /\ want > 0 /\ (netErr # "failed" \/ closed)
           /\ user = "direct" => pc' = pc /\ pc = "idle"
           /\ user # "write"
<1>1. /\ UNCHANGED <<user, want, reader, readEOFed, netErr, delivered>>
      /\ user = "direct" => pc' = pc /\ (result.err \in {"nil", "EOF"} \/ closed)
      /\ user = "read" => pc = "loop" /\ pc' = "call" /\ ~readEOFed
      /\ user \in {"direct", "read"}
  BY DEF Beginning, netVars, Continues
<1>2. NetTypeOK'
  BY <1>1 DEF IInv, NetTypeOK
<1>3. Over => closed
  BY <1>1 DEF Over
<1>4. user = "read" => result = NoResult /\ Pending = 0
  BY <1>1 DEF IInv, UserInv, Pending, NoResult
<1>5. /\ user = "read" => want > 0 /\ (netErr # "failed" \/ closed)
      /\ user = "direct" => pc = "idle"
  BY <1>1 DEF IInv, UserInv, NetTypeOK
<1> QED
  BY <1>1, <1>2, <1>3, <1>4, <1>5

(* The call is refused. *)
LEMMA RefusedInv ==
    ASSUME IInv, Beginning, call.op = "none", TimerTypeOK',
           NEW op \in {"Reader", "Read"}, NEW e \in Errs \ {"nil", "closeNormal"},
           result' = Result(op, e, 0),
           UNCHANGED <<peerVars, wire, closed, msgReaderVars, call, got>>,
           e = "limit" => got # <<>> /\ limited = 0,
           e = "EOF" => FALSE
    PROVE  IInv'
<1>1. /\ UNCHANGED <<user, want, reader, readEOFed, netErr, delivered>>
      /\ NetTypeOK' /\ (Over => closed)
      /\ user = "read" => /\ result = NoResult /\ Pending = 0
                          /\ pc' = "call" /\ ~readEOFed
                          /\ want > 0 /\ (netErr # "failed" \/ closed)
      /\ user = "direct" => pc' = pc /\ pc = "idle"
      /\ user # "write"
  BY BeginningFacts
<1>2. /\ UNCHANGED <<peer, msgs, wire, closed, fin, payloadLength, limited,
                     call, got>>
      /\ result'.op = op /\ result'.err = e /\ result'.n = 0
      /\ result' \in [op : {"none", "Reader", "Read"}, err : Errs, n : Nat]
  BY DEF peerVars, msgReaderVars, Result
<1>3. PeerTypeOK' /\ CallTypeOK' /\ PeerInv' /\ CallInv' /\ MessagesInOrder'
  BY <1>2 DEF IInv, PeerTypeOK, CallTypeOK, PeerInv, CallInv, MessagesInOrder
<1>4. UserInv'
  <2>1. (reader => got # <<>>) /\ e # "nil" /\ user \in {"read", "direct"}
    BY <1>1 DEF IInv, UserInv, NetTypeOK, Users
  <2>2. pc' # "idle" => user = "read"
    BY <1>1, <2>1
  <2>3. call'.op = "none"
    BY <1>2
  <2> QED
    BY <1>1, <1>2, <2>1, <2>2, <2>3 DEF UserInv
<1>5. LimitInv'
  <2>1. LastBytes' = LastBytes
    BY <1>2 DEF LastBytes
  <2>2. user = "direct" /\ Limit >= 0 /\ e = "limit" => msgs[Len(got)].len > Limit
    <3> SUFFICES ASSUME user = "direct", Limit >= 0, e = "limit"
                 PROVE  msgs[Len(got)].len > Limit
      OBVIOUS
    <3>1. LastBytes = Limit + 1 /\ got # <<>>
      <4>1. limited = 0 /\ limited + LastBytes = Limit + 1 /\ got # <<>>
        BY DEF IInv, LimitInv
      <4>2. LastBytes \in Int
        BY DEF IInv, CallTypeOK, LastBytes, Readings
      <4> QED
        BY <4>1, <4>2
    <3>2. /\ Len(got) \in DOMAIN got /\ LastBytes = Len(got[Len(got)].bytes)
          /\ Len(got) \in DOMAIN msgs /\ msgs[Len(got)] \in Messages
      <4>1. got \in Seq(Readings) /\ msgs \in Seq(Messages)
            /\ Len(got) <= Len(msgs)
        BY DEF IInv, CallTypeOK, PeerTypeOK, MessagesInOrder
      <4> QED
        BY <3>1, <4>1 DEF LastBytes
    <3>3. LastBytes <= msgs[Len(got)].len
      BY <3>2 DEF IInv, MessagesInOrder
    <3> QED
      BY <3>1, <3>2, <3>3, LimitAssumption DEF Messages
  <2> QED
    BY <1>1, <1>2, <2>1, <2>2 DEF IInv, LimitInv
<1>6. Pending' = 0
  BY <1>2 DEF Pending
<1>7. StreamInv'
  <2>1. Sent' = Sent
    BY <1>2 DEF Sent
  <2>2. delivered \in Nat
    BY DEF IInv, NetTypeOK
  <2> QED
    BY <1>1, <1>2, <1>6, <2>1, <2>2 DEF IInv, StreamInv
<1>8. AlignedInv'
  <2>1. Over => Over'
    BY <1>1, <1>2 DEF Over
  <2>2. Len(got') = Len(got) /\ LastBytes' = LastBytes
        /\ Len(call'.have) = Len(call.have)
    BY <1>2 DEF LastBytes
  <2> QED
    BY <1>1, <1>2, <1>6, <2>1, <2>2, QuietAligned DEF IInv
<1> QED
  BY <1>1, <1>3, <1>4, <1>5, <1>7, <1>8 DEF IInv

(* The call goes to the transport. *)
LEMMA CalledInv ==
    ASSUME IInv, Beginning, call.op = "none", TimerTypeOK', ~closed, CallInv',
           call' \in [op : {"Reader", "Read"}, at : {"header", "payload"},
                      p : Nat, have : Seq(Nat)],
           call'.have = <<>>, call'.op = "Read" => InMessage \/ user = "read",
           call'.op = "Read" /\ limited >= 0 => call'.p <= limited,
           UNCHANGED <<peerVars, wire, closed, msgReaderVars, result, got>>
    PROVE  IInv'
<1>1. /\ UNCHANGED <<user, want, reader, readEOFed, netErr, delivered>>
      /\ NetTypeOK' /\ ~Over
      /\ user = "read" => /\ result = NoResult /\ Pending = 0
                          /\ pc' = "call" /\ ~readEOFed
                          /\ want > 0 /\ (netErr # "failed" \/ closed)
      /\ user = "direct" => pc' = pc /\ pc = "idle"
      /\ user # "write"
  BY BeginningFacts
<1>2. UNCHANGED <<peer, msgs, wire, closed, fin, payloadLength, limited, result,
                  got>>
  BY DEF peerVars, msgReaderVars
<1>3. PeerTypeOK' /\ PeerInv' /\ MessagesInOrder'
  BY <1>2 DEF IInv, PeerTypeOK, PeerInv, MessagesInOrder
<1>4. CallTypeOK'
  BY <1>2 DEF IInv, CallTypeOK
<1>5. user = "direct" => result.err \in {"nil", "EOF"}
  BY <1>1 DEF Over
<1>6. UserInv'
  <2>1. /\ reader => got # <<>>
        /\ result.op = "Reader" /\ result.err = "nil" => got # <<>>
        /\ user \in {"read", "direct"}
    BY <1>1 DEF IInv, UserInv, NetTypeOK, Users
  <2>2. pc' # "idle" => user = "read"
    BY <1>1, <2>1
  <2> QED
    BY <1>1, <1>2, <1>5, <2>1, <2>2 DEF UserInv
<1>7. LimitInv'
  <2> SUFFICES ASSUME user = "direct", Limit >= 0,
                      call'.op = "Read"
               PROVE  call'.p <= limited /\ ~got[Len(got)].eof
    BY <1>1, <1>2, <1>5 DEF IInv, LimitInv, LastBytes
  <2>1. got # <<>> /\ ~got[Len(got)].eof
    BY DEF InMessage, Last
  <2>2. limited >= 0
    BY <2>1 DEF IInv, LimitInv
  <2> QED
    BY <2>1, <2>2
<1>8. StreamInv'
  BY <1>1, <1>2 DEF IInv, StreamInv, Pending, Sent
<1>9. AlignedInv'
  <2>1. Len(got') = Len(got) /\ LastBytes' = LastBytes
        /\ Len(call'.have) = Len(call.have) /\ Pending' = Pending
    BY <1>2 DEF LastBytes, Pending, IInv, CallInv, NoCall
  <2> QED
    BY <1>1, <1>2, <2>1, QuietAligned DEF IInv
<1> QED
  BY <1>1, <1>3, <1>4, <1>6, <1>7, <1>8, <1>9 DEF IInv

LEMMA BeginReaderInv ==
    ASSUME IInv, Beginning, TimerTypeOK', NEW c, BeginReader(c)
    PROVE  IInv'
<1>1. call.op = "none" /\ UNCHANGED peerVars
  BY DEF BeginReader
<1>2. ASSUME NEW e \in {"closed", "ctx", "unfinished"}, Refuse("Reader", e)
      PROVE  IInv'
  <2>1. /\ e \in Errs \ {"nil", "closeNormal"} /\ e # "limit" /\ e # "EOF"
        /\ result' = Result("Reader", e, 0)
        /\ UNCHANGED <<wire, closed, msgReaderVars, call, got>>
    BY <1>2 DEF Errs, Refuse
  <2> QED
    BY <1>1, <2>1, RefusedInv
<1>3. CASE /\ ~closed /\ fin
           /\ call' = [op |-> "Reader", at |-> "header", p |-> 0,
                       have |-> <<>>]
           /\ UNCHANGED <<wire, closed, msgReaderVars, result, got>>
  <2>1. call' \in [op : {"Reader", "Read"}, at : {"header", "payload"},
                   p : Nat, have : Seq(Nat)]
    BY <1>3
  <2>2. call'.op = "Reader" /\ call'.have = <<>> /\ call'.at = "header"
    BY <1>3
  <2>3. CallInv'
    BY <1>3, <2>2 DEF CallInv, msgReaderVars
  <2> QED
    BY <1>1, <1>3, <2>1, <2>2, <2>3, CalledInv
<1> QED
  BY <1>2, <1>3 DEF BeginReader

LEMMA BeginReadInv ==
    ASSUME IInv, Beginning, TimerTypeOK', NEW c, NEW p \in Nat \ {0},
           BeginRead(p, c), got # <<>>, InMessage \/ user = "read"
    PROVE  IInv'
<1>1. call.op = "none" /\ UNCHANGED peerVars
  BY DEF BeginRead
<1> DEFINE q == IF limited < 0 THEN p ELSE Least(p, limited)
<1>2. /\ payloadLength \in Nat /\ limited \in Int
      /\ limited # 0 => q \in Nat /\ q > 0 /\ (limited >= 0 => q <= limited)
  BY DEF Least, IInv, CallTypeOK
<1>3. ASSUME NEW e \in {"closed", "ctx", "limit"}, Refuse("Read", e),
             e = "limit" => limited = 0
      PROVE  IInv'
  <2>1. /\ e \in Errs \ {"nil", "closeNormal"} /\ e # "EOF"
        /\ result' = Result("Read", e, 0)
        /\ UNCHANGED <<wire, closed, msgReaderVars, call, got>>
    BY <1>3 DEF Errs, Refuse
  <2> QED
    BY <1>1, <1>3, <2>1, RefusedInv
<1>4. CASE LimitHit
  BY <1>3, <1>4 DEF LimitHit, Refuse
<1>5. CASE ~closed /\ limited # 0 /\ fin /\ payloadLength = 0
              /\ EndOfMessage("Read")
  <2>1. /\ Ends /\ call' = NoCall /\ result' = Result("Read", "EOF", 0)
        /\ UNCHANGED <<wire, closed, fin, payloadLength, limited, peer, msgs>>
    BY <1>1, <1>5 DEF EndOfMessage, Ends, msgReaderVars, peerVars
  <2>2. /\ UNCHANGED <<user, want, reader, readEOFed, netErr, delivered>>
        /\ NetTypeOK' /\ ~Over
        /\ user = "read" => /\ result = NoResult /\ Pending = 0
                            /\ pc' = "call" /\ ~readEOFed
                            /\ want > 0 /\ (netErr # "failed" \/ closed)
        /\ user = "direct" => pc' = pc /\ pc = "idle"
        /\ user # "write"
    BY <1>1, <1>5, BeginningFacts
  <2>3. CallTypeOK /\ call = NoCall
    BY <1>1 DEF IInv, CallInv
  <2>4. /\ Len(got) \in Nat /\ Len(got) > 0 /\ Len(got') = Len(got)
        /\ got' \in Seq(Readings) /\ got' # <<>>
        /\ LastBytes' = LastBytes /\ LastBytes \in Nat
    BY <2>1, <2>3, EndsMessage
  <2>5. msgs[Len(got)].whole /\ LastBytes = msgs[Len(got)].len
    <3>1. PICK f : Aligned(f)
      BY <2>2 DEF IInv, AlignedInv
    <3>2. AtReader(f[1]) /\ PosOK(f[1]) /\ f[1] \in Positions
      <4>1. wire \in Seq(Tokens)
        BY DEF IInv, PeerTypeOK
      <4> QED
        BY <3>1, <4>1 DEF Aligned
    <3>3. /\ f[1].m = Len(got) /\ f[1].fin /\ f[1].left = 0
          /\ f[1].n = LastBytes /\ ~f[1].done
      <4>1. Len(call.have) = 0
        BY <2>3 DEF NoCall
      <4> QED
        BY <1>5, <2>4, <3>2, <4>1 DEF AtReader
    <3>4. f[1].n + f[1].left = msgs[f[1].m].len /\ msgs[f[1].m].whole
      BY <2>4, <3>2, <3>3 DEF PosOK
    <3> QED
      BY <2>4, <3>3, <3>4
  <2>6. MessagesInOrder'
    BY <2>1, <2>3, <2>5, EndInOrder DEF IInv
  <2>7. result'.op = "Read" /\ result'.err = "EOF" /\ result'.n = 0
        /\ call'.op = "none"
    BY <2>1 DEF Result, NoCall
  <2>8. LimitInv'
    <3>1. user = "direct" /\ Limit >= 0 => limited >= 1
      BY <1>2, <1>5 DEF IInv, LimitInv
    <3> QED
      BY <2>1, <2>2, <2>3, <2>7, <3>1, EndInLimit DEF IInv
  <2>9. PeerTypeOK' /\ PeerInv'
    BY <2>1 DEF IInv, PeerTypeOK, PeerInv
  <2>10. CallTypeOK'
    <3>1. result' \in [op : {"none", "Reader", "Read"}, err : Errs, n : Nat]
      BY <2>1 DEF Result, Errs
    <3>2. call' \in [op : {"none", "Reader", "Read"},
                     at : {"none", "header", "payload"}, p : Nat,
                     have : Seq(Nat)]
      BY <2>1 DEF NoCall
    <3> QED
      BY <2>1, <2>3, <2>4, <3>1, <3>2 DEF CallTypeOK
  <2>11. CallInv'
    BY <2>1 DEF CallInv, NoCall
  <2>12. UserInv'
    <3>1. pc' # "idle" => user = "read"
      BY <2>2 DEF IInv, NetTypeOK, Users
    <3> QED
      BY <2>1, <2>2, <2>4, <2>7, <3>1 DEF UserInv
  <2>13. Pending' = 0
    BY <2>7 DEF Pending
  <2>14. StreamInv'
    <3>1. Sent' = Sent /\ delivered \in Nat
      BY <2>1 DEF Sent, IInv, NetTypeOK
    <3> QED
      BY <2>2, <2>7, <2>13, <3>1 DEF IInv, StreamInv
  <2>15. AlignedInv'
    <3>1. Over => Over'
      BY <2>2
    <3>2. Len(call'.have) = Len(call.have)
      BY <2>1, <2>3
    <3> QED
      BY <2>1, <2>2, <2>4, <2>13, <3>1, <3>2, QuietAligned DEF IInv
  <2> QED
    BY <2>2, <2>6, <2>8, <2>9, <2>10, <2>11, <2>12, <2>14, <2>15 DEF IInv
<1>6. CASE /\ ~closed /\ limited # 0 /\ ~(fin /\ payloadLength = 0)
           /\ call' = IF payloadLength = 0
                      THEN [op |-> "Read", at |-> "header", p |-> q,
                            have |-> <<>>]
                      ELSE [op |-> "Read", at |-> "payload",
                            p |-> Least(q, payloadLength), have |-> <<>>]
           /\ UNCHANGED <<wire, closed, msgReaderVars, result, got>>
  <2>1. /\ q \in Nat /\ q > 0 /\ (limited >= 0 => q <= limited)
        /\ payloadLength # 0 => /\ Least(q, payloadLength) \in Nat
                                /\ Least(q, payloadLength) > 0
                                /\ Least(q, payloadLength) <= q
                                /\ Least(q, payloadLength) <= payloadLength
    <3>1. q \in Nat /\ q > 0 /\ (limited >= 0 => q <= limited)
      BY <1>2, <1>6
    <3> HIDE DEF q
    <3> QED
      BY <1>2, <3>1 DEF Least
  <2> HIDE DEF q
  <2>2. PICK r \in Nat :
           /\ r > 0 /\ (limited >= 0 => r <= limited)
           /\ \/ /\ payloadLength = 0 /\ ~fin
                 /\ call' = [op |-> "Read", at |-> "header", p |-> r,
                             have |-> <<>>]
              \/ /\ r <= payloadLength
                 /\ call' = [op |-> "Read", at |-> "payload", p |-> r,
                             have |-> <<>>]
    <3>1. CASE payloadLength = 0
      BY <1>6, <2>1, <3>1
    <3>2. CASE payloadLength # 0
      <4>1. limited >= 0 => Least(q, payloadLength) <= limited
        BY <1>2, <2>1, <3>2
      <4> QED
        BY <1>6, <2>1, <3>2, <4>1
    <3> QED
      BY <3>1, <3>2
  <2>3. call' \in [op : {"Reader", "Read"}, at : {"header", "payload"},
                   p : Nat, have : Seq(Nat)]
    <3>1. <<>> \in Seq(Nat)
      OBVIOUS
    <3>2. \A at \in {"header", "payload"} :
             [op |-> "Read", at |-> at, p |-> r, have |-> <<>>]
                \in [op : {"Reader", "Read"}, at : {"header", "payload"},
                    p : Nat, have : Seq(Nat)]
      BY <3>1
    <3> QED
      BY <2>2, <3>2, Zenon
  <2>4. /\ call'.op = "Read" /\ call'.have = <<>> /\ call'.p = r
        /\ \/ call'.at = "header" /\ ~fin
           \/ call'.at = "payload" /\ r <= payloadLength
    BY <2>2
  <2>5. CallInv'
    BY <1>6, <2>2, <2>4 DEF CallInv, msgReaderVars
  <2> QED
    BY <1>1, <1>6, <2>2, <2>3, <2>4, <2>5, CalledInv
<1> QED
  BY <1>3, <1>4, <1>5, <1>6 DEF BeginRead

LEMMA DirectStep ==
    ASSUME IInv, DirectReader \/ \E p \in 1..MaxRead : DirectRead(p)
    PROVE  IInv'
<1>1. CASE DirectReader
  <2>1. Beginning /\ BeginReader(FALSE)
    BY <1>1 DEF DirectReader, Beginning
  <2>2. TimerTypeOK'
    BY <1>1 DEF DirectReader, IInv, TimerTypeOK, timerVars, lockVars
  <2> QED
    BY <2>1, <2>2, BeginReaderInv
<1>2. ASSUME NEW p \in 1..MaxRead, DirectRead(p) PROVE IInv'
  <2>1. /\ Beginning /\ BeginRead(p, FALSE) /\ InMessage /\ got # <<>>
        /\ p \in Nat \ {0}
    <3>1. p \in Nat \ {0}
      BY BoundsAssumption
    <3>2. Beginning /\ BeginRead(p, FALSE) /\ InMessage
      BY <1>2 DEF DirectRead, Beginning
    <3> QED
      BY <3>1, <3>2 DEF InMessage
  <2>2. TimerTypeOK'
    BY <1>2 DEF DirectRead, IInv, TimerTypeOK, timerVars, lockVars
  <2> QED
    BY <2>1, <2>2, BeginReadInv
<1> QED
  BY <1>1, <1>2

-----------------------------------------------------------------------------
(* netConn.Read. *)

(* The adapter goes on, or returns, with what it has. *)
LEMMA NetStep ==
    ASSUME IInv, NetTypeOK', TimerTypeOK', UserInv', user = "read",
           call.op = "none", result' = NoResult, closed => closed',
           closed' \in BOOLEAN,
           UNCHANGED <<peerVars, wire, msgReaderVars, call, got, user>>,
           delivered' = delivered + Pending, Over => Over'
    PROVE  IInv'
<1>1. UNCHANGED <<peer, msgs, wire, fin, payloadLength, limited, call, got, user>>
  BY DEF peerVars, msgReaderVars
<1>2. /\ result'.op = "none" /\ result'.err = "nil" /\ result'.n = 0
      /\ result' \in [op : {"none", "Reader", "Read"}, err : Errs, n : Nat]
  BY DEF NoResult, Errs
<1>3. PeerTypeOK' /\ CallTypeOK' /\ PeerInv' /\ CallInv' /\ MessagesInOrder'
  BY <1>1, <1>2
     DEF IInv, PeerTypeOK, CallTypeOK, PeerInv, CallInv, MessagesInOrder
<1>4. LimitInv'
  BY <1>1 DEF LimitInv
<1>5. Pending' = 0 /\ Pending \in Nat /\ delivered \in Nat /\ Sent' = Sent
  BY <1>1, <1>2 DEF IInv, Pending, CallTypeOK, NetTypeOK, Sent
<1>6. StreamInv'
  BY <1>1, <1>2, <1>5 DEF IInv, StreamInv
<1>7. AlignedInv'
  <2>1. LastBytes' = LastBytes /\ Len(got') = Len(got)
        /\ Len(call'.have) = Len(call.have)
        /\ delivered' + Pending' = delivered + Pending
    BY <1>1, <1>5 DEF LastBytes
  <2> QED
    BY <1>1, <2>1, QuietAligned DEF IInv
<1> QED
  BY <1>3, <1>4, <1>6, <1>7 DEF IInv

LEMMA NetReturnType ==
    ASSUME NEW err, NetReturn(err)
    PROVE  /\ pc' = "idle" /\ want' = 0 /\ holder' = "nobody"
           /\ netErr' \in {"nil", "EOF", "deadline", "failed"}
           /\ netErr' = "failed" <=> err \notin {"nil", "EOF", "deadline"}
  BY DEF NetReturn

LEMMA NetReadInv ==
    ASSUME IInv, NEW p \in 1..MaxRead, NetRead(p)
    PROVE  IInv'
<1>1. /\ user = "read" /\ pc = "idle" /\ (netErr # "failed" \/ closed)
      /\ pc' = "loop" /\ want' = p
      /\ UNCHANGED <<peerVars, readerVars, user, reader, readEOFed, netErr,
                     delivered>>
  BY DEF NetRead, NetContinues
<1>2. UNCHANGED <<wire, closed, msgReaderVars, call, got, result>>
  BY <1>1 DEF readerVars
<1>3. call.op = "none" /\ result = NoResult /\ (reader => got # <<>>)
  BY <1>1 DEF IInv, UserInv, CallTypeOK
<1>4. NetTypeOK'
  BY <1>1, BoundsAssumption DEF IInv, NetTypeOK
<1>5. TimerTypeOK'
  BY DEF NetRead, IInv, TimerTypeOK, timerVars
<1>6. UserInv'
  BY <1>1, <1>2, <1>3, BoundsAssumption DEF UserInv, NoResult
<1>7. Pending = 0 /\ delivered \in Nat
  BY <1>3 DEF Pending, NoResult, IInv, NetTypeOK
<1>8. Over => Over'
  BY <1>1, <1>2, <1>3 DEF Over
<1>9. closed' \in BOOLEAN
  BY <1>2 DEF IInv, CallTypeOK
<1> QED
  BY <1>1, <1>2, <1>3, <1>4, <1>5, <1>6, <1>7, <1>8, <1>9, NetStep

LEMMA NetLoopInv ==
    ASSUME IInv, NetLoop
    PROVE  IInv'
<1>1. pc = "loop" /\ UNCHANGED <<user, timerVars, writing, ctxDone, netClosing>>
  BY DEF NetLoop
<1>2. /\ user = "read" /\ call.op = "none" /\ result = NoResult
      /\ (reader => got # <<>>) /\ want > 0 /\ want \in 0..MaxRead
  BY <1>1 DEF IInv, UserInv, CallTypeOK, NetTypeOK
<1>3. ASSUME NEW err \in {"deadline", "EOF"}, NetStops(err) PROVE IInv'
  <2>1. /\ NetReturn(err)
        /\ UNCHANGED <<peerVars, readerVars, reader, readEOFed, delivered>>
    BY <1>3 DEF NetStops
  <2>2. UNCHANGED <<wire, closed, msgReaderVars, call, got, result>>
    BY <2>1 DEF readerVars
  <2>3. /\ pc' = "idle" /\ want' = 0 /\ holder' = "nobody"
        /\ netErr' \in {"nil", "EOF", "deadline", "failed"}
        /\ netErr' # "failed"
    BY <1>3, <2>1, NetReturnType
  <2>4. NetTypeOK'
    BY <1>1, <2>1, <2>3, BoundsAssumption DEF IInv, NetTypeOK
  <2>5. TimerTypeOK'
    BY <1>1, <2>3 DEF IInv, TimerTypeOK, timerVars
  <2>6. UserInv'
    BY <1>1, <1>2, <2>1, <2>2, <2>3 DEF UserInv, NoResult
  <2>7. Pending = 0 /\ delivered \in Nat
    BY <1>2 DEF Pending, NoResult, IInv, NetTypeOK
  <2>8. Over => Over'
    BY <1>1, <1>2, <2>2 DEF Over
  <2>9. closed' \in BOOLEAN
    BY <2>2 DEF IInv, CallTypeOK
  <2> QED
    BY <1>1, <1>2, <2>1, <2>2, <2>4, <2>5, <2>6, <2>7, <2>8, <2>9, NetStep
<1>4. CASE ~readEOFed /\ NetCalls
  <2>1. Beginning
    BY <1>1, <1>2, <1>4 DEF NetCalls, Beginning
  <2>2. TimerTypeOK'
    BY <1>1, <1>4 DEF NetCalls, IInv, TimerTypeOK, timerVars
  <2>3. CASE reader
    <3>1. BeginRead(want, ctxDone) /\ want \in Nat \ {0}
      BY <1>2, <1>4, <2>3, BoundsAssumption DEF NetCalls
    <3> QED
      BY <1>2, <2>1, <2>2, <2>3, <3>1, BeginReadInv
  <2>4. CASE ~reader
    BY <1>4, <2>1, <2>2, <2>4, BeginReaderInv DEF NetCalls
  <2> QED
    BY <2>3, <2>4
<1> QED
  BY <1>3, <1>4 DEF NetLoop

LEMMA NetResultInv ==
    ASSUME IInv, NetResult
    PROVE  IInv'
<1>1. /\ pc = "call" /\ call.op = "none" /\ result' = NoResult
      /\ UNCHANGED <<peerVars, wire, msgReaderVars, call, got, user, timerVars,
                     writing, ctxDone, netClosing>>
  BY DEF NetResult
<1>2. user = "read" /\ ~readEOFed /\ want > 0 /\ want \in 0..MaxRead
  BY <1>1 DEF IInv, UserInv, NetTypeOK
<1>3. /\ delivered \in Nat /\ result.n \in Nat /\ closed \in BOOLEAN
      /\ readEOFed \in BOOLEAN /\ reader \in BOOLEAN
      /\ netErr \in {"nil", "EOF", "deadline", "failed"}
      /\ user \in Users /\ result.err \in Errs /\ (reader => got # <<>>)
  BY DEF IInv, NetTypeOK, CallTypeOK, UserInv
<1>4. /\ result.op = "Reader" => result.n = 0
      /\ result.err = "closeNormal" => closed /\ result.op = "Reader"
      /\ result.op = "Reader" /\ result.err = "nil" => got # <<>>
      /\ netErr # "failed" \/ closed
  BY <1>1, <1>2 DEF IInv, StreamInv, UserInv
<1>5. result.op = "Reader" => Pending = 0
  BY <1>4 DEF Pending
<1>6. /\ call'.op = "none" /\ result'.err = "nil" /\ result'.op = "none"
  BY <1>1 DEF NoResult
<1>7. CASE result.op = "Reader" /\ NetWrongType
  <2>1. /\ pc' = "idle" /\ want' = 0 /\ holder' = "nobody"
        /\ netErr' \in {"nil", "EOF", "deadline", "failed"}
        /\ closed' /\ closed' \in BOOLEAN
        /\ UNCHANGED <<reader, readEOFed, delivered>>
    BY <1>7, NetReturnType DEF NetWrongType
  <2>2. NetTypeOK'
    BY <1>1, <1>3, <2>1, BoundsAssumption DEF NetTypeOK
  <2>3. TimerTypeOK'
    BY <1>1, <2>1 DEF IInv, TimerTypeOK, timerVars
  <2>4. UserInv'
    BY <1>1, <1>2, <1>3, <1>6, <2>1 DEF UserInv
  <2>5. Over => Over'
    BY <1>6, <2>1 DEF Over
  <2> QED
    BY <1>1, <1>2, <1>3, <1>5, <1>7, <2>1, <2>2, <2>3, <2>4, <2>5, NetStep
<1>8. CASE result.op = "Reader" /\ NetHasReader
  <2>1. /\ result.err = "nil" /\ reader' /\ reader' \in BOOLEAN /\ pc' = "loop"
        /\ UNCHANGED <<closed, want, readEOFed, netErr, delivered, holder>>
    BY <1>8 DEF NetHasReader
  <2>2. NetTypeOK'
    BY <1>1, <1>2, <1>3, <2>1, BoundsAssumption DEF NetTypeOK
  <2>3. TimerTypeOK'
    BY <1>1, <2>1 DEF IInv, TimerTypeOK, timerVars
  <2>4. UserInv'
    BY <1>1, <1>2, <1>3, <1>4, <1>6, <1>8, <2>1 DEF UserInv
  <2>5. Over => Over'
    BY <1>1, <1>2, <1>6, <2>1 DEF Over
  <2>6. closed' = closed
    BY <2>1
  <2> QED
    BY <1>1, <1>2, <1>3, <1>5, <1>8, <2>1, <2>2, <2>3, <2>4, <2>5, <2>6, NetStep
<1>9. CASE result.op = "Reader" /\ NetReaderFails
  <2>1. PICK e : /\ NetReturn(e)
                 /\ e = IF result.err = "closeNormal" THEN "EOF" ELSE result.err
    BY <1>9 DEF NetReaderFails
  <2>2. /\ pc' = "idle" /\ want' = 0 /\ holder' = "nobody"
        /\ netErr' \in {"nil", "EOF", "deadline", "failed"}
        /\ netErr' = "failed" <=> e \notin {"nil", "EOF", "deadline"}
    BY <2>1, NetReturnType
  <2>3. /\ readEOFed' \in BOOLEAN /\ UNCHANGED <<closed, reader, delivered>>
    BY <1>9 DEF NetReaderFails
  <2>4. NetTypeOK'
    BY <1>1, <1>3, <2>2, <2>3, BoundsAssumption DEF NetTypeOK
  <2>5. TimerTypeOK'
    BY <1>1, <2>2 DEF IInv, TimerTypeOK, timerVars
  <2>6. UserInv'
    BY <1>1, <1>2, <1>3, <1>6, <2>2, <2>3 DEF UserInv
  <2>7. Over => Over'
    BY <1>1, <1>2, <1>3, <1>4, <1>6, <2>1, <2>2, <2>3 DEF Over, Errs
  <2>8. closed' = closed
    BY <2>3
  <2> QED
    BY <1>1, <1>2, <1>3, <1>5, <1>9, <2>3, <2>4, <2>5, <2>6, <2>7, <2>8, NetStep
<1>10. CASE result.op = "Read" /\ NetReadEnds
  <2>1. /\ result.err = "EOF" /\ ~reader' /\ reader' \in BOOLEAN /\ pc' = "loop"
        /\ UNCHANGED <<closed, want, readEOFed, netErr, delivered, holder>>
    BY <1>10 DEF NetReadEnds
  <2>2. NetTypeOK'
    BY <1>1, <1>2, <1>3, <2>1, BoundsAssumption DEF NetTypeOK
  <2>3. TimerTypeOK'
    BY <1>1, <2>1 DEF IInv, TimerTypeOK, timerVars
  <2>4. UserInv'
    BY <1>1, <1>2, <1>3, <1>4, <1>6, <2>1 DEF UserInv
  <2>5. Over => Over'
    BY <1>1, <1>2, <1>6, <2>1 DEF Over
  <2>6. closed' = closed /\ Pending = 0
    BY <2>1 DEF Pending
  <2> QED
    BY <1>1, <1>2, <1>3, <2>1, <2>2, <2>3, <2>4, <2>5, <2>6, NetStep
<1>11. CASE result.op = "Read" /\ NetReadReturns
  <2>1. /\ NetReturn(result.err) /\ result.err # "EOF"
        /\ delivered' = delivered + IF result.err = "nil" THEN result.n ELSE 0
        /\ UNCHANGED <<closed, reader, readEOFed>>
    BY <1>11 DEF NetReadReturns
  <2>2. /\ pc' = "idle" /\ want' = 0 /\ holder' = "nobody"
        /\ netErr' \in {"nil", "EOF", "deadline", "failed"}
        /\ netErr' = "failed" <=> result.err \notin {"nil", "EOF", "deadline"}
    BY <2>1, NetReturnType
  <2>3. delivered' = delivered + Pending /\ delivered' \in Nat
    BY <1>3, <2>1 DEF Pending
  <2>4. NetTypeOK'
    BY <1>1, <1>3, <2>1, <2>2, <2>3, BoundsAssumption DEF NetTypeOK
  <2>5. TimerTypeOK'
    BY <1>1, <2>2 DEF IInv, TimerTypeOK, timerVars
  <2>6. UserInv'
    BY <1>1, <1>2, <1>3, <1>6, <2>1, <2>2 DEF UserInv
  <2>7. Over => Over'
    BY <1>1, <1>2, <1>3, <1>4, <1>6, <2>1, <2>2 DEF Over, Errs
  <2>8. closed' = closed
    BY <2>1
  <2> QED
    BY <1>1, <1>2, <1>3, <2>3, <2>4, <2>5, <2>6, <2>7, <2>8, NetStep
<1> QED
  BY <1>7, <1>8, <1>9, <1>10, <1>11 DEF NetResult

-----------------------------------------------------------------------------
(* The call at the transport. *)

LEMMA CallFacts ==
    ASSUME IInv, call.op # "none"
    PROVE  /\ ~Over /\ user \in {"direct", "read"}
           /\ call.op \in {"Reader", "Read"} /\ call.at \in {"header", "payload"}
           /\ user = "read" => pc = "call" /\ result = NoResult /\ Pending = 0
           /\ user = "direct" => result.err \in {"nil", "EOF"}
           /\ reader => got # <<>>
           /\ \E f : Aligned(f)
<1>1. ~Over
  BY DEF Over
<1>2. /\ call.op \in {"Reader", "Read"} /\ call.at \in {"header", "payload"}
      /\ user \in {"direct", "read"}
  BY DEF IInv, CallInv, CallTypeOK, UserInv, NetTypeOK, Users
<1>3. user = "read" => pc = "call" /\ result = NoResult /\ Pending = 0
  BY DEF IInv, UserInv, Pending, NoResult
<1>4. /\ user = "direct" => result.err \in {"nil", "EOF"}
      /\ reader => got # <<>>
  BY DEF IInv, UserInv
<1> QED
  BY <1>1, <1>2, <1>3, <1>4 DEF IInv, AlignedInv

LEMMA OthersKept ==
    ASSUME IInv, UNCHANGED Others
    PROVE  /\ UNCHANGED <<user, pc, want, reader, readEOFed, netErr, delivered>>
           /\ NetTypeOK' /\ TimerTypeOK'
  BY DEF IInv, NetTypeOK, TimerTypeOK, Others, netVars, timerVars, lockVars

(* The call returns an error, and the user makes no other, or closes. *)
LEMMA ErrorInv ==
    ASSUME IInv, call.op # "none", PeerTypeOK', UNCHANGED Others,
           UNCHANGED <<peerVars, msgReaderVars, got>>,
           NEW e \in Errs \ {"nil", "EOF", "limit"}, NEW n \in Nat,
           call.op = "Reader" => n = 0,
           Return(e, n), closed' \in BOOLEAN, closed => closed',
           e = "closeNormal" =>
              /\ closed' /\ call.op = "Reader"
              /\ user = "read" => peer.done /\ delivered = Sent
    PROVE  IInv'
<1>1. /\ UNCHANGED <<user, pc, want, reader, readEOFed, netErr, delivered>>
      /\ NetTypeOK' /\ TimerTypeOK'
  BY OthersKept
<1>2. /\ ~Over /\ user \in {"direct", "read"} /\ call.op \in {"Reader", "Read"}
      /\ user = "read" => pc = "call" /\ result = NoResult /\ Pending = 0
      /\ reader => got # <<>>
  BY CallFacts
<1>3. UNCHANGED <<peer, msgs, fin, payloadLength, limited, got>>
  BY DEF peerVars, msgReaderVars
<1>4. /\ call' = NoCall /\ call'.op = "none" /\ result'.op = call.op
      /\ result'.err = e /\ result'.n = n
      /\ result' \in [op : {"none", "Reader", "Read"}, err : Errs, n : Nat]
      /\ call' \in [op : {"none", "Reader", "Read"},
                    at : {"none", "header", "payload"}, p : Nat, have : Seq(Nat)]
  BY <1>2 DEF Return, Result, NoCall
<1>5. CallTypeOK' /\ PeerInv' /\ MessagesInOrder'
  BY <1>3, <1>4 DEF IInv, CallTypeOK, PeerInv, MessagesInOrder
<1>6. CallInv'
  BY <1>4 DEF CallInv, NoCall
<1>7. UserInv'
  BY <1>1, <1>2, <1>3, <1>4 DEF IInv, UserInv
<1>8. LimitInv'
  <2>1. e # "limit" /\ call'.op # "Read" /\ LastBytes' = LastBytes
    BY <1>3, <1>4 DEF LastBytes
  <2> QED
    BY <1>1, <1>3, <1>4, <2>1 DEF IInv, LimitInv
<1>9. Pending' = 0
  BY <1>4 DEF Pending
<1>10. StreamInv'
  <2>1. Sent' = Sent /\ delivered \in Nat
    BY <1>3 DEF Sent, IInv, NetTypeOK
  <2>2. result'.op = "Reader" /\ user = "read" => result'.n = 0
    BY <1>2, <1>4 DEF IInv, StreamInv
  <2> QED
    BY <1>1, <1>2, <1>3, <1>4, <1>9, <2>1, <2>2 DEF IInv, StreamInv
<1>11. AlignedInv'
  BY <1>1, <1>2, <1>4 DEF AlignedInv, Over
<1> QED
  BY <1>1, <1>5, <1>6, <1>7, <1>8, <1>10, <1>11 DEF IInv

(* The call goes on. *)
LEMMA GoesOnInv ==
    ASSUME IInv, call.op # "none", PeerTypeOK', UNCHANGED Others, AlignedInv',
           UNCHANGED <<peerVars, closed, limited, result, got>>, CallInv',
           fin' \in BOOLEAN, payloadLength' \in 0..MaxBytes,
           call'.op = call.op, call'.p \in Nat, call'.p <= call.p,
           call' \in [op : {"none", "Reader", "Read"},
                      at : {"none", "header", "payload"}, p : Nat,
                      have : Seq(Nat)]
    PROVE  IInv'
<1>1. /\ UNCHANGED <<user, pc, want, reader, readEOFed, netErr, delivered>>
      /\ NetTypeOK' /\ TimerTypeOK'
  BY OthersKept
<1>2. UNCHANGED <<peer, msgs>>
  BY DEF peerVars
<1>3. CallTypeOK' /\ PeerInv' /\ MessagesInOrder'
  BY <1>2 DEF IInv, CallTypeOK, PeerInv, MessagesInOrder
<1>4. UserInv'
  BY <1>1 DEF IInv, UserInv
<1>5. LimitInv'
  <2>1. call.p \in Nat /\ limited \in Int
    BY DEF IInv, CallTypeOK
  <2> QED
    BY <1>1, <1>2, <2>1 DEF IInv, LimitInv, LastBytes
<1>6. StreamInv'
  BY <1>1, <1>2 DEF IInv, StreamInv, Pending, Sent
<1> QED
  BY <1>1, <1>3, <1>4, <1>5, <1>6 DEF IInv

(* A Read is at the end of its message. *)
LEMMA EndOfMessageInv ==
    ASSUME IInv, call.op = "Read", PeerTypeOK', UNCHANGED Others, AlignedInv',
           UNCHANGED <<peerVars, closed, limited>>, Ends, call' = NoCall,
           result' = Result("Read", "EOF", 0),
           fin' \in BOOLEAN, payloadLength' \in 0..MaxBytes,
           \/ peer.gone /\ Len(got) = Len(msgs)
           \/ msgs[Len(got)].whole /\ LastBytes = msgs[Len(got)].len
    PROVE  IInv'
<1>1. /\ UNCHANGED <<user, pc, want, reader, readEOFed, netErr, delivered>>
      /\ NetTypeOK' /\ TimerTypeOK'
  BY OthersKept
<1>2. UNCHANGED <<peer, msgs>>
  BY DEF peerVars
<1>3. /\ user \in {"direct", "read"}
      /\ user = "read" => pc = "call" /\ result = NoResult /\ Pending = 0
  BY CallFacts
<1>4. got # <<>> /\ call.p \in Nat /\ call.p > 0 /\ CallTypeOK
  <2>1. got # <<>> /\ Len(call.have) < call.p
    BY DEF IInv, CallInv
  <2>2. Len(call.have) \in Nat /\ call.p \in Nat
    BY DEF IInv, CallTypeOK
  <2> QED
    BY <2>1, <2>2 DEF IInv
<1>5. got' \in Seq(Readings) /\ got' # <<>> /\ LastBytes' = LastBytes
  BY <1>4, EndsMessage
<1>6. MessagesInOrder'
  BY <1>2, <1>4, EndInOrder DEF IInv
<1>7. /\ call'.op = "none" /\ result'.op = "Read" /\ result'.err = "EOF"
      /\ result'.n = 0
      /\ result' \in [op : {"none", "Reader", "Read"}, err : Errs, n : Nat]
      /\ call' \in [op : {"none", "Reader", "Read"},
                    at : {"none", "header", "payload"}, p : Nat, have : Seq(Nat)]
  BY DEF NoCall, Result, Errs
<1>8. LimitInv'
  <2>1. user = "direct" /\ Limit >= 0 => limited >= 1
    <3>1. limited \in Int
      BY DEF IInv, CallTypeOK
    <3> QED
      BY <1>4, <3>1 DEF IInv, LimitInv
  <2> QED
    BY <1>1, <1>2, <1>4, <1>7, <2>1, EndInLimit DEF IInv
<1>9. CallTypeOK' /\ PeerInv'
  BY <1>2, <1>5, <1>7 DEF IInv, CallTypeOK, PeerInv
<1>10. CallInv'
  BY DEF CallInv, NoCall
<1>11. UserInv'
  BY <1>1, <1>3, <1>5, <1>7 DEF IInv, UserInv
<1>12. StreamInv'
  <2>1. Sent' = Sent /\ delivered \in Nat /\ Pending' = 0
    BY <1>2, <1>7 DEF Sent, IInv, NetTypeOK, Pending
  <2> QED
    BY <1>1, <1>3, <1>7, <2>1 DEF IInv, StreamInv
<1> QED
  BY <1>1, <1>6, <1>8, <1>9, <1>10, <1>11, <1>12 DEF IInv

LEMMA TailType ==
    ASSUME PeerTypeOK, wire # <<>>, wire' = Tail(wire), UNCHANGED peerVars
    PROVE  PeerTypeOK'
<1>1. UNCHANGED <<peer, msgs>>
  BY DEF peerVars
<1>2. /\ Tail(wire) \in Seq(Tokens) /\ Len(Tail(wire)) = Len(wire) - 1
      /\ \A k \in 1..(Len(wire) - 1) : Tail(wire)[k] = wire[k + 1]
  BY TakeHead
<1>3. Len(wire) \in Nat
  BY DEF PeerTypeOK
<1>4. ASSUME NEW k \in 1..(Len(wire) - 1), Tail(wire)[k].kind # "byte"
      PROVE  Tail(wire)[k].len <= MaxBytes
  <2>1. k + 1 \in 1..Len(wire)
    BY <1>3
  <2> QED
    BY <1>2, <1>4, <2>1 DEF PeerTypeOK
<1> QED
  BY <1>1, <1>2, <1>4 DEF PeerTypeOK

(* The head is a header. *)
LEMMA HeaderMove ==
    ASSUME IInv, call.at = "header", wire # <<>>, Head(wire).kind # "byte",
           NEW f, Aligned(f)
    PROVE  /\ f[1] \in Positions /\ f[2] \in Positions
           /\ AtReader(f[1]) /\ PosOK(f[1]) /\ PosOK(f[2])
           /\ Move(f[1], Head(wire), f[2])
           /\ f[1].left = 0 /\ payloadLength = 0 /\ call.have = <<>>
           /\ call.op \in {"Reader", "Read"}
           /\ Head(wire) \in Tokens /\ Head(wire).len \in 0..MaxBytes
           /\ f[1].m = Len(got) /\ (f[1].fin <=> fin) /\ f[1].n = LastBytes
           /\ user = "read" => f[1].total = delivered + Pending
           /\ call.op = "Reader" => fin
           /\ call.op = "Read" => ~fin /\ got # <<>>
<1>1. /\ f[1] \in Positions /\ f[2] \in Positions
      /\ AtReader(f[1]) /\ PosOK(f[1]) /\ PosOK(f[2])
      /\ Move(f[1], Head(wire), f[2])
  BY FirstMove DEF IInv
<1>2. /\ call.op \in {"Reader", "Read"} /\ call.have = <<>>
      /\ call.op = "Reader" => fin
      /\ call.op = "Read" => ~fin /\ got # <<>>
  BY DEF IInv, CallInv, CallTypeOK, NoCall
<1>3. f[1].left = 0
  BY <1>1 DEF Move
<1>4. Head(wire) \in Tokens /\ Head(wire).len <= MaxBytes
  BY TakeHead DEF IInv
<1>5. Head(wire).len \in 0..MaxBytes
  BY <1>4, ReaderBoundsAssumption DEF Tokens
<1>6. Len(call.have) = 0
  BY <1>2
<1>7. payloadLength = 0
  BY <1>1, <1>3, <1>6 DEF AtReader, IInv, CallTypeOK
<1>8. LastBytes \in Nat /\ delivered + Pending \in Nat
  <2>1. got \in Seq(Readings) /\ delivered \in Nat /\ Pending \in Nat
    BY DEF IInv, CallTypeOK, NetTypeOK, Pending
  <2>2. got # <<>> => got[Len(got)] \in Readings
    BY <2>1
  <2> QED
    BY <2>1, <2>2 DEF LastBytes, Readings
<1>9. /\ f[1].m = Len(got) /\ (f[1].fin <=> fin) /\ f[1].n = LastBytes
      /\ user = "read" => f[1].total = delivered + Pending
  BY <1>1, <1>6, <1>8 DEF AtReader
<1> QED
  BY <1>1, <1>2, <1>3, <1>4, <1>5, <1>7, <1>9

LEMMA ReadIllegalInv ==
    ASSUME IInv, call.at = "header", ReadIllegal, UNCHANGED peerVars,
           UNCHANGED Others
    PROVE  IInv'
<1>1. /\ wire # <<>> /\ wire' = Tail(wire) /\ Return("protocol", 0)
      /\ UNCHANGED <<closed, msgReaderVars, got>>
  BY DEF ReadIllegal, Take, Violation
<1>2. call.op # "none"
  BY DEF IInv, CallInv, NoCall
<1>3. PeerTypeOK'
  BY <1>1, TailType DEF IInv
<1>4. closed' \in BOOLEAN /\ "protocol" \in Errs \ {"nil", "EOF", "limit"}
  BY <1>1 DEF IInv, CallTypeOK, Errs
<1> QED
  BY <1>1, <1>2, <1>3, <1>4, ErrorInv

LEMMA ReadControlInv ==
    ASSUME IInv, call.at = "header", ReadControl, UNCHANGED peerVars,
           UNCHANGED Others
    PROVE  IInv'
<1>1. /\ wire # <<>> /\ wire' = Tail(wire) /\ Head(wire).kind = "control"
      /\ IF closed THEN Return("closed", 0) ELSE UNCHANGED <<call, result>>
      /\ UNCHANGED <<closed, msgReaderVars, got>>
  BY DEF ReadControl, Take, Controls
<1>2. call.op # "none"
  BY DEF IInv, CallInv, NoCall
<1>3. PeerTypeOK'
  BY <1>1, TailType DEF IInv
<1>4. CASE closed
  <2>1. closed' \in BOOLEAN /\ "closed" \in Errs \ {"nil", "EOF", "limit"}
    BY <1>1 DEF IInv, CallTypeOK, Errs
  <2> QED
    BY <1>1, <1>2, <1>3, <1>4, <2>1, ErrorInv
<1>5. CASE ~closed
  <2>1. UNCHANGED <<call, result, closed, fin, payloadLength, limited, got, user,
                    delivered, peer, msgs>>
    BY <1>1, <1>5, OthersKept DEF msgReaderVars, peerVars
  <2>2. PICK f : Aligned(f)
    BY <1>2, CallFacts
  <2>3. /\ f[1] \in Positions /\ AtReader(f[1]) /\ f[1].left = 0
        /\ Move(f[1], Head(wire), f[2])
    BY <1>1, <2>2, HeaderMove
  <2>4. IsAt(f[2], f[1].m, f[1].fin, 0, f[1].n, f[1].total)
    BY <1>1, <2>3, TypesAssumption DEF Move, Controls, Closes
  <2>5. AtReader(f[2])'
    BY <2>1, <2>3, <2>4 DEF AtReader, IsAt, LastBytes, Pending
  <2>6. AlignedInv'
    BY <1>1, <2>1, <2>2, <2>5, PopAligned DEF IInv
  <2>7. CallInv'
    BY <2>1 DEF IInv, CallInv
  <2>8. /\ fin' \in BOOLEAN /\ payloadLength' \in 0..MaxBytes
        /\ call'.op = call.op /\ call'.p \in Nat /\ call'.p <= call.p
        /\ call' \in [op : {"none", "Reader", "Read"},
                      at : {"none", "header", "payload"}, p : Nat,
                      have : Seq(Nat)]
    BY <2>1 DEF IInv, CallTypeOK
  <2> QED
    BY <1>2, <1>3, <2>1, <2>6, <2>7, <2>8, GoesOnInv
<1> QED
  BY <1>4, <1>5

(* After a close frame there is nothing. *)
LEMMA LastMove ==
    ASSUME IInv, wire # <<>>, NEW f, Aligned(f), f[2].done
    PROVE  AtPeer(f[2])
<1>1. Len(wire) \in Nat /\ Len(wire) > 0
  BY DEF IInv, PeerTypeOK
<1>2. ASSUME Len(wire) > 1 PROVE FALSE
  <2>1. 2 \in 1..Len(wire)
    BY <1>1, <1>2
  <2>2. Move(f[2], wire[2], f[2 + 1])
    BY <2>1 DEF Aligned
  <2> QED
    BY <2>2 DEF Move
<1>3. Len(wire) + 1 = 2
  BY <1>1, <1>2
<1> QED
  BY <1>3 DEF Aligned

LEMMA ReadCloseInv ==
    ASSUME IInv, call.at = "header", ReadClose, UNCHANGED peerVars,
           UNCHANGED Others
    PROVE  IInv'
<1>1. PICK op \in Closes :
         /\ wire # <<>> /\ wire' = Tail(wire) /\ Head(wire).kind = op
         /\ Return(IF call.op = "Reader" THEN op ELSE "closeFrame", 0)
  BY DEF ReadClose, Take
<1>2. closed' /\ closed' \in BOOLEAN /\ UNCHANGED <<msgReaderVars, got>>
  BY DEF ReadClose
<1>3. call.op # "none"
  BY DEF IInv, CallInv, NoCall
<1>4. PeerTypeOK'
  BY <1>1, TailType DEF IInv
<1>5. PICK e : e = IF call.op = "Reader" THEN op ELSE "closeFrame"
  OBVIOUS
<1>6. e \in Errs \ {"nil", "EOF", "limit"} /\ (e = "closeNormal" => call.op = "Reader")
  BY <1>5 DEF Errs, Closes
<1>7. PICK f : Aligned(f)
  BY <1>3, CallFacts
<1>8. /\ Move(f[1], Head(wire), f[2]) /\ f[1] \in Positions /\ f[2] \in Positions
      /\ user = "read" => f[1].total = delivered + Pending
  BY <1>1, <1>7, HeaderMove DEF Closes
<1>9. f[2].done /\ f[2].total = f[1].total
  BY <1>1, <1>8, TypesAssumption DEF Move, Controls, Closes
<1>10. AtPeer(f[2])
  BY <1>1, <1>7, <1>9, LastMove
<1>11. user = "read" => peer.done /\ delivered = Sent
  <2>1. user = "read" => Pending = 0 /\ delivered \in Nat
    BY <1>3, CallFacts DEF IInv, NetTypeOK
  <2> QED
    BY <1>8, <1>9, <1>10, <2>1 DEF AtPeer
<1> QED
  BY <1>1, <1>2, <1>3, <1>4, <1>5, <1>6, <1>11, ErrorInv

LEMMA CallChanges ==
    ASSUME NEW c \in [op : {"none", "Reader", "Read"},
                      at : {"none", "header", "payload"}, p : Nat,
                      have : Seq(Nat)],
           NEW a \in {"none", "header", "payload"}, NEW q \in Nat
    PROVE  [c EXCEPT !.at = a, !.p = q] \in
              [op : {"none", "Reader", "Read"},
               at : {"none", "header", "payload"}, p : Nat, have : Seq(Nat)]
  OBVIOUS

LEMMA ReadContinuationInv ==
    ASSUME IInv, call.at = "header", ReadContinuation, UNCHANGED peerVars,
           UNCHANGED Others
    PROVE  IInv'
<1>1. wire # <<>> /\ wire' = Tail(wire) /\ Head(wire).kind = "cont"
  BY DEF ReadContinuation, Take
<1>2. call.op # "none"
  BY DEF IInv, CallInv, NoCall
<1>3. PeerTypeOK'
  BY <1>1, TailType DEF IInv
<1>4. PICK f : Aligned(f)
  BY <1>2, CallFacts
<1>5. /\ f[1] \in Positions /\ f[2] \in Positions
      /\ AtReader(f[1]) /\ PosOK(f[2]) /\ Move(f[1], Head(wire), f[2])
      /\ call.have = <<>> /\ call.op \in {"Reader", "Read"}
      /\ Head(wire) \in Tokens /\ Head(wire).len \in 0..MaxBytes
      /\ f[1].m = Len(got) /\ (f[1].fin <=> fin) /\ f[1].n = LastBytes
      /\ user = "read" => f[1].total = delivered + Pending
      /\ call.op = "Read" => ~fin /\ got # <<>>
  BY <1>1, <1>4, HeaderMove
<1>6. CASE call.op = "Reader"
  <2>1. Return("protocol", 0) /\ UNCHANGED <<closed, msgReaderVars, got>>
    BY <1>6 DEF ReadContinuation, Violation
  <2>2. closed' \in BOOLEAN /\ "protocol" \in Errs \ {"nil", "EOF", "limit"}
    BY <2>1 DEF IInv, CallTypeOK, Errs
  <2> QED
    BY <1>1, <1>2, <1>3, <2>1, <2>2, ErrorInv
<1>7. CASE call.op = "Read"
  <2>1. /\ fin' = Head(wire).fin /\ payloadLength' = Head(wire).len
        /\ UNCHANGED <<closed, limited, peer, msgs, user, delivered>>
    BY <1>7, OthersKept DEF ReadContinuation, setFrame, peerVars
  <2>2. fin' \in BOOLEAN /\ payloadLength' \in 0..MaxBytes
    BY <1>5, <2>1 DEF Tokens
  <2>3. IsAt(f[2], Len(got), Head(wire).fin, Head(wire).len, LastBytes, f[1].total)
    BY <1>1, <1>5, <1>7, TypesAssumption DEF Move, Controls, Closes
  <2>4. got # <<>> /\ Len(got) > 0 /\ Len(got) \in Nat /\ LastBytes \in Nat
    <3>1. f[1].n \in Nat /\ f[1].m \in Nat
      BY <1>5 DEF Positions
    <3> QED
      BY <1>5, <1>7, <3>1
  <2>5. call.p \in Nat /\ call.p > 0 /\ Len(call.have) = 0
    BY <1>5, <1>7 DEF IInv, CallInv, CallTypeOK
  <2>6. user = "read" => Pending = 0 /\ f[1].total = delivered /\ delivered \in Nat
    BY <1>2, <1>5, CallFacts DEF IInv, NetTypeOK
  <2>7. CASE Head(wire).len = 0 /\ Head(wire).fin
    <3>1. Return("EOF", 0) /\ Ends
      BY <1>7, <2>7 DEF ReadContinuation, Ends
    <3>2. /\ call' = NoCall /\ result' = Result("Read", "EOF", 0)
          /\ Len(call'.have) = 0 /\ Pending' = 0
      BY <1>7, <3>1 DEF Return, Result, NoCall, Pending
    <3>3. LastBytes' = LastBytes /\ Len(got') = Len(got)
      BY <2>4, <3>1, EndsMessage DEF IInv
    <3>4. msgs[Len(got)].whole /\ LastBytes = msgs[Len(got)].len
      <4>1. /\ f[2].m = Len(got) /\ f[2].fin /\ f[2].left = 0 /\ ~f[2].done
            /\ f[2].n = LastBytes
        BY <2>3, <2>7 DEF IsAt
      <4> QED
        BY <1>5, <2>4, <4>1 DEF PosOK
    <3>5. AtReader(f[2])'
      BY <2>1, <2>3, <2>4, <2>6, <2>7, <3>2, <3>3 DEF AtReader, IsAt
    <3>6. AlignedInv'
      BY <1>1, <1>4, <2>1, <3>5, PopAligned DEF IInv
    <3> QED
      BY <1>3, <1>7, <2>1, <2>2, <3>1, <3>2, <3>4, <3>6, EndOfMessageInv
  <2>8. CASE ~(Head(wire).len = 0 /\ Head(wire).fin)
    <3>1. /\ call' = [call EXCEPT
                        !.at = IF Head(wire).len = 0 THEN "header"
                               ELSE "payload",
                        !.p = IF Head(wire).len = 0 THEN call.p
                              ELSE Least(call.p, Head(wire).len)]
          /\ UNCHANGED <<result, got>>
      BY <1>7, <2>8 DEF ReadContinuation
    <3>2. call \in [op : {"none", "Reader", "Read"},
                    at : {"none", "header", "payload"}, p : Nat,
                    have : Seq(Nat)]
      BY DEF IInv, CallTypeOK
    <3>3. /\ call'.op = "Read" /\ call'.have = <<>> /\ Len(call'.have) = 0
          /\ Head(wire).len = 0 => call'.at = "header" /\ call'.p = call.p
          /\ Head(wire).len # 0 =>
                call'.at = "payload" /\ call'.p = Least(call.p, Head(wire).len)
      BY <1>5, <1>7, <3>1, <3>2
    <3>4. /\ call'.p \in Nat /\ call'.p <= call.p /\ call'.p > 0
          /\ Head(wire).len # 0 => call'.p <= Head(wire).len
      BY <1>5, <2>5, <3>3 DEF Least
    <3>5. call' \in [op : {"none", "Reader", "Read"},
                     at : {"none", "header", "payload"}, p : Nat,
                     have : Seq(Nat)]
      <4> DEFINE aa == IF Head(wire).len = 0 THEN "header" ELSE "payload"
                 qq == IF Head(wire).len = 0 THEN call.p
                       ELSE Least(call.p, Head(wire).len)
      <4>5. call' = [call EXCEPT !.at = aa, !.p = qq]
        BY <3>1
      <4> HIDE DEF aa, qq
      <4>2. call'.at = aa /\ call'.p = qq
        BY <3>2, <4>5
      <4>3. aa \in {"none", "header", "payload"} /\ qq \in Nat
        BY <3>3, <3>4, <4>2
      <4>6. [call EXCEPT !.at = aa, !.p = qq] \in
               [op : {"none", "Reader", "Read"},
                at : {"none", "header", "payload"}, p : Nat, have : Seq(Nat)]
        BY <3>2, <4>3, CallChanges, Zenon
      <4> QED
        BY <4>5, <4>6, Zenon
    <3>6. LastBytes' = LastBytes /\ Pending' = Pending
      BY <3>1 DEF LastBytes, Pending
    <3>7. AtReader(f[2])'
      BY <2>1, <2>3, <2>4, <2>6, <3>1, <3>3, <3>6, <1>5 DEF AtReader, IsAt
    <3>8. AlignedInv'
      BY <1>1, <1>4, <2>1, <3>7, PopAligned DEF IInv
    <3>9. CallInv'
      <4>1. Head(wire).len = 0 => ~fin'
        <5>1. Head(wire).len = 0 => ~Head(wire).fin
          BY <2>8
        <5> QED
          BY <2>1, <5>1
      <4>2. got' # <<>>
        BY <2>4, <3>1
      <4>3. \A k \in 1..Len(call'.have) : call'.have[k] = Len(got')
        BY <3>3
      <4>4. call'.at \in {"header", "payload"}
            /\ (call'.at = "header" => Head(wire).len = 0)
            /\ (call'.at = "payload" => call'.p <= payloadLength')
        BY <2>1, <3>3, <3>4
      <4> QED
        BY <3>3, <3>4, <4>1, <4>2, <4>3, <4>4 DEF CallInv
    <3> QED
      BY <1>2, <1>3, <1>7, <2>1, <2>2, <3>1, <3>3, <3>4, <3>5, <3>8, <3>9, GoesOnInv
  <2> QED
    BY <2>7, <2>8
<1> QED
  BY <1>5, <1>6, <1>7

(* A reader gets the next message. *)
LEMMA NextMessage ==
    ASSUME CallTypeOK, NEW r \in Readings, r.bytes = <<>>, ~r.eof,
           got' = Append(got, r)
    PROVE  /\ got' \in Seq(Readings) /\ got' # <<>>
           /\ Len(got) \in Nat /\ Len(got') = Len(got) + 1
           /\ LastBytes' = 0 /\ got'[Len(got) + 1] = r
           /\ \A i \in 1..Len(got) : got'[i] = got[i]
<1>1. got \in Seq(Readings)
  BY DEF CallTypeOK
<1>2. /\ Append(got, r) \in Seq(Readings) /\ Append(got, r) # <<>>
      /\ Len(got) \in Nat /\ Len(Append(got, r)) = Len(got) + 1
      /\ Append(got, r)[Len(got) + 1] = r
      /\ \A i \in 1..Len(got) : Append(got, r)[i] = got[i]
  BY <1>1
<1>3. LastBytes' = 0
  BY <1>2 DEF LastBytes
<1> QED
  BY <1>2, <1>3

LEMMA ReadDataInv ==
    ASSUME IInv, call.at = "header", ReadData(readLimit), UNCHANGED peerVars,
           UNCHANGED Others
    PROVE  IInv'
<1>1. PICK t \in Types :
         /\ wire # <<>> /\ wire' = Tail(wire) /\ Head(wire).kind = t
         /\ IF call.op = "Read" THEN Violation
            ELSE /\ setFrame(Head(wire))
                 /\ limited' = SetReadLimit(readLimit)
                 /\ got' = Append(got, [type |-> t, bytes |-> <<>>,
                                        eof |-> FALSE])
                 /\ Return("nil", 0)
                 /\ UNCHANGED closed
  BY DEF ReadData, Take
<1>2. call.op # "none" /\ Head(wire).kind # "byte"
  BY <1>1, TypesAssumption DEF IInv, CallInv, NoCall
<1>3. PeerTypeOK'
  BY <1>1, TailType DEF IInv
<1>4. PICK f : Aligned(f)
  BY <1>2, CallFacts
<1>5. /\ f[1] \in Positions /\ f[2] \in Positions /\ f[1].left = 0
      /\ AtReader(f[1]) /\ PosOK(f[1]) /\ PosOK(f[2])
      /\ Move(f[1], Head(wire), f[2])
      /\ call.have = <<>> /\ call.op \in {"Reader", "Read"}
      /\ Head(wire) \in Tokens /\ Head(wire).len \in 0..MaxBytes
      /\ f[1].m = Len(got) /\ (f[1].fin <=> fin) /\ f[1].n = LastBytes
      /\ user = "read" => f[1].total = delivered + Pending
      /\ call.op = "Reader" => fin
  BY <1>1, <1>2, <1>4, HeaderMove
<1>6. CASE call.op = "Read"
  <2>1. Return("protocol", 0) /\ UNCHANGED <<closed, msgReaderVars, got>>
    BY <1>1, <1>6 DEF Violation
  <2>2. closed' \in BOOLEAN /\ "protocol" \in Errs \ {"nil", "EOF", "limit"}
    BY <2>1 DEF IInv, CallTypeOK, Errs
  <2> QED
    BY <1>1, <1>2, <1>3, <1>6, <2>1, <2>2, ErrorInv
<1>7. CASE call.op = "Reader"
  <2>1. /\ fin' = Head(wire).fin /\ payloadLength' = Head(wire).len
        /\ limited' = SetReadLimit(readLimit) /\ Return("nil", 0)
        /\ UNCHANGED <<closed, peer, msgs>>
    BY <1>1, <1>7 DEF setFrame, peerVars
  <2>2. PICK r \in Readings : /\ r.type = t /\ r.bytes = <<>> /\ ~r.eof
                              /\ got' = Append(got, r)
    <3>1. /\ [type |-> t, bytes |-> <<>>, eof |-> FALSE] \in Readings
          /\ got' = Append(got, [type |-> t, bytes |-> <<>>, eof |-> FALSE])
      BY <1>1, <1>7 DEF Readings
    <3> QED
      BY <3>1
  <2>3. /\ got' \in Seq(Readings) /\ got' # <<>> /\ Len(got) \in Nat
        /\ Len(got') = Len(got) + 1 /\ LastBytes' = 0
        /\ got'[Len(got) + 1] = r /\ \A i \in 1..Len(got) : got'[i] = got[i]
    BY <2>2, NextMessage DEF IInv
  <2>4. /\ call' = NoCall /\ result' = Result("Reader", "nil", 0)
        /\ call'.op = "none" /\ Len(call'.have) = 0
        /\ result'.op = "Reader" /\ result'.err = "nil" /\ result'.n = 0
        /\ Pending' = 0
        /\ result' \in [op : {"none", "Reader", "Read"}, err : Errs, n : Nat]
        /\ call' \in [op : {"none", "Reader", "Read"},
                      at : {"none", "header", "payload"}, p : Nat, have : Seq(Nat)]
    BY <1>7, <2>1 DEF Return, Result, NoCall, Pending, Errs
  <2>5. /\ UNCHANGED <<user, pc, want, reader, readEOFed, netErr, delivered>>
        /\ NetTypeOK' /\ TimerTypeOK'
    BY OthersKept
  <2>6. /\ IsAt(f[2], Len(got) + 1, Head(wire).fin, Head(wire).len, 0, f[1].total)
        /\ t = msgs[Len(got) + 1].type
    <3>1. f[1].fin
      BY <1>5, <1>7
    <3>2. /\ IsAt(f[2], f[1].m + 1, Head(wire).fin, Head(wire).len, 0, f[1].total)
          /\ Head(wire).kind = msgs[f[2].m].type
      BY <1>1, <1>5, <3>1, TypesAssumption DEF Move, Controls, Closes
    <3>3. f[2].m = Len(got) + 1
      BY <1>5, <3>2 DEF IsAt
    <3> QED
      BY <1>1, <1>5, <3>2, <3>3
  <2>7. MessagesInOrder'
    <3>1. Len(got) + 1 <= Len(msgs)
      BY <1>5, <2>6 DEF PosOK, IsAt
    <3>2. got # <<>> => LastBytes = msgs[Len(got)].len
      <4>1. got # <<>> => Len(got) > 0
        BY <2>3 DEF IInv, CallTypeOK
      <4>2. got # <<>> => f[1].n + f[1].left = msgs[f[1].m].len
        BY <1>5, <1>7, <4>1 DEF PosOK, AtReader
      <4>3. f[1].n \in Nat
        BY <1>5 DEF Positions
      <4> QED
        BY <1>5, <4>2, <4>3
    <3>3. ASSUME NEW i \in 1..(Len(got) + 1)
          PROVE  /\ got'[i].type = msgs[i].type
                 /\ \A k \in DOMAIN got'[i].bytes : got'[i].bytes[k] = i
                 /\ Len(got'[i].bytes) <= msgs[i].len
                 /\ i < Len(got) + 1 => Len(got'[i].bytes) = msgs[i].len
                 /\ got'[i].eof => \/ peer.gone /\ i = Len(msgs)
                                   \/ /\ msgs[i].whole
                                      /\ Len(got'[i].bytes) = msgs[i].len
      <4>1. CASE i = Len(got) + 1
        <5>1. msgs[i].len \in Nat
          <6>1. msgs \in Seq(Messages)
            BY DEF IInv, PeerTypeOK
          <6>2. msgs[i] \in Messages
            BY <2>3, <3>1, <4>1, <6>1
          <6> QED
            BY <6>2 DEF Messages
        <5>2. DOMAIN r.bytes = {} /\ Len(r.bytes) = 0
          BY <2>2
        <5>3. got'[i] = r
          BY <2>3, <4>1
        <5> QED
          BY <2>2, <2>3, <2>6, <4>1, <5>1, <5>2, <5>3
      <4>2. CASE i \in 1..Len(got)
        <5>1. got'[i] = got[i] /\ i \in DOMAIN got
          BY <2>3, <4>2 DEF IInv, CallTypeOK
        <5>2. /\ got[i].type = msgs[i].type
              /\ \A k \in DOMAIN got[i].bytes : got[i].bytes[k] = i
              /\ Len(got[i].bytes) <= msgs[i].len
              /\ i < Len(got) => Len(got[i].bytes) = msgs[i].len
              /\ got[i].eof => \/ peer.gone /\ i = Len(msgs)
                               \/ /\ msgs[i].whole
                                  /\ Len(got[i].bytes) = msgs[i].len
          BY <5>1 DEF IInv, MessagesInOrder
        <5>3. i = Len(got) => Len(got[i].bytes) = msgs[i].len
          BY <3>2, <4>2, <2>3 DEF LastBytes
        <5> QED
          BY <2>3, <4>2, <5>1, <5>2, <5>3
      <4> QED
        BY <2>3, <4>1, <4>2
    <3>4. DOMAIN got' = 1..(Len(got) + 1)
      BY <2>3
    <3> QED
      BY <2>1, <2>3, <3>1, <3>3, <3>4 DEF MessagesInOrder
  <2>8. CallTypeOK' /\ PeerInv'
    <3>1. limited' \in Int
      BY <2>1, LimitAssumption DEF SetReadLimit, readLimit
    <3>2. fin' \in BOOLEAN /\ payloadLength' \in 0..MaxBytes
      BY <1>5, <2>1 DEF Tokens
    <3>3. closed' \in BOOLEAN
      BY <2>1 DEF IInv, CallTypeOK
    <3>4. PeerInv'
      BY <2>1 DEF IInv, PeerInv
    <3> QED
      BY <2>3, <2>4, <3>1, <3>2, <3>3, <3>4 DEF CallTypeOK
  <2>9. CallInv'
    BY <2>4 DEF CallInv, NoCall
  <2>10. UserInv'
    <3>1. /\ user \in {"direct", "read"} /\ (user = "read" => pc = "call")
      BY <1>2, CallFacts
    <3> QED
      BY <2>1, <2>3, <2>4, <2>5, <3>1 DEF IInv, UserInv
  <2>11. LimitInv'
    <3>1. SUFFICES ASSUME user = "direct", Limit >= 0
                   PROVE  /\ limited' >= 0 /\ limited' + LastBytes' = Limit + 1
                          /\ \A i \in 1..Len(got') :
                                got'[i].eof => Len(got'[i].bytes) <= Limit
      BY <2>4, <2>5 DEF LimitInv
    <3>2. limited' = Limit + 1
      BY <2>1, <3>1 DEF SetReadLimit, readLimit
    <3>3. \A i \in 1..Len(got) : got[i].eof => Len(got[i].bytes) <= Limit
      BY <3>1 DEF IInv, LimitInv
    <3>4. ASSUME NEW i \in 1..(Len(got) + 1), got'[i].eof
          PROVE  Len(got'[i].bytes) <= Limit
      <4>1. i # Len(got) + 1
        BY <2>2, <2>3, <3>4
      <4>2. i \in 1..Len(got)
        BY <2>3, <4>1
      <4> QED
        BY <2>3, <3>3, <3>4, <4>2
    <3> QED
      BY <2>3, <3>1, <3>2, <3>4, LimitAssumption
  <2>12. user = "read" => Pending = 0 /\ f[1].total = delivered /\ delivered \in Nat
    BY <1>2, <1>5, CallFacts DEF IInv, NetTypeOK
  <2>13. StreamInv'
    <3>1. Sent' = Sent
      BY <2>1 DEF Sent
    <3> QED
      BY <2>4, <2>5, <2>12, <3>1 DEF IInv, StreamInv
  <2>14. AtReader(f[2])'
    BY <1>5, <2>1, <2>3, <2>4, <2>5, <2>6, <2>12 DEF AtReader, IsAt
  <2>15. AlignedInv'
    BY <1>1, <1>4, <2>1, <2>14, PopAligned DEF IInv
  <2> QED
    BY <1>3, <2>5, <2>7, <2>8, <2>9, <2>10, <2>11, <2>13, <2>15 DEF IInv
<1> QED
  BY <1>5, <1>6, <1>7

(* The transport is at its end. *)
LEMMA EndsInv ==
    ASSUME IInv, call.op = "Read", call.have = <<>>, ~closed, peer.gone,
           wire = <<>>, EndOfMessage("Read"), UNCHANGED peerVars,
           UNCHANGED Others
    PROVE  IInv'
<1>1. /\ Ends /\ call' = NoCall /\ result' = Result("Read", "EOF", 0)
      /\ UNCHANGED <<wire, closed, fin, payloadLength, limited, peer, msgs, user,
                     delivered>>
  BY OthersKept DEF EndOfMessage, Ends, msgReaderVars, peerVars
<1>2. PICK f : Aligned(f)
  BY CallFacts
<1>3. PeerTypeOK'
  BY <1>1 DEF IInv, PeerTypeOK
<1>4. got # <<>>
  BY DEF IInv, CallInv
<1>5. LastBytes' = LastBytes /\ Len(got') = Len(got)
  BY <1>1, <1>4, EndsMessage DEF IInv
<1>6. /\ Len(call.have) = 0 /\ Len(call'.have) = 0 /\ Pending' = 0
      /\ user = "read" => Pending = 0
  BY <1>1, CallFacts DEF NoCall, Result, Pending
<1>7. AlignedInv'
  <2>1. Over => Over'
    BY DEF Over
  <2>2. user = "read" => delivered' + Pending' = delivered + Pending
    BY <1>1, <1>6
  <2>3. /\ peer'.left = peer.left /\ peer'.bytes = peer.bytes
        /\ (peer'.fin <=> peer.fin) /\ (peer'.done <=> peer.done)
    BY <1>1
  <2>4. AlignedInv /\ Len(call'.have) = Len(call.have)
    BY <1>6 DEF IInv
  <2> QED
    BY <1>1, <1>5, <2>1, <2>2, <2>3, <2>4, QuietAligned
<1>8. Len(got) = Len(msgs)
  <2>1. Len(wire) + 1 = 1
    OBVIOUS
  <2>2. AtReader(f[1]) /\ AtPeer(f[1])
    BY <1>2, <2>1 DEF Aligned
  <2> QED
    BY <2>2 DEF AtReader, AtPeer
<1>9. fin' \in BOOLEAN /\ payloadLength' \in 0..MaxBytes
  BY <1>1 DEF IInv, CallTypeOK
<1>10. UNCHANGED <<peerVars, closed, limited>>
  BY <1>1 DEF peerVars
<1> QED
  BY <1>1, <1>3, <1>7, <1>8, <1>9, <1>10, EndOfMessageInv

LEMMA HeaderFailsInv ==
    ASSUME IInv, call.at = "header", HeaderFails, UNCHANGED peerVars,
           UNCHANGED Others
    PROVE  IInv'
<1>1. /\ call.op # "none" /\ call.op \in {"Reader", "Read"}
      /\ call.have = <<>>
  BY DEF IInv, CallInv, CallTypeOK, NoCall
<1>2. CASE Return("closed", 0) /\ UNCHANGED <<wire, closed, msgReaderVars, got>>
  <2>1. closed' \in BOOLEAN /\ "closed" \in Errs \ {"nil", "EOF", "limit"}
    BY <1>2 DEF IInv, CallTypeOK, Errs
  <2>2. PeerTypeOK'
    BY <1>2 DEF IInv, PeerTypeOK, peerVars
  <2> QED
    BY <1>1, <1>2, <2>1, <2>2, ErrorInv
<1>3. CASE /\ ~closed /\ peer.gone /\ wire = <<>> /\ call.op = "Read"
           /\ EndOfMessage("Read")
  BY <1>1, <1>3, EndsInv
<1> QED
  BY <1>1, <1>2, <1>3 DEF HeaderFails

LEMMA PayloadFailsInv ==
    ASSUME IInv, call.at = "payload", PayloadFails, UNCHANGED peerVars,
           UNCHANGED Others
    PROVE  IInv'
<1>1. /\ call.op = "Read" /\ Len(call.have) \in Nat
  BY DEF IInv, CallInv, CallTypeOK, NoCall
<1>2. ASSUME NEW e \in {"closed", "unexpectedEOF"}, Return(e, Len(call.have)),
             UNCHANGED <<wire, closed, msgReaderVars, got>>
      PROVE  IInv'
  <2>1. closed' \in BOOLEAN /\ e \in Errs \ {"nil", "EOF", "limit"}
        /\ e # "closeNormal"
    BY <1>2 DEF IInv, CallTypeOK, Errs
  <2>2. PeerTypeOK'
    BY <1>2 DEF IInv, PeerTypeOK, peerVars
  <2> QED
    BY <1>1, <1>2, <2>1, <2>2, ErrorInv
<1>3. CASE /\ ~closed /\ peer.gone /\ wire = <<>> /\ call.have = <<>>
           /\ EndOfMessage("Read")
  BY <1>1, <1>3, EndsInv
<1> QED
  BY <1>2, <1>3 DEF PayloadFails

(* The head is a byte of the payload. *)
LEMMA ByteMove ==
    ASSUME IInv, call.at = "payload", wire # <<>>, Head(wire).kind = "byte",
           NEW f, Aligned(f)
    PROVE  /\ call.op = "Read" /\ got # <<>> /\ Len(got) \in Nat /\ Len(got) > 0
           /\ f[1] \in Positions /\ f[2] \in Positions
           /\ PosOK(f[1]) /\ PosOK(f[2]) /\ f[1].left > 0
           /\ LastBytes \in Nat /\ payloadLength \in Nat
           /\ call.have \in Seq(Nat) /\ call.p \in Nat
           /\ Len(call.have) \in Nat /\ Len(call.have) < call.p
           /\ call.p <= payloadLength
           /\ f[1].m = Len(got) /\ f[1].n = LastBytes + Len(call.have)
           /\ Head(wire).len = Len(got)
           /\ f[2].m = Len(got) /\ (f[2].fin <=> fin) /\ ~f[2].done
           /\ f[2].left = payloadLength - (Len(call.have) + 1)
           /\ f[2].n = LastBytes + Len(call.have) + 1
           /\ user = "read" =>
                /\ f[2].total = delivered + Len(call.have) + 1
                /\ delivered \in Nat
<1>1. /\ f[1] \in Positions /\ f[2] \in Positions
      /\ AtReader(f[1]) /\ PosOK(f[1]) /\ PosOK(f[2])
      /\ Move(f[1], Head(wire), f[2])
  BY FirstMove DEF IInv
<1>2. call.op = "Read" /\ call.op # "none"
  BY DEF IInv, CallInv, CallTypeOK, NoCall
<1>3. /\ got # <<>> /\ got \in Seq(Readings) /\ Len(call.have) < call.p
      /\ call.p <= payloadLength /\ payloadLength \in 0..MaxBytes
      /\ call.have \in Seq(Nat) /\ call.p \in Nat
  BY <1>2 DEF IInv, CallInv, CallTypeOK
<1>4. Len(got) \in Nat /\ Len(got) > 0 /\ Len(call.have) \in Nat
  BY <1>3
<1>5. LastBytes \in Nat
  <2>1. got[Len(got)] \in Readings
    BY <1>3, <1>4
  <2> QED
    BY <1>3, <2>1 DEF LastBytes, Readings
<1>6. /\ Head(wire).len = f[1].m /\ f[1].left > 0
      /\ IsAt(f[2], f[1].m, f[1].fin, f[1].left - 1, f[1].n + 1, f[1].total + 1)
  BY <1>1, TypesAssumption DEF Move, Controls, Closes
<1>7. user = "read" => Pending = 0 /\ delivered \in Nat
  BY <1>2, CallFacts DEF IInv, NetTypeOK
<1>8. /\ f[1].m = Len(got) /\ (f[1].fin <=> fin)
      /\ f[1].left = payloadLength - Len(call.have)
      /\ f[1].n = LastBytes + Len(call.have)
      /\ user = "read" => f[1].total = delivered + Len(call.have)
  BY <1>1, <1>7 DEF AtReader
<1>9. /\ f[2].m = f[1].m /\ (f[2].fin <=> f[1].fin) /\ ~f[2].done
      /\ f[2].left = f[1].left - 1 /\ f[2].n = f[1].n + 1
      /\ f[2].total = f[1].total + 1
  BY <1>6 DEF IsAt
<1>10. /\ f[2].m = Len(got)
       /\ f[2].left = payloadLength - (Len(call.have) + 1)
       /\ f[2].n = LastBytes + Len(call.have) + 1
  <2>1. payloadLength \in Nat
    BY <1>3
  <2>2. /\ f[1].left = payloadLength - Len(call.have)
        /\ f[1].n = LastBytes + Len(call.have) /\ f[1].m = Len(got)
        /\ f[2].m = f[1].m /\ f[2].left = f[1].left - 1 /\ f[2].n = f[1].n + 1
    BY <1>8, <1>9
  <2> QED
    BY <1>4, <1>5, <2>1, <2>2
<1>13. f[2].fin <=> fin
  BY <1>8, <1>9
<1>11. user = "read" => f[2].total = delivered + Len(call.have) + 1
  BY <1>4, <1>7, <1>8, <1>9
<1>12. payloadLength \in Nat /\ Head(wire).len = Len(got)
  BY <1>3, <1>6, <1>8
<1> QED
  BY <1>1, <1>2, <1>3, <1>4, <1>5, <1>6, <1>7, <1>8, <1>9, <1>10, <1>11, <1>12,
     <1>13

(* A Read has all its bytes. *)
Fills(have) == got' = [got EXCEPT ![Len(got)].bytes = got[Len(got)].bytes \o have]

LEMMA FillsMessage ==
    ASSUME CallTypeOK, got # <<>>, NEW have \in Seq(Nat), Fills(have)
    PROVE  /\ got' \in Seq(Readings) /\ got' # <<>> /\ Len(got') = Len(got)
           /\ got[Len(got)].bytes \in Seq(Nat)
           /\ LastBytes = Len(got[Len(got)].bytes)
           /\ LastBytes' = LastBytes + Len(have)
           /\ \A i \in 1..Len(got) : i < Len(got) => got'[i] = got[i]
           /\ got'[Len(got)].type = got[Len(got)].type
           /\ got'[Len(got)].eof <=> got[Len(got)].eof
           /\ got'[Len(got)].bytes = got[Len(got)].bytes \o have
<1>1. got \in Seq(Readings)
  BY DEF CallTypeOK
<1> DEFINE last == got[Len(got)]
           m == [last EXCEPT !.bytes = last.bytes \o have]
<1>2. last \in Readings /\ Len(got) \in Nat /\ Len(got) > 0
  BY <1>1
<1>3. last.bytes \in Seq(Nat) /\ last.bytes \o have \in Seq(Nat)
      /\ Len(last.bytes \o have) = Len(last.bytes) + Len(have)
  BY <1>2 DEF Readings
<1>4. m \in Readings
  BY <1>2, <1>3 DEF Readings
<1>5. /\ m.type = last.type /\ (m.eof <=> last.eof)
      /\ m.bytes = last.bytes \o have
  BY <1>2 DEF Readings
<1>6. got' = [got EXCEPT ![Len(got)] = m]
  BY <1>1, <1>2 DEF Fills
<1> HIDE DEF m
<1>7. /\ got' \in Seq(Readings) /\ Len(got') = Len(got) /\ got' # <<>>
      /\ got'[Len(got)] = m
      /\ \A i \in 1..Len(got) : i < Len(got) => got'[i] = got[i]
  BY <1>1, <1>4, <1>6, SetLast
<1>8. LastBytes = Len(last.bytes) /\ LastBytes' = Len(m.bytes)
  BY <1>7 DEF LastBytes
<1> QED
  BY <1>3, <1>5, <1>7, <1>8

LEMMA HaveChanges ==
    ASSUME NEW c \in [op : {"none", "Reader", "Read"},
                      at : {"none", "header", "payload"}, p : Nat,
                      have : Seq(Nat)],
           NEW h \in Seq(Nat)
    PROVE  /\ [c EXCEPT !.have = h] \in
              [op : {"none", "Reader", "Read"},
               at : {"none", "header", "payload"}, p : Nat, have : Seq(Nat)]
           /\ [c EXCEPT !.have = h].op = c.op /\ [c EXCEPT !.have = h].p = c.p
           /\ [c EXCEPT !.have = h].at = c.at
           /\ [c EXCEPT !.have = h].have = h
  OBVIOUS

LEMMA JoinAll ==
    ASSUME NEW b \in Seq(Nat), NEW h \in Seq(Nat), NEW i,
           \A k \in 1..Len(b) : b[k] = i, \A k \in 1..Len(h) : h[k] = i
    PROVE  \A k \in DOMAIN (b \o h) : (b \o h)[k] = i
<1>1. Len(b) \in Nat /\ Len(h) \in Nat /\ DOMAIN (b \o h) = 1..(Len(b) + Len(h))
  OBVIOUS
<1>2. ASSUME NEW k \in 1..(Len(b) + Len(h)), k <= Len(b)
      PROVE  (b \o h)[k] = i
  BY <1>1, <1>2
<1>3. ASSUME NEW k \in 1..(Len(b) + Len(h)), k > Len(b)
      PROVE  (b \o h)[k] = i
  <2>1. k - Len(b) \in 1..Len(h) /\ (b \o h)[k] = h[k - Len(b)]
    BY <1>1, <1>3
  <2> QED
    BY <2>1
<1> QED
  BY <1>1, <1>2, <1>3

(* The Read has what it wanted. *)
PayloadRead(have) ==
    /\ Len(have) = Len(call.have) + 1 /\ Len(have) >= call.p /\ ~closed
    /\ \A k \in 1..Len(have) : have[k] = Len(got)
    /\ payloadLength' = payloadLength - Len(have)
    /\ limited' = IF limited < 0 THEN limited ELSE limited - Len(have)
    /\ Fills(have) /\ Return("nil", Len(have))

LEMMA PayloadReadInv ==
    ASSUME IInv, call.at = "payload", wire # <<>>, Head(wire).kind = "byte",
           wire' = Tail(wire), NEW have \in Seq(Nat), PayloadRead(have),
           UNCHANGED <<fin, closed, peerVars>>, UNCHANGED Others
    PROVE  IInv'
<1>1. /\ call.op = "Read" /\ call.op # "none"
  BY DEF IInv, CallInv, CallTypeOK, NoCall
<1>2. PICK f : Aligned(f)
  BY <1>1, CallFacts
<1>3. /\ got # <<>> /\ Len(got) \in Nat /\ Len(got) > 0
      /\ f[1] \in Positions /\ f[2] \in Positions
      /\ PosOK(f[1]) /\ PosOK(f[2]) /\ f[1].left > 0
      /\ LastBytes \in Nat /\ payloadLength \in Nat
      /\ call.p \in Nat /\ Len(call.have) \in Nat /\ Len(call.have) < call.p
      /\ call.p <= payloadLength
      /\ f[1].m = Len(got) /\ f[1].n = LastBytes + Len(call.have)
      /\ f[2].m = Len(got)
      /\ f[2].left = payloadLength - (Len(call.have) + 1)
      /\ f[2].n = LastBytes + Len(call.have) + 1
      /\ user = "read" =>
            /\ f[2].total = delivered + Len(call.have) + 1
            /\ delivered \in Nat
  BY <1>2, ByteMove
<1>22. Len(have) = Len(call.have) + 1 /\ Len(have) >= call.p /\ ~closed
  BY DEF PayloadRead
<1>23. \A k \in 1..Len(have) : have[k] = Len(got)
  BY DEF PayloadRead
<1>24. payloadLength' = payloadLength - Len(have)
  BY DEF PayloadRead
<1>25. limited' = IF limited < 0 THEN limited ELSE limited - Len(have)
  BY DEF PayloadRead
<1>4. Len(have) = call.p /\ Len(have) \in Nat /\ Len(have) > 0
  <2>1. call.p \in Nat /\ Len(call.have) \in Nat /\ Len(call.have) < call.p
    BY <1>3
  <2>2. Len(have) \in Nat
    OBVIOUS
  <2> QED
    BY <2>1, <2>2, <1>22
<1>19. /\ LastBytes \in Nat /\ payloadLength \in Nat /\ call.p \in Nat
       /\ Len(call.have) \in Nat /\ call.p <= payloadLength
       /\ f[2].left = payloadLength - (Len(call.have) + 1)
       /\ f[2].n = LastBytes + Len(call.have) + 1
  BY <1>3
<1>26. /\ LastBytes \in Nat /\ payloadLength \in Nat /\ call.p \in Nat
       /\ call.p <= payloadLength
  BY <1>19
<1>20. user = "read" => f[2].total = delivered + (Len(call.have) + 1)
  BY <1>3, <1>19
<1>21. limited \in Int /\ Len(have) \in Nat
  BY <1>4 DEF IInv, CallTypeOK
<1>17. (f[2].fin <=> fin) /\ ~f[2].done
  BY <1>2, ByteMove
<1>5. PeerTypeOK'
  BY TailType DEF IInv
<1>6. /\ got' \in Seq(Readings) /\ got' # <<>> /\ Len(got') = Len(got)
      /\ got[Len(got)].bytes \in Seq(Nat)
      /\ LastBytes = Len(got[Len(got)].bytes)
      /\ LastBytes' = LastBytes + Len(have)
      /\ \A i \in 1..Len(got) : i < Len(got) => got'[i] = got[i]
      /\ got'[Len(got)].type = got[Len(got)].type
      /\ got'[Len(got)].bytes = got[Len(got)].bytes \o have
  BY <1>3, FillsMessage DEF IInv, PayloadRead
<1>18. got'[Len(got)].eof <=> got[Len(got)].eof
  BY <1>3, FillsMessage DEF IInv, PayloadRead
<1>7. /\ call' = NoCall /\ result' = Result("Read", "nil", Len(have))
      /\ call'.op = "none" /\ Len(call'.have) = 0
      /\ result'.op = "Read" /\ result'.err = "nil" /\ result'.n = Len(have)
      /\ Pending' = Len(have)
      /\ result' \in [op : {"none", "Reader", "Read"}, err : Errs, n : Nat]
      /\ call' \in [op : {"none", "Reader", "Read"},
                    at : {"none", "header", "payload"}, p : Nat, have : Seq(Nat)]
  BY <1>1, <1>4 DEF PayloadRead, Return, Result, NoCall, Pending, Errs
<1>8. /\ UNCHANGED <<user, pc, want, reader, readEOFed, netErr, delivered>>
      /\ NetTypeOK' /\ TimerTypeOK'
  BY OthersKept
<1>9. UNCHANGED <<peer, msgs>>
  BY DEF peerVars
<1>10. MessagesInOrder'
  <2>1. Len(got) <= Len(msgs)
    BY DEF IInv, MessagesInOrder
  <2>2. ASSUME NEW i \in 1..Len(got)
        PROVE  /\ got'[i].type = msgs[i].type
               /\ \A k \in DOMAIN got'[i].bytes : got'[i].bytes[k] = i
               /\ Len(got'[i].bytes) <= msgs[i].len
               /\ i < Len(got) => Len(got'[i].bytes) = msgs[i].len
               /\ got'[i].eof => \/ peer.gone /\ i = Len(msgs)
                                 \/ /\ msgs[i].whole
                                    /\ Len(got'[i].bytes) = msgs[i].len
    <3>1. i \in DOMAIN got
      BY <1>3, <2>2 DEF IInv, CallTypeOK
    <3>2. /\ got[i].type = msgs[i].type
          /\ \A k \in DOMAIN got[i].bytes : got[i].bytes[k] = i
          /\ Len(got[i].bytes) <= msgs[i].len
          /\ i < Len(got) => Len(got[i].bytes) = msgs[i].len
          /\ got[i].eof => \/ peer.gone /\ i = Len(msgs)
                           \/ /\ msgs[i].whole
                              /\ Len(got[i].bytes) = msgs[i].len
      BY <3>1 DEF IInv, MessagesInOrder
    <3>3. CASE i < Len(got)
      BY <1>6, <3>2, <3>3
    <3>4. CASE i = Len(got)
      <4>1. \A k \in DOMAIN got'[i].bytes : got'[i].bytes[k] = i
        <5>1. PICK b \in Seq(Nat) : b = got[i].bytes
          BY <1>6, <3>4
        <5>2. \A k \in 1..Len(b) : b[k] = i
          BY <3>2, <5>1
        <5>3. \A k \in DOMAIN (b \o have) : (b \o have)[k] = i
          <6>1. \A k \in 1..Len(have) : have[k] = i
            BY <3>4, <1>23
          <6> QED
            BY <5>1, <5>2, <6>1, JoinAll
        <5> QED
          BY <1>6, <3>4, <5>1, <5>3
      <4>2. Len(got'[i].bytes) = LastBytes + Len(have)
        BY <1>6, <3>4 DEF LastBytes
      <4>3. Len(got'[i].bytes) <= msgs[i].len
        <5>1. f[2].n + f[2].left <= msgs[i].len /\ msgs[i].len \in Nat
          <6>1. msgs \in Seq(Messages)
            BY DEF IInv, PeerTypeOK
          <6>2. msgs[i] \in Messages
            BY <2>1, <2>2, <6>1
          <6> QED
            BY <1>3, <3>4, <6>2 DEF PosOK, Messages
        <5>2. LastBytes + Len(have) = f[2].n /\ f[2].left \in Nat
          <6>1. f[2].left \in Nat /\ f[2].n \in Nat
            BY <1>3 DEF Positions
          <6> QED
            BY <1>19, <1>22, <6>1
        <5>3. f[2].n \in Nat
          BY <1>3 DEF Positions
        <5>4. PICK x \in Nat, y \in Nat, z \in Nat :
                 x = f[2].n /\ y = f[2].left /\ z = msgs[i].len
          BY <5>1, <5>2, <5>3, Zenon
        <5>5. x + y <= z
          BY <5>1, <5>4, Zenon
        <5>6. x <= z
          BY <5>5
        <5> QED
          BY <4>2, <5>2, <5>4, <5>6, Zenon
      <4>4. got[i].eof => peer.gone /\ i = Len(msgs)
        <5>1. f[1].n + f[1].left <= msgs[i].len
          BY <1>3, <3>4 DEF PosOK
        <5>2. Len(got[i].bytes) = LastBytes
          BY <3>4, <1>6
        <5>3. Len(got[i].bytes) = msgs[i].len => FALSE
          <6>1. f[1].left \in Nat
            BY <1>3 DEF Positions
          <6>2. f[1].n = LastBytes + Len(call.have) /\ f[1].left > 0
            BY <1>3
          <6>3. PICK x \in Nat, y \in Nat, z \in Nat :
                   x = LastBytes /\ y = Len(call.have) /\ z = f[1].left
            BY <1>19, <6>1, Zenon
          <6>4. z > 0 /\ f[1].n = x + y
            BY <6>2, <6>3, Zenon
          <6>5. ~((x + y) + z <= x)
            BY <6>4
          <6> QED
            BY <5>1, <5>2, <6>3, <6>4, <6>5, Zenon
        <5> QED
          BY <3>2, <5>3
      <4> QED
        BY <1>6, <1>18, <3>2, <3>4, <4>1, <4>3, <4>4
    <3> QED
      BY <1>3, <3>3, <3>4
  <2>3. DOMAIN got' = 1..Len(got)
    BY <1>6
  <2> QED
    BY <1>6, <1>9, <2>1, <2>2, <2>3 DEF MessagesInOrder
<1>11. CallTypeOK' /\ PeerInv'
  <2>1. limited' \in Int
    BY <1>21, <1>25
  <2>2. payloadLength' \in 0..MaxBytes
    <3>1. payloadLength \in 0..MaxBytes
      BY DEF IInv, CallTypeOK
    <3> QED
      BY <1>4, <1>24, <1>26, <3>1, ReaderBoundsAssumption
  <2>3. closed' \in BOOLEAN /\ fin' \in BOOLEAN
    BY DEF IInv, CallTypeOK
  <2>4. PeerInv'
    BY <1>9 DEF IInv, PeerInv
  <2> QED
    BY <1>6, <1>7, <2>1, <2>2, <2>3, <2>4 DEF CallTypeOK
<1>12. CallInv'
  BY <1>7 DEF CallInv, NoCall
<1>13. UserInv'
  <2>1. /\ user \in {"direct", "read"} /\ (user = "read" => pc = "call")
    BY <1>1, CallFacts
  <2> QED
    BY <1>6, <1>7, <1>8, <2>1 DEF IInv, UserInv
<1>14. LimitInv'
  <2>1. SUFFICES ASSUME user = "direct", Limit >= 0
                 PROVE  /\ limited' >= 0 /\ limited' + LastBytes' = Limit + 1
                        /\ \A i \in 1..Len(got') :
                              got'[i].eof => Len(got'[i].bytes) <= Limit
    BY <1>7, <1>8 DEF LimitInv
  <2>2. /\ limited >= 0 /\ limited + LastBytes = Limit + 1
        /\ \A i \in 1..Len(got) : got[i].eof => Len(got[i].bytes) <= Limit
        /\ call.p <= limited /\ ~got[Len(got)].eof
    BY <1>1, <1>3, <2>1 DEF IInv, LimitInv
  <2>3. limited \in Int
    BY DEF IInv, CallTypeOK
  <2>7. limited >= 0 /\ limited + LastBytes = Limit + 1 /\ call.p <= limited
    BY <2>2
  <2>4. limited' = limited - Len(have)
    <3>1. ~(limited < 0)
      BY <2>3, <2>7
    <3> QED
      BY <3>1, <1>25
  <2>5. limited' >= 0 /\ limited' + LastBytes' = Limit + 1
    <3>1. LastBytes' = LastBytes + Len(have) /\ Len(have) = call.p
      BY <1>4, <1>6
    <3>2. PICK n \in Nat : n = Len(have) /\ n = call.p
      BY <1>21, <3>1
    <3>3. limited' = limited - n /\ LastBytes' = LastBytes + n
      BY <2>4, <3>1, <3>2
    <3>4. limited \in Int /\ n <= limited
      BY <1>21, <2>7, <3>2
    <3>5. limited' >= 0
      BY <3>3, <3>4
    <3>6. limited + LastBytes = Limit + 1 /\ LastBytes \in Nat
      BY <1>26, <2>7
    <3>7. limited' + LastBytes' = Limit + 1
      BY <3>3, <3>4, <3>6
    <3> QED
      BY <3>5, <3>7
  <2>6. ASSUME NEW i \in 1..Len(got), got'[i].eof
        PROVE  Len(got'[i].bytes) <= Limit
    <3>1. i # Len(got)
      BY <1>18, <2>2, <2>6
    <3>2. i < Len(got)
      BY <1>3, <3>1
    <3> QED
      BY <1>6, <2>2, <2>6, <3>2
  <2> QED
    BY <1>6, <2>5, <2>6
<1>15. StreamInv'
  <2>1. user = "read" => delivered + Len(have) <= Sent
    <3>1. user = "read" => f[2].total <= Sent
      BY <1>3 DEF PosOK
    <3>2. Len(have) = Len(call.have) + 1
      BY <1>22
    <3> QED
      BY <1>20, <3>1, <3>2
  <2>2. Sent' = Sent
    BY <1>9 DEF Sent
  <2> QED
    BY <1>4, <1>7, <1>8, <2>1, <2>2 DEF StreamInv
<1>16. AlignedInv'
  <2>1. /\ f[2].left = payloadLength' - Len(call'.have)
        /\ f[2].n = LastBytes' + Len(call'.have)
        /\ f[2].m = Len(got')
    <3>1. /\ payloadLength' = payloadLength - Len(have)
          /\ Len(have) = Len(call.have) + 1 /\ Len(call'.have) = 0
          /\ LastBytes' = LastBytes + Len(have) /\ Len(got') = Len(got)
          /\ f[2].m = Len(got)
      BY <1>3, <1>6, <1>7, <1>22, <1>24
    <3> QED
      BY <1>19, <3>1
  <2>2. user' = "read" => f[2].total = delivered' + Pending' + Len(call'.have)
    <3>1. /\ Len(have) = Len(call.have) + 1 /\ Len(call'.have) = 0
          /\ Pending' = Len(have) /\ delivered' = delivered /\ user' = user
      BY <1>7, <1>8, <1>22
    <3>2. user = "read" => delivered \in Nat
      BY <1>3
    <3> QED
      BY <1>19, <1>20, <3>1, <3>2
  <2>3. f[2].fin <=> fin'
    BY <1>17
  <2>4. AtReader(f[2])'
    BY <1>17, <2>1, <2>2, <2>3 DEF AtReader
  <2> QED
    BY <1>2, <1>9, <2>4, PopAligned DEF IInv
<1> QED
  BY <1>5, <1>8, <1>10, <1>11, <1>12, <1>13, <1>14, <1>15, <1>16 DEF IInv

LEMMA TakeByteInv ==
    ASSUME IInv, call.at = "payload", TakeByte, UNCHANGED peerVars,
           UNCHANGED Others
    PROVE  IInv'
<1> DEFINE have == Append(call.have, Head(wire).len)
<1>1. /\ wire # <<>> /\ Head(wire).kind = "byte" /\ wire' = Tail(wire)
      /\ UNCHANGED closed
  BY DEF TakeByte, Take
<1>2. call.op = "Read" /\ call.op # "none"
  BY DEF IInv, CallInv, CallTypeOK, NoCall
<1>3. PeerTypeOK'
  BY <1>1, TailType DEF IInv
<1>4. PICK f : Aligned(f)
  BY <1>2, CallFacts
<1>5. /\ got # <<>> /\ Len(got) \in Nat
      /\ f[1] \in Positions /\ f[2] \in Positions
      /\ call.have \in Seq(Nat) /\ Len(call.have) \in Nat /\ call.p \in Nat
      /\ LastBytes \in Nat /\ payloadLength \in Nat
      /\ call.p <= payloadLength /\ Head(wire).len = Len(got)
      /\ f[2].m = Len(got)
      /\ f[2].left = payloadLength - (Len(call.have) + 1)
      /\ f[2].n = LastBytes + Len(call.have) + 1
      /\ user = "read" =>
            /\ f[2].total = delivered + Len(call.have) + 1
            /\ delivered \in Nat
  BY <1>1, <1>4, ByteMove
<1>12. /\ LastBytes \in Nat /\ payloadLength \in Nat
       /\ Len(call.have) \in Nat /\ f[2].m = Len(got)
       /\ f[2].left = payloadLength - (Len(call.have) + 1)
       /\ f[2].n = LastBytes + Len(call.have) + 1
  BY <1>5
<1>13. user = "read" => /\ f[2].total = delivered + (Len(call.have) + 1)
                        /\ delivered \in Nat
  BY <1>5, <1>12
<1>11. (f[2].fin <=> fin) /\ ~f[2].done
  BY <1>1, <1>4, ByteMove
<1>6. have \in Seq(Nat) /\ Len(have) = Len(call.have) + 1 /\ Len(have) \in Nat
  BY <1>5
<1>7. \A k \in 1..Len(have) : have[k] = Len(got)
  <2>1. \A k \in 1..Len(call.have) : call.have[k] = Len(got)
    BY DEF IInv, CallInv
  <2>2. TAKE k \in 1..Len(have)
  <2>3. CASE k \in 1..Len(call.have)
    BY <1>5, <2>1, <2>3
  <2>4. CASE k = Len(call.have) + 1
    BY <1>5, <2>4
  <2> QED
    BY <1>5, <1>6, <2>3, <2>4
<1>8. CASE Len(have) < call.p
  <2>1. /\ call' = [call EXCEPT !.have = have]
        /\ UNCHANGED <<fin, payloadLength, limited, result, got, peer, msgs, user,
                       delivered>>
    BY <1>8, OthersKept DEF TakeByte, msgReaderVars, peerVars
  <2> HIDE DEF have
  <2>2. /\ call'.op = call.op /\ call'.p = call.p /\ call'.at = call.at
        /\ call'.have = have
        /\ call' \in [op : {"none", "Reader", "Read"},
                      at : {"none", "header", "payload"}, p : Nat,
                      have : Seq(Nat)]
    <3>1. call \in [op : {"none", "Reader", "Read"},
                    at : {"none", "header", "payload"}, p : Nat,
                    have : Seq(Nat)]
      BY DEF IInv, CallTypeOK
    <3> QED
      BY <1>6, <2>1, <3>1, HaveChanges, Zenon
  <2>3. CallInv'
    BY <1>2, <1>5, <1>7, <1>8, <2>1, <2>2 DEF CallInv
  <2>4. LastBytes' = LastBytes /\ Pending' = Pending
        /\ (user = "read" => Pending = 0)
    BY <1>2, <2>1, CallFacts DEF LastBytes, Pending
  <2>5. AtReader(f[2])'
    <3>1. /\ f[2].left = payloadLength' - Len(call'.have)
          /\ f[2].n = LastBytes' + Len(call'.have)
          /\ f[2].m = Len(got')
      <4>1. /\ payloadLength' = payloadLength /\ Len(got') = Len(got)
            /\ LastBytes' = LastBytes /\ Len(call'.have) = Len(call.have) + 1
        BY <1>6, <2>1, <2>2, <2>4
      <4> QED
        BY <1>12, <4>1
    <3>2. user' = "read" => f[2].total = delivered' + Pending' + Len(call'.have)
      <4>1. /\ user' = user /\ delivered' = delivered
            /\ Len(call'.have) = Len(call.have) + 1
            /\ user = "read" => Pending' = 0
        BY <1>6, <2>1, <2>2, <2>4
      <4> QED
        BY <1>12, <1>13, <4>1
    <3> QED
      BY <1>11, <2>1, <3>1, <3>2 DEF AtReader
  <2>6. AlignedInv'
    BY <1>1, <1>4, <2>1, <2>5, PopAligned DEF IInv
  <2>7. /\ fin' \in BOOLEAN /\ payloadLength' \in 0..MaxBytes
        /\ call'.p \in Nat /\ call'.p <= call.p
    BY <1>5, <2>1, <2>2 DEF IInv, CallTypeOK
  <2> QED
    BY <1>1, <1>2, <1>3, <2>1, <2>2, <2>3, <2>6, <2>7, GoesOnInv
<1>9. CASE Len(have) >= call.p /\ closed
  <2>1. Return("closed", Len(have)) /\ UNCHANGED <<msgReaderVars, got>>
    BY <1>5, <1>6, <1>9 DEF TakeByte
  <2>2. closed' \in BOOLEAN /\ "closed" \in Errs \ {"nil", "EOF", "limit"}
    BY <1>1 DEF IInv, CallTypeOK, Errs
  <2> HIDE DEF have
  <2> QED
    BY <1>1, <1>2, <1>3, <1>6, <2>1, <2>2, ErrorInv
<1>10. CASE Len(have) >= call.p /\ ~closed
  <2>1. /\ payloadLength' = payloadLength - Len(have)
        /\ limited' = (IF limited < 0 THEN limited ELSE limited - Len(have))
        /\ got' = [got EXCEPT ![Len(got)].bytes = got[Len(got)].bytes \o have]
        /\ Return("nil", Len(have)) /\ UNCHANGED fin
    <3>1. ~(Len(have) < call.p)
      BY <1>5, <1>6, <1>10
    <3> QED
      BY <1>10, <3>1 DEF TakeByte
  <2> HIDE DEF have
  <2>2. Fills(have)
    BY <2>1 DEF Fills
  <2> QED
    <3>1. PayloadRead(have)
      BY <1>6, <1>7, <1>10, <2>1, <2>2 DEF PayloadRead
    <3> QED
      BY <1>1, <1>6, <2>1, <3>1, PayloadReadInv
<1> QED
  BY <1>5, <1>6, <1>8, <1>9, <1>10

-----------------------------------------------------------------------------
(* All steps together. *)

LEMMA CallStep ==
    ASSUME IInv, Call
    PROVE  IInv'
<1>1. Reading(readLimit) /\ UNCHANGED Others
  BY DEF Call
<1>2. CASE ReadHeader(readLimit)
  <2>1. call.at = "header" /\ UNCHANGED peerVars
    BY <1>2 DEF ReadHeader
  <2>2. CASE ReadIllegal
    BY <1>1, <2>1, <2>2, ReadIllegalInv
  <2>3. CASE ReadControl
    BY <1>1, <2>1, <2>3, ReadControlInv
  <2>4. CASE ReadClose
    BY <1>1, <2>1, <2>4, ReadCloseInv
  <2>5. CASE ReadContinuation
    BY <1>1, <2>1, <2>5, ReadContinuationInv
  <2>6. CASE ReadData(readLimit)
    BY <1>1, <2>1, <2>6, ReadDataInv
  <2>7. CASE HeaderFails
    BY <1>1, <2>1, <2>7, HeaderFailsInv
  <2> QED
    BY <1>2, <2>2, <2>3, <2>4, <2>5, <2>6, <2>7 DEF ReadHeader
<1>3. CASE ReadPayload
  BY <1>1, <1>3, TakeByteInv, PayloadFailsInv DEF ReadPayload
<1> QED
  BY <1>1, <1>2, <1>3 DEF Reading

LEMMA NextInv == IInv /\ [Next]_vars => IInv'
<1> SUFFICES ASSUME IInv, [Next]_vars PROVE IInv'
  OBVIOUS
<1>1. CASE UNCHANGED vars
  <2>1. UNCHANGED <<peerVars, readerVars, user, netVars, timerVars, lockVars>>
    BY <1>1 DEF vars
  <2>2. TimerTypeOK'
    BY <2>1 DEF IInv, TimerTypeOK, timerVars, lockVars
  <2> QED
    BY <2>1, <2>2, TimerStep
<1>2. CASE Peer /\ UNCHANGED Others
  BY <1>2, PeerStep
<1>3. CASE Call
  BY <1>3, CallStep
<1>4. CASE DirectReader \/ \E p \in 1..MaxRead : DirectRead(p)
  BY <1>4, DirectStep
<1>5. CASE \E p \in 1..MaxRead : NetRead(p)
  BY <1>5, NetReadInv
<1>6. CASE NetLoop
  BY <1>6, NetLoopInv
<1>7. CASE NetResult
  BY <1>7, NetResultInv
<1>8. CASE \/ SetDeadline \/ SetTimer \/ Fire \/ TryLock \/ Expire
           \/ TimeoutCloses \/ NetWrite \/ NetWriteEnds \/ NetClose
           \/ NetCloseEnds \/ DirectClose
  BY <1>8, OtherSteps
<1> QED
  BY <1>1, <1>2, <1>3, <1>4, <1>5, <1>6, <1>7, <1>8 DEF Next, Deadlines

-----------------------------------------------------------------------------
(* The positions fit the transport in every reachable state (read.go:177-568, *)
(* netconn.go:139-188).                                                       *)
THEOREM Invariance == Spec => []IInv
<1> QED
  BY InitInv, NextInv, PTL DEF Spec

(* The state has its types (read.go:84-103,447-604, netconn.go:62-109). *)
THEOREM TypeCorrect == Spec => []TypeOK
<1>1. ASSUME IInv PROVE TypeOK
  <2>1. Len(call.have) <= call.p
    <3>1. CallTypeOK /\ CallInv
      BY <1>1 DEF IInv
    <3>2. call.p \in Nat /\ Len(call.have) \in Nat
      BY <3>1 DEF CallTypeOK
    <3>3. CASE call.op = "none"
      BY <3>1, <3>3 DEF CallInv, NoCall
    <3>4. CASE call.op = "Read"
      BY <3>1, <3>2, <3>4 DEF CallInv
    <3>5. CASE call.op = "Reader"
      <4>1. call.have = <<>>
        BY <3>1, <3>5 DEF CallInv
      <4> QED
        BY <3>2, <4>1
    <3> QED
      BY <3>1, <3>3, <3>4, <3>5 DEF CallTypeOK
  <2>2. ReaderTypeOK
    BY <1>1, <2>1 DEF IInv, PeerTypeOK, CallTypeOK, ReaderTypeOK, Messages
  <2> QED
    BY <1>1, <2>2 DEF TypeOK, IInv, NetTypeOK, TimerTypeOK
<1> QED
  BY <1>1, Invariance, PTL

(* Whoever reads gets the peer's messages, each with its own bytes and in *)
(* the peer's order (read.go:505-568).                                    *)
THEOREM NothingLostNothingMixed == Spec => []MessagesInOrder
<1>1. IInv => MessagesInOrder
  BY DEF IInv
<1> QED
  BY <1>1, Invariance, PTL

(* The limit cuts exactly the messages that are longer than it, for every *)
(* limit (read.go:119-127,591-611).                                       *)
THEOREM LimitIsExact == Spec => []LimitExact
<1>1. ASSUME IInv PROVE LimitExact
  <2>1. got \in Seq(Readings)
    BY <1>1 DEF IInv, CallTypeOK
  <2>2. DOMAIN got = 1..Len(got)
    BY <2>1
  <2> QED
    BY <1>1, <2>2 DEF IInv, LimitInv, LimitExact
<1> QED
  BY <1>1, Invariance, PTL

-----------------------------------------------------------------------------
(* The adapter implements the stream of bytes. *)

StreamStep ==
    [Stream!Send \/ Stream!Finish \/ Stream!Deliver \/ Stream!End]_(Stream!vars)

LEMMA StreamStutters ==
    ASSUME UNCHANGED <<peer, delivered, readEOFed>>
    PROVE  StreamStep
  BY DEF StreamStep, Stream!vars

(* The peer sends a frame, or a byte of one. *)
LEMMA StreamPeer ==
    ASSUME IInv, Peer, UNCHANGED <<delivered, readEOFed>>
    PROVE  StreamStep
<1>1. /\ peer \in [left : 0..MaxBytes, fin : BOOLEAN, open : BOOLEAN,
                   done : BOOLEAN, gone : BOOLEAN, frames : 0..MaxFrames,
                   bytes : 0..MaxBytes]
      /\ (peer.left > 0 => ~peer.done)
  BY DEF IInv, PeerTypeOK, PeerInv
<1>2. peer.left \in Int /\ peer.bytes \in Int /\ peer.done \in BOOLEAN
  BY <1>1
<1>3. ASSUME NEW op, NEW f, NEW n \in 0..MaxBytes, PeerSends(op, f, n)
      PROVE  StreamStep
  <2>1. /\ ~peer.done /\ peer.left = 0
        /\ peer'.left = n /\ peer'.bytes = peer.bytes + n
    BY <1>3 DEF PeerSends
  <2>2. peer'.done \in BOOLEAN
    BY <1>3 DEF PeerSends
  <2>3. peer'.bytes - peer'.left = peer.bytes - peer.left
    BY <1>2, <2>1
  <2>4. CASE peer'.done
    <3>1. peer'.done = TRUE
      BY <2>2, <2>4
    <3>2. Stream!Finish
      BY <2>3, <3>1 DEF Stream!Finish
    <3> QED
      BY <3>2 DEF StreamStep
  <2>5. CASE ~peer'.done
    <3>1. peer'.done = peer.done
      BY <1>2, <2>1, <2>2, <2>5
    <3> QED
      BY <2>3, <3>1 DEF StreamStep, Stream!vars
  <2> QED
    BY <2>4, <2>5
<1>4. 0 \in 0..MaxBytes
  BY ReaderBoundsAssumption
<1>5. CASE SendByte
  <2>1. peer.left > 0 /\ peer' = [peer EXCEPT !.left = peer.left - 1]
    BY <1>5 DEF SendByte
  <2>2. /\ peer'.left = peer.left - 1 /\ peer'.bytes = peer.bytes
        /\ peer'.done = peer.done
    BY <1>1, <2>1
  <2>3. peer'.bytes - peer'.left = (peer.bytes - peer.left) + 1
    BY <1>2, <2>2
  <2>4. Stream!Send
    BY <1>1, <2>1, <2>2, <2>3 DEF Stream!Send
  <2> QED
    BY <2>4 DEF StreamStep
<1>6. CASE HangUp
  <2>1. /\ peer'.left = peer.left /\ peer'.bytes = peer.bytes
        /\ peer'.done = peer.done
    BY <1>1, <1>6 DEF HangUp
  <2> QED
    BY <2>1 DEF StreamStep, Stream!vars
<1>7. CASE \E f \in BOOLEAN, n \in 0..MaxBytes :
             SendData(f, n) \/ SendContinuation(f, n)
  BY <1>3, <1>7 DEF SendData, SendContinuation
<1>8. CASE \/ \E op \in Controls \cup Closes : SendControl(op)
           \/ BreakProtocol
  BY <1>3, <1>4, <1>8 DEF SendControl, BreakProtocol
<1> QED
  BY <1>5, <1>6, <1>7, <1>8 DEF Peer

LEMMA StreamResult ==
    ASSUME IInv, IInv', NetResult
    PROVE  StreamStep
<1>1. pc = "call" /\ call.op = "none" /\ UNCHANGED <<peer, user>>
  BY DEF NetResult, peerVars
<1>2. user = "read" /\ ~readEOFed
  BY <1>1 DEF IInv, UserInv
<1>3. readEOFed \in BOOLEAN /\ delivered \in Nat /\ result.n \in Nat
  BY DEF IInv, NetTypeOK, CallTypeOK
<1>4. /\ delivered + Pending <= Sent
      /\ result.op = "Read" /\ result.err = "nil" => result.n > 0
      /\ result.err = "closeNormal" => peer.done /\ delivered = Sent
  BY <1>2 DEF IInv, StreamInv
<1>5. Sent \in Int
  BY DEF IInv, PeerTypeOK, Sent
<1>6. CASE NetWrongType
  BY <1>1, <1>6, StreamStutters DEF NetWrongType
<1>7. CASE NetHasReader
  BY <1>1, <1>7, StreamStutters DEF NetHasReader
<1>8. CASE NetReaderFails
  <2>1. readEOFed' = (result.err = "closeNormal") /\ delivered' = delivered
    BY <1>8 DEF NetReaderFails
  <2>2. CASE result.err = "closeNormal"
    <3>1. readEOFed' = TRUE
      BY <2>1, <2>2
    <3>2. peer.done /\ delivered = peer.bytes - peer.left
      BY <1>4, <2>2 DEF Sent
    <3>3. Stream!End
      BY <1>1, <2>1, <3>1, <3>2 DEF Stream!End
    <3> QED
      BY <3>3 DEF StreamStep
  <2>3. CASE result.err # "closeNormal"
    <3>1. readEOFed' = readEOFed
      BY <1>2, <1>3, <2>1, <2>3
    <3> QED
      BY <1>1, <2>1, <3>1, StreamStutters
  <2> QED
    BY <2>2, <2>3
<1>9. CASE NetReadEnds
  BY <1>1, <1>9, StreamStutters DEF NetReadEnds
<1>10. CASE result.op = "Read" /\ NetReadReturns
  <2>1. /\ readEOFed' = readEOFed
        /\ delivered' = delivered + IF result.err = "nil" THEN result.n ELSE 0
    BY <1>10 DEF NetReadReturns
  <2>2. CASE result.err = "nil"
    <3>1. delivered' = delivered + result.n /\ result.n > 0
      BY <1>4, <1>10, <2>1, <2>2
    <3>2. delivered' <= Sent
      BY <1>4, <2>2, <3>1 DEF Pending
    <3>3. delivered' \in (delivered + 1)..(peer.bytes - peer.left)
      BY <1>3, <1>5, <3>1, <3>2 DEF Sent
    <3>4. Stream!Deliver
      BY <1>1, <1>2, <2>1, <3>3 DEF Stream!Deliver
    <3> QED
      BY <3>4 DEF StreamStep
  <2>3. CASE result.err # "nil"
    <3>1. delivered' = delivered
      BY <1>3, <2>1, <2>3
    <3> QED
      BY <1>1, <2>1, <3>1, StreamStutters
  <2> QED
    BY <2>2, <2>3
<1> QED
  BY <1>6, <1>7, <1>8, <1>9, <1>10 DEF NetResult

LEMMA StreamNext == IInv /\ IInv' /\ [Next]_vars => StreamStep
<1> SUFFICES ASSUME IInv, IInv', [Next]_vars PROVE StreamStep
  OBVIOUS
<1>1. CASE UNCHANGED vars
  BY <1>1, StreamStutters DEF vars, peerVars, netVars
<1>2. CASE Peer /\ UNCHANGED Others
  BY <1>2, StreamPeer DEF Others, netVars
<1>3. CASE Call
  <2>1. UNCHANGED peerVars
    BY <1>3 DEF Call, Reading, ReadHeader, ReadPayload
  <2>2. UNCHANGED <<delivered, readEOFed>>
    BY <1>3 DEF Call, Others, netVars
  <2> QED
    BY <2>1, <2>2, StreamStutters DEF peerVars
<1>4. CASE DirectReader
  <2>1. UNCHANGED peerVars /\ UNCHANGED netVars
    BY <1>4 DEF DirectReader, BeginReader
  <2> QED
    BY <2>1, StreamStutters DEF peerVars, netVars
<1>5. ASSUME NEW p \in 1..MaxRead, DirectRead(p) \/ NetRead(p)
      PROVE  StreamStep
  <2>1. UNCHANGED peerVars /\ UNCHANGED <<delivered, readEOFed>>
    BY <1>5 DEF DirectRead, BeginRead, NetRead, netVars
  <2> QED
    BY <2>1, StreamStutters DEF peerVars
<1>6. CASE NetLoop
  <2>1. UNCHANGED <<delivered, readEOFed>>
    BY <1>6 DEF NetLoop, NetStops, NetCalls
  <2>2. UNCHANGED peerVars
    BY <1>6 DEF NetLoop, NetStops, NetCalls, BeginRead, BeginReader
  <2> QED
    BY <2>1, <2>2, StreamStutters DEF peerVars
<1>7. CASE NetResult
  BY <1>7, StreamResult
<1>8. CASE \/ SetDeadline \/ SetTimer \/ Fire \/ TryLock \/ Expire
           \/ TimeoutCloses \/ NetWrite \/ NetWriteEnds \/ NetClose
           \/ NetCloseEnds \/ DirectClose
  <2>1. UNCHANGED peerVars /\ UNCHANGED netVars
    BY <1>8 DEF SetDeadline, SetTimer, Fire, TryLock, Expire, TimeoutCloses,
       NetWrite, NetWriteEnds, NetClose, NetCloseEnds, DirectClose
  <2> QED
    BY <2>1, StreamStutters DEF peerVars, netVars
<1> QED
  BY <1>1, <1>2, <1>3, <1>4, <1>5, <1>6, <1>7, <1>8 DEF Next, Deadlines

(* The adapter is a stream of bytes: Read hands on what the peer sent, each *)
(* byte once, and io.EOF after the last of them (netconn.go:139-188).       *)
THEOREM AdapterIsAStream == Spec => ImplementsByteStream
<1>1. Init => Stream!Init
  <2> SUFFICES ASSUME Init PROVE Stream!Init
    OBVIOUS
  <2>1. /\ peer.bytes = 0 /\ peer.left = 0 /\ peer.done = FALSE
        /\ delivered = 0 /\ readEOFed = FALSE
    BY DEF Init, ReaderInit
  <2> QED
    BY <2>1 DEF Stream!Init
<1>2. IInv /\ IInv' /\ [Next]_vars =>
        [Stream!Send \/ Stream!Finish \/ Stream!Deliver \/ Stream!End]_(Stream!vars)
  BY StreamNext DEF StreamStep
<1> QED
  BY <1>1, <1>2, Invariance, PTL DEF Spec, ImplementsByteStream, Stream!Spec
=============================================================================
