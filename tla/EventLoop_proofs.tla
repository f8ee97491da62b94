-------------------------- MODULE EventLoop_proofs --------------------------
(***************************************************************************)
(* What protects readControlBuf in event mode, for any connections and     *)
(* handlers.  Until a close frame is received, at most one goroutine is in *)
(* the part of Reader that readMu guards, and a handler of a frame runs    *)
(* right above it on the same stack; from then on nobody reads a header    *)
(* and no handler of a frame is left, so the releases of readMu that       *)
(* handleControl makes too often let nobody in who would read.  And what   *)
(* protects the middleware: Event.mu, between a Use that waits for readers *)
(* or appends, and dispatchers that come, run and leave.                   *)
(***************************************************************************)
EXTENDS EventLoop, TLAPS

(* The calls a goroutine may be in, and the stacks they form. *)
CallPcs == {"lock", "header", "dispatch", "received", "unlockTwice", "unlock",
            "rlock", "run", "writing", "wait", "append", "open", "handshaken",
            "closed", "once", "transport", "reader"}
Frames ==
    [op : {"reader", "close", "event", "use", "user"},
     conn : Conns \cup {NoOne}, pc : CallPcs,
     ev : {"none", "message", "close", "connect", "disconnect"}, id : Nat,
     seen : Nat]

(* A call is of a connection, a dispatcher's payload has been read, and     *)
(* close() is past its first step only when closeOnce has been taken.       *)
FrameInv(f) ==
    /\ f.op # "use" => f.conn \in Conns
    /\ f.op = "event" => f.id <= frames[f.conn]
    /\ f.op = "close" /\ f.pc # "once" => once[f.conn] # NoOne

StackInv ==
    /\ stack \in [Procs -> Seq(Frames)]
    /\ \A p \in Procs : \A i \in 1..Len(stack[p]) : FrameInv(stack[p][i])

DataInv ==
    /\ writer \in Procs \cup {NoOne} /\ mws \in Nat /\ acts \in 0..MaxActs
    /\ frames \in [Conns -> Nat] /\ buf \in [Conns -> Nat]
    /\ readMu \in [Conns -> BOOLEAN]
    /\ once \in [Conns -> Procs \cup {NoOne}]
    /\ onceDone \in [Conns -> BOOLEAN]
    /\ closeSent \in [Conns -> BOOLEAN] /\ closeReceived \in [Conns -> BOOLEAN]
    /\ rwcClosed \in [Conns -> BOOLEAN]

(* f reads c; reads it inside the part that readMu guards; runs the         *)
(* handlers of one of its frames.                                           *)
Reads(f, c) == f.op = "reader" /\ f.conn = c
Holds(f, c) ==
    Reads(f, c) /\ f.pc \in {"header", "dispatch", "received", "unlock"}
Handles(f, c) == f.op = "event" /\ f.conn = c /\ f.ev \in ReadEvents

(* Before a close frame is received one goroutine at most reads c, it has   *)
(* readMu, and close() of c has not returned.                               *)
HoldInv(c) ==
    \A p \in Procs : \A i \in 1..Len(stack[p]) :
       Holds(stack[p][i], c) /\ ~closeReceived[c] =>
          /\ readMu[c] /\ ~onceDone[c]
          /\ \A q \in Procs : \A j \in 1..Len(stack[q]) :
                Holds(stack[q][j], c) => q = p /\ j = i

(* Where a reader is, given what was received; the frame it will dispatch   *)
(* is the one in readControlBuf.                                            *)
ReaderInv(c) ==
    \A p \in Procs : \A i \in 1..Len(stack[p]) :
       Reads(stack[p][i], c) =>
          /\ stack[p][i].pc \in {"dispatch", "received"} => ~closeReceived[c]
          /\ stack[p][i].pc = "unlockTwice" => closeReceived[c]
          /\ stack[p][i].pc = "dispatch" =>
                buf[c] = frames[c] /\ stack[p][i].ev \in ReadEvents

(* The handlers of a frame run above the reader that read it, which waits   *)
(* for them; no close frame has been handled yet.                           *)
HandlerInv(c) ==
    \A p \in Procs : \A i \in 1..Len(stack[p]) :
       Handles(stack[p][i], c) =>
          /\ i > 1 /\ Reads(stack[p][i - 1], c)
          /\ stack[p][i - 1].pc =
                IF stack[p][i].ev = "close" THEN "received" ELSE "header"
          /\ stack[p][i].id = buf[c] /\ ~closeReceived[c]

ConnInv(c) ==
    /\ HoldInv(c) /\ ReaderInv(c) /\ HandlerInv(c)
    /\ onceDone[c] => once[c] # NoOne

(* The inductive invariant. *)
IInv == StackInv /\ DataInv /\ \A c \in Conns : ConnInv(c)

-----------------------------------------------------------------------------
(* Stacks: returning, going on, calling.                                    *)

LEMMA FrontSeq ==
    ASSUME NEW s \in Seq(Frames), s # <<>>
    PROVE  /\ Front(s) \in Seq(Frames) /\ Len(Front(s)) = Len(s) - 1
           /\ \A i \in 1..(Len(s) - 1) : Front(s)[i] = s[i]
  BY DEF Front

LEMMA SetSeq ==
    ASSUME NEW s \in Seq(Frames), s # <<>>, NEW pc \in CallPcs
    PROVE  /\ Set(s, pc) \in Seq(Frames) /\ Len(Set(s, pc)) = Len(s)
           /\ \A i \in 1..(Len(s) - 1) : Set(s, pc)[i] = s[i]
           /\ Set(s, pc)[Len(s)] = [s[Len(s)] EXCEPT !.pc = pc]
<1> DEFINE f == [s[Len(s)] EXCEPT !.pc = pc]
<1>1. Len(s) \in Nat /\ Len(s) > 0 /\ s[Len(s)] \in Frames
  OBVIOUS
<1>2. f \in Frames
  BY <1>1 DEF Frames
<1>3. /\ Front(s) \in Seq(Frames) /\ Len(Front(s)) = Len(s) - 1
      /\ \A i \in 1..(Len(s) - 1) : Front(s)[i] = s[i]
  BY <1>1, FrontSeq
<1>4. Set(s, pc) = Front(s) \o <<f>>
  BY DEF Set, Last
<1> HIDE DEF f
<1>5. <<f>> \in Seq(Frames) /\ Len(<<f>>) = 1 /\ <<f>>[1] = f
  BY <1>2
<1>6. /\ Front(s) \o <<f>> \in Seq(Frames)
      /\ Len(Front(s) \o <<f>>) = Len(s)
      /\ \A i \in 1..(Len(s) - 1) : (Front(s) \o <<f>>)[i] = Front(s)[i]
      /\ (Front(s) \o <<f>>)[Len(s)] = f
  BY <1>1, <1>3, <1>5
<1> QED
  BY <1>3, <1>4, <1>6 DEF f

LEMMA DispatcherType ==
    ASSUME NEW c \in Conns, NEW id \in Nat,
           NEW ev \in {"message", "close", "connect", "disconnect"}
    PROVE  /\ Dispatcher(c, ev, id) \in Frames
           /\ Dispatcher(c, ev, id).op = "event"
           /\ Dispatcher(c, ev, id).pc = "rlock"
           /\ Dispatcher(c, ev, id).conn = c
           /\ Dispatcher(c, ev, id).ev = ev
           /\ Dispatcher(c, ev, id).id = id
<1> DEFINE f == Call("event", c, "rlock")
<1>1. f \in Frames /\ f.op = "event" /\ f.pc = "rlock" /\ f.conn = c
  BY DEF Call, Frames, CallPcs
<1>2. Dispatcher(c, ev, id) = [f EXCEPT !.ev = ev, !.id = id]
  BY DEF Dispatcher
<1> HIDE DEF f
<1> QED
  BY <1>1, <1>2 DEF Frames

LEMMA TopCall ==
    ASSUME StackInv, NEW p \in Procs, stack[p] # <<>>
    PROVE  /\ Top(p) = stack[p][Len(stack[p])] /\ Top(p) \in Frames
           /\ Len(stack[p]) \in Nat /\ Len(stack[p]) \in 1..Len(stack[p])
           /\ Len(stack[p]) # Len(stack[p]) + 1
           /\ \A pc \in CallPcs : [Top(p) EXCEPT !.pc = pc].pc = pc
<1>1. /\ Top(p) = stack[p][Len(stack[p])] /\ Top(p) \in Frames
      /\ Len(stack[p]) \in Nat /\ Len(stack[p]) \in 1..Len(stack[p])
  BY DEF StackInv, Top, Last
<1> QED
  BY <1>1 DEF Frames

(* What a step of p leaves of the other stacks, and of its own below the top *)
Kept(p) ==
    /\ \A q \in Procs : q # p => stack'[q] = stack[q]
    /\ \A i \in 1..(Len(stack[p]) - 1) :
          i <= Len(stack'[p]) => stack'[p][i] = stack[p][i]

LEMMA GotoStack ==
    ASSUME StackInv, NEW p \in Procs, stack[p] # <<>>, NEW pc \in CallPcs,
           Goto(p, pc)
    PROVE  /\ stack' \in [Procs -> Seq(Frames)] /\ Kept(p)
           /\ Len(stack'[p]) = Len(stack[p])
           /\ stack'[p][Len(stack[p])] = [Top(p) EXCEPT !.pc = pc]
  BY SetSeq DEF StackInv, Goto, Kept, Top, Last

LEMMA TopStack ==
    ASSUME StackInv, NEW p \in Procs, stack[p] # <<>>, NEW f \in Frames,
           stack' = [stack EXCEPT ![p] = Append(Front(@), f)]
    PROVE  /\ stack' \in [Procs -> Seq(Frames)] /\ Kept(p)
           /\ Len(stack'[p]) = Len(stack[p])
           /\ stack'[p][Len(stack[p])] = f
<1> DEFINE s == Front(stack[p])
<1>1. stack[p] \in Seq(Frames) /\ Len(stack[p]) \in Nat /\ Len(stack[p]) > 0
  BY DEF StackInv
<1>2. /\ s \in Seq(Frames) /\ Len(s) = Len(stack[p]) - 1
      /\ \A i \in 1..(Len(stack[p]) - 1) : s[i] = stack[p][i]
  BY <1>1, FrontSeq
<1>3. stack'[p] = Append(s, f) /\ \A q \in Procs : q # p => stack'[q] = stack[q]
  BY DEF StackInv
<1> HIDE DEF s
<1>4. /\ Append(s, f) \in Seq(Frames) /\ Len(Append(s, f)) = Len(stack[p])
      /\ Append(s, f)[Len(stack[p])] = f
      /\ \A i \in 1..(Len(stack[p]) - 1) : Append(s, f)[i] = s[i]
  BY <1>1, <1>2
<1>5. stack' \in [Procs -> Seq(Frames)]
  BY <1>3, <1>4 DEF StackInv, s
<1> QED
  BY <1>2, <1>3, <1>4, <1>5 DEF Kept

LEMMA ReceivedStack ==
    ASSUME StackInv, NEW p \in Procs, stack[p] # <<>>, NEW ev \in ReadEvents,
           Received(p, ev)
    PROVE  /\ stack' \in [Procs -> Seq(Frames)] /\ Kept(p)
           /\ Len(stack'[p]) = Len(stack[p])
           /\ stack'[p][Len(stack[p])] =
                 [Top(p) EXCEPT !.pc = "dispatch", !.ev = ev]
<1> DEFINE f == [Top(p) EXCEPT !.pc = "dispatch", !.ev = ev]
<1>1. Top(p) \in Frames
  BY TopCall
<1>2. f \in Frames
  BY <1>1 DEF Frames, CallPcs, ReadEvents
<1>3. stack' = [stack EXCEPT ![p] = Append(Front(@), f)]
  BY DEF Received, Top
<1> HIDE DEF f
<1>4. /\ stack' \in [Procs -> Seq(Frames)] /\ Kept(p)
      /\ Len(stack'[p]) = Len(stack[p]) /\ stack'[p][Len(stack[p])] = f
  BY <1>2, <1>3, TopStack
<1> QED
  BY <1>4 DEF f

LEMMA InvokeStack ==
    ASSUME StackInv, NEW p \in Procs, stack[p] # <<>>, NEW pc \in CallPcs,
           NEW f \in Frames, Invoke(p, pc, f)
    PROVE  /\ stack' \in [Procs -> Seq(Frames)] /\ Kept(p)
           /\ Len(stack'[p]) = Len(stack[p]) + 1
           /\ stack'[p][Len(stack[p])] = [Top(p) EXCEPT !.pc = pc]
           /\ stack'[p][Len(stack[p]) + 1] = f
<1>1. stack[p] \in Seq(Frames)
  BY DEF StackInv
<1>2. stack' = [stack EXCEPT ![p] = Append(Set(stack[p], pc), f)]
  BY DEF Invoke
<1>3. /\ Append(Set(stack[p], pc), f) \in Seq(Frames)
      /\ Len(Append(Set(stack[p], pc), f)) = Len(stack[p]) + 1
      /\ \A i \in 1..Len(stack[p]) :
            Append(Set(stack[p], pc), f)[i] = Set(stack[p], pc)[i]
      /\ Append(Set(stack[p], pc), f)[Len(stack[p]) + 1] = f
<2> DEFINE t == Set(stack[p], pc)
<2>1. t \in Seq(Frames) /\ Len(t) = Len(stack[p])
  BY <1>1, SetSeq
<2> HIDE DEF t
<2>2. Append(t, f) \in Seq(Frames) /\ Len(Append(t, f)) = Len(t) + 1
  BY <2>1
<2>3. \A i \in 1..Len(t) : Append(t, f)[i] = t[i]
  BY <2>1
<2>4. Append(t, f)[Len(t) + 1] = f
  BY <2>1
<2> QED
  BY <2>1, <2>2, <2>3, <2>4 DEF t
<1>4. stack'[p] = Append(Set(stack[p], pc), f)
  BY <1>2 DEF StackInv
<1>5. Len(stack[p]) \in Nat /\ Len(stack[p]) > 0
  BY <1>1
<1>6. \A i \in 1..(Len(stack[p]) - 1) : stack'[p][i] = stack[p][i]
  <2> SUFFICES ASSUME NEW i \in 1..(Len(stack[p]) - 1)
               PROVE  stack'[p][i] = stack[p][i]
    OBVIOUS
  <2>1. Set(stack[p], pc)[i] = stack[p][i]
    BY <1>1, SetSeq
  <2>2. i \in 1..Len(stack[p])
    BY <1>5
  <2> QED
    BY <1>3, <1>4, <2>1, <2>2
<1>7. stack'[p][Len(stack[p])] = [Top(p) EXCEPT !.pc = pc]
  BY <1>1, <1>3, <1>4, <1>5, SetSeq DEF Top, Last
<1> QED
  BY <1>2, <1>3, <1>4, <1>6, <1>7 DEF StackInv, Kept

LEMMA ReturnStack ==
    ASSUME StackInv, NEW p \in Procs, stack[p] # <<>>, Return(p)
    PROVE  /\ stack' \in [Procs -> Seq(Frames)] /\ Kept(p)
           /\ Len(stack'[p]) = Len(stack[p]) - 1
  BY FrontSeq DEF StackInv, Return, Kept

-----------------------------------------------------------------------------
(* A call that a step leaves as the invariant sees it. *)
SameCall(f, g) ==
    /\ g.op = f.op /\ g.conn = f.conn /\ g.ev = f.ev /\ g.id = f.id
    /\ f.op = "reader" => g.pc = f.pc
    /\ f.op = "close" => g.pc = f.pc \/ once'[f.conn] # NoOne

(* A call that a step adds and the invariant does not see. *)
NewCall(f) ==
    /\ f.op # "use" => f.conn \in Conns
    /\ f.op = "event" => f.ev \notin ReadEvents /\ f.id = 0
    /\ f.op = "reader" => f.pc = "lock"
    /\ f.op = "close" => f.pc = "once"

(* The readers and the dispatchers of frames stay as they are, or return.  *)
Tame ==
    /\ stack' \in [Procs -> Seq(Frames)]
    /\ \A p \in Procs : \A i \in 1..Len(stack'[p]) :
          \/ i \in 1..Len(stack[p]) /\ SameCall(stack[p][i], stack'[p][i])
          \/ i \notin 1..Len(stack[p]) /\ NewCall(stack'[p][i])

LEMMA TameTop ==
    ASSUME StackInv, NEW p \in Procs, stack[p] # <<>>,
           stack' \in [Procs -> Seq(Frames)], Kept(p),
           Len(stack'[p]) = Len(stack[p]),
           SameCall(Top(p), stack'[p][Len(stack[p])])
    PROVE  Tame
<1>2. stack[p] \in Seq(Frames) /\ Len(stack[p]) > 0
      /\ stack[p][Len(stack[p])] = Top(p)
  BY DEF StackInv, Top, Last
<1>3. ASSUME NEW q \in Procs, NEW i \in 1..Len(stack'[q])
      PROVE  i \in 1..Len(stack[q]) /\ SameCall(stack[q][i], stack'[q][i])
  <2>0. i \in Nat /\ i > 0 /\ i <= Len(stack'[q]) /\ stack'[q] \in Seq(Frames)
    OBVIOUS
  <2>1. CASE q # p
    BY <2>0, <2>1 DEF Kept, SameCall
  <2>2. CASE q = p /\ i < Len(stack[p])
    <3>1. stack'[p][i] = stack[p][i] /\ i \in 1..Len(stack[p])
      BY <1>2, <2>0, <2>2 DEF Kept
    <3> QED
      BY <2>2, <3>1 DEF SameCall
  <2>3. CASE q = p /\ i = Len(stack[p])
    BY <1>2, <2>3
  <2> QED
    BY <1>2, <2>0, <2>1, <2>2, <2>3
<1> QED
  BY <1>3 DEF Tame

LEMMA TameGoto ==
    ASSUME StackInv, NEW p \in Procs, stack[p] # <<>>, NEW pc \in CallPcs,
           Goto(p, pc), Top(p).op # "reader",
           Top(p).op = "close" => once'[Top(p).conn] # NoOne
    PROVE  Tame
<1>1. /\ stack' \in [Procs -> Seq(Frames)] /\ Kept(p)
      /\ Len(stack'[p]) = Len(stack[p])
      /\ stack'[p][Len(stack[p])] = [Top(p) EXCEPT !.pc = pc]
  BY GotoStack
<1>2. SameCall(Top(p), [Top(p) EXCEPT !.pc = pc])
  BY TopCall DEF SameCall, Frames
<1> QED
  BY <1>1, <1>2, TameTop

LEMMA TameInvoke ==
    ASSUME StackInv, NEW p \in Procs, stack[p] # <<>>, NEW pc \in CallPcs,
           NEW f \in Frames, Invoke(p, pc, f), Top(p).op # "reader",
           Top(p).op = "close" => once'[Top(p).conn] # NoOne, NewCall(f)
    PROVE  Tame
<1>1. /\ stack' \in [Procs -> Seq(Frames)] /\ Kept(p)
      /\ Len(stack'[p]) = Len(stack[p]) + 1
      /\ stack'[p][Len(stack[p])] = [Top(p) EXCEPT !.pc = pc]
      /\ stack'[p][Len(stack[p]) + 1] = f
  BY InvokeStack
<1>2. stack[p] \in Seq(Frames) /\ Len(stack[p]) > 0 
      /\ stack[p][Len(stack[p])] = Top(p) /\ Top(p) \in Frames
  BY DEF StackInv, Top, Last
<1>3. ASSUME NEW q \in Procs, NEW i \in 1..Len(stack'[q])
      PROVE  \/ i \in 1..Len(stack[q]) /\ SameCall(stack[q][i], stack'[q][i])
             \/ i \notin 1..Len(stack[q]) /\ NewCall(stack'[q][i])
  <2>0. i \in Nat /\ i > 0 /\ i <= Len(stack'[q]) /\ stack'[q] \in Seq(Frames)
    BY <1>1
  <2>1. CASE q # p
    BY <1>1, <2>0, <2>1 DEF Kept, SameCall
  <2>2. CASE q = p /\ i < Len(stack[p])
    <3>1. stack'[p][i] = stack[p][i] /\ i \in 1..Len(stack[p])
      BY <1>1, <1>2, <2>0, <2>2 DEF Kept
    <3> QED
      BY <2>2, <3>1 DEF SameCall
  <2>3. CASE q = p /\ i = Len(stack[p])
    <3>1. SameCall(Top(p), [Top(p) EXCEPT !.pc = pc])
      BY <1>2 DEF SameCall, Frames
    <3> QED
      BY <1>1, <1>2, <2>3, <3>1
  <2>4. CASE q = p /\ i = Len(stack[p]) + 1
    BY <1>1, <1>2, <2>4
  <2> QED
    BY <1>1, <1>2, <2>0, <2>1, <2>2, <2>3, <2>4
<1> QED
  BY <1>1, <1>3 DEF Tame

LEMMA TameReturn ==
    ASSUME StackInv, NEW p \in Procs, stack[p] # <<>>, Return(p)
    PROVE  Tame
<1>1. /\ stack' \in [Procs -> Seq(Frames)] /\ Kept(p)
      /\ Len(stack'[p]) = Len(stack[p]) - 1
  BY ReturnStack
<1>2. stack[p] \in Seq(Frames) /\ Len(stack[p]) > 0 
      /\ stack[p][Len(stack[p])] = Top(p) /\ Top(p) \in Frames
  BY DEF StackInv, Top, Last
<1>3. ASSUME NEW q \in Procs, NEW i \in 1..Len(stack'[q])
      PROVE  \/ i \in 1..Len(stack[q]) /\ SameCall(stack[q][i], stack'[q][i])
             \/ i \notin 1..Len(stack[q]) /\ NewCall(stack'[q][i])
  <2>0. i \in Nat /\ i > 0 /\ i <= Len(stack'[q]) /\ stack'[q] \in Seq(Frames)
    BY <1>1
  <2>1. CASE q # p
    BY <1>1, <2>0, <2>1 DEF Kept, SameCall
  <2>2. CASE q = p /\ i < Len(stack[p])
    <3>1. stack'[p][i] = stack[p][i] /\ i \in 1..Len(stack[p])
      BY <1>1, <1>2, <2>0, <2>2 DEF Kept
    <3> QED
      BY <2>2, <3>1 DEF SameCall
  <2>3. CASE q = p /\ i = Len(stack[p])
    BY <1>1, <1>2, <2>0, <2>3
  <2> QED
    BY <1>1, <1>2, <2>0, <2>1, <2>2, <2>3
<1> QED
  BY <1>1, <1>3 DEF Tame

(* Such a step keeps the invariant when what was read, readMu and the       *)
(* handshake stay, and the end of close() finds readMu free.               *)
LEMMA TameInv ==
    ASSUME IInv, Tame, UNCHANGED <<frames, buf, closeReceived>>,
           \A d \in Conns : once[d] # NoOne => once'[d] # NoOne,
           NEW c \in Conns,
           \/ readMu'[c] = readMu[c] /\ onceDone'[c] = onceDone[c]
           \/ ~readMu[c]
    PROVE  StackInv' /\ HoldInv(c)' /\ ReaderInv(c)' /\ HandlerInv(c)'
<1> USE DEF IInv, ConnInv
<1>1. StackInv'
  <2> SUFFICES ASSUME NEW p \in Procs, NEW i \in 1..Len(stack'[p])
               PROVE  FrameInv(stack[p][i])'
    BY DEF Tame, StackInv, FrameInv
  <2>1. CASE i \in 1..Len(stack[p]) /\ SameCall(stack[p][i], stack'[p][i])
    BY <2>1 DEF StackInv, FrameInv, SameCall
  <2>2. CASE NewCall(stack'[p][i])
    <3>1. \A d \in Conns : frames[d] \in Nat
      BY DEF DataInv
    <3>2. stack'[p][i].op # "close" \/ stack'[p][i].pc = "once"
      BY <2>2 DEF NewCall
    <3>3. /\ stack'[p][i].op # "use" => stack'[p][i].conn \in Conns
          /\ stack'[p][i].op = "event" => stack'[p][i].id = 0
      BY <2>2 DEF NewCall
    <3> QED
      BY <3>1, <3>2, <3>3 DEF FrameInv
  <2> QED
    BY <2>1, <2>2 DEF Tame
<1>2. \A p \in Procs : \A i \in 1..Len(stack'[p]) :
         /\ Holds(stack'[p][i], c) =>
               i \in 1..Len(stack[p]) /\ Holds(stack[p][i], c)
         /\ Handles(stack'[p][i], c) =>
               /\ i \in 1..Len(stack[p]) /\ Handles(stack[p][i], c)
               /\ stack[p][i].ev = stack'[p][i].ev
               /\ stack[p][i].id = stack'[p][i].id
  BY DEF Tame, SameCall, NewCall, Holds, Reads, Handles
<1>3. HoldInv(c)'
  <2> SUFFICES ASSUME NEW p \in Procs, NEW i \in 1..Len(stack'[p]),
                      Holds(stack'[p][i], c), ~closeReceived[c]
               PROVE  /\ readMu'[c] /\ ~onceDone'[c]
                      /\ \A q \in Procs : \A j \in 1..Len(stack'[q]) :
                            Holds(stack'[q][j], c) => q = p /\ j = i
    BY DEF HoldInv, Holds, Reads
  <2>1. i \in 1..Len(stack[p]) /\ Holds(stack[p][i], c)
    BY <1>2
  <2>2. readMu'[c] /\ ~onceDone'[c]
    BY <2>1 DEF HoldInv
  <2> QED
    BY <1>2, <2>1, <2>2 DEF HoldInv
<1>4. ReaderInv(c)'
  BY DEF ReaderInv, Tame, SameCall, NewCall, Reads
<1>5. HandlerInv(c)'
  <2> SUFFICES ASSUME NEW p \in Procs, NEW i \in 1..Len(stack'[p]),
                      Handles(stack'[p][i], c)
               PROVE  /\ i > 1 /\ Reads(stack'[p][i - 1], c)
                      /\ stack'[p][i - 1].pc =
                            IF stack'[p][i].ev = "close"
                            THEN "received" ELSE "header"
                      /\ stack'[p][i].id = buf[c] /\ ~closeReceived[c]
    BY DEF HandlerInv, Handles, Reads
  <2>1. /\ i \in 1..Len(stack[p]) /\ Handles(stack[p][i], c)
        /\ stack[p][i].ev = stack'[p][i].ev /\ stack[p][i].id = stack'[p][i].id
    BY <1>2
  <2>2. /\ i > 1 /\ Reads(stack[p][i - 1], c)
        /\ stack[p][i - 1].pc =
              IF stack[p][i].ev = "close" THEN "received" ELSE "header"
        /\ stack[p][i].id = buf[c] /\ ~closeReceived[c]
    BY <2>1 DEF HandlerInv
  <2>3. i - 1 \in 1..Len(stack'[p]) /\ i - 1 \in 1..Len(stack[p])
    BY <2>1, <2>2 DEF Tame
  <2>4. SameCall(stack[p][i - 1], stack'[p][i - 1])
    BY <2>3 DEF Tame
  <2> QED
    BY <2>1, <2>2, <2>4 DEF SameCall, Reads
<1> QED
  BY <1>1, <1>3, <1>4, <1>5

-----------------------------------------------------------------------------
(* A step in which the innermost call of p is, and stays, a reader of c.   *)
ReaderStep(p, c) ==
    /\ stack[p] # <<>> /\ Reads(Top(p), c)
    /\ stack' \in [Procs -> Seq(Frames)] /\ Kept(p)
    /\ \/ Len(stack'[p]) = Len(stack[p])
       \/ Len(stack'[p]) = Len(stack[p]) + 1
    /\ Reads(stack'[p][Len(stack[p])], c)

(* The calls it leaves alone: all but the innermost one and a new one.     *)
LEMMA OtherCalls ==
    ASSUME IInv, NEW p \in Procs, NEW c \in Conns, ReaderStep(p, c)
    PROVE  /\ Len(stack[p]) \in 1..Len(stack'[p])
           /\ Top(p) = stack[p][Len(stack[p])] /\ Top(p) \in Frames
           /\ \A q \in Procs : \A i \in 1..Len(stack'[q]) :
                 \/ q = p /\ i \in {Len(stack[p]), Len(stack[p]) + 1}
                 \/ /\ i \in 1..Len(stack[q]) /\ stack'[q][i] = stack[q][i]
                    /\ q = p => i < Len(stack[p])
                    /\ i > 1 => /\ i - 1 \in 1..Len(stack[q])
                                /\ stack'[q][i - 1] = stack[q][i - 1]
<1>1. stack[p] \in Seq(Frames) /\ Len(stack[p]) > 0 /\ Len(stack[p]) \in Nat
  BY DEF IInv, StackInv, ReaderStep
<1>2. Top(p) = stack[p][Len(stack[p])] /\ Top(p) \in Frames
  BY <1>1 DEF Top, Last
<1>3. Len(stack[p]) \in 1..Len(stack'[p])
  BY <1>1 DEF ReaderStep
<1>4. ASSUME NEW q \in Procs, NEW i \in 1..Len(stack'[q]),
             ~(q = p /\ i \in {Len(stack[p]), Len(stack[p]) + 1})
      PROVE  /\ i \in 1..Len(stack[q]) /\ stack'[q][i] = stack[q][i]
             /\ q = p => i < Len(stack[p])
             /\ i > 1 => /\ i - 1 \in 1..Len(stack[q])
                         /\ stack'[q][i - 1] = stack[q][i - 1]
  <2>1. CASE q # p
    BY <2>1 DEF ReaderStep, Kept, IInv, StackInv
  <2>2. CASE q = p
    <3>1. Len(stack'[p]) \in Nat /\ i \in Nat /\ i > 0 /\ i < Len(stack[p])
      <4>1. \/ Len(stack'[p]) = Len(stack[p])
            \/ Len(stack'[p]) = Len(stack[p]) + 1
        BY DEF ReaderStep
      <4>2. i \in 1..Len(stack'[p]) /\ i \notin {Len(stack[p]), Len(stack[p]) + 1}
        BY <1>4, <2>2
      <4> QED
        BY <1>1, <4>1, <4>2
    <3>2. stack'[p][i] = stack[p][i]
      BY <1>1, <2>2, <3>1 DEF ReaderStep, Kept
    <3>3. i > 1 => stack'[p][i - 1] = stack[p][i - 1]
      BY <1>1, <2>2, <3>1 DEF ReaderStep, Kept
    <3> QED
      BY <1>1, <2>2, <3>1, <3>2, <3>3
  <2> QED
    BY <2>1, <2>2
<1> QED
  BY <1>2, <1>3, <1>4

(* While a goroutine reads c, nobody else does, and no handler of a frame   *)
(* of c runs but above that reader.                                         *)
LEMMA SoleReader ==
    ASSUME IInv, NEW p \in Procs, NEW c \in Conns, stack[p] # <<>>,
           Holds(Top(p), c), ~closeReceived[c]
    PROVE  \A q \in Procs : \A i \in 1..Len(stack[q]) :
              /\ Holds(stack[q][i], c) => q = p /\ i = Len(stack[p])
              /\ ~Handles(stack[q][i], c)
<1> USE DEF IInv, ConnInv
<1>1. stack[p] \in Seq(Frames) /\ Len(stack[p]) \in 1..Len(stack[p])
  BY DEF StackInv
<1>2. Top(p) = stack[p][Len(stack[p])]
  BY DEF Top, Last
<1>3. \A q \in Procs : \A i \in 1..Len(stack[q]) :
         Holds(stack[q][i], c) => q = p /\ i = Len(stack[p])
  BY <1>1, <1>2 DEF HoldInv
<1>4. ASSUME NEW q \in Procs, NEW i \in 1..Len(stack[q]),
             Handles(stack[q][i], c)
      PROVE  FALSE
  <2>1. i > 1 /\ i - 1 \in 1..Len(stack[q]) /\ Holds(stack[q][i - 1], c)
    BY <1>4 DEF HandlerInv, StackInv, Holds
  <2> QED
    BY <1>1, <1>3, <2>1
<1> QED
  BY <1>3, <1>4

(* A step that concerns c only leaves the other connections' readers and    *)
(* handlers as they are.                                                    *)
LEMMA OtherConn ==
    ASSUME IInv, NEW c \in Conns, NEW d \in Conns, d # c,
           stack' \in [Procs -> Seq(Frames)],
           \A q \in Procs : \A i \in 1..Len(stack'[q]) :
              stack'[q][i].conn # c =>
                 i \in 1..Len(stack[q]) /\ stack'[q][i] = stack[q][i],
           \A q \in Procs : \A i \in 1..Len(stack[q]) :
              stack[q][i].conn # c /\ i <= Len(stack'[q]) =>
                 stack'[q][i] = stack[q][i],
           frames'[d] = frames[d], buf'[d] = buf[d], readMu'[d] = readMu[d],
           onceDone'[d] = onceDone[d], once'[d] = once[d],
           closeReceived'[d] = closeReceived[d]
    PROVE  ConnInv(d)'
<1> USE DEF IInv, ConnInv
<1>1. \A q \in Procs : \A i \in 1..Len(stack'[q]) :
         stack'[q][i].conn = d =>
            i \in 1..Len(stack[q]) /\ stack'[q][i] = stack[q][i]
  OBVIOUS
<1>2. HoldInv(d)'
  <2> SUFFICES ASSUME NEW p \in Procs, NEW i \in 1..Len(stack'[p]),
                      Holds(stack'[p][i], d), ~closeReceived[d]
               PROVE  /\ readMu'[d] /\ ~onceDone'[d]
                      /\ \A q \in Procs : \A j \in 1..Len(stack'[q]) :
                            Holds(stack'[q][j], d) => q = p /\ j = i
    BY DEF HoldInv, Holds, Reads
  <2>1. \A q \in Procs : \A j \in 1..Len(stack'[q]) :
           Holds(stack'[q][j], d) =>
              j \in 1..Len(stack[q]) /\ Holds(stack[q][j], d)
    BY <1>1 DEF Holds, Reads
  <2>2. i \in 1..Len(stack[p]) /\ Holds(stack[p][i], d) /\ HoldInv(d)
    BY <2>1
  <2>3. /\ readMu[d] /\ ~onceDone[d]
        /\ \A q \in Procs : \A j \in 1..Len(stack[q]) :
              Holds(stack[q][j], d) => q = p /\ j = i
    BY <2>2 DEF HoldInv
  <2> QED
    BY <2>1, <2>3
<1>3. ReaderInv(d)'
  <2> SUFFICES ASSUME NEW p \in Procs, NEW i \in 1..Len(stack'[p]),
                      Reads(stack'[p][i], d)
               PROVE  LET f == stack'[p][i] IN
                      /\ f.pc \in {"dispatch", "received"} =>
                            ~closeReceived'[d]
                      /\ f.pc = "unlockTwice" => closeReceived'[d]
                      /\ f.pc = "dispatch" =>
                            buf'[d] = frames'[d] /\ f.ev \in ReadEvents
    BY DEF ReaderInv, Reads
  <2>1. /\ i \in 1..Len(stack[p]) /\ stack'[p][i] = stack[p][i]
        /\ Reads(stack[p][i], d)
    BY <1>1 DEF Reads
  <2>2. ReaderInv(d)
    OBVIOUS
  <2> QED
    BY <2>1, <2>2 DEF ReaderInv
<1>4. HandlerInv(d)'
  <2> SUFFICES ASSUME NEW p \in Procs, NEW i \in 1..Len(stack'[p]),
                      Handles(stack'[p][i], d)
               PROVE  /\ i > 1 /\ Reads(stack'[p][i - 1], d)
                      /\ stack'[p][i - 1].pc =
                            IF stack'[p][i].ev = "close"
                            THEN "received" ELSE "header"
                      /\ stack'[p][i].id = buf'[d] /\ ~closeReceived'[d]
    BY DEF HandlerInv, Handles, Reads
  <2>1. /\ i \in 1..Len(stack[p]) /\ stack'[p][i] = stack[p][i]
        /\ Handles(stack[p][i], d)
    BY <1>1 DEF Handles
  <2>2. /\ i > 1 /\ Reads(stack[p][i - 1], d)
        /\ stack[p][i - 1].pc =
              IF stack[p][i].ev = "close" THEN "received" ELSE "header"
        /\ stack[p][i].id = buf[d] /\ ~closeReceived[d]
    BY <2>1 DEF HandlerInv
  <2>3. i - 1 \in 1..Len(stack'[p]) /\ i - 1 \in 1..Len(stack[p])
    BY <2>1, <2>2
  <2>4. stack'[p][i - 1] = stack[p][i - 1]
    BY <2>2, <2>3 DEF Reads
  <2> QED
    BY <2>1, <2>2, <2>4
<1> QED
  BY <1>2, <1>3, <1>4

(* The calls of a step of a reader of c that keep their place, and those    *)
(* of other connections.                                                    *)
LEMMA ReaderStepInv ==
    ASSUME IInv, NEW p \in Procs, NEW c \in Conns, ReaderStep(p, c),
           Len(stack'[p]) = Len(stack[p]) + 1 =>
              LET f == stack'[p][Len(stack[p]) + 1]
              IN  /\ f.conn = c /\ f.id <= frames'[c]
                  /\ f.op = "close" => f.pc = "once",
           \A d \in Conns \ {c} :
              /\ frames'[d] = frames[d] /\ buf'[d] = buf[d]
              /\ readMu'[d] = readMu[d] /\ closeReceived'[d] = closeReceived[d],
           UNCHANGED <<once, onceDone>>, frames'[c] \in Nat,
           frames'[c] >= frames[c], ConnInv(c)'
    PROVE  StackInv' /\ \A d \in Conns : ConnInv(d)'
<1> USE DEF IInv
<1>0. /\ Len(stack[p]) \in 1..Len(stack'[p])
      /\ \A q \in Procs : \A i \in 1..Len(stack'[q]) :
            \/ q = p /\ i \in {Len(stack[p]), Len(stack[p]) + 1}
            \/ /\ i \in 1..Len(stack[q]) /\ stack'[q][i] = stack[q][i]
               /\ q = p => i < Len(stack[p])
  BY OtherCalls
<1>0a. /\ stack' \in [Procs -> Seq(Frames)] /\ stack \in [Procs -> Seq(Frames)]
       /\ \/ Len(stack'[p]) = Len(stack[p])
          \/ Len(stack'[p]) = Len(stack[p]) + 1
       /\ stack'[p][Len(stack[p])].conn = c /\ stack[p][Len(stack[p])].conn = c
  BY DEF ReaderStep, Reads, Top, Last, StackInv
<1>1. StackInv'
  <2> SUFFICES ASSUME NEW q \in Procs, NEW i \in 1..Len(stack'[q])
               PROVE  FrameInv(stack[q][i])'
    BY DEF StackInv, ReaderStep
  <2>1. CASE q = p /\ i = Len(stack[p])
    BY <2>1 DEF ReaderStep, Reads, FrameInv
  <2>2. CASE q = p /\ i = Len(stack[p]) + 1
    BY <2>2 DEF ReaderStep, FrameInv, StackInv
  <2>3. CASE i \in 1..Len(stack[q]) /\ stack'[q][i] = stack[q][i]
    <3>1. FrameInv(stack[q][i]) /\ stack[q][i] \in Frames
      BY <2>3 DEF StackInv
    <3> QED
      <4>1. \A d \in Conns : frames[d] \in Nat /\ frames[d] <= frames'[d]
                                 /\ frames'[d] \in Nat
        <5> SUFFICES ASSUME NEW d \in Conns
                     PROVE  frames[d] \in Nat /\ frames[d] <= frames'[d]
                               /\ frames'[d] \in Nat
          OBVIOUS
        <5>1. frames[d] \in Nat
          BY DEF DataInv
        <5>2. CASE d = c
          BY <5>1, <5>2
        <5>3. CASE d # c
          BY <5>1, <5>3
        <5> QED
          BY <5>2, <5>3
      <4>2. stack'[q][i].id \in Nat
        BY <2>3, <3>1 DEF Frames
      <4>3. /\ stack'[q][i].op # "use" => stack'[q][i].conn \in Conns
            /\ stack'[q][i].op = "event" =>
                  stack'[q][i].id <= frames'[stack'[q][i].conn]
            /\ stack'[q][i].op = "close" /\ stack'[q][i].pc # "once" =>
                  once'[stack'[q][i].conn] # NoOne
        BY <2>3, <3>1, <4>1, <4>2 DEF FrameInv
      <4> QED
        BY <4>3 DEF FrameInv
  <2> QED
    BY <1>0, <2>1, <2>2, <2>3
<1>2. ASSUME NEW d \in Conns, d # c PROVE ConnInv(d)'
  <2>1. ASSUME NEW q \in Procs, NEW i \in 1..Len(stack'[q]),
               stack'[q][i].conn # c
        PROVE  i \in 1..Len(stack[q]) /\ stack'[q][i] = stack[q][i]
    BY <1>0, <1>0a, <2>1
  <2>2. ASSUME NEW q \in Procs, NEW i \in 1..Len(stack[q]),
               stack[q][i].conn # c, i <= Len(stack'[q])
        PROVE  stack'[q][i] = stack[q][i]
    <3>1. i \in 1..Len(stack'[q])
      BY <1>0a, <2>2
    <3>2. CASE q = p /\ i = Len(stack[p])
      BY <1>0a, <2>2, <3>2
    <3>3. CASE ~(q = p /\ i = Len(stack[p]))
      BY <1>0, <1>0a, <3>1, <3>3
    <3> QED
      BY <3>2, <3>3
  <2>3. stack' \in [Procs -> Seq(Frames)]
    BY DEF ReaderStep
  <2> QED
    BY <1>2, <2>1, <2>2, <2>3, OtherConn
<1> QED
  BY <1>1, <1>2

-----------------------------------------------------------------------------
(* The steps of a reader.                                                   *)

LEMMA ReaderGoto ==
    ASSUME IInv, NEW p \in Procs, NEW c \in Conns, stack[p] # <<>>,
           Reads(Top(p), c), NEW pc \in CallPcs, Goto(p, pc)
    PROVE  /\ ReaderStep(p, c) /\ Len(stack'[p]) = Len(stack[p])
           /\ stack'[p][Len(stack[p])] = [Top(p) EXCEPT !.pc = pc]
<1>1. /\ stack' \in [Procs -> Seq(Frames)] /\ Kept(p)
      /\ Len(stack'[p]) = Len(stack[p])
      /\ stack'[p][Len(stack[p])] = [Top(p) EXCEPT !.pc = pc]
  BY GotoStack DEF IInv
<1>2. Top(p) \in Frames
  BY DEF IInv, StackInv, Top, Last
<1>3. Reads([Top(p) EXCEPT !.pc = pc], c)
  BY <1>2 DEF Reads, Frames
<1> QED
  BY <1>1, <1>3 DEF ReaderStep

LEMMA ReaderInvoke ==
    ASSUME IInv, NEW p \in Procs, NEW c \in Conns, stack[p] # <<>>,
           Reads(Top(p), c), NEW pc \in CallPcs, NEW f \in Frames,
           Invoke(p, pc, f)
    PROVE  /\ ReaderStep(p, c) /\ Len(stack'[p]) = Len(stack[p]) + 1
           /\ stack'[p][Len(stack[p])] = [Top(p) EXCEPT !.pc = pc]
           /\ stack'[p][Len(stack[p]) + 1] = f
<1>1. /\ stack' \in [Procs -> Seq(Frames)] /\ Kept(p)
      /\ Len(stack'[p]) = Len(stack[p]) + 1
      /\ stack'[p][Len(stack[p])] = [Top(p) EXCEPT !.pc = pc]
      /\ stack'[p][Len(stack[p]) + 1] = f
  BY InvokeStack DEF IInv
<1>2. Top(p) \in Frames
  BY DEF IInv, StackInv, Top, Last
<1>3. Reads([Top(p) EXCEPT !.pc = pc], c)
  BY <1>2 DEF Reads, Frames
<1> QED
  BY <1>1, <1>3 DEF ReaderStep

(* The readers and handlers of c after a step of its reader that leaves     *)
(* what was read and the handshake alone.                                   *)
LEMMA SameRead ==
    ASSUME IInv, NEW p \in Procs, NEW c \in Conns, ReaderStep(p, c),
           Len(stack'[p]) = Len(stack[p]) + 1 =>
              LET f == stack'[p][Len(stack[p]) + 1]
              IN  f.op # "reader" /\ ~Handles(f, c),
           UNCHANGED <<frames, buf, closeReceived>>,
           stack'[p][Len(stack[p])].pc \notin {"dispatch", "received"},
           stack'[p][Len(stack[p])].pc = "unlockTwice" => closeReceived[c]
    PROVE  ReaderInv(c)' /\ HandlerInv(c)'
<1> USE DEF IInv, ConnInv
<1>1. ReaderInv(c)'
  <2> SUFFICES ASSUME NEW q \in Procs, NEW i \in 1..Len(stack'[q]),
                      Reads(stack'[q][i], c)
               PROVE  /\ stack'[q][i].pc \in {"dispatch", "received"} =>
                            ~closeReceived[c]
                      /\ stack'[q][i].pc = "unlockTwice" => closeReceived[c]
                      /\ stack'[q][i].pc = "dispatch" =>
                            /\ buf[c] = frames[c]
                            /\ stack'[q][i].ev \in ReadEvents
    BY DEF ReaderInv, Reads
  <2>1. CASE q = p /\ i = Len(stack[p])
    BY <2>1
  <2>2. CASE q = p /\ i = Len(stack[p]) + 1
    BY <2>2 DEF ReaderStep, Reads, StackInv
  <2>3. CASE i \in 1..Len(stack[q]) /\ stack'[q][i] = stack[q][i]
    BY <2>3 DEF ReaderInv
  <2> QED
    BY <2>1, <2>2, <2>3, OtherCalls
<1>2. HandlerInv(c)'
  <2> SUFFICES ASSUME NEW q \in Procs, NEW i \in 1..Len(stack'[q]),
                      Handles(stack'[q][i], c)
               PROVE  /\ i > 1 /\ Reads(stack'[q][i - 1], c)
                      /\ stack'[q][i - 1].pc =
                            IF stack'[q][i].ev = "close"
                            THEN "received" ELSE "header"
                      /\ stack'[q][i].id = buf[c] /\ ~closeReceived[c]
    BY DEF HandlerInv, Handles, Reads
  <2>1. CASE q = p /\ i = Len(stack[p])
    BY <2>1 DEF ReaderStep, Reads, Handles
  <2>2. CASE q = p /\ i = Len(stack[p]) + 1
    BY <2>2 DEF ReaderStep, StackInv
  <2>3. CASE /\ i \in 1..Len(stack[q]) /\ stack'[q][i] = stack[q][i]
             /\ i > 1 => stack'[q][i - 1] = stack[q][i - 1]
    BY <2>3 DEF HandlerInv
  <2> QED
    BY <2>1, <2>2, <2>3, OtherCalls
<1> QED
  BY <1>1, <1>2

(* The same for who holds readMu, when the reader goes on as one that holds *)
(* it, or a close frame was received.                                       *)
LEMMA SameHold ==
    ASSUME IInv, NEW p \in Procs, NEW c \in Conns, ReaderStep(p, c),
           Len(stack'[p]) = Len(stack[p]) + 1 =>
              stack'[p][Len(stack[p]) + 1].op # "reader",
           \/ closeReceived'[c]
           \/ Holds(Top(p), c) /\ UNCHANGED <<readMu, onceDone, closeReceived>>
    PROVE  HoldInv(c)'
<1> USE DEF IInv, ConnInv
<1>1. CASE closeReceived'[c]
  BY <1>1 DEF HoldInv
<1>2. CASE /\ Holds(Top(p), c) /\ UNCHANGED <<readMu, onceDone, closeReceived>>
           /\ ~closeReceived[c]
  <2>1. \A q \in Procs : \A i \in 1..Len(stack'[q]) :
           Holds(stack'[q][i], c) => q = p /\ i = Len(stack[p])
    <3> SUFFICES ASSUME NEW q \in Procs, NEW i \in 1..Len(stack'[q]),
                        Holds(stack'[q][i], c)
                 PROVE  q = p /\ i = Len(stack[p])
      OBVIOUS
    <3>1. stack[p] # <<>>
      BY DEF ReaderStep
    <3>2. CASE q = p /\ i = Len(stack[p]) + 1
      BY <3>2 DEF ReaderStep, Holds, Reads, StackInv
    <3>3. CASE /\ i \in 1..Len(stack[q]) /\ stack'[q][i] = stack[q][i]
               /\ q = p => i < Len(stack[p])
      BY <1>2, <3>1, <3>3, SoleReader
    <3> QED
      BY <3>2, <3>3, OtherCalls
  <2>2. readMu[c] /\ ~onceDone[c]
    <3>1. /\ stack[p][Len(stack[p])] = Top(p)
          /\ Len(stack[p]) \in 1..Len(stack[p])
      BY DEF ReaderStep, StackInv, Top, Last
    <3> QED
      BY <1>2, <3>1 DEF HoldInv
  <2> QED
    BY <1>2, <2>1, <2>2 DEF HoldInv
<1> QED
  BY <1>1, <1>2

LEMMA LockReadInv ==
    ASSUME IInv, NEW p \in Procs, NEW c \in Conns, LockRead(p, c)
    PROVE  IInv'
<1> USE DEF IInv
<1>1. /\ stack[p] # <<>> /\ Reads(Top(p), c)
      /\ Goto(p, "header") /\ "header" \in CallPcs
      /\ ~readMu[c] /\ once[c] = NoOne
      /\ readMu' = [readMu EXCEPT ![c] = TRUE]
      /\ UNCHANGED <<writer, mws, acts, frames, buf, once, onceDone, rwcClosed,
                     closeSent, closeReceived>>
  BY DEF LockRead, At, Closed, CallPcs, Reads, inVars, closeVars, hsVars
<1>2. /\ ReaderStep(p, c) /\ Len(stack'[p]) = Len(stack[p])
      /\ stack'[p][Len(stack[p])] = [Top(p) EXCEPT !.pc = "header"]
  BY <1>1, ReaderGoto
<1>3. DataInv'
  BY <1>1 DEF DataInv
<1>4. /\ [Top(p) EXCEPT !.pc = "header"].pc = "header"
      /\ Len(stack[p]) # Len(stack[p]) + 1 /\ frames[c] \in Nat
  BY <1>1, TopCall DEF DataInv
<1>5. ReaderInv(c)' /\ HandlerInv(c)'
  BY <1>1, <1>2, <1>4, SameRead
<1>6. HoldInv(c)'
  <2> SUFFICES ASSUME ~closeReceived[c] PROVE HoldInv(c)'
    BY <1>1 DEF HoldInv
  <2>1. \A q \in Procs : \A i \in 1..Len(stack[q]) : ~Holds(stack[q][i], c)
    BY <1>1 DEF ConnInv, HoldInv
  <2>2. \A q \in Procs : \A i \in 1..Len(stack'[q]) :
           Holds(stack'[q][i], c) => q = p /\ i = Len(stack[p])
    BY <1>2, <2>1, OtherCalls
  <2>3. readMu'[c] /\ ~onceDone'[c]
    BY <1>1 DEF ConnInv, DataInv
  <2> QED
    BY <2>2, <2>3 DEF HoldInv
<1>7. ConnInv(c)'
  BY <1>1, <1>5, <1>6 DEF ConnInv
<1>8. \A d \in Conns \ {c} : readMu'[d] = readMu[d]
  BY <1>1 DEF DataInv
<1>9. UNCHANGED <<frames, buf, closeReceived, once, onceDone>>
  BY <1>1
<1> QED
  BY <1>2, <1>3, <1>4, <1>7, <1>8, <1>9, ReaderStepInv

LEMMA TransportFailsInv ==
    ASSUME IInv, NEW p \in Procs, NEW c \in Conns, TransportFails(p, c)
    PROVE  IInv'
<1> USE DEF IInv
<1>1. /\ stack[p] # <<>> /\ Reads(Top(p), c) /\ Top(p).pc = "header"
      /\ Goto(p, "unlock") /\ "unlock" \in CallPcs
      /\ UNCHANGED <<writer, mws, acts, frames, buf, readMu, once, onceDone,
                     rwcClosed, closeSent, closeReceived>>
  BY DEF TransportFails, At, CallPcs, Reads, connVars, inVars, closeVars, hsVars
<1>2. /\ ReaderStep(p, c) /\ Len(stack'[p]) = Len(stack[p])
      /\ stack'[p][Len(stack[p])] = [Top(p) EXCEPT !.pc = "unlock"]
  BY <1>1, ReaderGoto
<1>3. DataInv'
  BY <1>1 DEF DataInv
<1>4. /\ [Top(p) EXCEPT !.pc = "unlock"].pc = "unlock"
      /\ Len(stack[p]) # Len(stack[p]) + 1 /\ frames[c] \in Nat
  BY <1>1, TopCall DEF DataInv
<1>5. ReaderInv(c)' /\ HandlerInv(c)'
  BY <1>1, <1>2, <1>4, SameRead
<1>6. HoldInv(c)'
  BY <1>1, <1>2, SameHold DEF Holds
<1>7. ConnInv(c)'
  BY <1>1, <1>5, <1>6 DEF ConnInv
<1> QED
  BY <1>1, <1>2, <1>3, <1>4, <1>7, ReaderStepInv

LEMMA CloseAfterReceivedInv ==
    ASSUME IInv, NEW p \in Procs, NEW c \in Conns, CloseAfterReceived(p, c)
    PROVE  IInv'
<1> USE DEF IInv
<1>1. /\ stack[p] # <<>> /\ Reads(Top(p), c) /\ Top(p).pc = "unlockTwice"
      /\ Invoke(p, "unlock", Call("close", c, "once")) /\ "unlock" \in CallPcs
      /\ readMu' = [readMu EXCEPT ![c] = FALSE]
      /\ UNCHANGED <<writer, mws, acts, frames, buf, once, onceDone,
                     rwcClosed, closeSent, closeReceived>>
  BY DEF CloseAfterReceived, At, CallPcs, Reads, inVars, closeVars, hsVars
<1> DEFINE f == Call("close", c, "once")
<1>2. f \in Frames /\ f.op = "close" /\ f.conn = c /\ f.id = 0
      /\ f.pc = "once"
  BY DEF Call, Frames, CallPcs
<1> HIDE DEF f
<1>3. /\ ReaderStep(p, c) /\ Len(stack'[p]) = Len(stack[p]) + 1
      /\ stack'[p][Len(stack[p])] = [Top(p) EXCEPT !.pc = "unlock"]
      /\ stack'[p][Len(stack[p]) + 1] = f
  BY <1>1, <1>2, ReaderInvoke DEF f
<1>4. DataInv'
  BY <1>1 DEF DataInv
<1>5. /\ [Top(p) EXCEPT !.pc = "unlock"].pc = "unlock"
      /\ Top(p) = stack[p][Len(stack[p])]
      /\ Len(stack[p]) \in 1..Len(stack[p]) /\ frames[c] \in Nat
  BY <1>1, TopCall DEF DataInv
<1>6. closeReceived[c]
  BY <1>1, <1>5 DEF ConnInv, ReaderInv
<1>7. ReaderInv(c)' /\ HandlerInv(c)'
  BY <1>1, <1>2, <1>3, <1>5, SameRead DEF Handles
<1>8. HoldInv(c)'
  BY <1>1, <1>6 DEF HoldInv
<1>9. ConnInv(c)'
  BY <1>1, <1>7, <1>8 DEF ConnInv
<1>10. \A d \in Conns \ {c} : readMu'[d] = readMu[d]
  BY <1>1 DEF DataInv
<1>11. UNCHANGED <<frames, buf, closeReceived, once, onceDone>>
  BY <1>1
<1> QED
  BY <1>2, <1>3, <1>4, <1>5, <1>9, <1>10, <1>11, ReaderStepInv

(* The frame's payload is in readControlBuf when its handlers are called.   *)
LEMMA DispatchInv ==
    ASSUME IInv, NEW p \in Procs, NEW c \in Conns, Dispatch(p, c)
    PROVE  IInv'
<1> USE DEF IInv
<1> DEFINE pc == IF Top(p).ev = "close" THEN "received" ELSE "header"
           f == Dispatcher(c, Top(p).ev, frames[c])
<1>1. /\ stack[p] # <<>> /\ Reads(Top(p), c) /\ Top(p).pc = "dispatch"
      /\ Invoke(p, pc, f) /\ pc \in CallPcs
      /\ UNCHANGED <<writer, mws, acts, frames, buf, readMu, once, onceDone,
                     rwcClosed, closeSent, closeReceived>>
  BY DEF Dispatch, At, CallPcs, Reads, connVars, inVars, closeVars, hsVars
<1>2. /\ Top(p) \in Frames /\ Top(p) = stack[p][Len(stack[p])]
      /\ Len(stack[p]) \in 1..Len(stack[p])
  BY <1>1 DEF StackInv, Top, Last
<1>3. /\ Top(p).ev \in ReadEvents /\ buf[c] = frames[c] /\ ~closeReceived[c]
  BY <1>1, <1>2 DEF ConnInv, ReaderInv
<1>4. frames[c] \in Nat
  BY DEF DataInv
<1>5. /\ f \in Frames /\ f.op = "event" /\ f.conn = c /\ f.id = frames[c]
      /\ f.ev = Top(p).ev
  BY <1>3, <1>4, DispatcherType DEF ReadEvents
<1>6. [Top(p) EXCEPT !.pc = pc].pc = pc /\ pc \in {"received", "header"}
  BY <1>2 DEF Frames
<1> HIDE DEF f, pc
<1>7. /\ ReaderStep(p, c) /\ Len(stack'[p]) = Len(stack[p]) + 1
      /\ stack'[p][Len(stack[p])] = [Top(p) EXCEPT !.pc = pc]
      /\ stack'[p][Len(stack[p]) + 1] = f
  BY <1>1, <1>5, ReaderInvoke
<1>8. DataInv'
  BY <1>1 DEF DataInv
<1>9. HoldInv(c)'
  BY <1>1, <1>5, <1>7, SameHold DEF Holds
<1>10. ReaderInv(c)'
  <2> SUFFICES ASSUME NEW q \in Procs, NEW i \in 1..Len(stack'[q]),
                      Reads(stack'[q][i], c)
               PROVE  /\ stack'[q][i].pc \in {"dispatch", "received"} =>
                            ~closeReceived[c]
                      /\ stack'[q][i].pc = "unlockTwice" => closeReceived[c]
                      /\ stack'[q][i].pc = "dispatch" =>
                            /\ buf[c] = frames[c]
                            /\ stack'[q][i].ev \in ReadEvents
    BY <1>1 DEF ReaderInv, Reads
  <2>1. CASE q = p /\ i = Len(stack[p])
    BY <1>3, <1>6, <1>7, <2>1
  <2>2. CASE q = p /\ i = Len(stack[p]) + 1
    BY <1>5, <1>7, <2>2 DEF Reads
  <2>3. CASE i \in 1..Len(stack[q]) /\ stack'[q][i] = stack[q][i]
    BY <2>3 DEF ConnInv, ReaderInv
  <2> QED
    BY <1>7, <2>1, <2>2, <2>3, OtherCalls
<1>11. HandlerInv(c)'
  <2> SUFFICES ASSUME NEW q \in Procs, NEW i \in 1..Len(stack'[q]),
                      Handles(stack'[q][i], c)
               PROVE  /\ i > 1 /\ Reads(stack'[q][i - 1], c)
                      /\ stack'[q][i - 1].pc =
                            IF stack'[q][i].ev = "close"
                            THEN "received" ELSE "header"
                      /\ stack'[q][i].id = buf[c] /\ ~closeReceived[c]
    BY <1>1 DEF HandlerInv, Handles, Reads
  <2>1. CASE q = p /\ i = Len(stack[p])
    BY <1>7, <2>1 DEF ReaderStep, Reads, Handles
  <2>2. CASE q = p /\ i = Len(stack[p]) + 1
    <3>1. i > 1 /\ i - 1 = Len(stack[p])
      BY <1>2, <2>2
    <3> QED
      BY <1>3, <1>5, <1>6, <1>7, <2>2, <3>1 DEF ReaderStep, pc
  <2>3. CASE /\ i \in 1..Len(stack[q]) /\ stack'[q][i] = stack[q][i]
             /\ i > 1 => stack'[q][i - 1] = stack[q][i - 1]
    BY <2>3 DEF ConnInv, HandlerInv
  <2> QED
    BY <1>7, <2>1, <2>2, <2>3, OtherCalls
<1>12. ConnInv(c)'
  BY <1>1, <1>9, <1>10, <1>11 DEF ConnInv
<1> QED
  BY <1>1, <1>4, <1>5, <1>7, <1>8, <1>12, ReaderStepInv

(* A frame overwrites readControlBuf: no handler of c still has its payload. *)
LEMMA ReadFrameInv ==
    ASSUME IInv, NEW p \in Procs, NEW c \in Conns, ReadFrame(p, c)
    PROVE  IInv'
<1> USE DEF IInv
<1>1. /\ stack[p] # <<>> /\ Reads(Top(p), c) /\ Top(p).pc = "header"
      /\ once[c] = NoOne /\ ~closeReceived[c]
      /\ frames' = [frames EXCEPT ![c] = @ + 1]
      /\ UNCHANGED <<writer, mws, acts, readMu, once, onceDone, rwcClosed,
                     closeReceived>>
  BY DEF ReadFrame, At, Closed, Reads, closeVars
<1>2. /\ Top(p) = stack[p][Len(stack[p])] /\ Top(p) \in Frames
      /\ Len(stack[p]) \in Nat /\ Len(stack[p]) # Len(stack[p]) + 1
      /\ stack[p] \in Seq(Frames) /\ Len(stack[p]) \in 1..Len(stack[p])
  BY <1>1, TopCall DEF StackInv
<1>3. \A q \in Procs : \A i \in 1..Len(stack[q]) :
         /\ Holds(stack[q][i], c) => q = p /\ i = Len(stack[p])
         /\ ~Handles(stack[q][i], c)
  BY <1>1, SoleReader DEF Holds
<1>4. /\ frames[c] \in Nat /\ frames'[c] = frames[c] + 1
      /\ \A d \in Conns \ {c} : frames'[d] = frames[d]
  BY <1>1 DEF DataInv
<1>5. CASE \E ev \in ReadEvents :
              /\ Received(p, ev)
              /\ buf' = [buf EXCEPT ![c] = frames'[c]]
              /\ UNCHANGED closeSent
  <2>1. PICK ev \in ReadEvents :
           Received(p, ev) /\ buf' = [buf EXCEPT ![c] = frames'[c]]
                           /\ UNCHANGED closeSent
    BY <1>5
  <2> DEFINE f == [Top(p) EXCEPT !.pc = "dispatch", !.ev = ev]
  <2>2. f \in Frames /\ Reads(f, c) /\ f.pc = "dispatch" /\ f.ev \in ReadEvents
    BY <1>1, <1>2 DEF Frames, CallPcs, ReadEvents, Reads
  <2>4. /\ stack' \in [Procs -> Seq(Frames)] /\ Kept(p)
        /\ Len(stack'[p]) = Len(stack[p]) /\ stack'[p][Len(stack[p])] = f
    BY <1>1, <2>1, ReceivedStack
  <2> HIDE DEF f
  <2>5. ReaderStep(p, c)
    BY <1>1, <2>2, <2>4 DEF ReaderStep
  <2>6. /\ buf'[c] = frames'[c] /\ DataInv'
        /\ \A d \in Conns \ {c} : buf'[d] = buf[d]
    BY <1>1, <1>4, <2>1 DEF DataInv
  <2>7. \A q \in Procs : \A i \in 1..Len(stack'[q]) :
           \/ q = p /\ i = Len(stack[p])
           \/ i \in 1..Len(stack[q]) /\ stack'[q][i] = stack[q][i]
              /\ ~(q = p /\ i = Len(stack[p]))
    BY <1>2, <2>4, <2>5, OtherCalls
  <2>8. HoldInv(c)'
    BY <1>1, <1>2, <2>4, <2>5, SameHold DEF Holds
  <2>9. ReaderInv(c)'
    <3> SUFFICES ASSUME NEW q \in Procs, NEW i \in 1..Len(stack'[q]),
                        Reads(stack'[q][i], c)
                 PROVE  /\ stack'[q][i].pc \in {"dispatch", "received"} =>
                              ~closeReceived[c]
                        /\ stack'[q][i].pc = "unlockTwice" => closeReceived[c]
                        /\ stack'[q][i].pc = "dispatch" =>
                              /\ buf'[c] = frames'[c]
                              /\ stack'[q][i].ev \in ReadEvents
      BY <1>1 DEF ReaderInv, Reads
    <3>1. CASE q = p /\ i = Len(stack[p])
      BY <1>1, <2>2, <2>4, <2>6, <3>1
    <3>2. CASE i \in 1..Len(stack[q]) /\ stack'[q][i] = stack[q][i]
               /\ ~(q = p /\ i = Len(stack[p]))
      <4>1. ~Holds(stack[q][i], c) /\ Reads(stack[q][i], c)
        BY <1>3, <3>2
      <4>2. stack[q][i].pc # "unlockTwice"
        BY <1>1, <3>2, <4>1 DEF ConnInv, ReaderInv
      <4> QED
        BY <1>1, <3>2, <4>1, <4>2 DEF Holds
    <3> QED
      BY <2>7, <3>1, <3>2
  <2>10. HandlerInv(c)'
    <3>1. \A q \in Procs : \A i \in 1..Len(stack'[q]) :
             ~Handles(stack'[q][i], c)
      BY <1>3, <2>2, <2>4, <2>7 DEF Handles, Reads
    <3> QED
      BY <3>1 DEF HandlerInv, Handles
  <2>11. ConnInv(c)'
    BY <1>1, <2>8, <2>9, <2>10 DEF ConnInv
  <2>12. UNCHANGED <<readMu, closeReceived, once, onceDone>>
    BY <1>1
  <2>13. Len(stack'[p]) # Len(stack[p]) + 1
    BY <1>2, <2>4
  <2> QED
    BY <1>4, <2>5, <2>6, <2>11, <2>12, <2>13, ReaderStepInv
<1>6. CASE /\ Goto(p, "unlock")
           /\ closeSent' = [closeSent EXCEPT ![c] = TRUE]
           /\ UNCHANGED buf
  <2>1. /\ ReaderStep(p, c) /\ Len(stack'[p]) = Len(stack[p])
        /\ stack'[p][Len(stack[p])] = [Top(p) EXCEPT !.pc = "unlock"]
        /\ [Top(p) EXCEPT !.pc = "unlock"].pc = "unlock"
    BY <1>1, <1>6, ReaderGoto, TopCall DEF CallPcs
  <2>2. DataInv'
    BY <1>1, <1>4, <1>6 DEF DataInv
  <2>3. \A q \in Procs : \A i \in 1..Len(stack'[q]) :
           \/ q = p /\ i = Len(stack[p])
           \/ i \in 1..Len(stack[q]) /\ stack'[q][i] = stack[q][i]
              /\ ~(q = p /\ i = Len(stack[p]))
    BY <1>2, <2>1, OtherCalls
  <2>4. HoldInv(c)'
    BY <1>1, <1>2, <2>1, SameHold DEF Holds
  <2>5. \A q \in Procs : \A i \in 1..Len(stack'[q]) :
           /\ ~Handles(stack'[q][i], c)
           /\ Reads(stack'[q][i], c) =>
                 stack'[q][i].pc \notin {"dispatch", "received", "unlockTwice"}
    <3> SUFFICES ASSUME NEW q \in Procs, NEW i \in 1..Len(stack'[q])
                 PROVE  /\ ~Handles(stack'[q][i], c)
                        /\ Reads(stack'[q][i], c) => stack'[q][i].pc \notin
                              {"dispatch", "received", "unlockTwice"}
      OBVIOUS
    <3>1. CASE q = p /\ i = Len(stack[p])
      BY <2>1, <3>1 DEF ReaderStep, Reads, Handles
    <3>2. CASE i \in 1..Len(stack[q]) /\ stack'[q][i] = stack[q][i]
               /\ ~(q = p /\ i = Len(stack[p]))
      <4>1. ~Holds(stack[q][i], c) /\ ~Handles(stack[q][i], c)
        BY <1>3, <3>2
      <4>2. Reads(stack[q][i], c) => stack[q][i].pc # "unlockTwice"
        BY <1>1, <3>2 DEF ConnInv, ReaderInv
      <4> QED
        BY <3>2, <4>1, <4>2 DEF Holds
    <3> QED
      BY <2>3, <3>1, <3>2
  <2>6. ConnInv(c)'
    BY <1>1, <2>4, <2>5 DEF ConnInv, ReaderInv, HandlerInv, Handles, Reads
  <2> QED
    BY <1>1, <1>2, <1>4, <1>6, <2>1, <2>2, <2>6, ReaderStepInv
<1> QED
  BY <1>5, <1>6 DEF ReadFrame

(* The close frame's own handlers have returned; no other handler of c runs. *)
LEMMA CloseReceivedInv ==
    ASSUME IInv, NEW p \in Procs, NEW c \in Conns, CloseReceived(p, c)
    PROVE  IInv'
<1> USE DEF IInv
<1> DEFINE f == Call("close", c, "once")
<1>1. /\ stack[p] # <<>> /\ Reads(Top(p), c) /\ Top(p).pc = "received"
      /\ closeReceived' = [closeReceived EXCEPT ![c] = TRUE]
      /\ readMu' = readMu \/ readMu' = [readMu EXCEPT ![c] = FALSE]
      /\ closeSent' = closeSent \/ closeSent' = [closeSent EXCEPT ![c] = TRUE]
      /\ Goto(p, "unlockTwice") \/ Invoke(p, "unlockTwice", f)
      /\ UNCHANGED <<writer, mws, acts, frames, buf, once, onceDone, rwcClosed>>
  BY DEF CloseReceived, At, Reads, inVars, closeVars
<1>2. /\ Top(p) = stack[p][Len(stack[p])] /\ Top(p) \in Frames
      /\ Len(stack[p]) \in Nat /\ Len(stack[p]) # Len(stack[p]) + 1
      /\ Len(stack[p]) \in 1..Len(stack[p]) /\ "unlockTwice" \in CallPcs
      /\ [Top(p) EXCEPT !.pc = "unlockTwice"].pc = "unlockTwice"
  BY <1>1, TopCall DEF CallPcs
<1>3. ~closeReceived[c]
  BY <1>1, <1>2 DEF ConnInv, ReaderInv
<1>4. \A q \in Procs : \A i \in 1..Len(stack[q]) :
         /\ Holds(stack[q][i], c) => q = p /\ i = Len(stack[p])
         /\ ~Handles(stack[q][i], c)
  BY <1>1, <1>3, SoleReader DEF Holds
<1>5. /\ closeReceived'[c] /\ DataInv' /\ frames[c] \in Nat
      /\ \A d \in Conns \ {c} :
            readMu'[d] = readMu[d] /\ closeReceived'[d] = closeReceived[d]
  BY <1>1 DEF DataInv
<1>6. f \in Frames /\ f.op = "close" /\ f.conn = c /\ f.id = 0
      /\ f.pc = "once"
  BY DEF Call, Frames, CallPcs
<1> HIDE DEF f
<1>7. /\ ReaderStep(p, c)
      /\ stack'[p][Len(stack[p])] = [Top(p) EXCEPT !.pc = "unlockTwice"]
      /\ \/ Len(stack'[p]) = Len(stack[p])
         \/ stack'[p][Len(stack[p]) + 1] = f
  BY <1>1, <1>2, <1>6, ReaderGoto, ReaderInvoke
<1>8. \A q \in Procs : \A i \in 1..Len(stack'[q]) :
         /\ ~Handles(stack'[q][i], c)
         /\ Reads(stack'[q][i], c) =>
               stack'[q][i].pc \notin {"dispatch", "received"}
  <2> SUFFICES ASSUME NEW q \in Procs, NEW i \in 1..Len(stack'[q])
               PROVE  /\ ~Handles(stack'[q][i], c)
                      /\ Reads(stack'[q][i], c) =>
                            stack'[q][i].pc \notin {"dispatch", "received"}
    OBVIOUS
  <2>1. CASE q = p /\ i = Len(stack[p])
    BY <1>2, <1>7, <2>1 DEF ReaderStep, Reads, Handles
  <2>2. CASE q = p /\ i = Len(stack[p]) + 1
    BY <1>2, <1>6, <1>7, <2>2 DEF Reads, Handles
  <2>3. CASE i \in 1..Len(stack[q]) /\ stack'[q][i] = stack[q][i]
             /\ (q = p => i < Len(stack[p]))
    BY <1>2, <1>4, <2>3 DEF Holds
  <2> QED
    BY <1>7, <2>1, <2>2, <2>3, OtherCalls
<1>9. ConnInv(c)'
  BY <1>1, <1>5, <1>8
     DEF ConnInv, HoldInv, ReaderInv, HandlerInv, Handles, Reads
<1> QED
  <2>1. UNCHANGED <<frames, buf, once, onceDone>>
    BY <1>1
  <2> QED
    BY <1>2, <1>5, <1>6, <1>7, <1>9, <2>1, ReaderStepInv

(* The deferred unlock of a Reader that failed, or of one that received a   *)
(* close frame: nobody else holds readMu of c in the first case.            *)
LEMMA UnlockReadInv ==
    ASSUME IInv, NEW p \in Procs, NEW c \in Conns, UnlockRead(p, c)
    PROVE  IInv'
<1> USE DEF IInv
<1>1. /\ stack[p] # <<>> /\ Reads(Top(p), c) /\ Top(p).pc = "unlock"
      /\ Return(p) /\ readMu' = [readMu EXCEPT ![c] = FALSE]
      /\ UNCHANGED <<writer, mws, acts, frames, buf, once, onceDone, rwcClosed,
                     closeSent, closeReceived>>
  BY DEF UnlockRead, At, Reads, inVars, closeVars, hsVars
<1>2. /\ Tame /\ Kept(p) /\ Len(stack'[p]) = Len(stack[p]) - 1
      /\ stack' \in [Procs -> Seq(Frames)]
  BY <1>1, TameReturn, ReturnStack
<1>3. DataInv' /\ \A d \in Conns : d # c => readMu'[d] = readMu[d]
  BY <1>1 DEF DataInv
<1>4. ASSUME NEW d \in Conns, d # c
      PROVE  StackInv' /\ ConnInv(d)'
  BY <1>1, <1>2, <1>3, <1>4, TameInv DEF ConnInv
<1>5. ReaderInv(c)'
  BY <1>1, <1>2 DEF ConnInv, ReaderInv, Tame, SameCall, NewCall, Reads
<1>6. /\ stack[p] \in Seq(Frames) /\ Len(stack[p]) \in 1..Len(stack[p])
      /\ Top(p) = stack[p][Len(stack[p])]
  BY <1>1, TopCall DEF StackInv
<1>7. \A q \in Procs : \A i \in 1..Len(stack'[q]) :
         /\ i \in 1..Len(stack[q]) /\ stack'[q][i] = stack[q][i]
         /\ q = p => i < Len(stack[p])
         /\ i > 1 => stack'[q][i - 1] = stack[q][i - 1]
  <2> SUFFICES ASSUME NEW q \in Procs, NEW i \in 1..Len(stack'[q])
               PROVE  /\ i \in 1..Len(stack[q]) /\ stack'[q][i] = stack[q][i]
                      /\ q = p => i < Len(stack[p])
                      /\ i > 1 => stack'[q][i - 1] = stack[q][i - 1]
    OBVIOUS
  <2>1. CASE q = p
    <3>1. i \in 1..(Len(stack[p]) - 1) /\ i <= Len(stack'[p])
      BY <1>2, <1>6, <2>1
    <3>2. i > 1 => i - 1 \in 1..(Len(stack[p]) - 1) /\ i - 1 <= Len(stack'[p])
      BY <1>2, <1>6, <3>1
    <3> QED
      BY <1>2, <1>6, <2>1, <3>1, <3>2 DEF Kept
  <2>2. CASE q # p
    BY <1>2, <2>2 DEF Kept
  <2> QED
    BY <2>1, <2>2
<1>8. HandlerInv(c)'
  <2> SUFFICES ASSUME NEW q \in Procs, NEW i \in 1..Len(stack'[q]),
                      Handles(stack'[q][i], c)
               PROVE  /\ i > 1 /\ Reads(stack'[q][i - 1], c)
                      /\ stack'[q][i - 1].pc =
                            IF stack'[q][i].ev = "close"
                            THEN "received" ELSE "header"
                      /\ stack'[q][i].id = buf[c] /\ ~closeReceived[c]
    BY <1>1 DEF HandlerInv, Handles, Reads
  <2> QED
    BY <1>7 DEF ConnInv, HandlerInv
<1>9. HoldInv(c)'
  <2> SUFFICES ASSUME ~closeReceived[c] PROVE HoldInv(c)'
    BY <1>1 DEF HoldInv
  <2>1. \A q \in Procs : \A i \in 1..Len(stack[q]) :
           Holds(stack[q][i], c) => q = p /\ i = Len(stack[p])
    BY <1>1, SoleReader DEF Holds
  <2>2. \A q \in Procs : \A i \in 1..Len(stack'[q]) : ~Holds(stack'[q][i], c)
    BY <1>6, <1>7, <2>1
  <2> QED
    BY <2>2 DEF HoldInv, Holds, Reads
<1>10. StackInv'
  <2>1. UNCHANGED <<frames, once>>
    BY <1>1
  <2>2. \A q \in Procs : \A i \in 1..Len(stack'[q]) : FrameInv(stack'[q][i])
    BY <1>7 DEF StackInv
  <2> QED
    BY <1>2, <2>1, <2>2 DEF StackInv, FrameInv
<1>11. ConnInv(c)'
  BY <1>1, <1>5, <1>8, <1>9 DEF ConnInv
<1> QED
  BY <1>3, <1>4, <1>10, <1>11

(* A handler of a data or control frame failed: its reader fails, too.      *)
LEMMA MessageFailsStack ==
    ASSUME IInv, NEW p \in Procs, HandlerFails(p), Top(p).ev = "message"
    PROVE  LET n == Len(stack[p])
           IN  \E c \in Conns :
                 /\ stack[p] # <<>> /\ n \in Nat /\ n > 1 /\ Handles(Top(p), c)
                 /\ Reads(stack[p][n - 1], c) /\ stack[p][n - 1].pc = "header"
                 /\ ~closeReceived[c]
                 /\ stack' \in [Procs -> Seq(Frames)]
                 /\ \A q \in Procs : q # p => stack'[q] = stack[q]
                 /\ Len(stack'[p]) = n - 1
                 /\ \A i \in 1..(n - 2) : stack'[p][i] = stack[p][i]
                 /\ Reads(stack'[p][n - 1], c)
                 /\ stack'[p][n - 1].pc = "unlock"
<1> USE DEF IInv
<1> DEFINE n == Len(stack[p])
           s == Front(stack[p])
           t == Set(s, "unlock")
<1>1. /\ stack[p] # <<>> /\ Top(p).op = "event"
      /\ stack' = [stack EXCEPT ![p] = t]
  BY DEF HandlerFails, At
<1>2. /\ Top(p) = stack[p][n] /\ Top(p) \in Frames /\ n \in Nat
      /\ n \in 1..n /\ stack[p] \in Seq(Frames)
  BY <1>1, TopCall DEF StackInv
<1>3. PICK c \in Conns : Handles(Top(p), c)
  BY <1>1, <1>2 DEF StackInv, FrameInv, Handles, ReadEvents
<1>4. /\ n > 1 /\ Reads(stack[p][n - 1], c) /\ stack[p][n - 1].pc = "header"
      /\ ~closeReceived[c]
  BY <1>2, <1>3 DEF ConnInv, HandlerInv
<1>5. /\ s \in Seq(Frames) /\ Len(s) = n - 1 /\ s # <<>>
      /\ \A i \in 1..(n - 1) : s[i] = stack[p][i]
  BY <1>1, <1>2, <1>4, FrontSeq
<1> HIDE DEF s
<1>6. /\ t \in Seq(Frames) /\ Len(t) = n - 1
      /\ \A i \in 1..(n - 2) : t[i] = stack[p][i]
      /\ t[n - 1] = [stack[p][n - 1] EXCEPT !.pc = "unlock"]
  <2>1. "unlock" \in CallPcs /\ n - 1 \in 1..(n - 1) /\ n - 2 \in Nat
    BY <1>2, <1>4 DEF CallPcs
  <2>2. /\ t \in Seq(Frames) /\ Len(t) = Len(s)
        /\ \A i \in 1..(Len(s) - 1) : t[i] = s[i]
        /\ t[Len(s)] = [s[Len(s)] EXCEPT !.pc = "unlock"]
    BY <1>5, <2>1, SetSeq
  <2>3. Len(s) - 1 = n - 2
    BY <1>2, <1>5
  <2>4. (n - 1) \in 1..(n - 1) /\ \A i \in 1..(n - 2) : i \in 1..(n - 1)
    BY <1>2, <2>1
  <2> HIDE DEF t, n
  <2> QED
    BY <1>5, <2>1, <2>2, <2>3, <2>4
<1> HIDE DEF t
<1>7. stack[p][n - 1] \in Frames
  BY <1>2, <1>4
<1>8. /\ t[n - 1].pc = "unlock" /\ t[n - 1].op = "reader" /\ t[n - 1].conn = c
  BY <1>4, <1>6, <1>7 DEF Reads, Frames
<1>9. /\ stack' \in [Procs -> Seq(Frames)] /\ stack'[p] = t
      /\ \A q \in Procs : q # p => stack'[q] = stack[q]
  BY <1>1, <1>6 DEF StackInv
<1> HIDE DEF n
<1>10. Reads(stack'[p][n - 1], c) /\ stack'[p][n - 1].pc = "unlock"
  BY <1>8, <1>9 DEF Reads
<1> QED
  BY <1>1, <1>2, <1>3, <1>4, <1>6, <1>9, <1>10 DEF n

LEMMA MessageFailsInv ==
    ASSUME IInv, NEW p \in Procs, HandlerFails(p), Top(p).ev = "message"
    PROVE  IInv'
<1> USE DEF IInv
<1> DEFINE n == Len(stack[p])
           t == stack'[p]
<1>1. UNCHANGED <<writer, mws, acts, frames, buf, readMu, once, onceDone,
                  rwcClosed, closeSent, closeReceived>>
  BY DEF HandlerFails, connVars, inVars, closeVars, hsVars
<1>0. PICK c \in Conns :
         /\ stack[p] # <<>> /\ n \in Nat /\ n > 1 /\ Handles(Top(p), c)
         /\ Reads(stack[p][n - 1], c) /\ stack[p][n - 1].pc = "header"
         /\ ~closeReceived[c]
         /\ stack' \in [Procs -> Seq(Frames)]
         /\ \A q \in Procs : q # p => stack'[q] = stack[q]
         /\ Len(t) = n - 1
         /\ \A i \in 1..(n - 2) : t[i] = stack[p][i]
         /\ Reads(t[n - 1], c) /\ t[n - 1].pc = "unlock"
  BY MessageFailsStack
<1>2. /\ Top(p) = stack[p][n] /\ Top(p) \in Frames /\ n \in Nat
      /\ n \in 1..n /\ stack[p] \in Seq(Frames)
  BY <1>0, TopCall DEF StackInv
<1>3. Handles(Top(p), c)
  BY <1>0
<1>4. /\ n > 1 /\ Reads(stack[p][n - 1], c) /\ stack[p][n - 1].pc = "header"
      /\ ~closeReceived[c]
  BY <1>0
<1>6. Len(t) = n - 1 /\ \A i \in 1..(n - 2) : t[i] = stack[p][i]
  BY <1>0
<1>8. /\ t[n - 1].pc = "unlock" /\ t[n - 1].op = "reader" /\ t[n - 1].conn = c
  BY <1>0 DEF Reads
<1>9. /\ stack' \in [Procs -> Seq(Frames)] /\ stack'[p] = t
      /\ \A q \in Procs : q # p => stack'[q] = stack[q]
  BY <1>0
<1> HIDE DEF t
<1>10. \A q \in Procs : \A i \in 1..Len(stack'[q]) :
          \/ q = p /\ i = n - 1
          \/ /\ i \in 1..Len(stack[q]) /\ stack'[q][i] = stack[q][i]
             /\ q = p => i < n - 1
             /\ i > 1 => stack'[q][i - 1] = stack[q][i - 1]
  <2> SUFFICES ASSUME NEW q \in Procs, NEW i \in 1..Len(stack'[q]),
                      ~(q = p /\ i = n - 1)
               PROVE  /\ i \in 1..Len(stack[q]) /\ stack'[q][i] = stack[q][i]
                      /\ q = p => i < n - 1
                      /\ i > 1 => stack'[q][i - 1] = stack[q][i - 1]
    OBVIOUS
  <2>1. CASE q = p
    <3>1. i \in 1..(n - 2) /\ (i > 1 => i - 1 \in 1..(n - 2))
      BY <1>2, <1>6, <1>9, <2>1
    <3> QED
      BY <1>2, <1>6, <1>9, <2>1, <3>1
  <2>2. CASE q # p
    BY <1>9, <2>2
  <2> QED
    BY <2>1, <2>2
<1>11. \A q \in Procs : \A i \in 1..Len(stack[q]) :
          Holds(stack[q][i], c) => q = p /\ i = n - 1
  <2>1. n - 1 \in 1..Len(stack[p]) /\ Holds(stack[p][n - 1], c)
    BY <1>2, <1>4 DEF Holds
  <2> QED
    BY <1>3, <1>4, <2>1 DEF ConnInv, HoldInv
<1>12. readMu[c] /\ ~onceDone[c]
  <2>1. n - 1 \in 1..Len(stack[p]) /\ Holds(stack[p][n - 1], c)
    BY <1>2, <1>4 DEF Holds
  <2> QED
    BY <1>3, <1>4, <2>1 DEF ConnInv, HoldInv
<1>13. StackInv' /\ DataInv'
  <2>1. \A q \in Procs : \A i \in 1..Len(stack'[q]) : FrameInv(stack'[q][i])
    BY <1>3, <1>8, <1>9, <1>10 DEF StackInv, FrameInv
  <2> QED
    BY <1>1, <1>9, <2>1 DEF StackInv, FrameInv, DataInv
<1>14. HoldInv(c)'
  <2>1. \A q \in Procs : \A i \in 1..Len(stack'[q]) :
           Holds(stack'[q][i], c) => q = p /\ i = n - 1
    BY <1>10, <1>11
  <2> QED
    BY <1>1, <1>12, <2>1 DEF HoldInv, Holds, Reads
<1>15. ReaderInv(c)'
  <2> SUFFICES ASSUME NEW q \in Procs, NEW i \in 1..Len(stack'[q]),
                      Reads(stack'[q][i], c)
               PROVE  /\ stack'[q][i].pc \in {"dispatch", "received"} =>
                            ~closeReceived[c]
                      /\ stack'[q][i].pc = "unlockTwice" => closeReceived[c]
                      /\ stack'[q][i].pc = "dispatch" =>
                            /\ buf[c] = frames[c]
                            /\ stack'[q][i].ev \in ReadEvents
    BY <1>1 DEF ReaderInv, Reads
  <2>1. CASE q = p /\ i = n - 1
    BY <1>8, <1>9, <2>1
  <2>2. CASE i \in 1..Len(stack[q]) /\ stack'[q][i] = stack[q][i]
    BY <1>3, <2>2 DEF ConnInv, ReaderInv
  <2> QED
    BY <1>10, <2>1, <2>2
<1>16. HandlerInv(c)'
  <2>1. ASSUME NEW q \in Procs, NEW i \in 1..Len(stack'[q]),
               Handles(stack'[q][i], c)
        PROVE  FALSE
    <3>1. ~(q = p /\ i = n - 1)
      BY <1>8, <1>9, <2>1 DEF Handles
    <3>2. /\ i \in 1..Len(stack[q]) /\ Handles(stack[q][i], c)
          /\ q = p => i < n - 1
      BY <1>10, <2>1, <3>1
    <3>3. i > 1 /\ Holds(stack[q][i - 1], c)
      BY <1>3, <3>2 DEF ConnInv, HandlerInv, Holds
    <3>4. i - 1 \in 1..Len(stack[q])
      BY <3>2, <3>3
    <3>5. q = p /\ i - 1 = n - 1
      BY <1>11, <3>3, <3>4
    <3> QED
      BY <1>2, <3>2, <3>5
  <2> QED
    BY <2>1 DEF HandlerInv, Handles
<1>17. ConnInv(c)'
  BY <1>1, <1>3, <1>14, <1>15, <1>16 DEF ConnInv
<1>18. ASSUME NEW d \in Conns, d # c PROVE ConnInv(d)'
  <2>1. ASSUME NEW q \in Procs, NEW i \in 1..Len(stack'[q]),
               stack'[q][i].conn # c
        PROVE  i \in 1..Len(stack[q]) /\ stack'[q][i] = stack[q][i]
    BY <1>8, <1>9, <1>10, <2>1
  <2>2. ASSUME NEW q \in Procs, NEW i \in 1..Len(stack[q]),
               stack[q][i].conn # c, i <= Len(stack'[q])
        PROVE  stack'[q][i] = stack[q][i]
    <3>1. i \in 1..Len(stack'[q]) /\ ~(q = p /\ i = n - 1)
      BY <1>4, <1>9, <2>2 DEF Reads
    <3> QED
      BY <1>10, <3>1
  <2> QED
    BY <1>1, <1>3, <1>9, <1>18, <2>1, <2>2, OtherConn
<1> QED
  BY <1>13, <1>17, <1>18

-----------------------------------------------------------------------------
(* The steps that leave readers and handlers of frames as they are.        *)

LEMMA TameStep ==
    ASSUME IInv, Tame, DataInv', UNCHANGED <<frames, buf, closeReceived>>,
           \A c \in Conns :
              /\ \/ readMu'[c] = readMu[c] /\ onceDone'[c] = onceDone[c]
                 \/ ~readMu[c] /\ once'[c] # NoOne
              /\ once[c] # NoOne => once'[c] # NoOne
    PROVE  IInv'
<1>1. ASSUME NEW c \in Conns
      PROVE  StackInv' /\ ConnInv(c)'
  <2>1. StackInv' /\ HoldInv(c)' /\ ReaderInv(c)' /\ HandlerInv(c)'
    BY <1>1, TameInv
  <2>2. onceDone'[c] => once'[c] # NoOne
    BY <1>1 DEF IInv, ConnInv
  <2> QED
    BY <2>1, <2>2 DEF ConnInv
<1>2. StackInv'
  <2>1. CASE Conns = {}
    <3>1. StackInv
      BY DEF IInv
    <3>2. ASSUME NEW p \in Procs, NEW i \in 1..Len(stack'[p])
          PROVE  stack'[p][i].op = "use"
      <4>1. CASE /\ i \in 1..Len(stack[p])
                 /\ SameCall(stack[p][i], stack'[p][i])
        <5>1. stack[p][i].op = "use"
          BY <2>1, <3>1, <4>1 DEF StackInv, FrameInv
        <5> QED
          BY <4>1, <5>1 DEF SameCall
      <4>2. CASE NewCall(stack'[p][i])
        BY <2>1, <4>2 DEF NewCall
      <4> QED
        BY <4>1, <4>2 DEF Tame
    <3> QED
      BY <3>2 DEF Tame, StackInv, FrameInv
  <2>2. CASE Conns # {}
    BY <1>1, <2>2
  <2> QED
    BY <2>1, <2>2
<1> QED
  BY <1>1, <1>2 DEF IInv

LEMMA QuietStep ==
    ASSUME IInv, Tame, UNCHANGED connVars,
           writer' \in Procs \cup {NoOne}, mws' \in Nat, acts' \in 0..MaxActs
    PROVE  IInv'
<1>1. UNCHANGED <<frames, buf, readMu, once, onceDone, rwcClosed, closeSent,
                  closeReceived>>
  BY DEF connVars, inVars, closeVars, hsVars
<1>2. DataInv'
  BY <1>1 DEF IInv, DataInv
<1> QED
  BY <1>1, <1>2, TameStep

(* A call of close(), of Use, of Reader by Close, or of a disconnect handler. *)
LEMMA NewCalls ==
    /\ \A c \in Conns : LET f == Call("close", c, "once")
                        IN  f \in Frames /\ NewCall(f)
    /\ \A c \in Conns : LET f == Call("reader", c, "lock")
                        IN  f \in Frames /\ NewCall(f)
    /\ \A c \in Conns : LET f == Dispatcher(c, "disconnect", 0)
                        IN  f \in Frames /\ NewCall(f)
    /\ LET f == Call("use", NoOne, "lock") IN f \in Frames /\ NewCall(f)
  BY DEF Call, Dispatcher, Frames, NewCall, CallPcs, ReadEvents

LEMMA LockReadFailsInv ==
    ASSUME IInv, NEW p \in Procs, NEW c \in Conns, LockReadFails(p, c)
    PROVE  IInv'
<1>1. Tame
  BY TameReturn DEF IInv, LockReadFails, At
<1> QED
  BY <1>1, QuietStep DEF LockReadFails, IInv, DataInv

(* A dispatcher gets the lock and counts the middlewares. *)
LEMMA RLockStack ==
    ASSUME StackInv, DataInv, NEW p \in Procs, RLock(p)
    PROVE  /\ stack[p] # <<>> /\ stack' \in [Procs -> Seq(Frames)] /\ Kept(p)
           /\ Len(stack'[p]) = Len(stack[p])
           /\ SameCall(Top(p), stack'[p][Len(stack[p])])
           /\ stack'[p][Len(stack[p])].op = "event"
           /\ stack'[p][Len(stack[p])].seen = mws
<1> DEFINE f == [Top(p) EXCEPT !.pc = "run", !.seen = mws]
<1>1. stack[p] # <<>> /\ Top(p).op = "event"
  BY DEF RLock, At
<1>2. Top(p) \in Frames
  BY <1>1, TopCall
<1>3. /\ f \in Frames /\ SameCall(Top(p), f) /\ f.op = "event" /\ f.seen = mws
  BY <1>1, <1>2 DEF Frames, CallPcs, SameCall, DataInv
<1>4. stack' = [stack EXCEPT ![p] = Append(Front(@), f)]
  BY DEF RLock, Top
<1> HIDE DEF f
<1> QED
  BY <1>1, <1>3, <1>4, TopStack

LEMMA HandlerStep ==
    ASSUME IInv, NEW p \in Procs,
           \/ RLock(p) \/ HandlerReturns(p)
           \/ HandlerFails(p) /\ Top(p).ev # "message"
           \/ HandlerWrites(p) \/ WriteReturns(p) \/ HandlerUses(p)
           \/ \E c \in Conns : HandlerCloses(p, c)
    PROVE  IInv'
<1> USE ConnsAssumption
<1>1. CASE RLock(p)
  <2>1. Tame
    BY <1>1, RLockStack, TameTop DEF IInv
  <2> QED
    BY <1>1, <2>1, QuietStep DEF RLock, IInv, DataInv
<1>2. CASE HandlerReturns(p)
  <2>1. Tame
    BY <1>2, TameReturn DEF IInv, HandlerReturns, At
  <2> QED
    BY <1>2, <2>1, QuietStep DEF HandlerReturns, IInv, DataInv
<1>3. CASE HandlerFails(p) /\ Top(p).ev # "message"
  <2>1. Return(p) /\ stack[p] # <<>>
    BY <1>3 DEF HandlerFails, Return, At
  <2>2. Tame
    BY <2>1, TameReturn DEF IInv
  <2> QED
    BY <1>3, <2>2, QuietStep DEF HandlerFails, IInv, DataInv
<1>4. CASE HandlerWrites(p)
  <2>1. Tame
    BY <1>4, TameGoto DEF IInv, HandlerWrites, At, CallPcs
  <2> QED
    BY <1>4, <2>1, QuietStep DEF HandlerWrites, Act, IInv, DataInv
<1>5. CASE WriteReturns(p)
  <2>1. Tame
    BY <1>5, TameGoto DEF IInv, WriteReturns, At, CallPcs
  <2> QED
    BY <1>5, <2>1, QuietStep DEF WriteReturns, IInv, DataInv
<1>6. CASE HandlerUses(p)
  <2>1. Tame
    BY <1>6, TameInvoke, NewCalls DEF IInv, HandlerUses, At, CallPcs
  <2> QED
    BY <1>6, <2>1, QuietStep DEF HandlerUses, Act, IInv, DataInv
<1>7. CASE \E c \in Conns : HandlerCloses(p, c)
  <2>1. PICK c \in Conns : HandlerCloses(p, c)
    BY <1>7
  <2>2. Tame
    BY <2>1, TameInvoke, NewCalls DEF IInv, HandlerCloses, At, CallPcs
  <2> QED
    BY <2>1, <2>2, QuietStep DEF HandlerCloses, Act, IInv, DataInv
<1> QED
  BY <1>1, <1>2, <1>3, <1>4, <1>5, <1>6, <1>7

LEMMA UseStep ==
    ASSUME IInv, AdminUses \/ \E p \in Procs : Use(p)
    PROVE  IInv'
<1>1. CASE AdminUses
  <2> DEFINE f == Call("use", NoOne, "lock")
  <2>1. f \in Frames /\ NewCall(f) /\ Admin \in Procs
    BY NewCalls DEF Procs
  <2>2. /\ stack[Admin] = <<>> /\ stack' = [stack EXCEPT ![Admin] = <<f>>]
        /\ UNCHANGED <<writer, mws, connVars>> /\ acts' \in 0..MaxActs
    BY <1>1, ConnsAssumption DEF AdminUses, IInv, DataInv
  <2> HIDE DEF f
  <2>3. Tame
    <3>1. /\ stack' \in [Procs -> Seq(Frames)] /\ stack'[Admin] = <<f>>
          /\ \A q \in Procs : q # Admin => stack'[q] = stack[q]
      BY <2>1, <2>2 DEF IInv, StackInv
    <3>2. ASSUME NEW i \in 1..Len(stack'[Admin])
          PROVE  i \notin 1..Len(stack[Admin]) /\ NewCall(stack'[Admin][i])
      BY <2>1, <2>2, <3>1
    <3>3. ASSUME NEW q \in Procs, q # Admin, NEW i \in 1..Len(stack'[q])
          PROVE  i \in 1..Len(stack[q]) /\ SameCall(stack[q][i], stack'[q][i])
      BY <3>1, <3>3 DEF SameCall
    <3> QED
      BY <3>1, <3>2, <3>3 DEF Tame
  <2> QED
    BY <2>2, <2>3, QuietStep DEF IInv, DataInv
<1>2. ASSUME NEW p \in Procs, UseLock(p)
      PROVE  IInv'
  <2>1. Tame
    BY <1>2, TameGoto DEF IInv, UseLock, At, CallPcs
  <2> QED
    BY <1>2, <2>1, QuietStep DEF UseLock, IInv, DataInv
<1>4. ASSUME NEW p \in Procs, UseLocked(p)
      PROVE  IInv'
  <2>1. Tame
    BY <1>4, TameGoto DEF IInv, UseLocked, At, CallPcs
  <2> QED
    BY <1>4, <2>1, QuietStep DEF UseLocked, IInv, DataInv
<1>3. ASSUME NEW p \in Procs, UseAppend(p)
      PROVE  IInv'
  <2>1. Tame
    BY <1>3, TameReturn DEF IInv, UseAppend, At
  <2> QED
    BY <1>3, <2>1, QuietStep DEF UseAppend, IInv, DataInv
<1> QED
  BY <1>1, <1>2, <1>3, <1>4 DEF Use

LEMMA CloseStep ==
    ASSUME IInv, NEW p \in Procs, NEW c \in Conns,
           Close(p, c) \/ UserCloseNow(p, c) \/ UserClose(p, c)
    PROVE  IInv'
<1> USE DEF IInv
<1>1. CASE CloseOnce(p, c)
  <2>1. /\ stack[p] # <<>> /\ Top(p).op = "close" /\ Top(p).conn = c
        /\ Invoke(p, "transport", Dispatcher(c, "disconnect", 0))
        /\ once' = [once EXCEPT ![c] = p] /\ p # NoOne
        /\ UNCHANGED <<writer, mws, acts, frames, buf, readMu, onceDone,
                       closeSent, closeReceived, rwcClosed>>
    BY <1>1, ConnsAssumption DEF CloseOnce, At, inVars, hsVars
  <2>2. /\ DataInv' /\ once'[c] # NoOne
        /\ \A d \in Conns : once[d] # NoOne => once'[d] # NoOne
    BY <2>1 DEF DataInv
  <2>3. Tame
    BY <2>1, <2>2, TameInvoke, NewCalls DEF CallPcs
  <2> QED
    BY <2>1, <2>2, <2>3, TameStep
<1>2. CASE CloseAgain(p, c)
  <2>1. Tame
    BY <1>2, TameReturn DEF CloseAgain, At
  <2> QED
    BY <1>2, <2>1, QuietStep DEF CloseAgain, DataInv
<1>3. CASE CloseTransport(p, c) \/ CloseReader(p, c)
  <2>1. /\ stack[p] # <<>> /\ Top(p).op = "close" /\ Top(p).conn = c
        /\ Top(p).pc # "once"
    BY <1>3 DEF CloseTransport, CloseReader, At
  <2>2. once[c] # NoOne
    BY <2>1, TopCall DEF StackInv, FrameInv
  <2>3. CASE CloseTransport(p, c)
    <3>1. /\ Goto(p, "reader")
          /\ rwcClosed' = [rwcClosed EXCEPT ![c] = TRUE]
          /\ UNCHANGED <<writer, mws, acts, frames, buf, readMu, once, onceDone,
                         closeSent, closeReceived>>
      BY <2>3 DEF CloseTransport, inVars, hsVars
    <3>2. DataInv'
      BY <3>1 DEF DataInv
    <3>3. Tame
      BY <2>1, <2>2, <3>1, TameGoto DEF CallPcs
    <3> QED
      BY <3>1, <3>2, <3>3, TameStep
  <2>4. CASE CloseReader(p, c)
    <3>1. /\ Return(p) /\ ~readMu[c]
          /\ readMu' = [readMu EXCEPT ![c] = TRUE]
          /\ onceDone' = [onceDone EXCEPT ![c] = TRUE]
          /\ UNCHANGED <<writer, mws, acts, frames, buf, once, rwcClosed,
                         closeSent, closeReceived>>
      BY <2>4 DEF CloseReader, inVars, hsVars
    <3>2. /\ DataInv'
          /\ \A d \in Conns : d # c =>
                readMu'[d] = readMu[d] /\ onceDone'[d] = onceDone[d]
      BY <3>1 DEF DataInv
    <3>3. Tame
      BY <2>1, <3>1, TameReturn
    <3>4. \A d \in Conns :
             /\ \/ readMu'[d] = readMu[d] /\ onceDone'[d] = onceDone[d]
                \/ ~readMu[d] /\ once'[d] # NoOne
             /\ once[d] # NoOne => once'[d] # NoOne
      BY <2>2, <3>1, <3>2
    <3>5. UNCHANGED <<frames, buf, closeReceived>>
      BY <3>1
    <3> QED
      BY <3>2, <3>3, <3>4, <3>5, TameStep
  <2> QED
    BY <1>3, <2>3, <2>4
<1>4. CASE UserHandshaken(p, c)
  <2>1. Tame
    BY <1>4, TameInvoke, NewCalls DEF UserHandshaken, At, CallPcs
  <2> QED
    BY <1>4, <2>1, QuietStep DEF UserHandshaken, DataInv
<1>5. CASE UserCloseNow(p, c)
  <2>1. Tame
    BY <1>5, TameInvoke, NewCalls DEF UserCloseNow, At, CallPcs
  <2> QED
    BY <1>5, <2>1, QuietStep DEF UserCloseNow, DataInv
<1>6. CASE UserClose(p, c)
  <2>1. Tame
    BY <1>6, TameInvoke, NewCalls DEF UserClose, At, CallPcs
  <2>2. /\ closeSent' = [closeSent EXCEPT ![c] = TRUE]
        /\ UNCHANGED <<writer, mws, acts, frames, buf, readMu, once, onceDone,
                       rwcClosed, closeReceived>>
    BY <1>6 DEF UserClose, inVars, closeVars
  <2>3. DataInv'
    BY <2>2 DEF DataInv
  <2> QED
    BY <2>1, <2>2, <2>3, TameStep
<1> QED
  BY <1>1, <1>2, <1>3, <1>4, <1>5, <1>6 DEF Close

-----------------------------------------------------------------------------
(* The induction. *)
LEMMA InitInv ==
    Init => IInv
<1> SUFFICES ASSUME Init PROVE IInv
  OBVIOUS
<1>1. DataInv
  BY ConnsAssumption DEF Init, DataInv
<1>2. ASSUME NEW p \in Procs
      PROVE  /\ stack[p] \in Seq(Frames)
             /\ \A i \in 1..Len(stack[p]) :
                   /\ FrameInv(stack[p][i])
                   /\ stack[p][i].op = "reader" => stack[p][i].pc = "lock"
                   /\ stack[p][i].ev \notin ReadEvents
  <2>1. CASE p = Admin
    BY <2>1 DEF Init
  <2>2. CASE p # Admin
    <3>1. PICK c \in Conns :
             p = <<c, "loop">> \/ (c \in Users /\ p = <<c, "user">>)
      <4>1. p \in Conns \X {"loop"} \/ p \in Users \X {"user"}
        BY <2>2 DEF Procs
      <4>2. CASE p \in Conns \X {"loop"}
        <5>1. PICK c \in Conns, l \in {"loop"} : p = <<c, l>>
          BY <4>2
        <5>2. p = <<c, "loop">>
          BY <5>1
        <5> QED
          BY <5>1, <5>2
      <4>3. CASE p \in Users \X {"user"}
        BY <4>3, ConnsAssumption
      <4> QED
        BY <4>1, <4>2, <4>3
    <3>2. CASE p = <<c, "loop">>
      <4> DEFINE f == Call("reader", c, "lock")
      <4>1. /\ f \in Frames /\ FrameInv(f) /\ f.op = "reader"
            /\ f.pc = "lock" /\ f.ev \notin ReadEvents
        BY DEF Call, Frames, CallPcs, FrameInv, ReadEvents
      <4>2. stack[p] = <<f>>
        BY <2>2, <3>2 DEF Init
      <4> HIDE DEF f
      <4> QED
        BY <4>1, <4>2
    <3>3. CASE p = <<c, "user">>
      <4> DEFINE f == Call("user", c, "open")
                 g == Dispatcher(c, "connect", 0)
      <4>1. /\ f \in Frames /\ f.op = "user" /\ f.conn = c /\ f.ev = "none"
            /\ g \in Frames /\ g.op = "event" /\ g.conn = c /\ g.ev = "connect"
            /\ g.id = 0
        BY DEF Call, Dispatcher, Frames, CallPcs
      <4>2. stack[p] = <<f, g>>
        BY <2>2, <3>3 DEF Init
      <4> HIDE DEF f, g
      <4>3. frames[c] = 0
        BY DEF Init
      <4> QED
        BY <4>1, <4>2, <4>3 DEF FrameInv, ReadEvents
    <3> QED
      BY <3>1, <3>2, <3>3
  <2> QED
    BY <2>1, <2>2
<1>3. StackInv
  BY <1>2 DEF StackInv, Init
<1>4. ASSUME NEW c \in Conns PROVE ConnInv(c)
  BY <1>2 DEF ConnInv, HoldInv, ReaderInv, HandlerInv, Holds, Reads, Handles,
     Init
<1> QED
  BY <1>1, <1>3, <1>4 DEF IInv

LEMMA NextInv ==
    IInv /\ [Next]_vars => IInv'
<1> SUFFICES ASSUME IInv, [Next]_vars PROVE IInv'
  OBVIOUS
<1>1. ASSUME NEW p \in Procs, NEW c \in Conns,
             Read(p, c) \/ Close(p, c) \/ Choose(p, c)
      PROVE  IInv'
  BY <1>1, LockReadInv, LockReadFailsInv, TransportFailsInv, DispatchInv,
     CloseReceivedInv, CloseAfterReceivedInv, UnlockReadInv, ReadFrameInv,
     CloseStep, HandlerStep DEF Read, ReadFails, Choose
<1>2. ASSUME NEW p \in Procs,
             \/ RLock(p) \/ HandlerReturns(p) \/ HandlerFails(p)
             \/ HandlerWrites(p) \/ WriteReturns(p) \/ HandlerUses(p) \/ Use(p)
      PROVE  IInv'
  BY <1>2, HandlerStep, MessageFailsInv, UseStep
<1>3. CASE AdminUses
  BY <1>3, UseStep
<1>4. CASE UNCHANGED vars
  <2>1. UNCHANGED <<stack, writer, mws, acts, frames, buf, readMu, once,
                    onceDone, rwcClosed, closeSent, closeReceived>>
    BY <1>4 DEF vars, connVars, inVars, closeVars, hsVars
  <2>2. StackInv' /\ DataInv'
    BY <2>1 DEF IInv, StackInv, DataInv, FrameInv
  <2>3. ASSUME NEW c \in Conns PROVE ConnInv(c)'
    BY <2>1 DEF IInv, ConnInv, HoldInv, ReaderInv, HandlerInv, Holds, Reads,
       Handles
  <2> QED
    BY <2>2, <2>3 DEF IInv
<1> QED
  BY <1>1, <1>2, <1>3, <1>4 DEF Next

(* Every reachable state satisfies the inductive invariant: readMu admits   *)
(* one reader until a close frame is received, none afterwards.             *)
THEOREM Invariance == Spec => []IInv
<1>1. IInv /\ [Next]_vars => IInv'
  BY NextInv
<1> QED
  BY <1>1, InitInv, PTL DEF Spec

LEMMA CallsIndexed ==
    ASSUME StackInv, NEW p \in Procs, NEW f \in Calls(p)
    PROVE  \E i \in 1..Len(stack[p]) : f = stack[p][i]
  BY DEF Calls, ToSet, StackInv

(* The payload a handler is given is not overwritten while the handler runs,*)
(* whatever Close, handlers that close or write, and Use do meanwhile       *)
(* (readControlBuf, read.go:353).                                           *)
THEOREM HandlersKeepTheirPayload == Spec => []PayloadIntact
<1>1. IInv => PayloadIntact
  <2> SUFFICES ASSUME IInv PROVE PayloadIntact
    OBVIOUS
  <2>1. ASSUME NEW p \in Procs, NEW f \in Calls(p)
        PROVE  /\ f.op \in {"reader", "close", "event", "use", "user"}
               /\ f.op = "event" => f.id \in 0..frames[f.conn]
               /\ f.op = "event" /\ f.ev \in ReadEvents => f.id = buf[f.conn]
    <3>1. PICK i \in 1..Len(stack[p]) : f = stack[p][i]
      BY <2>1, CallsIndexed DEF IInv
    <3>2. f \in Frames /\ FrameInv(f)
      BY <3>1 DEF IInv, StackInv
    <3>3. /\ f.op \in {"reader", "close", "event", "use", "user"}
          /\ f.id \in Nat
      BY <3>2 DEF Frames
    <3>4. f.op = "event" => f.conn \in Conns /\ f.id \in 0..frames[f.conn]
      BY <3>2, <3>3 DEF FrameInv, IInv, DataInv
    <3>5. f.op = "event" /\ f.ev \in ReadEvents => f.id = buf[f.conn]
      BY <3>1, <3>4 DEF IInv, ConnInv, HandlerInv, Handles
    <3> QED
      BY <3>3, <3>4, <3>5
  <2> QED
    BY <2>1 DEF PayloadIntact, TypeOK, IInv, DataInv
<1> QED
  BY <1>1, Invariance, PTL

(* When close() has returned no handler of a frame of the connection runs   *)
(* or is about to run (msgReader.close, read.go:176).                       *)
THEOREM NoHandlerAfterClose == Spec => []ClosedIsQuiet
<1>1. IInv => ClosedIsQuiet
  <2> SUFFICES ASSUME IInv, NEW c \in Conns, onceDone[c],
                      NEW p \in Procs, NEW f \in Calls(p), f.conn = c,
                      f.op = "event", f.ev \in ReadEvents
               PROVE  FALSE
    BY DEF ClosedIsQuiet
  <2>1. PICK i \in 1..Len(stack[p]) : f = stack[p][i]
    BY CallsIndexed DEF IInv
  <2>2. /\ i > 1 /\ Holds(stack[p][i - 1], c) /\ ~closeReceived[c]
        /\ i - 1 \in 1..Len(stack[p])
    BY <2>1 DEF IInv, ConnInv, HandlerInv, Handles, Holds, StackInv
  <2> QED
    BY <2>2 DEF IInv, ConnInv, HoldInv
<1> QED
  BY <1>1, Invariance, PTL

-----------------------------------------------------------------------------
(* The middleware.  A call that runs handlers, one that has called mu.Lock, *)
(* and one for which mu.Lock has returned.                                  *)
Runs(f) == f.op = "event" /\ f.pc # "rlock"
Writes(f) == f.op = "use" /\ f.pc \in {"wait", "append"}
Appends(f) == f.op = "use" /\ f.pc = "append"

NobodyRuns ==
    \A p \in Procs : \A i \in 1..Len(stack[p]) : ~Runs(stack[p][i])

(* A Use is the innermost call of its goroutine; who waits in Lock or has   *)
(* it keeps new readers out; who has it has seen the last reader leave; and *)
(* each dispatcher that runs finds the middleware it found at its RLock.    *)
MwInv ==
    \A p \in Procs : \A i \in 1..Len(stack[p]) :
       /\ stack[p][i].op = "use" => i = Len(stack[p])
       /\ Writes(stack[p][i]) => writer = p
       /\ Appends(stack[p][i]) => NobodyRuns
       /\ Runs(stack[p][i]) => stack[p][i].seen = mws

(* A step that lets in no dispatcher, moves no Use and leaves the lock.    *)
Calm ==
    /\ mws' = mws /\ writer' = writer
    /\ \A p \in Procs : \A i \in 1..Len(stack'[p]) :
          /\ stack'[p][i].op = "use" => i = Len(stack'[p])
          /\ Writes(stack'[p][i]) =>
                i \in 1..Len(stack[p]) /\ stack'[p][i] = stack[p][i]
          /\ Runs(stack'[p][i]) =>
                /\ i \in 1..Len(stack[p]) /\ Runs(stack[p][i])
                /\ stack'[p][i].seen = stack[p][i].seen

LEMMA CalmInv ==
    ASSUME MwInv, Calm
    PROVE  MwInv'
<1>1. NobodyRuns => NobodyRuns'
  BY DEF NobodyRuns, Calm
<1> SUFFICES ASSUME NEW p \in Procs, NEW i \in 1..Len(stack'[p])
             PROVE  /\ stack'[p][i].op = "use" => i = Len(stack'[p])
                    /\ Writes(stack'[p][i]) => writer' = p
                    /\ Appends(stack'[p][i]) => NobodyRuns'
                    /\ Runs(stack'[p][i]) => stack'[p][i].seen = mws'
  BY DEF MwInv, Writes, Appends, Runs
<1>2. ASSUME Writes(stack'[p][i])
      PROVE  writer' = p /\ (Appends(stack'[p][i]) => NobodyRuns')
  <2>1. i \in 1..Len(stack[p]) /\ stack'[p][i] = stack[p][i]
    BY <1>2 DEF Calm
  <2>2. writer = p /\ (Appends(stack'[p][i]) => NobodyRuns)
    BY <1>2, <2>1 DEF MwInv
  <2> QED
    BY <1>1, <2>2 DEF Calm
<1>3. Appends(stack'[p][i]) => Writes(stack'[p][i])
  BY DEF Appends, Writes
<1>4. Runs(stack'[p][i]) => stack'[p][i].seen = mws'
  BY DEF MwInv, Calm
<1> QED
  BY <1>2, <1>3, <1>4 DEF Calm

(* The calls that a step of p leaves as they are. *)
LEMMA KeptCalls ==
    ASSUME StackInv, MwInv, NEW p \in Procs, stack[p] # <<>>, Kept(p),
           stack' \in [Procs -> Seq(Frames)],
           NEW q \in Procs, NEW i \in 1..Len(stack'[q]),
           ~(q = p /\ i >= Len(stack[p]))
    PROVE  /\ i \in 1..Len(stack[q]) /\ stack'[q][i] = stack[q][i]
           /\ q = p => i < Len(stack[p]) /\ stack[q][i].op # "use"
           /\ q # p => Len(stack'[q]) = Len(stack[q])
<1>1. /\ i \in Nat /\ i > 0 /\ i <= Len(stack'[q])
      /\ Len(stack[p]) \in Nat /\ Len(stack'[q]) \in Nat
  BY DEF StackInv
<1>2. CASE q # p
  BY <1>2 DEF Kept
<1>3. CASE q = p
  <2>1. i < Len(stack[p]) /\ i \in 1..Len(stack[p])
    BY <1>1, <1>3
  <2>2. i \in 1..(Len(stack[p]) - 1)
    BY <1>1, <2>1
  <2>3. stack'[p][i] = stack[p][i]
    BY <1>1, <1>3, <2>2 DEF Kept
  <2>4. stack[p][i].op # "use"
    BY <1>1, <2>1 DEF MwInv
  <2> QED
    BY <1>3, <2>1, <2>3, <2>4
<1> QED
  BY <1>2, <1>3

(* A step of p that changes the innermost call, adds one, or removes it.    *)
LEMMA CalmStep ==
    ASSUME StackInv, MwInv, NEW p \in Procs, stack[p] # <<>>, Kept(p),
           stack' \in [Procs -> Seq(Frames)], mws' = mws, writer' = writer,
           Len(stack[p]) <= Len(stack'[p]) =>
              /\ stack'[p][Len(stack[p])].op # "use"
              /\ Runs(stack'[p][Len(stack[p])]) =>
                    /\ Runs(Top(p))
                    /\ stack'[p][Len(stack[p])].seen = Top(p).seen,
           Len(stack[p]) < Len(stack'[p]) =>
              /\ Len(stack'[p]) = Len(stack[p]) + 1
              /\ ~Writes(stack'[p][Len(stack[p]) + 1])
              /\ ~Runs(stack'[p][Len(stack[p]) + 1])
    PROVE  Calm
<1> DEFINE n == Len(stack[p])
<1>1. Top(p) = stack[p][n] /\ n \in Nat /\ n \in 1..n
  BY TopCall
<1>2. ASSUME NEW q \in Procs, NEW i \in 1..Len(stack'[q])
      PROVE  /\ stack'[q][i].op = "use" => i = Len(stack'[q])
             /\ Writes(stack'[q][i]) =>
                   i \in 1..Len(stack[q]) /\ stack'[q][i] = stack[q][i]
             /\ Runs(stack'[q][i]) =>
                   /\ i \in 1..Len(stack[q]) /\ Runs(stack[q][i])
                   /\ stack'[q][i].seen = stack[q][i].seen
  <2>0. i \in Nat /\ i <= Len(stack'[q]) /\ Len(stack'[q]) \in Nat
    OBVIOUS
  <2>1. CASE ~(q = p /\ i >= n)
    <3>1. /\ i \in 1..Len(stack[q]) /\ stack'[q][i] = stack[q][i]
          /\ q = p => stack[q][i].op # "use"
          /\ q # p => Len(stack'[q]) = Len(stack[q])
      BY <2>1, KeptCalls
    <3>2. stack[q][i].op = "use" => i = Len(stack[q])
      BY <3>1 DEF MwInv
    <3> QED
      BY <3>1, <3>2
  <2>2. CASE q = p /\ i = n
    <3>1. n <= Len(stack'[p])
      BY <2>0, <2>2
    <3>2. /\ stack'[p][n].op # "use"
          /\ Runs(stack'[p][n]) =>
                Runs(stack[p][n]) /\ stack'[p][n].seen = stack[p][n].seen
      BY <1>1, <3>1
    <3> QED
      BY <1>1, <2>2, <3>2 DEF Writes
  <2>3. CASE q = p /\ i > n
    <3>1. n < Len(stack'[p])
      BY <1>1, <2>0, <2>3
    <3>2. i = n + 1 /\ i = Len(stack'[q])
      BY <1>1, <2>0, <2>3, <3>1
    <3>3. ~Writes(stack'[q][i]) /\ ~Runs(stack'[q][i])
      BY <2>3, <3>1, <3>2
    <3> QED
      BY <3>2, <3>3
  <2> QED
    BY <1>1, <2>0, <2>1, <2>2, <2>3
<1> HIDE DEF n
<1> QED
  BY <1>2 DEF Calm

LEMMA CalmGoto ==
    ASSUME StackInv, MwInv, NEW p \in Procs, stack[p] # <<>>,
           NEW pc \in CallPcs, Goto(p, pc), Top(p).op # "use",
           Top(p).op = "event" => Top(p).pc # "rlock",
           mws' = mws, writer' = writer
    PROVE  Calm
<1>1. /\ stack' \in [Procs -> Seq(Frames)] /\ Kept(p)
      /\ Len(stack'[p]) = Len(stack[p])
      /\ stack'[p][Len(stack[p])] = [Top(p) EXCEPT !.pc = pc]
      /\ Top(p) \in Frames /\ Len(stack[p]) \in Nat
  BY GotoStack, TopCall
<1>2. LET f == [Top(p) EXCEPT !.pc = pc]
      IN  f.op = Top(p).op /\ f.seen = Top(p).seen
  BY <1>1 DEF Frames
<1>3. LET f == stack'[p][Len(stack[p])]
      IN  f.op # "use" /\ (Runs(f) => Runs(Top(p)) /\ f.seen = Top(p).seen)
  BY <1>1, <1>2 DEF Runs
<1>4. ~(Len(stack[p]) < Len(stack'[p]))
  BY <1>1
<1> QED
  BY <1>1, <1>3, <1>4, CalmStep

LEMMA CalmInvoke ==
    ASSUME StackInv, MwInv, NEW p \in Procs, stack[p] # <<>>,
           NEW pc \in CallPcs, NEW g \in Frames, Invoke(p, pc, g),
           Top(p).op # "use", Top(p).op = "event" => Top(p).pc # "rlock",
           ~Runs(g), ~Writes(g), mws' = mws, writer' = writer
    PROVE  Calm
<1>1. /\ stack' \in [Procs -> Seq(Frames)] /\ Kept(p)
      /\ Len(stack'[p]) = Len(stack[p]) + 1
      /\ stack'[p][Len(stack[p])] = [Top(p) EXCEPT !.pc = pc]
      /\ stack'[p][Len(stack[p]) + 1] = g
      /\ Top(p) \in Frames
  BY InvokeStack, TopCall
<1>2. LET f == [Top(p) EXCEPT !.pc = pc]
      IN  f.op = Top(p).op /\ f.seen = Top(p).seen
  BY <1>1 DEF Frames
<1>3. LET f == stack'[p][Len(stack[p])]
      IN  f.op # "use" /\ (Runs(f) => Runs(Top(p)) /\ f.seen = Top(p).seen)
  BY <1>1, <1>2 DEF Runs
<1> QED
  BY <1>1, <1>3, CalmStep

LEMMA CalmReturn ==
    ASSUME StackInv, MwInv, NEW p \in Procs, stack[p] # <<>>, Return(p),
           mws' = mws, writer' = writer
    PROVE  Calm
<1>1. /\ stack' \in [Procs -> Seq(Frames)] /\ Kept(p)
      /\ Len(stack'[p]) = Len(stack[p]) - 1 /\ Len(stack[p]) \in Nat
  BY ReturnStack, TopCall
<1>2. ~(Len(stack[p]) <= Len(stack'[p])) /\ ~(Len(stack[p]) < Len(stack'[p]))
  BY <1>1
<1> QED
  BY <1>1, <1>2, CalmStep

LEMMA NewCallsCalm ==
    /\ \A c \in Conns : LET f == Call("close", c, "once")
                        IN  ~Runs(f) /\ ~Writes(f)
    /\ \A c \in Conns : LET f == Call("reader", c, "lock")
                        IN  ~Runs(f) /\ ~Writes(f)
    /\ \A c \in Conns : LET f == Dispatcher(c, "disconnect", 0)
                        IN  ~Runs(f) /\ ~Writes(f)
    /\ LET f == Call("use", NoOne, "lock") IN ~Runs(f) /\ ~Writes(f)
  BY DispatcherType DEF Call, Runs, Writes

LEMMA ReadCalm ==
    ASSUME IInv, MwInv, NEW p \in Procs, NEW c \in Conns,
           Read(p, c) \/ ReadFrame(p, c) \/ TransportFails(p, c)
    PROVE  Calm
<1> USE DEF IInv, At
<1>1. CASE LockRead(p, c)
  BY <1>1, CalmGoto DEF LockRead, CallPcs
<1>2. CASE LockReadFails(p, c)
  BY <1>2, CalmReturn DEF LockReadFails
<1>3. CASE ReadFails(p, c) \/ TransportFails(p, c)
  BY <1>3, CalmGoto DEF ReadFails, TransportFails, CallPcs
<1>4. CASE Dispatch(p, c)
  <2> DEFINE pc == IF Top(p).ev = "close" THEN "received" ELSE "header"
             f == Dispatcher(c, Top(p).ev, frames[c])
  <2>1. /\ stack[p] # <<>> /\ Reads(Top(p), c) /\ Top(p).pc = "dispatch"
        /\ Invoke(p, pc, f) /\ mws' = mws /\ writer' = writer /\ pc \in CallPcs
    BY <1>4 DEF Dispatch, CallPcs, Reads
  <2>2. Top(p) = stack[p][Len(stack[p])] /\ Len(stack[p]) \in 1..Len(stack[p])
    BY <2>1, TopCall
  <2>3. Top(p).ev \in ReadEvents /\ frames[c] \in Nat
    BY <2>1, <2>2 DEF ConnInv, ReaderInv, DataInv
  <2>4. f \in Frames /\ f.op = "event" /\ f.pc = "rlock"
    BY <2>3, DispatcherType DEF ReadEvents
  <2> HIDE DEF pc, f
  <2> QED
    BY <2>1, <2>4, CalmInvoke DEF Reads, Runs, Writes
<1>5. CASE CloseReceived(p, c)
  <2>1. /\ stack[p] # <<>> /\ Top(p).op = "reader"
        /\ mws' = mws /\ writer' = writer
        /\ \/ Goto(p, "unlockTwice")
           \/ Invoke(p, "unlockTwice", Call("close", c, "once"))
    BY <1>5 DEF CloseReceived
  <2>2. "unlockTwice" \in CallPcs
    BY DEF CallPcs
  <2> QED
    BY <2>1, <2>2, CalmGoto, CalmInvoke, NewCalls, NewCallsCalm
<1>6. CASE CloseAfterReceived(p, c)
  BY <1>6, CalmInvoke, NewCalls, NewCallsCalm DEF CloseAfterReceived, CallPcs
<1>7. CASE UnlockRead(p, c)
  BY <1>7, CalmReturn DEF UnlockRead
<1>8. CASE ReadFrame(p, c)
  <2>1. /\ stack[p] # <<>> /\ Top(p).op = "reader"
        /\ mws' = mws /\ writer' = writer
        /\ Goto(p, "unlock") \/ \E ev \in ReadEvents : Received(p, ev)
    BY <1>8 DEF ReadFrame
  <2>2. CASE Goto(p, "unlock")
    BY <2>1, <2>2, CalmGoto DEF CallPcs
  <2>3. ASSUME NEW ev \in ReadEvents, Received(p, ev)
        PROVE  Calm
    <3> DEFINE f == [Top(p) EXCEPT !.pc = "dispatch", !.ev = ev]
    <3>1. /\ stack' \in [Procs -> Seq(Frames)] /\ Kept(p)
          /\ Len(stack'[p]) = Len(stack[p]) /\ stack'[p][Len(stack[p])] = f
          /\ Top(p) \in Frames /\ Len(stack[p]) \in Nat
      BY <2>1, <2>3, ReceivedStack, TopCall
    <3>2. f.op = "reader"
      BY <2>1, <3>1 DEF Frames
    <3> HIDE DEF f
    <3>3. f.op # "use" /\ ~Runs(f) /\ ~(Len(stack[p]) < Len(stack'[p]))
      BY <3>1, <3>2 DEF Runs
    <3> QED
      BY <2>1, <3>1, <3>3, CalmStep
  <2> QED
    BY <2>1, <2>2, <2>3
<1> QED
  BY <1>1, <1>2, <1>3, <1>4, <1>5, <1>6, <1>7, <1>8 DEF Read

LEMMA CloseCalm ==
    ASSUME IInv, MwInv, NEW p \in Procs, NEW c \in Conns,
           Close(p, c) \/ UserCloseNow(p, c) \/ UserClose(p, c)
    PROVE  Calm
<1> USE DEF IInv, At
<1>1. CASE CloseOnce(p, c)
  BY <1>1, CalmInvoke, NewCalls, NewCallsCalm DEF CloseOnce, CallPcs
<1>2. CASE CloseAgain(p, c)
  BY <1>2, CalmReturn DEF CloseAgain
<1>3. CASE CloseTransport(p, c)
  BY <1>3, CalmGoto DEF CloseTransport, CallPcs
<1>4. CASE CloseReader(p, c)
  BY <1>4, CalmReturn DEF CloseReader
<1>5. CASE UserHandshaken(p, c)
  BY <1>5, CalmInvoke, NewCalls, NewCallsCalm DEF UserHandshaken, CallPcs
<1>6. CASE UserCloseNow(p, c)
  BY <1>6, CalmInvoke, NewCalls, NewCallsCalm DEF UserCloseNow, CallPcs
<1>7. CASE UserClose(p, c)
  BY <1>7, CalmInvoke, NewCalls, NewCallsCalm DEF UserClose, CallPcs
<1> QED
  BY <1>1, <1>2, <1>3, <1>4, <1>5, <1>6, <1>7 DEF Close

LEMMA HandlerCalm ==
    ASSUME IInv, MwInv, NEW p \in Procs,
           \/ HandlerReturns(p)
           \/ HandlerFails(p) /\ Top(p).ev # "message"
           \/ HandlerWrites(p) \/ WriteReturns(p) \/ HandlerUses(p)
           \/ \E c \in Conns : HandlerCloses(p, c)
    PROVE  Calm
<1> USE DEF IInv, At
<1>1. CASE HandlerReturns(p)
  BY <1>1, CalmReturn DEF HandlerReturns
<1>2. CASE HandlerFails(p) /\ Top(p).ev # "message"
  <2>1. Return(p) /\ stack[p] # <<>> /\ mws' = mws /\ writer' = writer
    BY <1>2 DEF HandlerFails, Return
  <2> QED
    BY <2>1, CalmReturn
<1>3. CASE HandlerWrites(p)
  BY <1>3, CalmGoto DEF HandlerWrites, CallPcs
<1>4. CASE WriteReturns(p)
  BY <1>4, CalmGoto DEF WriteReturns, CallPcs
<1>5. CASE HandlerUses(p)
  BY <1>5, CalmInvoke, NewCalls, NewCallsCalm DEF HandlerUses, CallPcs
<1>6. CASE \E c \in Conns : HandlerCloses(p, c)
  BY <1>6, CalmInvoke, NewCalls, NewCallsCalm DEF HandlerCloses, CallPcs
<1> QED
  BY <1>1, <1>2, <1>3, <1>4, <1>5, <1>6

LEMMA MessageFailsCalm ==
    ASSUME IInv, MwInv, NEW p \in Procs, HandlerFails(p),
           Top(p).ev = "message"
    PROVE  Calm
<1> DEFINE n == Len(stack[p])
<1>1. PICK c \in Conns :
         /\ n \in Nat /\ n > 1 /\ Len(stack'[p]) = n - 1
         /\ \A q \in Procs : q # p => stack'[q] = stack[q]
         /\ \A i \in 1..(n - 2) : stack'[p][i] = stack[p][i]
         /\ Reads(stack'[p][n - 1], c)
  BY MessageFailsStack
<1>2. ASSUME NEW q \in Procs, NEW i \in 1..Len(stack'[q])
      PROVE  /\ stack'[q][i].op = "use" => i = Len(stack'[q])
             /\ Writes(stack'[q][i]) =>
                   i \in 1..Len(stack[q]) /\ stack'[q][i] = stack[q][i]
             /\ Runs(stack'[q][i]) =>
                   /\ i \in 1..Len(stack[q]) /\ Runs(stack[q][i])
                   /\ stack'[q][i].seen = stack[q][i].seen
  <2>1. CASE q # p
    BY <1>1, <2>1 DEF MwInv
  <2>2. CASE q = p /\ i = n - 1
    BY <1>1, <2>2 DEF Reads, Writes, Runs
  <2>3. CASE q = p /\ i # n - 1
    <3>1. i \in 1..(n - 2) /\ i \in 1..n /\ i # n
      BY <1>1, <2>3
    <3>2. stack'[p][i] = stack[p][i] /\ stack[p][i].op # "use"
      BY <1>1, <3>1 DEF MwInv
    <3> QED
      BY <2>3, <3>1, <3>2
  <2> QED
    BY <2>1, <2>2, <2>3
<1>3. mws' = mws /\ writer' = writer
  BY DEF HandlerFails
<1> QED
  BY <1>2, <1>3 DEF Calm

LEMMA AdminCalm ==
    ASSUME IInv, MwInv, AdminUses
    PROVE  Calm
<1> DEFINE f == Call("use", NoOne, "lock")
<1>1. f \in Frames /\ ~Runs(f) /\ ~Writes(f) /\ Admin \in Procs
  BY NewCalls, NewCallsCalm DEF Procs
<1>2. /\ stack'[Admin] = <<f>> /\ mws' = mws /\ writer' = writer
      /\ \A q \in Procs : q # Admin => stack'[q] = stack[q]
  BY <1>1 DEF AdminUses, IInv, StackInv
<1> HIDE DEF f
<1>3. ASSUME NEW i \in 1..Len(stack'[Admin])
      PROVE  i = Len(stack'[Admin]) /\ stack'[Admin][i] = f
  BY <1>1, <1>2
<1>4. ASSUME NEW q \in Procs, q # Admin, NEW i \in 1..Len(stack'[q])
      PROVE  /\ i \in 1..Len(stack[q]) /\ stack'[q][i] = stack[q][i]
             /\ stack'[q][i].op = "use" => i = Len(stack'[q])
  BY <1>2, <1>4 DEF MwInv
<1>5. ASSUME NEW q \in Procs, NEW i \in 1..Len(stack'[q])
      PROVE  /\ stack'[q][i].op = "use" => i = Len(stack'[q])
             /\ Writes(stack'[q][i]) =>
                   i \in 1..Len(stack[q]) /\ stack'[q][i] = stack[q][i]
             /\ Runs(stack'[q][i]) =>
                   /\ i \in 1..Len(stack[q]) /\ Runs(stack[q][i])
                   /\ stack'[q][i].seen = stack[q][i].seen
  <2>1. CASE q = Admin
    BY <1>1, <1>3, <2>1
  <2>2. CASE q # Admin
    BY <1>4, <2>2
  <2> QED
    BY <2>1, <2>2
<1> QED
  BY <1>2, <1>5 DEF Calm

(* A dispatcher gets the lock: no Use has called Lock. *)
LEMMA RLockMw ==
    ASSUME IInv, MwInv, NEW p \in Procs, RLock(p)
    PROVE  MwInv'
<1> DEFINE n == Len(stack[p])
<1>1. /\ stack[p] # <<>> /\ stack' \in [Procs -> Seq(Frames)] /\ Kept(p)
      /\ Len(stack'[p]) = n /\ n \in Nat
      /\ stack'[p][n].op = "event" /\ stack'[p][n].seen = mws
  <2>1. stack[p] # <<>>
    BY DEF RLock, At
  <2> QED
    BY <2>1, RLockStack, TopCall DEF IInv
<1>2. writer = NoOne /\ writer' = writer /\ mws' = mws
  BY DEF RLock
<1>3. \A q \in Procs : \A i \in 1..Len(stack[q]) : ~Writes(stack[q][i])
  BY <1>2, ConnsAssumption DEF MwInv
<1> HIDE DEF n
<1>4. ASSUME NEW q \in Procs, NEW i \in 1..Len(stack'[q])
      PROVE  /\ stack'[q][i].op = "use" => i = Len(stack'[q])
             /\ ~Writes(stack'[q][i])
             /\ Runs(stack'[q][i]) => stack'[q][i].seen = mws
  <2>1. CASE q = p /\ i >= n
    <3>1. i = n
      BY <1>1, <2>1
    <3> QED
      BY <1>1, <2>1, <3>1 DEF Writes
  <2>2. CASE ~(q = p /\ i >= n)
    <3>1. /\ i \in 1..Len(stack[q]) /\ stack'[q][i] = stack[q][i]
          /\ q = p => stack[q][i].op # "use"
          /\ q # p => Len(stack'[q]) = Len(stack[q])
      BY <1>1, <2>2, KeptCalls DEF n, IInv
    <3> QED
      BY <1>3, <3>1 DEF MwInv
  <2> QED
    BY <2>1, <2>2
<1>5. \A q \in Procs : \A i \in 1..Len(stack'[q]) : ~Appends(stack'[q][i])
  BY <1>4 DEF Appends, Writes
<1> QED
  BY <1>2, <1>4, <1>5 DEF MwInv, Writes, Appends, Runs

(* A Use takes a step, and no other Use has called Lock; the dispatchers    *)
(* that run still do.                                                       *)
LEMMA UseMw ==
    ASSUME IInv, MwInv, NEW p \in Procs, NEW pc \in CallPcs, Goto(p, pc),
           stack[p] # <<>>, Top(p).op = "use", writer' = p, mws' = mws,
           \A q \in Procs : \A i \in 1..Len(stack[q]) :
              Writes(stack[q][i]) => q = p /\ i = Len(stack[p]),
           pc = "append" => NobodyRuns
    PROVE  MwInv'
<1> DEFINE n == Len(stack[p])
<1>1. /\ stack' \in [Procs -> Seq(Frames)] /\ Kept(p) /\ Len(stack'[p]) = n
      /\ stack'[p][n] = [Top(p) EXCEPT !.pc = pc]
      /\ Top(p) \in Frames /\ n \in Nat
  BY GotoStack, TopCall DEF IInv
<1>2. stack'[p][n].op = "use" /\ stack'[p][n].pc = pc
  BY <1>1 DEF Frames
<1> HIDE DEF n
<1>3. ASSUME NEW q \in Procs, NEW i \in 1..Len(stack'[q])
      PROVE  /\ stack'[q][i].op = "use" => i = Len(stack'[q])
             /\ Writes(stack'[q][i]) => q = p
             /\ Appends(stack'[q][i]) => pc = "append"
             /\ Runs(stack'[q][i]) =>
                   /\ i \in 1..Len(stack[q]) /\ Runs(stack[q][i])
                   /\ stack'[q][i] = stack[q][i]
  <2>1. CASE q = p /\ i >= n
    <3>1. i = n
      BY <1>1, <2>1
    <3> QED
      BY <1>1, <1>2, <2>1, <3>1 DEF Runs, Appends
  <2>2. CASE ~(q = p /\ i >= n)
    <3>1. /\ i \in 1..Len(stack[q]) /\ stack'[q][i] = stack[q][i]
          /\ q = p => i < n /\ stack[q][i].op # "use"
          /\ q # p => Len(stack'[q]) = Len(stack[q])
      BY <1>1, <2>2, KeptCalls DEF n, IInv
    <3>2. ~Writes(stack[q][i])
      BY <3>1 DEF Writes
    <3>3. stack[q][i].op = "use" => i = Len(stack[q])
      BY <3>1 DEF MwInv
    <3> QED
      BY <3>1, <3>2, <3>3 DEF Writes, Appends
  <2> QED
    BY <2>1, <2>2
<1>4. pc = "append" => NobodyRuns'
  BY <1>3 DEF NobodyRuns, Runs
<1>5. \A q \in Procs : \A i \in 1..Len(stack'[q]) :
         Runs(stack'[q][i]) => stack'[q][i].seen = mws
  BY <1>3 DEF MwInv
<1> QED
  BY <1>3, <1>4, <1>5 DEF MwInv, Writes, Appends, Runs

LEMMA UseLockMw ==
    ASSUME IInv, MwInv, NEW p \in Procs, UseLock(p)
    PROVE  MwInv'
<1>1. /\ stack[p] # <<>> /\ Top(p).op = "use" /\ Goto(p, "wait")
      /\ writer = NoOne /\ writer' = p /\ mws' = mws /\ "wait" \in CallPcs
  BY DEF UseLock, At, CallPcs
<1>2. \A q \in Procs : \A i \in 1..Len(stack[q]) : ~Writes(stack[q][i])
  BY <1>1, ConnsAssumption DEF MwInv
<1> QED
  BY <1>1, <1>2, UseMw

(* Lock returns when the readers have left. *)
LEMMA UseLockedMw ==
    ASSUME IInv, MwInv, NEW p \in Procs, UseLocked(p)
    PROVE  MwInv'
<1>1. /\ stack[p] # <<>> /\ Top(p).op = "use" /\ Top(p).pc = "wait"
      /\ Goto(p, "append") /\ Readers = {} /\ writer' = writer /\ mws' = mws
      /\ "append" \in CallPcs
  BY DEF UseLocked, At, CallPcs
<1>2. NobodyRuns
  <2> SUFFICES ASSUME NEW q \in Procs, NEW i \in 1..Len(stack[q]),
                      Runs(stack[q][i])
               PROVE  FALSE
    BY DEF NobodyRuns
  <2>1. stack[q][i] \in Calls(q)
    BY DEF Calls, ToSet, IInv, StackInv
  <2>2. stack[q][i] \in Running(q)
    BY <2>1 DEF Running, Runs
  <2> QED
    BY <1>1, <2>2 DEF Readers
<1>3. Top(p) = stack[p][Len(stack[p])] /\ Len(stack[p]) \in 1..Len(stack[p])
  BY <1>1, TopCall DEF IInv
<1>4. writer = p
  BY <1>1, <1>3 DEF MwInv, Writes
<1>5. \A q \in Procs : \A i \in 1..Len(stack[q]) :
         Writes(stack[q][i]) => q = p /\ i = Len(stack[p])
  BY <1>4 DEF MwInv, Writes
<1> QED
  BY <1>1, <1>2, <1>4, <1>5, UseMw

(* The middleware changes: no dispatcher runs, and none is let in before.   *)
LEMMA UseAppendMw ==
    ASSUME IInv, MwInv, NEW p \in Procs, UseAppend(p)
    PROVE  MwInv'
<1>1. /\ stack[p] # <<>> /\ Top(p).op = "use" /\ Top(p).pc = "append"
      /\ Return(p)
  BY DEF UseAppend, At
<1>2. /\ Top(p) = stack[p][Len(stack[p])] /\ Len(stack[p]) \in 1..Len(stack[p])
      /\ Len(stack[p]) \in Nat
  BY <1>1, TopCall DEF IInv
<1>3. writer = p /\ NobodyRuns
  BY <1>1, <1>2 DEF MwInv, Writes, Appends
<1>4. /\ stack' \in [Procs -> Seq(Frames)] /\ Kept(p)
      /\ Len(stack'[p]) = Len(stack[p]) - 1
  BY <1>1, ReturnStack DEF IInv
<1>5. ASSUME NEW q \in Procs, NEW i \in 1..Len(stack'[q])
      PROVE  /\ stack'[q][i].op = "use" => i = Len(stack'[q])
             /\ ~Writes(stack'[q][i]) /\ ~Runs(stack'[q][i])
  <2>1. ~(q = p /\ i >= Len(stack[p]))
    BY <1>2, <1>4
  <2>2. /\ i \in 1..Len(stack[q]) /\ stack'[q][i] = stack[q][i]
        /\ q = p => stack[q][i].op # "use"
        /\ q # p => Len(stack'[q]) = Len(stack[q])
    BY <1>1, <1>4, <2>1, KeptCalls DEF IInv
  <2>3. Writes(stack[q][i]) => q = p
    BY <1>3, <2>2 DEF MwInv
  <2>4. stack[q][i].op = "use" => i = Len(stack[q])
    BY <2>2 DEF MwInv
  <2> QED
    BY <1>3, <2>2, <2>3, <2>4 DEF NobodyRuns, Writes
<1>6. \A q \in Procs : \A i \in 1..Len(stack'[q]) : ~Appends(stack'[q][i])
  BY <1>5 DEF Writes, Appends
<1> QED
  BY <1>5, <1>6 DEF MwInv, Writes, Appends, Runs

LEMMA MwInit ==
    Init => MwInv
<1> SUFFICES ASSUME Init, NEW p \in Procs, NEW i \in 1..Len(stack[p])
             PROVE  stack[p][i].op # "use" /\ ~Runs(stack[p][i])
  BY DEF MwInv, Writes, Appends
<1>1. PICK c \in Conns :
         \/ stack[p] = <<Call("reader", c, "lock")>>
         \/ stack[p] = <<Call("user", c, "open"), Dispatcher(c, "connect", 0)>>
  <2>1. p # Admin
    BY DEF Init
  <2>2. CASE p \in Conns \X {"loop"}
    BY <2>1, <2>2 DEF Init
  <2>3. CASE p \in Users \X {"user"}
    BY <2>1, <2>3, ConnsAssumption DEF Init
  <2> QED
    BY <2>1, <2>2, <2>3 DEF Procs
<1>2. /\ Call("reader", c, "lock").op = "reader"
      /\ Call("user", c, "open").op = "user"
      /\ Dispatcher(c, "connect", 0).op = "event"
      /\ Dispatcher(c, "connect", 0).pc = "rlock"
  BY DispatcherType DEF Call
<1>3. CASE stack[p] = <<Call("reader", c, "lock")>>
  <2>1. stack[p][i] = Call("reader", c, "lock")
    BY <1>3
  <2> QED
    BY <1>2, <2>1 DEF Runs
<1>4. CASE stack[p] = <<Call("user", c, "open"), Dispatcher(c, "connect", 0)>>
  <2>1. \/ stack[p][i] = Call("user", c, "open")
        \/ stack[p][i] = Dispatcher(c, "connect", 0)
    BY <1>4
  <2> QED
    BY <1>2, <2>1 DEF Runs
<1> QED
  BY <1>1, <1>3, <1>4

LEMMA MwNext ==
    IInv /\ MwInv /\ [Next]_vars => MwInv'
<1> SUFFICES ASSUME IInv, MwInv, [Next]_vars PROVE MwInv'
  OBVIOUS
<1>1. ASSUME NEW p \in Procs, NEW c \in Conns,
             Read(p, c) \/ Close(p, c) \/ Choose(p, c)
      PROVE  MwInv'
  BY <1>1, ReadCalm, CloseCalm, HandlerCalm, CalmInv DEF Choose
<1>2. ASSUME NEW p \in Procs,
             \/ HandlerReturns(p) \/ HandlerFails(p)
             \/ HandlerWrites(p) \/ WriteReturns(p) \/ HandlerUses(p)
      PROVE  MwInv'
  <2>1. CASE HandlerFails(p) /\ Top(p).ev = "message"
    BY <2>1, MessageFailsCalm, CalmInv
  <2>2. CASE ~(HandlerFails(p) /\ Top(p).ev = "message")
    BY <1>2, <2>2, HandlerCalm, CalmInv
  <2> QED
    BY <2>1, <2>2
<1>3. ASSUME NEW p \in Procs, RLock(p) \/ Use(p)
      PROVE  MwInv'
  BY <1>3, RLockMw, UseLockMw, UseLockedMw, UseAppendMw DEF Use
<1>4. CASE AdminUses
  BY <1>4, AdminCalm, CalmInv
<1>5. CASE UNCHANGED vars
  BY <1>5 DEF vars, MwInv, NobodyRuns
<1> QED
  BY <1>1, <1>2, <1>3, <1>4, <1>5 DEF Next

(* All the handlers of an event are wrapped in the same middleware: from a  *)
(* dispatcher's RLock to its return it stays what it was (event.go:54,120). *)
THEOREM MiddlewareStaysUnderDispatchers == Spec => []MiddlewareStable
<1>1. IInv /\ MwInv => MiddlewareStable
  <2> SUFFICES ASSUME IInv, MwInv, NEW p \in Procs, NEW f \in Running(p)
               PROVE  f.seen = mws
    BY DEF MiddlewareStable
  <2>1. f \in Calls(p) /\ Runs(f)
    BY DEF Running, Runs
  <2>2. PICK i \in 1..Len(stack[p]) : f = stack[p][i]
    BY <2>1, CallsIndexed DEF IInv
  <2> QED
    BY <2>1, <2>2 DEF MwInv
<1> QED
  BY <1>1, MwInit, MwNext, Invariance, PTL DEF Spec
=============================================================================
