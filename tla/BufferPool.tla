----------------------------- MODULE BufferPool -----------------------------
(***************************************************************************)
(* core/pool's Pool, whose free list links the buffers themselves, and the *)
(* connections that share one: each takes a reader's and a writer's buffer *)
(* when it is made, one more for decompression when its first compressed   *)
(* message arrives, and close() gives back what it can.                    *)
(*                                                                         *)
(* Pool's methods take its mutex, so each is one step.  A connection has a *)
(* goroutine that reads, one that writes and one that closes it.  Buffers  *)
(* are the numbers from 1; Nil is the nil pointer.                         *)
(***************************************************************************)
EXTENDS Naturals, FiniteSets

CONSTANTS Conns,       \* connections made from the pool, one after the other
          BufNum,      \* of a batch of buffers (grow)
          MaxBuffers   \* bound: buffers ever allocated

Nil == 0
Buffers == 1..MaxBuffers

ASSUME BoundsAssumption ==
    BufNum \in Nat \ {0} /\ MaxBuffers \in Nat /\ BufNum <= MaxBuffers

VARIABLES
    freeList,   \* Pool.freeList
    next,       \* Buffer.next
    allocated,  \* how many buffers exist
    conn,       \* how far each connection is: made, open, in close(), closed
    brBuf,      \* Conn.brBuf
    bwBuf,      \* Conn.bwBuf
    flateBuf,   \* msgReader.flateBuf
    brPool,     \* whether Conn.brPool is set
    reader,     \* the goroutine that reads
    writer,     \* the goroutine that writes
    panicked    \* a nil pool was called: the process is gone

poolVars == <<freeList, next, allocated>>
bufVars == <<brBuf, bwBuf, flateBuf, brPool>>
bufferPoolVars == <<poolVars, conn, bufVars, reader, writer, panicked>>

ConnLabels == {"none", "reading", "open", "putReader", "putWriter",
               "closeTransport", "closeReader", "closed"}

BufferPoolTypeOK ==
    /\ freeList \in Buffers \cup {Nil}
    /\ next \in [Buffers -> Buffers \cup {Nil}]
    /\ allocated \in 0..MaxBuffers
    /\ conn \in [Conns -> ConnLabels]
    /\ brBuf \in [Conns -> Buffers \cup {Nil}]
    /\ bwBuf \in [Conns -> Buffers \cup {Nil}]
    /\ flateBuf \in [Conns -> Buffers \cup {Nil}]
    /\ brPool \in [Conns -> BOOLEAN]
    /\ reader \in [Conns -> {"idle", "reading", "resetFlate"}]
    /\ writer \in [Conns -> {"idle", "writing"}]
    /\ panicked \in BOOLEAN

(* init: the first batch is on the free list. *)
BufferPoolInit ==
    /\ freeList = 1
    /\ next = [b \in Buffers |-> IF b < BufNum THEN b + 1 ELSE Nil]
    /\ allocated = BufNum
    /\ conn = [c \in Conns |-> "none"]
    /\ brBuf = [c \in Conns |-> Nil]
    /\ bwBuf = [c \in Conns |-> Nil]
    /\ flateBuf = [c \in Conns |-> Nil]
    /\ brPool = [c \in Conns |-> TRUE]
    /\ reader = [c \in Conns |-> "idle"]
    /\ writer = [c \in Conns |-> "idle"]
    /\ panicked = FALSE

-----------------------------------------------------------------------------
(* Mutant: the buffer taken stays the head of the free list. *)
GetShared(b) ==
    /\ freeList # Nil /\ b = freeList
    /\ UNCHANGED poolVars

(* Get: the head of the free list, after grow if there is none. *)
Get(b) ==
    IF freeList # Nil
    THEN /\ b = freeList
         /\ freeList' = next[b]
         /\ next' = [next EXCEPT ![b] = Nil]
         /\ UNCHANGED allocated
    ELSE /\ allocated + BufNum <= MaxBuffers
         /\ b = allocated + 1
         /\ allocated' = allocated + BufNum
         /\ freeList' = IF BufNum = 1 THEN Nil ELSE b + 1
         /\ next' = [d \in Buffers |->
                       IF d \in b+1..b+BufNum-1
                       THEN IF d = b + BufNum - 1 THEN Nil ELSE d + 1
                       ELSE next[d]]

Put(b) ==
    /\ next' = [next EXCEPT ![b] = freeList]
    /\ freeList' = b
    /\ UNCHANGED allocated

Move(c, from, to) == conn[c] = from /\ conn' = [conn EXCEPT ![c] = to]

-----------------------------------------------------------------------------
(* initAcceptReaderWriter, initDialReaderWriter: a buffer for the           *)
(* bufio.Reader, then one for the bufio.Writer.                             *)
MakeReader(c) ==
    /\ Move(c, "none", "reading")
    /\ \E b \in Buffers : Get(b) /\ brBuf' = [brBuf EXCEPT ![c] = b]
    /\ UNCHANGED <<bwBuf, flateBuf, brPool, reader, writer, panicked>>

MakeWriter(c) ==
    /\ Move(c, "reading", "open")
    /\ \E b \in Buffers : Get(b) /\ bwBuf' = [bwBuf EXCEPT ![c] = b]
    /\ UNCHANGED <<brBuf, flateBuf, brPool, reader, writer, panicked>>

(* A read or a write begins if the channel closed is not closed; it ends at *)
(* will, or because the transport is closed.                                *)
ReadBegins(c) ==
    /\ conn[c] = "open" /\ reader[c] = "idle"
    /\ reader' = [reader EXCEPT ![c] = "reading"]
    /\ UNCHANGED <<poolVars, conn, bufVars, writer, panicked>>

ReadEnds(c) ==
    /\ reader[c] = "reading"
    /\ reader' = [reader EXCEPT ![c] = "idle"]
    /\ UNCHANGED <<poolVars, conn, bufVars, writer, panicked>>

WriteBegins(c) ==
    /\ conn[c] = "open" /\ writer[c] = "idle"
    /\ writer' = [writer EXCEPT ![c] = "writing"]
    /\ UNCHANGED <<poolVars, conn, bufVars, reader, panicked>>

WriteEnds(c) ==
    /\ writer[c] = "writing"
    /\ writer' = [writer EXCEPT ![c] = "idle"]
    /\ UNCHANGED <<poolVars, conn, bufVars, reader, panicked>>

(* resetFlate, on the header of the first compressed message: brPool is     *)
(* compared with nil ...                                                    *)
ResetFlate(c) ==
    /\ reader[c] = "reading" /\ flateBuf[c] = Nil /\ brPool[c]
    /\ reader' = [reader EXCEPT ![c] = "resetFlate"]
    /\ UNCHANGED <<poolVars, conn, bufVars, writer, panicked>>

(* ... and read again to call Get: close() does not hold readMu when it     *)
(* sets it to nil.                                                          *)
GetFlate(c) ==
    /\ reader[c] = "resetFlate" /\ brPool[c]
    /\ \E b \in Buffers : Get(b) /\ flateBuf' = [flateBuf EXCEPT ![c] = b]
    /\ reader' = [reader EXCEPT ![c] = "reading"]
    /\ UNCHANGED <<conn, brBuf, bwBuf, brPool, writer, panicked>>

GetFlatePanics(c) ==
    /\ reader[c] = "resetFlate" /\ ~brPool[c]
    /\ panicked' = TRUE
    /\ UNCHANGED <<poolVars, conn, bufVars, reader, writer>>

-----------------------------------------------------------------------------
(* close(): closeOnce lets one goroutine in; closed is closed first. *)
CloseBegins(c) ==
    /\ Move(c, "open", "putReader")
    /\ UNCHANGED <<poolVars, bufVars, reader, writer, panicked>>

PutReader(c) ==
    /\ Move(c, "putReader", "putWriter")
    /\ Put(brBuf[c])
    /\ brPool' = [brPool EXCEPT ![c] = FALSE]
    /\ brBuf' = [brBuf EXCEPT ![c] = Nil]
    /\ UNCHANGED <<bwBuf, flateBuf, reader, writer, panicked>>

PutWriter(c) ==
    /\ Move(c, "putWriter", "closeTransport")
    /\ Put(bwBuf[c])
    /\ bwBuf' = [bwBuf EXCEPT ![c] = Nil]
    /\ UNCHANGED <<brBuf, flateBuf, brPool, reader, writer, panicked>>

CloseTransport(c) ==
    /\ Move(c, "closeTransport", "closeReader")
    /\ UNCHANGED <<poolVars, bufVars, reader, writer, panicked>>

(* msgReader.close, once the reader has let go of readMu (and              *)
(* msgWriter.close once the writer has of writeMu): the buffer for          *)
(* decompression is put if brPool is still set, and forgotten.              *)
CloseReader(c) ==
    /\ Move(c, "closeReader", "closed")
    /\ reader[c] = "idle" /\ writer[c] = "idle"
    /\ IF brPool[c] /\ flateBuf[c] # Nil THEN Put(flateBuf[c])
                                         ELSE UNCHANGED poolVars
    /\ flateBuf' = [flateBuf EXCEPT ![c] = Nil]
    /\ UNCHANGED <<brBuf, bwBuf, brPool, reader, writer, panicked>>

Closing(c) == \/ PutReader(c) \/ PutWriter(c) \/ CloseTransport(c)
              \/ CloseReader(c)

BufferPoolNext ==
    /\ ~panicked
    /\ \E c \in Conns :
          \/ MakeReader(c) \/ MakeWriter(c)
          \/ ReadBegins(c) \/ ReadEnds(c) \/ WriteBegins(c) \/ WriteEnds(c)
          \/ ResetFlate(c) \/ GetFlate(c) \/ GetFlatePanics(c)
          \/ CloseBegins(c) \/ Closing(c)

BufferPoolSpec == BufferPoolInit /\ [][BufferPoolNext]_bufferPoolVars

-----------------------------------------------------------------------------
(* Properties. *)

(* The free list, walked as far as there are buffers. *)
Walk == LET node[k \in 0..MaxBuffers] ==
                IF k = 0 THEN freeList
                ELSE IF node[k-1] = Nil THEN Nil ELSE next[node[k-1]]
        IN  node
InPool == {Walk[k] : k \in 0..MaxBuffers} \ {Nil}

Held(c) == {brBuf[c], bwBuf[c], flateBuf[c]} \ {Nil}

(* A buffer is in one place: in the pool, once, or one of the buffers of    *)
(* one connection (buffer.go:71-94, conn.go:323-333).                       *)
BuffersExclusive ==
    /\ BufferPoolTypeOK
    /\ Walk[MaxBuffers] = Nil
    /\ \A c \in Conns : Held(c) \cap InPool = {}
    /\ \A c, d \in Conns : c # d => Held(c) \cap Held(d) = {}
    /\ \A c \in Conns :
          Cardinality(Held(c)) =
             Cardinality({x \in {"br", "bw", "flate"} :
                CASE x = "br" -> brBuf[c] # Nil
                  [] x = "bw" -> bwBuf[c] # Nil
                  [] x = "flate" -> flateBuf[c] # Nil})

(* "Buffer not returned to pool after close" (TestConn_BufferPoolReturn,    *)
(* conn_test.go:1387): when every connection is closed, every buffer is in  *)
(* the pool.                                                               *)
AllReturned ==
    (\A c \in Conns : conn[c] = "closed") => InPool = 1..allocated

(* "All methods may be called concurrently except for Reader and Read"      *)
(* (conn.go:33): Close during a Read does not end the process.              *)
NeverPanics == ~panicked
=============================================================================
