# blazewave in TLA+

A verification development of [blazewave](../src/README.md), a WebSocket library
in Go (a fork of nhooyr/websocket with events, buffer pools and heartbeats).
The modules model the library's own control: what its goroutines do to the
connection they share, in which order, and what happens when a context expires,
a write fails or the connection is closed under them; and, byte by byte, the
algorithms the library has of its own (headers, close payloads, masking, the
trimming and the window of compression, negotiation, the buffered reader). They
do not model DEFLATE, HTTP or the Go runtime.

`tlc -config X.cfg M` checks a run of section 3; `tlapm M.tla` checks the proofs
of a `_proofs` module (section 5). PROJECT.json lists the runs, the source lines each
definition translates, a mutation for each property, the findings and the
hazards.

## 1. Inventory

A **connection** (`conn.go`, type `Conn`) is shared by any number of goroutines
("All methods may be called concurrently except for Reader and Read"). Its
mutexes (`mu`) are channels of capacity one: `lock` waits for the channel, the
context or the closed connection, and `unlock` releases the mutex whoever holds
it, or does nothing. One goroutine per connection, `timeoutLoop`, is handed the
context of the read and of the write in progress and closes the connection when
one of them is done. `close()` runs once (`closeOnce`); the others wait.

| part | state | operations | what is hard | what makes it correct |
|---|---|---|---|---|
| write side, `write.go` | `msgWriter` (mu, writeMu, closed, opcode), `writeFrameMu`, the bufio.Writer, `closeSentErr` | Write, Writer/Write/Close, writeControl, writeFrame | contexts that expire at every wait, short writes, an unlock of `writeFrameMu` that is followed by another, the writer object shared by all messages | frames whole and unmixed, messages in order, nothing after a close frame, one writer at a time, every control write returns |
| read side, `read.go` | `readMu`, `msgReader` (fin, payloadLength, dict, flateReader), `closeReceivedErr`, `activePings` | Reader, Read, CloseRead, readLoop, handleControl | the goroutine that reads a control frame writes, closes, and unlocks `readMu` before its deferred unlock does | one reader at a time, no frame handled after the close frame, nothing used that close() has cleared |
| closing handshake, `close.go` | `closeSentErr`, `closeReceivedErr` | Close, CloseNow, waitCloseHandshake, waitGoroutines | two ends and several goroutines close at once; five- and fifteen-second limits | Close returns, a complete handshake closes the connection, waiters are let go |
| life cycle, `conn.go` | `closed`, `closedFlag`, `closeOnce`, buffers, timer | newConn, close, timeoutLoop, Ping, startReadLoop | buffers given back while in use; contexts that expire late | resources return once and unused; a context closes its own call only |
| timer, `core/timer/timer.go` | heap, indices, free list, signal timer | Add, Del, Set, Stop, one goroutine | removal from the middle of a heap, wake-ups, reuse of TimerData | order, exact indices, no lost wake-up, no TimerData in two places |
| heartbeat, `heartbeat.go` | heartbeatTimerData, lastPongTime | Set/Enable/DisableHeartbeat, a callback on the timer's goroutine | the callback blocks the goroutine, shares a field with the application, and compares times of different precision | a healthy peer stays connected, a silent one is found in bounded time |
| buffer pools, `core/pool` | free list of buffers, shards | Get, Put, grow | several connections, a nil pool after close() | a buffer has one owner; all come back |
| bufio, `internal/bufio` | buffer, positions, sticky error | Write, Flush, Read, ReadByte, Peek, Discard, ReadSlice | short writes and reads, bytes and an error together, a buffer that slides | bytes once and in order, then the error |
| events, `event.go` | handler lists, an RWMutex shared by all connections | On*, Use, handle* | handlers run in the read loop and in close() with locks held, on a payload that is a slice of the connection's buffer | the payload stays, the middleware stays, calls return |
| frame, compression, masking | the key's rotation, the tail, the sliding window | encode, decode, mask, trim | lengths at the borders of the encodings, pieces of any size | decode inverts encode, no byte lost or repeated |
| accept, dial, server, client, options | options | negotiation | two headers that each end reads for itself, other implementations at the other end | both ends use the same options, what is used was offered |
| `netconn.go` | deadlines and their timers, reader of the current message | Read, Write, SetDeadline, Close | timers racing with calls; messages joined to a stream | no byte lost between messages, a deadline ends the call it was set for |
| metadata, errors, helpers, browser connection | a map, none | | | |

Interactions: the application's goroutines call the write side and the read
side; the read side calls the write side (pongs, close frames) and close();
close() takes the locks of both, gives buffers to the pools and deletes the
heartbeat's timer; the timer's goroutine calls Ping and Close; `timeoutLoop`
calls close(). Each of those edges is where the hazards of PROJECT.json bite.

## 2. The modules

| module | models | composed with |
|---|---|---|
| FrameStream | what a peer may rely on (abstract) | |
| FrameWriter | the write side, `close()`, the write timeout | implements FrameStream |
| CloseHandshake | the read side's locks, control frames, Close, CloseNow, the read timeout | |
| MessageReader | what Reader and Read give their user | used by NetConn |
| ByteStream | what a net.Conn promises its reader (abstract) | |
| NetConn | a direct user of the read side, or the net.Conn adapter with its deadlines | extends MessageReader, implements ByteStream |
| EventLoop | event mode: read loops, handlers, the shared lock, `close()` | |
| TimerService | what the timer promises (abstract) | |
| TimerHeap | the array heap of the timer | used by Timer and MCAlgorithms |
| Timer | the timer | implements TimerService |
| Heartbeat | connections on one shared timer, with time | |
| Frame, Masking, Compress, BufioReader, Negotiation, RingPool, BufferPool | the algorithms and pools | composed by MCAlgorithms |
| FrameWriter_proofs, CloseHandshake_proofs, NetConn_proofs, EventLoop_proofs, Timer_proofs, Heartbeat_proofs, Algorithms_proofs | theorems (section 5) | each extends what it is about |
| FreeList_proofs | lemmas about linked free lists and induction | used by Timer_proofs and Algorithms_proofs |
| MCFrameWriter, MCCloseHandshake, MCAlgorithms | instances for TLC | |

**FrameStream** is a log of frames in which a message's frames are not mixed with
another message's, control frames come between frames, and nothing follows a
close frame.

**FrameWriter** has every step of `writeFrame` as an action: lock, check of
`closeSentErr`, hand-over of the context, header, payload, flush, marking of the
close frame, the early unlock and close, reset of the context, deferred unlock. A
frame is two units (header, payload), the transport takes any part of them and
may fail, a context may expire at any time, and `close()` interleaves in five
steps. `Client` chooses between the two ends: on a client the bufio.Writer is on
top of `safeRWC`, on a server on top of the bare connection. `ImplementsStream`
is the refinement of FrameStream by the frames that reached the transport.
Abstractions: the payload is one unit; a compressed message holds `writeMu` for
each of its frames, where the code holds it for the whole of the one Write (fewer
interleavings than the model has); a mutex is a Boolean because `unlock` has no
owner.

**CloseHandshake**: Reader, Read, Close and CloseNow share the steps of
`readLoop`, and the goroutine that reads a close frame answers it, releases
`readMu` (once or twice, and once more in its deferred unlock) and closes the
connection. The write of a frame is one step here, which FrameWriter justifies
for whole frames; a control frame arrives with its payload; the peer sends any
frame at any time. `ReadersAssumption` is the rule of the Conn type's doc, that
Reader and Read are not called concurrently: with two readers, `OneReader` is
false.

**MessageReader** has the data that CloseHandshake leaves out: a queue of
headers and payload bytes from a peer that may fragment its messages, break the
protocol or go away in the middle of a frame, and Reader, msgReader.Read and
limitReader step by step, with their error paths. Here close() is one step.
**NetConn** adds the users: one that calls Reader and Read with a limit, or one
side of the adapter. Its Read loops over messages; a deadline's timer starts a
callback that takes the adapter's mutex or, if a call holds it, cancels the
context of the calls; SetDeadline is two steps (it stores 0, then stops or resets
the timer). Abstractions: one callback of a timer at a time; the frames a reader
sends are left to FrameWriter; the user stops after an error, except for EOF and
an expired deadline; compression is left out. `ImplementsByteStream` maps the
bytes the peer has sent and the ones returned to ByteStream.

**EventLoop**: all connections of a server share one Event and its RWMutex (a
waiting writer stops new readers, as in Go). Handlers run inside the calls that
dispatch them and call the library back, so the state of a goroutine is a stack
of calls. Lock is two steps, the call, which stops new readers, and its return,
when the others have left; a dispatcher's call remembers the middleware it found
at its RLock (`seen`), for `MiddlewareStable`. A read may fail at any time. A handler may return, fail, write, call CloseNow or Use. Abstractions:
text, binary, ping and pong frames are one kind ("message"), a close from
timeoutLoop or the heartbeat is a CloseNow of the connection's user, and On*,
which registers without the lock, belongs before the first connection.

**Timer**: the array heap with `up`, `down` and `swap`, the indices, the linked
free list, the signal timer and the goroutine. A turn of the loop of `up` or
`down` is `UpRound` or `DownRound`; the loop is a recursive function that repeats
it. go.mod asks for go 1.24, so Reset
and Stop of a `time.Timer` drop a tick that was not received.

**Heartbeat** puts connections on one shared timer and adds time: callbacks are
serial, a ping waits up to the timeout, a close handshake up to `CloseTime`, and
`lastPongTime` is in seconds. An application goroutine per connection calls
SetHeartbeat, DisableHeartbeat and Close, whose accesses to
`heartbeatTimerData` are steps of their own. Goroutines take no time between
their waits (the case in which a heartbeat works best), so a violation of a time
bound is no matter of scheduling. `Preempt = FALSE` keeps the steps between two
waits of a goroutine together: it is the part of the behaviours without the data
race; with `Preempt = TRUE` the race frees a TimerData in use (section 3).

**BufferPool** is `Pool` with its linked free list, and the connections that take
a reader's, a writer's and a decompression buffer from it and close.

**Frame** writes and reads headers and close payloads byte by byte, a 64-bit
length as eight bytes; a behaviour writes one header or one close frame. **Masking** masks the pieces that fit a write buffer and
unmasks the pieces a user reads, both with the key rotated from piece to piece
(the unrolled loops of `maskGo` are one operator; the assembly is not called).
**Compress** is the trimming writer, with the tail it holds back, and the sliding
window. **BufioReader** has the Reader's calls over a source that gives any
number of bytes, none for a while, or bytes together with an error; the buffer
is an array that slides, so a wrong index shows. **Negotiation** has the checks of
a request and of an answer, the choice of a subprotocol and permessage-deflate,
between two ends of this library or with a foreign one. **RingPool** is the
rounding of the number of pools and the choice of one.

| code | model |
|---|---|
| a goroutine, and where it is | `pc[g]`, an action per step that other goroutines can tell apart; a stack of calls in EventLoop |
| `mu` | a Boolean (FrameWriter), the number of tokens (CloseHandshake) |
| `select` on closed, context, lock | a disjunct or an action each |
| deferred functions | the labels after `UnlockFrame`, `UnlockRead` |
| `closeOnce.Do` | `once`, `onceDone`: one runs it, the others wait |
| `c.writeTimeout <- ctx` | a rendezvous: enabled while timeoutLoop selects |
| context.Background() | `NoOne`, which is never done |
| a byte of a payload | the number of its message, where only order matters |

## 3. The runs

Passing runs:

| run | instance | shows |
|---|---|---|
| frame_writer | client, 3 goroutines, 3 calls that write or close | one writer, nothing after a close frame, contexts released |
| frame_writer_live | client, 2 goroutines, 2 message or control calls, 1 fragment | whole frames, refinement of FrameStream, control writes return, close() unblocks |
| close_handshake | client, 1 reader, 2 closers, 2 frames of every kind, 3 calls | one reader, no frame after the peer's close frame, nothing from a cleared reader; a complete handshake closes the connection and every call returns |
| net_conn | 3 frames of 2 bytes together, limit 1, 1 deadline | messages whole and in order, the limit exact, the adapter a stream, no call that outlives its deadline or Close |
| event_loop | 2 connections, 1 active user, 2 frames, 1 call of a handler or of the administrator | a handler's payload and middleware stay, none runs after close(), calls return |
| timer | 2 clients, 3 TimerData, times to 3 | free list, refinement of TimerService, no lost wake-up |
| heartbeat | 2 connections, one without an interval, 2 calls, 6 ticks | TimerData kept apart, exact bound for a silent peer |
| algorithms | heaps of 6, payloads of 11 bytes, windows of 3 over 8 bytes, reader buffers of 2 over 4 bytes, every pair of ends and headers listed, 2 connections with 6 buffers | each algorithm against its reference, for every input of its size |

The properties, by what they guard:

- *Frames*: `OneFrameWriter` (no two goroutines between lock and end of a frame,
  although the mutex is released twice), `SilentAfterCloseSent`, `CloseFrameLast`,
  `FramesWhole` (a frame cut by a failing transport is the last), and the
  refinement `ImplementsStream`.
- *Contexts*: `WatchedContextIsInUse` and `WatchedContextIsReading`: what
  timeoutLoop watches belongs to a call in progress, so that a context that
  expires late closes nothing.
- *The read side's locks*: `OneReader`, `ReaderClosedUnused`,
  `CloseFrameIsLast`, which is about frames: for bytes see
  `AdditionalCloseReadsNothing` below.
- *Messages*: `MessagesInOrder`, `LimitExact`, `ImplementsByteStream`.
- *Ends*: `ControlReturns`, `CloseUnblocks`, `HandshakeCloses`, and `CallsEnd` and
  `CallsReturn`, which say it of closing, of the adapter and of event mode.
- *Events*: `PayloadIntact`, `ClosedIsQuiet`, `MiddlewareStable`.
- *Timers*: `DataExclusive`, `ArmedIsServed`, `ImplementsService`, `HeapExact`,
  `FreeUnused`, `HeartbeatServed`, `SilentPeerDetected`.
- *Algorithms*: `FrameRoundTrip`, `MaskingExact`, `CompressExact`, `BytesInOrder`,
  `ErrorsInOrder`, `EndsAgree`, `OnlyWhatWasOffered`, `RingEven`,
  `BuffersExclusive`.

Most modules keep their type invariant as the first conjunct of one of these.

Why the bounds are enough: the hazards of the write side need one goroutine in
`writeFrame`, one that closes and one that takes the lock that is released
twice: three goroutines and calls. A mixed message needs two goroutines and a
fragment. The read side's double unlock needs the reader of the close frame, a
goroutine that takes the lock in between and one in close(): the three of
close_handshake; two frames put a data frame, a ping or a violation before the
close frame; the theorems of section 5 cover every number of closers, calls and
frames. A message of three frames has a first, a middle and a last one, and a
limit of 1 has messages below, at and above it in two bytes. In event_loop two
connections are what a shared lock needs, and the deadlocks found need one call
of a handler. Six TimerData give a heap of three levels with both one and two
children, in which removal must sift up as well as down. Eleven bytes hold two
turns of a key and a rest. Lengths, codes and reasons are taken from both sides
of every border of the encodings. The bound of `SilentPeerDetected` is tight in
its instance (with `<` for `<=` TLC finds a counterexample), and six ticks are
more than it. Every property has a mutation of the code's definitions that breaks
it under the run's own configuration.

Runs that end in a violation, each of a statement the repository makes:

| run | what TLC shows |
|---|---|
| frame_writer_repeat | a second Close of a Writer ends another goroutine's message |
| close_handshake_dict | a close frame inside a compressed message makes Read use a nil dict |
| heartbeat_default | with the proportions of EnableHeartbeat's defaults (30 s, 10 s) an idle connection is closed before any ping |
| read_truncated | a transport that ends in the middle of a message is taken for the end of the message |

The modules state more than these runs check. Each of the following is false of
the code; the configuration named, with only that property, shows a
counterexample in a few seconds to a minute and a half:

| statement | how to see it | what happens |
|---|---|---|
| `ErrorClosesConnection` (FrameWriter; `conn.go:41`) | INVARIANT in FrameWriterLive.cfg | a context that expires at a mutex fails its call and leaves the connection open |
| `ReturnedBufferUnused` (FrameWriter) | INVARIANT in FrameWriterLive.cfg | the write buffer goes back to its pool while a goroutine writes from it |
| `CloseFrameLast` on a server | `Client = FALSE` in FrameWriter.cfg | a frame follows a close frame that was left in the buffer |
| `CloseReturns` (CloseHandshake; `close.go:87`) | PROPERTY in CloseHandshake.cfg with `FairSpec` | a peer that stops in a payload holds Close for ever: its five seconds are not watched while it discards (`close.go:182`, `close.go:194`) |
| `AdditionalCloseReadsNothing` (CloseHandshake; `close.go:91`) | PROPERTY in CloseHandshake.cfg | a reader has taken a header and left its payload; one Close discards it, receives the peer's close frame and releases `readMu`; before its close(), another Close, for which `payloadLength` is what it was, discards as many bytes again from behind the close frame (`close.go:181`), where the doc calls it a no-op |
| `CloseAlwaysReturns` (EventLoop) | PROPERTY in EventLoop.cfg | a handler that writes to a stalled peer holds the shared lock, a Use waits for it, and close() of any connection waits behind Use before it closes the transport that would end the write (`event.go:54`, `conn.go:318`, `conn.go:336`) |
| `EndedLoopClosed` (EventLoop) | INVARIANT in EventLoop.cfg | a read loop that a handler's error ended leaves its connection open and unread (`conn.go:263`) |
| `StopEndsGoroutine` (Timer) | PROPERTY in Timer.cfg | Stop leaves the timer's goroutine waiting for ever |
| `AllReturned`, `NeverPanics` (BufferPool) | INVARIANT in Algorithms.cfg | the decompression buffer is never returned; Close during a Read calls a nil pool |
| `FreeUnused` with `Preempt = TRUE` | Heartbeat.cfg | DisableHeartbeat or Close racing with the callback frees a TimerData in use |
| `HealthyStaysOpen` with SecondTicks = 4, Interval = 1, Timeout = 3 | HeartbeatDefault.cfg | a timeout of less than a second counts as zero |
| `HealthyStaysOpen` with a second, silent connection | HeartbeatDefault.cfg, Interval = 2, Timeout = 4, SecondTicks = 2 | the silent peer's ping and closing handshake delay, and so close, a healthy connection on the same timer |
| `HealthyStaysOpen` with the connection in `Plain` and MaxCalls = 1 | the same times | SetHeartbeat on a connection without an interval closes it at the first heartbeat |

With two healthy connections and Interval = 2, Timeout = 4, SecondTicks = 2,
RoundTrip = 2 `HealthyStaysOpen` holds: the timeout must cover the interval and
the other connections' round trips, in whole seconds.

Met while reading the code, and described by no property:

- A user that asks for the next message when the last frame's payload is unread
  is let through, in the middle of that payload: Reader looks at `fin` only
  (`read.go:447`; the doc says the message must be read to EOF, `read.go:25`). The
  users of NetConn keep to the doc.
- A message beyond the limit fails the Read and writes a close frame, and leaves
  closing to the user (`read.go:591`; doc `read.go:116`).
- A close frame that arrives in the middle of a message loses its status: the
  error becomes one without it (`errors.go:166`).
- A timer's callback that comes late, after SetDeadline has stored 0, sets the
  expired flag again and the new deadline starts expired (`netconn.go:60`).
- The adapter's Close cancels the context of a Read in progress, which closes the
  connection before the handshake (`netconn.go:116`; doc `netconn.go:28`).
- The bytes a failing ReadFull has read are returned still masked on a server
  (`read.go:555`).
- Bytes the client sends before the hijack has ended stay in the server's own
  reader: the connection's reader is made from the bare transport
  (`accept.go:141`).
- The answer 101 is written before the Hijack that may fail.
- The options of a compression mode are not tied to the other end's mode as
  `compress.go:48` puts it; Negotiation has what the code does.
- `close.go:94` allows a reason of 125 bytes; 123 fit (`FrameRoundTrip` checks
  both).
- `nextPowerOfTwo` doubles a size that is a power of two already.

## 4. Fairness

FrameWriter: each goroutine's own steps are weakly fair together (Go schedules
every runnable goroutine); a user that opened a Writer closes it or gives up
after an error; the calls that write a control frame have a deadline that passes
(`write.go:242`); a transport that is closed fails the write in it. A
transmission on an open transport is **not** fair: a peer need not read, which is
why `ControlReturns` says something.

CloseHandshake: the same for its goroutines and close(), the five seconds of a
closing handshake pass, a read from a closed transport fails. The context of a
read need not expire and the peer need not send. `FairPeerSpec` adds that a peer
sends the payload of a frame whose header it sent; without it `CloseReturns`
fails (section 3).

NetConn: calls go on, callbacks that were started run, timeoutLoop closes a
connection whose context is done, a write on a closed connection and Conn.Close
end. Peers may stop sending and a deadline need not be set.

EventLoop: goroutines run and the code of a handler ends; a write returns for
sure only when its transport is closed. Peers and users may stay silent.
`CallsReturn` excepts the behaviours in which a handler never returns, and only
those: `CloseAlwaysReturns` shows that the exception is needed.

Timer: the goroutine runs, callbacks return, the runtime's timer fires, time
passes.

## 5. What is proved

For every value of the constants, from the named assumptions of each module.

**FrameWriter_proofs** (any set of goroutines, any kinds and number of calls,
both ends):

- `TypeCorrect`: `Spec => []TypeOK`.
- `FrameWriterExclusion`: `Spec => []OneFrameWriter`.
- `SilenceAfterClose`: `Spec => SilentAfterCloseSent`.
- `WatchedContextIsInUseAlways`: `Spec => []WatchedContextIsInUse`.
- `FramesWholeAlways`: `Spec => []FramesWhole`.
- `CloseFrameLastOnClient`: `Client` implies `Spec => []CloseFrameLast`.
- `MessagesWholeOnClient` and `StreamImplemented`: `Client` and no repeated Close
  imply `Spec => []MessagesWhole` and `Spec => ImplementsStream`.

`OneFrameWriter` is not inductive. A goroutine that finished the closing
handshake releases `writeFrameMu` at `write.go:338`, another may take it, and the
first one's deferred unlock releases it again under the second. What saves the
code is that the early unlock happens with `closeSentErr` set, so that the
goroutine that takes the mutex then stops at the check before it writes. The
invariant `WriterInv` says so: a goroutine that writes holds the mutex and is
alone, or it is past the early unlock, and then `closeSent` is true and every
other goroutine between lock and unlock is at the check or beyond its frame.
`SilenceAfterClose` follows from the same invariant: only a goroutine that writes
changes `out` or `sent`, and none writes once `closeSent` is set.

A context that timeoutLoop watches is that of a goroutine that writes, or that
closes the connection before its deferred reset (`WatchInv`). The last unit in the
buffer belongs to the goroutine inside its frame, and once the bufio.Writer has
an error nobody is inside a frame (`BufferInv`): a header without its payload is
therefore followed by the owner's payload or by nothing. A close frame stays in the
buffer, with `closeSentErr` not set, when the check of `closedFlag` after its
payload stops the frame before the flush; another frame may then be buffered
behind it. On a client the transport below the buffer is `safeRWC`, which refuses
once `closedFlag` is set, and nothing is transmitted any more (`CloseInv`). On a
server it is the bare connection, and section 3 says what happens.

The refinement needs the order of a message's frames. Its two hypotheses are what
the code needs: on a server a frame may follow a close frame, and a Writer that is
closed a second time ends another goroutine's message (section 3). `ShapeInv` says
who has the message: the one call that is past its lock of `msgWriter.mu`, which
writes its frames with `msgWriter.opcode`, while all other calls write control and
close frames. `OrderInv` relates that to the buffer: as long as the connection is
open and the bufio.Writer has no error, the frames in the buffer are in order, and
`opcode` says "continuation" exactly when the last data frame is the holder's and
is not final, its present frame counted in once its payload is in the buffer
(`Begun`). A message that fails in the middle stays open for good, so this cannot
be claimed afterwards; what has been transmitted, and what a transmission in
progress is about to add, is in order always. That nobody begins to transmit once
the connection is being closed (`TransmitOpen`) joins the two. The mapping takes
every second unit on the wire, so a step that transmits half a frame maps to a
stutter, and a flush to one Deliver of several frames.

**CloseHandshake_proofs** (one reader, any number of closers, calls and frames,
any kinds of frame, both ends):

- `OneReaderAlways`: `Spec => []OneReader`, type correctness included.
- `ReaderClosedUnusedAlways`: `Spec => []ReaderClosedUnused`.
- `CloseFrameIsLastAlways`: `Spec => []CloseFrameIsLast`.
- `WatchedContextIsReadingAlways`: `Spec => []WatchedContextIsReading`.

Again the mutex alone does not do it: the goroutine that reads a close frame
releases `readMu` at `read.go:424` and `read.go:427` and once more in its
deferred unlock, each time perhaps under another owner. `ReadInv` has seven
parts. Until the peer's close frame is marked, `readMu` keeps its owners apart
(`OwnerInv`). The release before the answer happens only if no close frame was
sent; a goroutine of Close that has the lock has sent one (`SentInv`), so the
goroutine that marks the close frame in that case is the reader, and it has read
its payload to the end (`FrameInv`): in that case no payload is pending, so that
nobody discards one, and whoever gets the lock stops at the check of
`closeReceivedErr`. In the other case a payload may still be pending, and another
Close may discard it once more; but then the first release of `readMu` is the
owner's and the next comes after close() has begun, when nobody gets the lock any
more, so that this Close reads alone (`ReceivedInv`). Once msgReader.close has the lock, the connection is closed and
nobody gets the lock any more (`OnceInv`, `ClosedInv`). `CallInv` says which call
a goroutine is in. TLC checked `ReadInv` on instances of two and three closers
before it was proved. Each part has a lemma with a step per action. The
context of a read is taken by `prepareRead` and given up by its deferred
function, in one goroutine and between two points of it.

**NetConn_proofs** (any frames of a peer, both users, any limit, reads and
deadlines; `Limit` may be any integer):

- `TypeCorrect`: `Spec => []TypeOK`.
- `NothingLostNothingMixed`: `Spec => []MessagesInOrder`.
- `LimitIsExact`: `Spec => []LimitExact`.
- `AdapterIsAStream`: `Spec => ImplementsByteStream`.

What was read and what was sent are far apart: the queue of frames and bytes in
between may hold anything a peer may send, and its headers say how long a payload
will be. `AlignedInv` bridges them with a witness: a sequence of positions
(message, fragment, bytes of the frame ahead, bytes of the message behind), one
before and one after each element of the queue, of which the first is where the
reader is, the last where the peer is, and each follows from the one before it by
the element between them. A peer's step appends a position, a step of the reader
drops the first, and both keep every other. It is only claimed until the reader
has met an error or closed the connection (`Over`); what was read before then
stays. `LimitInv` says that the bytes read of a message and those that may still
be read are the limit and one more, which is the byte that shows that a message
is too long. `StreamInv` has the bytes that a Read has taken and the adapter has
not returned yet, which the refinement mapping leaves out of ByteStream's
`delivered`.

**EventLoop_proofs** (any connections, users and administrators, any nesting of
handlers and calls):

- `HandlersKeepTheirPayload`: `Spec => []PayloadIntact`.
- `NoHandlerAfterClose`: `Spec => []ClosedIsQuiet`.
- `MiddlewareStaysUnderDispatchers`: `Spec => []MiddlewareStable`.

`readMu` is released twice by the goroutine that received a close frame, and a
handler may call back into anything, so neither lock nor stack alone protects
`readControlBuf`. `ConnInv` says, for each connection: until a close frame is
received, the one call that is in the guarded part holds `readMu`, and close() has
not returned (`HoldInv`); the frame it will dispatch is the one in the buffer
(`ReaderInv`); and a handler of a frame runs directly above the call that read it,
which waits at that frame, with no close frame handled yet (`HandlerInv`). A step
that pushes a call, one that pops a call and one that changes the top of a stack
each have a lemma, and so has every action. `MwInv` is about the shared lock: a
Use is the innermost call of its goroutine; who waits in Lock or has it is
`writer`, so that no dispatcher begins; who has it saw the last dispatcher leave;
and each dispatcher that runs finds the middleware of its RLock. All actions but
RLock and the three of Use leave it alone (`Calm`).

**Timer_proofs** (any clients, any number of TimerData and size of a batch, any
delays and instants):

- `DataHasOneOwner`: `Spec => []DataExclusive`.
- `TimersAreAService`: `Spec => ImplementsService`.
- `HeapStaysAHeap`: `Spec => []IsHeap(Heap)`, and `HeapOperationsExact`: what `add`
  and `del` do to a heap of any size, from any place in it.

Three parts. *The heap*: between two turns of `up`, every element but the one that
rises is in order with its parent, and the children of the one that rises with
its parent (`UpOrdered`); `down` has the mirror image of it (`DownOrdered`). Each
turn keeps this, swaps two elements and their indices, and moves on; a loop that
runs as many turns as the heap has elements ends in order. From there, `add`, `del`
from any place and `set` keep `IsTimerHeap`, and insert, remove and retime one
element. *The free list*: the invariant `LinkedFree` (below). *The refinement*: a
client's `deadline` in TimerService is the expiration of its TimerData if that is
in the heap (`Due`); Add, Set, Del and an expiry map to arming, cancelling and
calling, and the steps of the goroutine between them to stutters. That the
earliest is called first is the order of the heap, and that a cancelled client is
not called is that an element of the heap belongs to the client it will call
(`HandlesOwned`, `HeapHeld`).

**Heartbeat_proofs** (any connections, TimerData, intervals, timeouts and times;
`Preempt = FALSE`):

- `FreeDataUnused`: `~Preempt` implies `Spec => []FreeUnused`.
- `HeartbeatsServed`: `~Preempt` implies `Spec => []HeartbeatServed`.
- `SilentPeersDetected`: `~Preempt` implies `Spec => []SilentPeerDetected`, for any
  finite set of connections.

The hypothesis is the part of the behaviours in which nobody is preempted between
two waits; with `Preempt = TRUE` both are false of the code (section 3). `Serial`
is that restriction as an invariant: one goroutine at most is not at a wait.
`RegCurrent` is what the race breaks: what a goroutine has read from
`heartbeatTimerData` is still there when it deletes or reschedules it. `FreshApart`
keeps a TimerData that SetHeartbeat has added, and not assigned yet, apart from
those of all connections, `OwnersDiffer` and `HeldByOwner` those of two connections
from each other, and `Served` says that an open connection's TimerData is in the
heap or its callback is running.

`SilentPeersDetected` bounds a time by what all the others on the same timer may
take, one after the other, each a ping that times out and a closing handshake.
`QueueInv` is that bound as an invariant: for each TimerData in the heap of an open
connection, the time at which the timer's goroutine will be free, plus the longest
callback for each TimerData ahead of it, is not later than its expiration by more
than the bound allows. An expiry takes one TimerData out and adds at most one
longest callback to the time at which the goroutine is free; a callback that is
rescheduled goes behind all that are due. `ClocksInv` ties an expiration to when
the peer was last heard, `CallbackInv` says what the running callback knows of its
peer at each of its waits, and `SlotsInv` that no connection is in the heap twice,
so that at most `Cardinality(Conns) - 1` are ahead.

**Algorithms_proofs** (one theorem or two for each of six modules):

- `BuffersExact`: `CompressSpec => []CompressExact`, any set of bytes, any writes,
  any capacity of the window.
- `PiecesMaskedExactly`: `MaskSpec => []MaskingExact`, any length and pieces.
- `BothEndsAgree`: `NegSpec => []EndsAgree`, and `NothingBeyondTheOffer`:
  `NegSpec => []OnlyWhatWasOffered`, any lists of subprotocols and extensions.
- `ReaderLosesNothing`: `ReaderSpec => []BytesInOrder`, and `ErrorsComeLast`:
  `ReaderSpec => ErrorsInOrder`, any capacity of the buffer, source and calls.
- `FramesReadBack`: `FrameSpec => []FrameRoundTrip`, any set of headers, with
  lengths of 63 bits, and any codes and reasons.
- `BuffersHaveOneOwner`: `BufferPoolSpec => []BuffersExclusive`, any connections,
  any size of a batch and number of buffers.

Their inductive invariants: *Compress*, that what was passed on and the tail held
back are together what was written (`TrimInv`), and that the window is the end of
everything read, as long as its capacity allows (`WindowInv`). *Masking*, that the
key of each side is the first key turned by the number of bytes behind it, modulo
four. *Negotiation*, what each of the four steps leaves: an answer of this
library holds what it selected from the request, an answer accepted by this
library passed its checks, and a foreign end's connection is what its header
says. *BufioReader*, that the buffer's bytes continue those taken and end those
the source gave (`BufferOK`); a Discard that has skipped some bytes and has to read
more has skipped those taken last, and fewer than it was asked for (`OpOK`), or the
byte it returns last would not be the one before the buffer. *BufferPool*, the free
list and which buffers a connection has in each part of its life (`BuffersMade`).
*Frame* needs no invariant beyond what was chosen: `HeaderRead` takes the written
bytes apart again, for whatever bytes follow them (`FirstByteRead`,
`SecondByteRead`, `LengthRead`), `PartNotRead` says that a header cut short is an
error wherever it is cut, and `CloseParsed` and `CloseAnswered` do the same for the
payload of a close frame and for its echo.

**FreeList_proofs** has no theorem of the system: it is what Timer and BufferPool
share. `PoolOK(Owners, Max, free, next, allocated, holds)` is their invariant: the
links from `free` are those of some sequence without repetition (`IsLinked`) of
which nobody holds an element, no two owners hold the same one, and what was not
allocated is in neither place. `PoolTakes`, `PoolPuts` and `PoolForgets` are Get,
Put and a reference that is dropped; a Get of an empty pool first links a batch
(`Batch`). The models follow the links with a function that walks `MaxBuffers` or
`MaxData` steps; `WalksList` says that the walk visits the elements of the sequence
and then stays at nil.

The loops of the models are recursive functions of a natural number. A definition
of one says nothing to the prover until the function is known to exist, and the
library's induction theorems take an operator as a parameter. `SetInduction` is
induction over a set of naturals, proved from the library's theorem that the
order of the naturals is well founded: a set that holds 0 and with each number the
next holds all. It gives the existence of `up`'s and `down`'s loops and of the
walks, and what they preserve.

Assumptions on constants are those named in the modules: sets and names apart
from each other, bounds that are naturals, a batch that is not empty, a time that
is not Forever, a list that is a list. `ReadersAssumption` is the only one about
use (section 2).

Only model-checked:

- liveness, which needs fairness and ENABLED: `ControlReturns`, `CloseUnblocks`,
  `HandshakeCloses`, `CallsEnd`, `CallsReturn`, `ArmedIsServed`;
- `HeapExact`, stated in MCAlgorithms of one heap, which `HeapOperationsExact` proves
  of the operators: MCAlgorithms reaches Bitwise, which a module with proofs may not;
- `RingEven`, which rests on the bits of a number, through Bitwise as well.


## 6. Plan

In the order of what it adds:

1. The flate readers and writers with their pools: `resetFlate`, `close` and two
   connections, and a compressor that fails in the middle of a Write.
2. CloseRead, and several Pings at once with `activePings`.
3. On* and Use during the handshake of a second connection.
4. ReadLine and ReadFrom of the bufio package.

## 7. Not modelled

- DEFLATE (a dependency of the library), HTTP and TLS (the standard library): the
  bytes a compressor makes and the headers a request carries are inputs.
- The flate readers' own state, and compression in MessageReader: a compressed
  message is a message there; the window and the trimmed tail are in Compress,
  the pools in BufferPool.
- A compressor that fails: it would have to be a fault of the dependency.
- CloseRead: a goroutine that calls Reader once and then Close, as a reader of
  CloseHandshake may; its own Close waits fifteen seconds for that goroutine to
  end (`close.go:204`) and then goes on.
- Several Pings at once: each has a channel of its own in `activePings`.
- The masking in assembly: the call is commented out (`mask_asm.go:6`), `maskGo`
  is what runs.
- Metadata (a map under a lock), the JSON helpers and internal/writer (no state),
  timer durations (parsing for a configuration), the names and wrapping of errors
  except where they decide what a caller does (Reader's and Read's errors).
- The connection in a browser (`ws_js.go`): a wrapper of the browser's WebSocket.
- Examples, benchmarks and test support.

PROJECT.json gives the reason for each component.
