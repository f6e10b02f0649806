# Verification of kylea

kylea is a small C++ network library on Boost.Asio and OpenSSL, with a server
program, a client program and an HTTP client program. Its core is
`Net::Session`, one TLS connection driven by handlers that run on the threads
of a pool. This directory holds TLA+ models of that core, the instances TLC
checks, and proofs that TLAPS checks.

Paths below are relative to `src/src/`. Line numbers are in `PROJECT.json`:
its `map` names, for each definition, the lines it stands for.

## 1. Inventory

| Component | State | Operations | Modelled in |
| --- | --- | --- | --- |
| `Net::Session` (`utils/Net/src/Session.cpp`) | `isConnected_`, `writeQueue_`, `lastTimeRead_`, a TLS socket, a read timer, three strands | `open`, `close`/`drop`, `cancelAllPendingOperations`, `send`, `ping`, `pong`; handlers of handshake, header, body, write, read timer | `Session`, `WriteQueue`, `SessionProperties`, `SessionPromise` |
| `Net::Server` (`Server.cpp`) | the acceptor, the thread pool | `start`, `accept`, `handleAccept`, `stop` | `Server` |
| `Net::SessionManager` (`SessionManager.cpp`) | `sessions_`, a strand | `join`, `leave`, `forEach` | `Server` |
| `Net::Client` (`Client.cpp`) | one session and one timer per request | `request`, `kill` | `ClientRequest`, client role of `Session` |
| `Net::ClientHTTPSession` (`ClientHTTPSession.cpp`) | `isConnected_`, `writeQueue_`, a TLS socket, two strands | `open`, `close`/`drop`, `send`; handlers of handshake, read, write | `HTTPSession`, with the program `http_client` around it |
| Framing (`Message.cpp`, `MetaMessage.cpp`) | a header (crc, payload's crc, size, type) and a body | build a frame, `verifyHeader`, `verifyBody`, `fitToSize` | `Framing`; what a reader tells apart, in `Session` |
| `Timer` (`utils/Misc/src/Timer.cpp`) | a deadline timer, `timerHandle_`, a strand | `start`, `shedule`, `cancel` | `Timer`, used by `ClientRequest` and `PeriodicTimer` |
| `ThreadPool` (`utils/Misc/include/ThreadPool.h`) | a work guard, threads | `run`, `stop` | `ThreadPool`; elsewhere the scheduler of every model |
| `BufferProvider`, `Buffer`, `BufferLock` (`utils/BufferProvider`) | a list of buffers, each busy or free | `get`, `reset`; a lock resizes and frees its buffer | `BufferPool` |
| `HandlerMapper`, `RandomNumberGenerator` | an interface; a random period | `onReceived`; `next` | inputs of `Session` |
| The programs' `main.cpp` | | the handlers they pass to the library; console and signals | handlers in `Session`, `ClientRequest`, `HTTPSession` |
| `SharedCreator`, `proto/auth.proto` | | factories, generated code | not modelled |

**How they interact.** Everything happens in handlers that `io_context::run`
executes on the threads of the pool. A strand serialises its handlers; handlers
of different strands run concurrently. A session uses three:
`socketStrand_` (socket operations), `readStrand_` (payloads on their way to
`receiveHandler_`) and `readTimerStrand_`. `Server` opens a session when a
connection is accepted; the session calls `SessionManager::join` when its
handshake succeeds and `leave` when it closes. The server program answers each
payload, so `send` is called on `readStrand_`. `Server::stop` runs on a thread
outside the pool, closes the acceptor, has the manager close the sessions on
the manager's strand, and waits for the pool. `Client::request` connects, opens
a session in client mode, sends one payload when it opens, drops the session on
the answer, and starts a `Timer` that cancels the session's operations;
`Client::kill` waits for the pool. `http_client` resolves, connects, opens one
HTTP session and sends one request from its open handler. `BufferProvider` is a
library no program here links.

**What is hard.**

* `isConnected_` is a plain `bool` that three strands and the owner read and
  write. `close()` tests it and then sets it, so two calls can both pass; and
  `handleHandshake()` sets it to true without looking.
* `send()` decides from the emptiness of `writeQueue_`, under `queueMutex_`,
  whether to start a write; `handleWrite()` pops the front without knowing
  which message it completed; Ping and Pong jump the queue; `close()` clears
  it while a write is in progress.
* The read timer is cancelled and restarted by posts to its own strand, while
  its expiry runs on any thread and only then posts to that strand.
* Errors come in two kinds. `operation_aborted` makes a handler stop silently,
  every other error closes the session: whoever cancels must also close.
* Anything that waits for a peer may wait for ever, and `ThreadPool::stop`
  waits for all of it.
* `Timer::cancel` is queued: an expiry may be in front of it, or behind it,
  and a scheduled tick restarts the timer from inside its handler.
* An exception in a handler leaves `io_context::run`, and whatever the handler
  had still to do is not done.
* `~BufferLock` is two unsynchronised writes, while `get` and `reset` hold a
  mutex. The header of a frame states a size that was taken at `send`, in 32
  bits.
* `handleAccept` must ask for the next connection on every path but one.

The hazards, each with its line and the properties that guard it, are in
`PROJECT.json`.

**What makes each component correct.**

* Session: one write at a time, and of the front of the queue; a queue that is
  not empty has its write under way; payloads leave in the order of `send`;
  every read is guarded by the timer, and a silent peer is dropped, after a
  ping; a closed session stays closed; `closeHandler_` is called a bounded
  number of times.
* Server and manager: one `async_accept` at a time while the server runs; the
  list of sessions is exact; `stop` reaches every open session and returns.
* Request: the caller is told; an answer in time silences the timer; `kill`
  returns.
* HTTP session: as the session's write queue and `close`; a session that counts
  as connected is at work, one that is closed is let go.
* Framing: the reader sees the payloads that were sent, and stays in step.
* Periodic timer: one round at a time; after `cancel` at most one tick, then
  silence.
* Pool: no thread is lost to an exception; `stop` runs all that was started.
* Buffers: a buffer has one owner, the pool its bound, a held buffer survives
  `reset`; a settled buffer has as many bytes as it says.

## 2. The models

### `Session`, with `WriteQueue`

One step is one handler, with every call it makes, except that **`close()` is
two steps**: `CallClose` posts the cancels and reads `isConnected_`, and
`CommitClose` sets it to false and posts the handler that closes the socket. A
context between the two is in `closing`; while it is, its strand is blocked,
and for `handleWrite` (which calls `close()` with `queueMutex_` held) so is
`send` elsewhere. The three strands are the FIFO sequences `socketStrand`,
`readStrand` and `timerStrand`. A socket operation in progress is `reading` or
`writing`; it ends in `CompleteRead` or `CompleteWrite`, which append its
handler to the strand. `socket().cancel()` and `close()` abort operations in
progress, but not one whose handler already waits: `AbortSome` chooses which
operations are `doomed`, as an operation may have ended already.

Abstractions: a payload is the number of the frame it came in; an answer
carries the number of its question. A frame is what the handlers tell apart
(its type, whether its size is 0, whether `verifyHeader` and `verifyBody`
accept it). Time is counted in periods of the read timer (`Periods` is what
`randomNumberGenerator_` may draw), `idle` is `now - lastTimeRead_`, cut off
above `MaxTimeOut`. `Role` says who owns the session. `Faults` says what may go
wrong: `"network"` (operations fail), `"owner"` (`Server::stop` closes it, or
the client's timer cancels it), `"memory"` (the allocation in `fitToSize`
throws; the thread goes on, the handler does not). `asked` is a history
variable: a Ping was sent since the peer was heard, at the time `lastTimeRead_`
holds. That variable is set by a handler that waits in the timer's strand, so
the pings that count are those sent after that handler was posted; each of them
has its `restartReadTimer()` still behind it, and for this reason the restart
that follows a ping has a label of its own, `"again"`.

`WriteQueue` is the queue discipline alone: data at the end, Ping and Pong
behind the front, the pop of `handleWrite`.

`SessionProperties` states what must hold. `SessionPromise` is the abstract
specification: what the session promises its owner, with no strands, timers,
Ping or Pong. Payloads may be lost, and the socket may close, only once the
session is `failing`, and that it stays. The refinement mapping is `Promise` in
`SessionProperties`; it has two subtle parts. `Outbox` is the payloads accepted
and neither sent nor lost: the front of `writeQueue_` counts until its write has
ended, not until `handleWrite()` pops it. `Failing` says when a loss is
explained: a context is inside `close()`, or `isConnected_` is false after
`open()`, or the `handleWrite()` of a write that failed waits (which will close
the session, unless it was aborted, and then somebody has closed or cancelled
it), or the request's timer has cancelled. A payload that is dropped while none
of these holds violates `KeepsPromise`.

### `Server`

The accept loop (`accepts` is the `async_accept` calls whose `handleAccept` has
not run), the manager (`sessions`, how often `sessions_` holds each session, and
`strand`) and `stop()` in three steps on the caller's thread: close the
acceptor, post `forEach`, join the pool. A session is seen from outside: it
opens and joins, it closes and leaves, up to `MaxLeaves` times, since that is
what `Session` shows of `closeHandler_` (`CloseHandlerBound`). `late` remembers
sessions that joined behind `forEach`, `deaf` that `open()` threw inside
`handleAccept`, which ends the accept loop.

### `Timer`, with `ClientRequest` and `PeriodicTimer`

`Timer` has the strand, the wait and `timerHandle_`, and the handlers of `start`
and `cancel`. Its two users extend it and say what a handle does.
`ClientRequest` is the one user in this code: `request()`, its connect, open,
close and receive handlers, the time-out, and `kill()`. The session is again
seen from outside; `"quiet"` is a session whose operations were cancelled, with
nothing pending and its socket never closed. `PeriodicTimer` is a user of
`shedule()`: its handle may cancel the timer, ask for another tick, or not, and
others call `cancel()` at any moment. `timerHandle` may be empty when a tick
restarts the timer (`Restart`), which is how `cancel()` stops the schedule. The
names of the two users differ, so that one module, `TimerProofs`, can be about
both.

### `HTTPSession`

The same view of a session as `Session`, over the same `Dequeue`, with two
strands, no timer and no frames: `close()` is two steps, a message is the number
of the read it came in. The owner is `http_client`: `Resolve`, `HandleResolve`
and `HandleConnect` are its three handlers, and the open handler sends the
request. `Replies` says what the receive handler may do; that of `http_client`
does nothing (it would drop the session on an empty message, which a read never
yields), the run allows all three. Its refinement mapping is to the same
`SessionPromise`, with the same `Outbox` and `Failing`.

### `Framing`

The bytes between two sessions. A byte is named by its frame and position, so
that the reader's messages can be compared with what was written. The header
states `Stated(size)`, the size at `send()` cut to the width of the field;
`ResizePayload` is the caller's, who shares the buffer. A header read out of
step is nonsense and may state anything.

### `ThreadPool`

The work guard, threads in or out of a handler, ready handlers and pending
operations, both as counts, and `stop()` in two steps. The `io_context` stops
when nothing is left, and for good (`StopsWithoutWork`).

### `BufferPool`

`Get` and `ResetPool` are one step each, as they hold the mutex. `resize` is two
steps and may throw between them; `~BufferLock` is two, `Free` and `Reset`,
which another thread may see in either order, as nothing orders them.

## 3. What TLC checks

| Run | Instance | Properties | What it shows |
| --- | --- | --- | --- |
| `session_server` | server, every kind of frame, all faults | `OneWriteInFlight` `NoLostWakeup` `ReadIsGuarded` `ClosedIsDisconnected` `CloseHandlerBound` | the write queue, the read timer and `close()` survive every interleaving of the strands with errors, cancels and `Server::stop` |
| `session_keepalive` | server, one payload at most, waits of one or two periods, `MaxTimeOut` of two, a backlog of two | `ReadIsGuarded` `PingBeforeDrop` | the timer goes on after a ping, and gives up only after one that was sent since the peer was heard, though pings, expiries and the frame cross |
| `session_traffic` | server, two payloads, pings in between, no fault | `TypeOK` `FrontIsBeingWritten` `KeepsPromise` | Ping and Pong never displace the front; payloads keep their order and none is lost while the session has not failed; the session implements `SessionPromise` |
| `session_client` | client, every kind of frame, all faults | `OneWriteInFlight` `NoLostWakeup` `ClosedIsDisconnected` `KeepsPromise` | the same for a session that is dropped on its answer and cancelled by the request's timer; it implements `SessionPromise` |
| `session_silence` | server, one payload, network errors and `stop` | `SilentPeerIsDropped` | under fair scheduling an opened session of a silent peer gets its socket closed |
| `server` | three sessions, fair | `TypeOK` `OneAcceptor` `NoZombies` `StopTellsAll` `StopReturns` | the accept loop, the list of sessions; nothing but a session that `stop()` misses, or a connection accepted behind its back, keeps it from returning |
| `client_request` | three answers, `kill()` at any moment, fair | `TypeOK` `CancelIsFinal` `RequestEnds` `KillReturns` | the caller is told; what the cancel of the timer guarantees; what `kill()` waits for |
| `periodic_timer` | four calls of `cancel()`, fair | `OneRound` `OneLateTick` `CancelStops` | the schedule neither dies nor doubles; what `cancel()` guarantees |
| `http_session` | three reads, every reply, network errors, fair | `TypeOK` `OneWriteOfFront` `ConnectedIsBusy` `ClosedIsLetGo` `KeepsPromise` | the write queue and `close()` on two strands; the session implements `SessionPromise`; nothing holds on to a closed session |
| `framing` | three frames, sizes 0, 1, 3 and 4 with a size field modulo 4, fair | `FramesKeepStep` `AllArrive` | sound payloads arrive byte for byte, in order, all of them |
| `thread_pool` | three threads, five handlers or operations, fair | `NoThreadIsLost` `Drained` `StopJoins` | exceptions cost no thread; `stop()` drains the pool and returns when its operations end |
| `buffer_pool` | three clients, three buffers, at most two in the pool | `TypeOK` `Exclusive` `SizeWithinData` | one owner per buffer, whatever `reset()` drops |

**Bounds.** `MaxFrames`: the peer sends one or two frames, then is silent. One
frame reaches every path of the read handlers (with `AllFrames`), two give the
queue a front and a rest, with a ping between. `MaxBacklog`: a new frame, or an
expiry of the read timer, comes only when at most this many handlers wait in
its strand. At 0, frames and expiries still meet any state of the *other*
strands; what is cut off is a peer, or a timer, faster than the pool.
`session_keepalive` has 2, so that an expiry finds the handlers of a frame, of
a ping or of an expiry before it still waiting. `MaxTimeOut` of 0 makes each
expiry a drop, of 1 or 2 makes it a ping first; in the code it is three mean
periods, which only adds pings of the same kind: the handler tells apart no
more than below and above. `MaxLeaves` = 3 is the bound that `CloseHandlerBound` shows.
Three sessions are one to leave, one to stay and one in the accept loop.
`MaxAnswers` = 3 lets an answer come before and after the one that drops the
session. `http_session` has `MaxBacklog` 3: up to three handlers wait in
`socketStrand_` when a read ends, which includes the cancel and close handlers
of a `close()` on the other strand; three reads let an answer be queued behind
one that is being written. In `framing` the sizes are none, one byte, the
largest the field can state and the first it cannot; the header has two bytes,
so that a reader out of step can stop inside one. `MaxHandlers` = 5 is one
handler for each of three threads and two more while they run. A pool of two
buffers for three clients can be full, and the third buffer is what is created
after a `reset()`. Buffers and clients are interchangeable, hence the symmetry,
which no liveness run has.
The models stop when all sessions are used up or the peer is done, so deadlock
is not checked.

**Fairness.** `Session!Fairness`: the pool runs a handler that is ready, a
deadline expires, and an operation that was aborted or whose socket is closed
ends. These are what Asio and the clock provide; nothing is assumed of a peer,
not even that it reads. `Server!Fairness` adds that a session told to close
does so, since `close()` does not wait for anyone. `ClientRequest!FairSpec`
assumes only the timer and that `kill()` wakes up when the pool has ended;
`PeriodicFairSpec` the same of its timer. `HTTPSession!FairSpec` is that
of the session. `ThreadPool!FairSpec`: threads are scheduled and handlers end,
operations need not. `Framing!FairSpec`: what is queued is written, and bytes
that have arrived are read, as TCP and the pool do while nobody closes.

**What the runs do not claim**, because the code does not do it:

* `SilentPeerIsDropped` is checked without the `"memory"` fault: when
  `fitToSize` throws, the session is left without a read and without a timer,
  connected for ever. Nor is it claimed for the client: after the request's
  timer has cancelled, nothing closes the socket.
* `StopReturns` excludes a session still in its handshake (it has not joined,
  so `forEach` misses it, and the read timer does not run yet) and an
  `async_accept` issued after `stop()` closed the acceptor: that one fails with
  `bad_descriptor`, not `operation_aborted`, and `handleAccept` accepts again,
  for ever.
* `onError` and `onSuccess` can both be called, when the timer has expired
  before the handler of `cancel()` runs. A request whose name does not resolve,
  or whose connect hangs, calls neither; `RequestEnds` starts at the handler of
  `async_connect`.
* `OneAcceptor` allows a deaf server: when `open()` throws in `handleAccept`,
  from `set_option` on a connection that is already gone, `accept()` is not
  called again.
* `KillReturns` excludes a connect that hangs, and a session in which an
  operation escaped the cancel of the request's timer.
* `SessionPromise` allows the loss of what is in the outbox once the session has
  failed: `close()` clears the queue, and what is sent afterwards is queued on
  a closed socket. The session fails with its connection, or when its owner or
  a time-out gives it up.
* `OneWriteInFlight` and `OneWriteOfFront` allow one write more for each handler
  of `close()`: it clears the queue beside a write in progress, and the next
  `send()` starts another, on a closed socket.
* `FramesKeepStep` and `AllArrive` promise nothing from the first payload on
  that has 2^32 bytes or more, or that its sender resized after `send()`.
* `ClosedIsLetGo` is about sessions that something closed: an HTTP server that
  falls silent keeps its session, which has no read timer, for ever.
* After `cancel()` a scheduled timer may tick once more (`OneLateTick`).
* A request made after `kill()` may never run (`late` in `Drained`).
* While a lock is being released by one thread, the next owner's `size()` may
  become 0 (`SizeWithinData` speaks of settled buffers).
* A body that arrives slower than `MaxTimeOut` makes the session close although
  the peer sends: `lastTimeRead_` is set at the ends of header and body only.

## 4. What is proved

The theorems hold for every value of the constants that satisfies the module's
assumption: for `Session` any number of frames and any backlog, any period, any
faults, both roles; for `Server` any set of sessions; for `HTTPSession` any
number of reads, any backlog and any replies; for the timer's users any number
of answers or cancels; for `Framing` any number of frames, any sizes, and any
size of the header and of its size field; for `ThreadPool` any threads, number of handlers and
exception handler; for `BufferPool` any clients, buffers, sizes and bound. One
theorem, `PeerIsAskedFirst`, has a hypothesis of its own: no wait of the read
timer is longer than `MaxTimeOut`.

| Module | Theorem | Property |
| --- | --- | --- |
| `SessionProofs` | `TypeCorrect` | `TypeOK` |
| | `ClosedStaysClosed` | `ClosedIsDisconnected` |
| | `OneWrite` | `OneWriteInFlight` |
| | `FrontIsWritten` | `FrontIsBeingWritten` |
| | `NoWakeupIsLost` | `NoLostWakeup` |
| | `ReadsAreGuarded` | `ReadIsGuarded` |
| | `PeerIsAskedFirst` | `PingBeforeDrop` |
| | `CloseHandlerRunsFew` | `CloseHandlerBound` |
| | `Refinement` | `KeepsPromise` |
| `ServerProofs` | `TypeCorrect` | `TypeOK` |
| | `LoopIsSingle` | `OneAcceptor` |
| | `SessionsLeave` | `NoZombies` |
| | `StopReachesAll` | `StopTellsAll` |
| `HTTPSessionProofs` | `TypeCorrect` | `TypeOK` |
| | `WritesTheFront` | `OneWriteOfFront` |
| | `ConnectedWorks` | `ConnectedIsBusy` |
| | `Refinement` | `KeepsPromise` |
| `TimerProofs` | `TypeCorrect` | `TypeOK` |
| | `CancelSilences` | `CancelIsFinal` |
| | `OneRoundAtATime` | `OneRound` |
| | `LastTick` | `OneLateTick` |
| `BufferPoolProofs` | `TypeCorrect` | `TypeOK` |
| | `LocksAreExclusive` | `Exclusive` |
| | `SizesAgree` | `SizeWithinData` |
| `ThreadPoolProofs` | `ThreadsSurvive` | `NoThreadIsLost` |
| | `StopDrains` | `Drained` |
| `FramingProofs` | `FramesArriveInStep` | `FramesKeepStep` |

**Strands.** Every component but the pools has at least one strand, and its
invariants say what waits there. `StrandLemmas` has the vocabulary: a handler of
some kind waits (`Waits`), at most one does (`AtMostOneWaits`), each of one kind
has one of another kind behind it (`Followed`), how many do (`Count`), and no
more do than before (`NoMore`); and what `Append` and `Tail`, the two things
that happen to a strand, do to each. These lemmas need only the order of one
queue, so they are shared by all the proofs below.

**`Session`**, bottom up:

1. *Types.* `TypeOK` is not inductive: a body handler that waits hands out
   the payload numbered `received`, which must not be 0. `TypeInv` adds
   `FrameWasRead`: a body read, or the handler of one that had no error, comes
   after a header.
2. *Opening.* `OpeningInv`: from `open()` to the end of `handleHandshake()`
   there is one handshake, or handler of one, and nothing else that could
   write, read, close or time out (`Quiet`). This is what makes the blind
   `isConnected_ = true` of `handleHandshake()` harmless: no `close()` can
   have come before. The client's cancel may come at any time, and only aborts.
3. *Closing.* `DisconnectInv` follows: a close handler in the strand, or a
   closed socket, means that `isConnected_` is false and that the session is
   not opening, so nothing can set it again.
4. *Writing.* `WriteInv`, while the socket is open: at most one
   `asyncWrite` or `handleWrite` waits, none while a write is in progress, the
   queue is then not empty and its front is the message of that write.
   `send` posts a write only if it finds the queue empty, which by `WriteInv`
   is when none waits; control messages go behind the front. `FrontIsWritten`
   follows. `OneWrite` speaks of the closed socket too, where `WriteInv` says
   nothing; there it is a matter of counting. `FewWrites`: the writes under way
   (`Writes`) are no more than one for a queue that is not empty (`Served`) and
   one for each close handler that has run. A `send` that posts a write makes
   the queue not empty, a `handleWrite` that posts one has just ended one, and a
   close handler, which empties the queue, counts itself.
5. *Waking.* `NoLostWakeup` is not inductive either: an aborted write ends
   without starting the next. `AwakeInv` adds that on a live session nothing is
   doomed and no handler that aborts waits (`Undisturbed`): whoever posts a
   cancel is about to close, the client's timer excepted, which is the
   exception the property makes.
6. *Reading.* `OneRead`: of the handshake and the reads one at most is under
   way, from its post to its handler, so the handlers that post to the timer's
   strand take turns. `GuardInv` is stronger than `ReadIsGuarded`: while a
   connected session reads, the timer runs and no cancel waits for it, or it
   has expired and the handler of that is to come, or its strand holds an
   expiry or a restart that no cancel follows. A handler that starts
   the next read posts its cancel and its restart in that order, and by `OneRead`
   no other handler's cancel comes in between, except one whose `close()` ends
   the obligation; so a restart stands behind the last cancel, wherever the
   expiry and the restarts of pings fall.
7. *Asking.* `AskedInv`: while no ping was sent since the peer was heard
   (`Unasked`), no restart of a ping waits, and a timer that runs was armed by
   the restart that came with the last reset of `lastTimeRead_`, no time having
   passed since; so its expiry is the first, finds one wait gone, and asks. If
   `lastTimeRead_` is still the epoch, nothing has expired. From a reset to its
   restart the timer is at rest (`AtRest`), as the one stands right behind the
   other in the strand (`Paired`), whatever expiries and pings post in between.
   The hypothesis of `PeerIsAskedFirst`, that no wait is longer than
   `MaxTimeOut`, excludes a first expiry that comes too late to ask. Nothing is
   assumed about how fast the pool is.
8. *Closing once.* Every call of `closeHandler_` that has happened, is posted
   or is still to be posted is counted (`Closes`). The contexts inside `close()`
   together are at most three (`Closers`: the handlers of one strand exclude
   each other, and the owner is either of the server or of the client), and
   none is let in after the first has committed, as `isConnected_` stays false:
   as long as it is true, nothing was committed (`Unclosed`).
9. *Keeping the promise.* `Refinement` shows that every behaviour of the session
   is one of `SessionPromise`. It needs the invariants of opening, closing,
   writing and waking and three more. `ReadsOnlyOpen`: frames are read, and payloads wait for
   `receiveHandler_`, only once the session is open. `OrderInv`: the payloads
   wait in the order they were received, all above the last one delivered, and
   a frame that was read but is not yet passed on (`FrameIsDue`) is above them
   all; it rests on `OneRead`, as two read handlers at once could pass theirs on
   in either order. The outbox is the payloads of what is unsent. As the queue
   holds Ping and Pong too, `Payloads` says which payload is the kth: that of
   the Data message with k Data messages up to it. With this definition, which
   has no recursion, the effect of a message at either end of a queue is a
   matter of listing places in order (`Lists`, `PayloadsAppend`,
   `PayloadsFront`) and needs no induction over the queue; `PayloadsEnqueue`
   concludes that a Ping or Pong that jumps the queue moves no payload. As
   `Failing` is read off the state, that a failed session stays so has to be
   shown (`FailingStays`): `FailedStays` says that nothing takes `close()` or the
   cancel back, since `handleHandshake()` finds `isConnected_` still true
   (`ConnectedInv`); `BadEndStays` that the handler of a failed write leaves the
   strand only by failing the session, and an aborted one means, by `AwakeInv`,
   that it has failed before. By `DisconnectInv` the socket is closed only then,
   too (`ClosesFailed`).
   `StepRefines` then maps each step: a write of Data that ends is `Transmit`, or
   `Lose` if it failed, the first handler of `close()` is `Close`, the end of
   the handshake
   is `Open`, with the client's request in the outbox, `receiveHandler_` is
   `Deliver`, with the server's answer in the outbox unless the socket is
   closed; all others (`HiddenStep`) are stutters or `Fail`, those that send a
   Ping or Pong and the end of a write of one included.

**`Server`.** `AcceptInv`: one result goes round the accept loop, with a session
nobody else uses. `SessionInv` follows one session: before it opens the manager
knows nothing of it; an open one is in `sessions_`, or its `join()` waits, never
both; a closed one in the list has a `leave()` waiting, and a `join()` that has
not run has a `leave()` behind it. `StopInv`: `forEach()` is posted once, behind
the `join()` of every session that is open and neither told nor late; that is
what the FIFO order of the manager's strand is for.

**`HTTPSession`.** `WriteInv`, `FewWrites` and `LiveInv` are `WriteInv`,
`FewWrites` and `AwakeInv` of the session, without control messages, plus
`Listening`: a live session reads or has a handler that will. `StartInv`: as
long as `open()` was not called, or when it threw, nothing has happened. The refinement needs three more: what the owner may do
before the session opens (`IdleInv`), that the session counts as connected and
nothing has closed it while its handshake lasts (`HandshakeInv`), and that the messages for
`receiveHandler_` wait in the order they were read, none below what was
delivered (`OrderInv`). `StepRefines` then maps each step: a write that ends is
`Transmit`, or `Lose` if it failed, the handler of `close()` is `Close` the
first time, a message for `receiveHandler_` is `Deliver`, the end of the
handshake is `Open`, the rest are stutters or `Fail`. That a session which has
failed stays so is shown as for the session (`FailedStays`, `BadEndStays`). The queue steps rest on `OpenBox`: while the socket is
open, the outbox is the queue, or what `handleWrite()` will leave of it, since
by `WriteInv` the message being written is its front; so a `send()` appends to
the outbox whether or not a write is under way, and `handleWrite()`, which pops
a message it does not know, changes nothing that was promised.

**`Framing`.** `FramesKeepStep` is about messages already handed on; what makes it
hold is the stream in front of the reader. `StreamInv` describes that stream
byte by byte, and not as a concatenation of frames: behind each byte come the
other bytes of its frame (`Chained`), and behind the last of these the first
byte of the next frame, unless none was written after it. So cutting a header or
a body off the front, or adding a frame at the back, is a statement about single
bytes, and no step needs an induction over frames. `StepInv`: as long as all
payloads so far were sound, the reader has the start of the next frame in front
of it, or, with the header read, exactly its body. `ReadInv` is the property for
the messages that were read; only frames that are yet to be written can be
resized, so nothing that was read changes.

**`ClientRequest`.** `OneTimeOut`: the time-out is in one place, from the post
of `start()` to `onError`. `CancelInv`: the `cancel()` of `receivedHandle` stands
behind the `start()` it is meant for. Both hold because the session reads
nothing before the handler of `async_connect` has run `start()` (`Untouched`).

**`PeriodicTimer`.** `RoundInv`: one round at a time, because the tick is what
posts the next one. `GoingInv`: while nobody has cancelled, the handle is there
and the pending round will call it. `LateInv`: the tick that came late found
`timerHandle_` empty, so the round it started, if any, calls nothing.

**`ThreadPool`.** `Inv` adds to `Drained` why the `io_context` stops (its guard
is gone), why a thread ends (it has stopped, or the exception handler gave up)
and that nothing is late before it stops; the two lemmas about the step that
stops it (`NothingLeft`) and about a handler that ends, by return or by
exception (`HandlerEnds`), carry the proof.

**`BufferPool`.** `Exclusive` is inductive together with the types and the
finiteness of the pool, which the bound needs: a client without a lock has no
write left, so a lock that `get()` hands out makes exactly one new owner, and
the write of `busy_` takes exactly one away. `SizeWithinData` is not inductive,
as `reset()` of the lock before may come in the middle of a `resize()`:
`SizeInv` says that a buffer promises too much only while some client, of this
lock or of the one before, has a write of it left.

Each invariant was first checked by TLC on the instances above.

**Only model-checked.**

* All liveness: `SilentPeerIsDropped`, `StopReturns`, `RequestEnds`,
  `KillReturns`, `CancelStops`, `ClosedIsLetGo`, `AllArrive`, `StopJoins`. What
  holds under fairness, and `ENABLED`, is outside what the prover does.

Every safety property and refinement that a run checks is also proved.
The models use no `RECURSIVE` operator.

## 5. What is assumed or left out

* Asio, OpenSSL and the operating system: modelled by what the code uses of
  them, marked external in `map`. A read may succeed after the socket was
  closed, as the TLS layer may hold the bytes.
* The data race on `isConnected_` is modelled as the interleavings of its reads
  and writes, each atomic; torn values of a `bool` are not.
* Exceptions: an allocation that throws is modelled in `fitToSize` and in
  `Buffer::resize`, `set_option` in `HTTPSession` and `Server`, and any handler
  in `ThreadPool`; elsewhere allocations succeed.
* The read timer's period is drawn from a normal distribution. `Periods` leaves
  out what it yields four standard deviations below its mean (no period at all,
  a ping at once) and eight above it (longer than `MaxTimeOut`, a drop without a
  ping).
* `busy_`, `size_` and `timerHandle_` are read and written whole; a second
  `shedule()` of one timer, which would assign a `function` while a handler
  reads it, is left out.
* `Client` is modelled with one request; requests share only the pool.
* The TLS configuration of `Server::start` and `Client::configure`,
  certificates, logging; the programs' command lines, signals (they call
  `exit()`) and consoles. `http_client` never reaches its `threadPool.stop()`.

## 6. Plan

What is left, in this order:

1. Larger instances of `Session`, with a backlog, for the liveness properties,
   which no proof covers.
2. Several requests of one `Client`, which share its pool, and a second
   `shedule()` of one timer.
