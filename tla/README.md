# Verification of transfer_server

TLA+ modules, TLC runs and TLAPS proofs for the event-driven TCP server in
`src/`: a small muduo-style network library (`include/`, `src/`) and the
message-transfer program built on it (`src/test_multithreads.cc`). Paths below
are relative to the repository.

## 1. The system

| Component | State | Operations | Interacts with |
|---|---|---|---|
| `EventLoop` | `quit_`, `pendingFunctors_` (under `mutex_`), `callingPendingFunctors_`, the eventfd, `activeChannels_` | `loop`, `quit`, `queueInLoop`, `runInLoop`, `wakeup`, `handleRead`, `doPendingFunctors` | other threads hand it functors; its Poller reports channels; handlers and functors are callbacks |
| `Poller`, `Channel` | `pollfds_`, `channels_`; per channel `fd_`, `events_`, `index_` | `updateChannel`, `removeChannel`, `poll`, `fillActiveChannels` | called by channels in the loop thread; poll(2) |
| `TcpServer`, `Acceptor`, `EventLoopThreadPool` | `connections_`, `nextConnId_`, `loops_`, `next_` | `start`, `newConnection`, `removeConnection`, `removeConnectionInLoop`, `getNextLoop` | the base loop accepts; a connection lives in a loop of the pool; removal goes base loop → connection's loop through functor queues |
| `TcpConnection` | `state_`, its channel, `inputBuffer_`, `outputBuffer_`; kept alive by shared pointers in the map and in functors | `connectEstablished`, `handleRead`, `handleWrite`, `handleClose`, `send`, `shutdown`, `connectDestroyed` | callbacks into the program and into `TcpServer` |
| `test_multithreads.cc`, `RegisterTable` | `registerTable` (address → number of messages so far) | `onConnection`, `onMessage` | removes connections of any loop, sends to all others |
| `AsyncLogging` | `currentBuffer_`, `nextBuffer_`, `buffers_` (under `mutex_`), the logging thread's own buffers, `running_` | `append`, `stop`, `threadFunc` | every thread appends; writes to `LogFile` |
| `LogStream`, `Logging` | per Logger a 4000-byte buffer; per thread the last second formatted (`t_lastSecond`, `t_time`) | the `LOG_` macros: construct, stream, finish, output | every thread; the line goes to `AsyncLogging::append` |
| `LogFile` | the current `FILE`, `writtenBytes_`, `count_`, `lastRoll_`, `startOfPeriod_` | `append`, `flush`, `rollFile` | called by the logging thread |
| `TimerQueue`, `Timer` | `timers_`, the timerfd | `addTimer`, `handleRead`, `reset` | runs in its loop; other threads add through `runInLoop` |
| `Buffer` | `buffer_`, `readerIndex_`, `writerIndex_` | `append`, `retrieve`, `prepend`, `makeSpace`, `readFd` | input and output side of a connection |
| `EventLoopThread`, `Thread`, `Condition` | `loop_`, `started_` | `startLoop`, `threadFunc` | start-up handshake between the base thread and each thread of the pool |

What is hard here: functors handed over between threads and the wakeup that must
not be missed; the two-loop dance that removes a connection while its channel
may still be in the current round of handlers; reuse of descriptor numbers and
of slots in `pollfds_`; buffers that change hands between threads as raw
pointers; quitting while work is queued; files rolled under a wall clock that
may be set; threads that come up, or fail to, while the base thread waits.

What makes each part correct:

* EventLoop: no lost wakeup, functors run serially, once, in order of queueing,
  `quit()` takes effect.
* Poller: its three structures mirror each other; no assert can fail; a disabled
  channel is silent, an enabled one is polled.
* TcpServer/TcpConnection: every connection goes established → removed →
  destroyed exactly once; no channel outlives its connection; a closed connection
  is released; no loop is given a connection before it exists, and `start()` ends.
* Program: the same although the application removes connections too.
* AsyncLogging with LogFile: every line reaches the files once and in order, none is
  doubled or moved whatever fails, files are left behind in time; `stop()` returns.
* LogStream: a line shows its own time and the right numbers, and stays in its buffer.
* TimerQueue: the timerfd is armed while a timer is waiting; Buffer: a byte queue.

## 2. The modules

| Module | Models | State ↔ code | Composition |
|---|---|---|---|
| `Executor` | what `EventLoop.h` promises of `runInLoop`/`queueInLoop`: a serial executor | accepted, run and closed | abstract |
| `EventLoop` | `EventLoop.cpp`: one loop, any threads | one variable per member, the eventfd's counter, `pc` of the loop thread, the threads between push and `wakeup()` (`waking`) | implements `Executor` (`IsFairExecutor`) |
| `Poller` | `Poller.cpp`, `Channel.h`: `updateChannel`, `removeChannel`, `poll` | `pollfds_`, `channels_`, and `fd_`, `events_`, `index_` of each channel; descriptors are numbers, so that −fd−1 is computed as the code does | – |
| `EventLoopThreadPool` | `TcpServer::start`, `EventLoopThreadPool.cpp`, `EventLoopThread.cpp`, `Thread::start` | `started_`, the size of `loops_`, `listening_`, `next_`; how far each thread has come, which tells whether its `loop_` is set; whether the base thread is in `cond_.wait()` | – |
| `TcpServer` | life of connections over several loops | `connections_`, `nextConnId_`, per connection `loop_`, `state_`, channel; per loop its functor queue, batch and active channels | extends `EventLoopThreadPool`: nothing is accepted before `Listen`, and a loop runs once its thread has entered it; a loop is `EventLoop` with the hand-over taken as one step |
| `TransferServer` | `test_multithreads.cc`: `onMessage`, `RegisterTable` | adds the table and the copy of the map a running `onMessage` walks | extends `TcpServer` |
| `TcpConnection` | output side of one connection: `send`, `sendInLoop`, `handleWrite`, `shutdown`, against its destruction | `state_`, writing interest, `outputBuffer_`, the socket's room, the functors of this connection, where each foreign thread is in its call | `outputBuffer_` is the queue that `Buffer` implements |
| `ByteQueue`, `Buffer` | `Buffer.h`, `Buffer.cpp` | `buffer_`, `readerIndex_`, `writerIndex_` as a record that the operations map to the next one | `Buffer` implements `ByteQueue` (`IsByteQueue`) |
| `TimerQueue` | `TimerQueue.cpp`, `Timer.cpp` | `timers_`, the timerfd's countdown and readability, the wall clock, the batch that `handleRead` runs | its functors are run by a loop as in `EventLoop` |
| `AsyncLogging` | `AsyncLogging.cpp` | the buffer pointers as pointers, so that `std::move` of a raw pointer leaves its source | extends `LogFile`, which its thread writes to |
| `LogFile` | `LogFile.cpp`: append, flush, rolling by size and by day | every `File` ever made, with its lines, `writtenBytes_`, how many lines the kernel has for sure and whether `fopen` gave a `fp_`; `count_`, `startOfPeriod_`, `lastRoll_`, `lastFlush_` | – |
| `LogStream` | `Logging.cpp`, `LogStream.cpp`: a line from the macro to `g_output` | `t_lastSecond`, `t_time` per thread; the Logger's buffer as pieces, with `cur_` in bytes | its output is a line of `AsyncLogging` |

`*_proofs` modules hold the theorems about the module they extend. Operators with
"Mutated form" in their comment are variants of the definition that follows them,
with a plausible bug; each property is known to fail for one of them.

Each action is a critical section, a handler or a functor as a whole, except
where another thread can act inside it: `queueInLoop` (push, then `wakeup()`),
`send`/`shutdown` of a foreign thread (test of `state_`, assignment, queueing),
`threadFunc` (take, each write, recycle), a Logger (the second compared, then formatted),
the start of a thread (spawn, publish, loop), `handleRead` of the timers (each callback)
and the dispatcher of `onMessage` (each connection). A failed assert ends the
process; the models note it (`aborted`, `broken`) and stop.

## 3. The runs

| Run | Instance | What it shows |
|---|---|---|
| `event_loop` | loop thread, 2 other threads, 3 functors, 1 channel | no lost wakeup, the loop is a fair serial executor, `quit()` returns |
| `poller` | 3 channels on descriptors 0, 1 and 3, closed and reused | the three structures mirror each other, no assert fails, a disabled channel is silent |
| `tcp_server` | base loop, 2 pool threads that may fail to start, 3 connections | `start()` completes, loops exist before they are used; life cycle without failed assert, dangling channel or leak |
| `transfer_server` | base loop, 1 pool loop, 2 connections | no dangling channel and no leak while `onMessage` removes connections across loops, or a short first message ends the process by an exception |
| `transfer_server_assert` | one loop, 2 connections | violation: a second removal reaches the assert of `removeConnectionInLoop` |
| `tcp_connection` | 2 foreign threads, 2 messages of 2 bytes, room for 3 | order of bytes, writing interest, FIN last and sent in the end |
| `tcp_connection_again` | 1 foreign thread, room for 2 | violation: a failed direct write fails `assert(nwrote >= 0)` |
| `buffer` | bytes 0 and 1, at most 3 readable, `kCheapPrepend` 2, `kInitialSize` 1, 2 extra | byte queue, asserts, bounded memory |
| `timer_queue` | 2 timers, intervals 0 and 2, times 0–3, the wall clock set once | armed, never late, nothing dangling, every timer runs |
| `async_logging` | buffers of 2 lines, 4 lines, files of 2 lines, days of 2 seconds, clock readings 1–3 in any order; any write, flush or `fopen` may fail | order and no loss over the files while writes succeed, no line doubled or moved whatever fails, files rolled in time, `stop()` returns, while at most one buffer fills up |
| `async_logging_alias` | buffers of 2 lines, 6 lines | violation: aliased buffers fail the assert of `threadFunc` |
| `log_stream` | 2 threads, 2 seconds, 16-bit integers at both ends of the signed type, at the upper end of the unsigned one and 0, strings that just fill the buffer | the second shown is the line's own, numerals are right, lines stay in their buffer and keep their newline |

Why the bounds are enough to meet the hard cases: three functors and two callers
give a functor queued before, during and after a batch, by the loop itself and by
others; three channels are the least for a removal in the middle with a swap, and
descriptor 0 is the edge of the −fd−1 encoding; three connections over two loops
wrap the round-robin and overlap two removals with an establishment, and two
threads let one be up while the next is waited for; a message
of two bytes with three bytes of room is cut by the kernel at every place; a
buffer with one writable byte is moved, grown and overrun by `readv` within a few
calls; two timers suffice for "earlier", "later" and "at the same time", with
time 0 as the invalid timestamp; three seconds in days of two, read in any order,
with the day looked at in every second append,
hold a roll for size, a roll for the day, a second roll within a second, and a clock
set back over midnight; the strings of `log_stream` (3958 and 3959 bytes after
40 of header and name, or behind another piece) end within the last 32 bytes of the
4000, where integers and the newline are dropped. `MaxPending` of `TransferServer`
only keeps removals of the same connections from piling up in a queue.

`event_loop`, `poller`, `tcp_server`, `timer_queue`, `buffer` and `log_stream` also
check that the system cannot stop; `TransferServer`, `TcpConnection` and `AsyncLogging` end
when the process aborts or the bound of messages is used up.

**Conditional properties.** Those of `TransferServer` and `TcpConnection` are stated
for a process that has not failed an assert, since the violation runs show that it
can. `AsyncLogging` holds below the load at which a second buffer fills up before
the logging thread has come round; `async_logging_alias` shows what happens
above it. `FinIsLast` and `WritingIffOutput` are stated for a connection whose
channel has not been disabled by `handleClose`. `StartCompletes` excepts a thread
that could not be made, for which `startLoop` does wait for ever; `RollsInTime`
excepts the first second of a file and a clock at or before `lastRoll_`, in which
`rollFile` does not roll; `InOrderOnce` and `EventuallyWritten` are for
writes and flushes that succeed, and where they fail `NeverDoubled` says what is left of
the order; `EventuallyWritten` and `StopReturns` except a failed `fopen`, and
`RemovedIsReleased` a short first message, which end the process.

**Fairness.** Weak fairness of each loop thread and of the logging thread: the
scheduler runs them and callbacks return. Weak fairness of the base thread in
`start()` and of a thread that was spawned, with no help from unasked wake-ups. Weak fairness of a foreign thread
inside a call it has begun. `AddTimerInLoop` is strongly fair because the loop
runs its queued functors after each round of handlers, which is what
`IsFairExecutor` shows of `EventLoop`. Time passes (weak fairness of `Tick`). Nothing
is assumed of peers, callers or the 10 s timeout of `poll()`: that a peer goes on
reading is an antecedent of `ShutdownCompletes`.

## 4. Findings

1. `TcpServer.cpp:71`: `onMessage` removes connections itself, and their channels
   stay enabled until `connectDestroyed`; a connection removed twice, or removed
   and closed by its peer in one round, fails the assert.
2. `AsyncLogging.cpp:33`: moving a raw pointer does not clear it, so that
   `nextBuffer_` keeps pointing to the buffer in use.
3. `TcpConnection.cpp:166`: the assert contradicts the error handling above it.

Seen while modelling and present in the models, but not the subject of a run:
functors of `send` and `shutdown` are bound to the raw `this`
(`TcpConnection.cpp:142`, `:120`) and may be queued when the connection goes,
functors that are pending when `loop()` sees `quit_` are dropped
(`EventLoop.cpp:78`), and a channel enabled again after all its events were
disabled stays ignored by `poll` (`Poller.cpp:74`); a `pthread_create` that fails
leaves `start()` waiting (`Thread.cpp:54`); files that were rolled away are neither
closed nor flushed (`LogFile.cpp:162`); `setLogLevel` has no effect, since the macros
compare `LogLevel()` (`Logging.h:78`), and FATAL lines do not abort (`Logging.cpp:144`).

## 5. The proofs

All for arbitrary constants under the named assumptions (finite bounds are only
natural numbers; nothing is assumed of their size). Two assumptions say more:
`ThreadsAssumption` of `TcpConnection`, that there are finitely many threads, and
`BitsAssumption` of `LogStream`, that no integer is wider than the 64 bits of the
largest C++ type `operator<<` takes.

* `EventLoop_proofs`: `TypeCorrect`, `NoWakeupIsLost`, `BatchesOnlyShrink`, and
  `EventLoopIsExecutor` (step simulation of `Executor`). The invariant adds to
  `NoLostWakeup` what carries it around the loop: `callingPendingFunctors_` tells
  whether the loop is in its functors (`PhaseInv`), and a functor that is pending,
  or a `quit()`, outside of the handlers implies an eventfd that is or will be
  readable (`PendingInv`, `QuitInv`).
* `Poller_proofs`: `TypeCorrect`, `AlwaysMirrored`, `AssertsHold`,
  `DisabledStaysSilent`. `Mirrored` alone does not survive the swap in
  `removeChannel`; the invariant adds that each channel's index leads to its entry
  (`PlaceInv`), that the map is the inverse of `fd_` (`MapInv`), that each entry holds its channel's descriptor, negated if no event is
  wanted (`EntryInv`), and that open channels have distinct descriptors (`OpenInv`).
* `TimerQueue_proofs`: `TypeCorrect`, `AlwaysArmed`, `IsNeverLate`,
  `NothingDangles`. The invariant adds that a timer is in one place (`PlaceInv`),
  and that a timer with the invalid time 0 added by a running callback has had the
  timerfd armed already (`ZeroInv`): without it, `reset`, which then does not arm
  it, would leave it unarmed.
* `Buffer_proofs`: `TypeCorrect`, `AssertsHold`, `MemoryIsBounded`,
  `BufferIsByteQueue`. Lemmas give, for each operation, the contents and the size
  it produces; the invariant adds that the vector is never shorter than
  `kCheapPrepend`, on which `retrieveAll` relies.
* `TcpConnection_proofs`: `TypeCorrect`, `BytesInOrder`, `WritesWhatWaits`,
  `NothingAfterFin`. The invariant joins the last three: the order of bytes survives a
  direct write only because writing is enabled whenever there is output, and FIN is last
  only because no output can come once it is out (`PolledInv`). `TypeCorrect` needs a
  count: a thread between its look at `state_` and the queueing of `sendInLoop` has its
  message reserved, so that the messages and the threads in `send` together keep within
  the bound (`CountOK`).
* `TcpServer_proofs`, about `EventLoopThreadPool`, `TcpServer` and `TransferServer`:
  `LoopsAreReady`, `TypeCorrect`, `NoAssertFails`, `ChannelsStayAlive`, `EndsOnce`,
  `AppChannelsStayAlive`, in three layers.
  * `PoolInv`: loops enter `loops_` one by one, after the look at `loop_`, and threads do
    not go back; the steps of the running server touch only `next_`.
  * `LifeInv` keeps the objects: the vector of functors that is being run holds its
    connections, a handler is due only for a channel in the poller of its loop
    (`RoundInv`), `connectDestroyed` waits in the loop of its connection (`WorkInv`), and
    a connection that has left the map is down or its `connectDestroyed` is on its way
    (`ConnInv`). No part of it says that a connection is removed only once, so it holds of
    the program too, whose `onMessage` removes connections of any loop (`AppInv`).
  * `OnceInv` is what the server alone guarantees: no functor is queued twice
    (`QueueInv`), and each one finds its connection in the state its asserts ask for, so
    that there is at most one about a connection at a time (`FunctorInv`); only
    connections in the map have their events enabled (`StateInv`). `NoAssertFails` and
    `EndsOnce` follow. This is the layer the program breaks (finding 1).
* `AsyncLogging_proofs`, about `AsyncLogging` and `LogFile`: `FilesRollInTime`,
  `FilesAreNamedInOrder`, `LinesInOrderOnce`, `LinesNeverDoubled`, `HandsOutEmptyBuffers`.
  The first two hold under any load, aliased buffers included: each append to the file
  of another day has its place in `count_`, which a roll for size leaves alone (`DayInv`),
  what a file holds is within what is accounted for (`SizeInv`), and the current file
  has the name `lastRoll_`, which only grows (`NamesInv`). The other three are false in
  general (finding 2) and are proved as long as at most `2 * Capacity` lines have been
  appended, for every capacity. Until then one buffer is current, at most one is queued,
  and the logging thread has the others; after the one overflow, from which
  on `nextBuffer_` is an alias, the lines that are left are too few for another
  (`PointerInv`), and files, buffers to write, queued buffers and the current one make up
  the lines in order (`DataInv`), or, once a write has failed, some of them in order:
  whatever a `File` takes of a buffer, and whatever stdio loses of a file, is a `Cut` of it,
  which has no other lines and keeps their order (`SumCut`). The bound is exact for
  `InOrderOnce`: with `Capacity` 2, TLC finds it violated at the fifth line.
* `LogStream_proofs`: `LinesShowTheirSecond`, `IntegersAreShown`, `LinesStayInBuffer`.
  `t_time` shows `t_lastSecond` except while it is being formatted, and a piece that is
  streamed leaves the beginning of the line (`SecondInv`). For the integers, the digits
  of *v* are those of C's quotient and one more, which stand for ten times as much and the
  digit, whatever the sign (`DigitsShow`); *k* digits are enough for 3*k* bits
  (`DigitsShort`), so a 64-bit numeral with its sign and NUL is within the
  `kMaxNumericSize` bytes for which `formatInteger` asks (`NumeralFits`, `LineInv`).

**Inductions.** What `Digits`, `Value` and `FlattenSeq` compute, and that 2^(n+1) is
2 * 2^n, is not a matter of steps but of data. The library's induction theorems have an
operator as a parameter, which the provers cannot instantiate; the proofs take the least
counterexample instead, which exists because a nonempty set of naturals has a least
element (`LeastNatural`, from `WFMin`), show that the recursive function has a solution on
every initial part, that solutions agree, and that together they are the one the
definition chooses. The powers of two come from the number of subsets of a set
(`PowerStep`).

Only model-checked: liveness (`IsFairExecutor`'s fairness, `QuitReturns`,
`ClosedIsReleased`, `RemovedIsReleased`, `ShutdownCompletes`, `EveryTimerRuns`,
`EventuallyWritten`, `StopReturns`, `StartCompletes`), since the prover has neither
ENABLED nor fairness. Every safety property of a passing run is stated by a
theorem, `InOrderOnce` and `AssertsHold` of `AsyncLogging` up to the load given above. `BatchesOnlyShrink` is proved and has no run.

## 6. What is not modelled

* System-call wrappers (`Socket`, `SocketsOps`, `InetAddress`) but for the results the
  handlers act on, `/proc` readers (`ProcessInfo`, `FileUtil`), `StringPiece`, `CerPacket`:
  pure I/O or pure formatting. `codec.cpp` is not called by the program. Of
  `LogStream`, doubles, pointers (`convertHex` has no return statement) and `Fmt`.
* `~EventLoopThread` and `~TcpServer`: the program's server lives as long as the process,
  and the pool never deletes its threads. The latch of `AsyncLogging::start`: the model
  begins when it has returned. `TcpServer::start` from other threads than the base one,
  which `assertInLoopThread` rules out.
* The data races on `connections_` and the register table when `onMessage` runs in
  pool loops: the accesses are taken as atomic. The stale copy of the map is modelled.
* `Buffer::shrink` and `swap` (nothing calls them), the write-complete and
  high-water-mark callbacks (the program sets none).
* The disk: `fflush` hands lines to the kernel, and no property says that they are on the
  disk. stdio is taken to lose what it holds back when a write of it fails, as the GNU C
  library does, and the lines that one `append` loses are taken to be in one piece. The
  very first `fopen` is taken to succeed.
* Thread ids of more than five digits, for which `cacheTid` fails its assert
  (`Thread.cpp:38`): `EventLoopThreadPool` and `LogStream` are about a system whose
  `pid_max` keeps them shorter.
* That `std::copy` in `Buffer::makeSpace` moves bytes within one vector: it copies to lower
  addresses, where an overlap is well defined, so the model copies the old contents.
* `EINTR` and failures of `poll`, `eventfd`, `timerfd` calls, which the code logs.

## 7. Plan

Done, in this order: EventLoop with Executor, Poller, TcpServer, TransferServer,
AsyncLogging, TcpConnection, TimerQueue, Buffer with ByteQueue; then the start-up
(`EventLoopThreadPool`, composed with `TcpServer`), `LogFile` (composed with
`AsyncLogging`) and `LogStream`. Theorems about every module, and for every safety
property of a passing run. Next:

1. Safety halves of the liveness properties: invariants that say what is still on its way
   (for `ClosedIsReleased`: a closed connection has a functor queued that leads to its
   end), so that only the fairness argument is left to TLC.
2. `TcpConnection`: for which sequences of calls the raw `this` in queued functors is
   still valid, as a theorem with the condition the callers must keep.
