# mini_web_server: TLA+ models and proofs

`mini_web_server` is a multi-threaded HTTP/1.x server in C++: a control thread,
a main reactor that accepts, several sub reactors that own the connections, and
an optional thread pool (`-t on`) that builds the responses. This directory
holds TLA+ modules for its parts, TLC configurations that check them on small
instances, and TLAPS proofs of what matters most for every instance.
`PROJECT.json` maps each definition to the lines it models and lists runs,
mutants, findings, hazards and theorems.

## 1. The system

| part | state | operations | talks to |
|---|---|---|---|
| `main`, `Server` | stop flag, `subIdx`, the reactors, the pool | `listenPort`, `start`, `handleNewConnection` (round robin), `stop` (main reactor, sub reactors, pool; each joined before the next) | starts, stops and joins every thread |
| `MainReactor`, `Acceptor` | one loop, the acceptors by port | accept one socket per event, hand it on | `SubReactor::addConnection` through the sub reactor's loop |
| `SubReactor` | one loop, the map `Connections` | `addConnection`, `stop`, removal and timer callbacks | tasks on its loop |
| `EventLoop` | task queue, eventfd, `stop` | `enqueueTask` from any thread; `loop`: poll, handle the channels, the timer channel last, drain the queue, run the tasks | epoll, `TimerQueue` |
| `Channel`, `Epoll` | interest set, `inEpoll` | enable and disable reading and writing, `remove`, `poll`; edge triggered except the listen socket | kernel |
| `Connection` | `state` (connected, peerClose, dead), `working`, two buffers, a parser, a timer id | read callback with the parse loop, write callback, `handleDead`, `stop`, the task that brings an answer back | loop, pool, timer queue |
| `TimerQueue` | timers by id, the timerfd | `addTimer` (60 s), `deleteTimer`, `refreshClock`, `handleRead` | `Connection::handleDead` |
| `ThreadPool` | queue, `stop_`, condition variable | `enqueue`, worker loop, `stop` | I/O threads, loops |
| `HttpProcess` | parser state across reads | `parse`, `releaseRequest`, `reset`, `buildResponse` | the buffers |
| `Buffer` | a vector and two indices | `dataIn`, `sckToBuffer`, `bufferToSck`, `retrieve`, `findCRLF` | socket |
| `Socket` | a descriptor | non-blocking accept, read, write | kernel |
| acceptance client | one connection at a time, the results | `connectServer`, `writeAll`, `readWithTimeout`, `readHttpResponse`, four tests in rounds (`-n`), the idle test (`-t`) | the server, over TCP |

What is hard here, and what makes each part correct:

* **Connection.** EOF, read and write errors, the idle timeout, the stop and the
  answers of workers reach a connection in any order, several of them on one
  stack. A dead connection must stay dead and detached; each request has one
  answer; `working` must be exact, because the last answer, the last byte and the
  EOF decide together when a half-closed connection ends; edge-triggered events
  come once and must not be missed.
* **EventLoop.** Any thread may post at any step of the loop. No wakeup is lost,
  tasks run once and in order, and the stop task ends the loop.
* **ThreadPool.** Notifications go out after the lock is released. No task is
  lost, run twice or stranded; `stop` returns, after the last task.
* **TimerQueue.** The alarm is moved on every event; timers are scanned in id
  order. No due timer is slept over, and no active connection is closed.
* **Server.** The stop order must keep requests away from a stopped pool and
  must not abandon a socket that is on its way to a sub reactor.
* **HttpProcess, Buffer.** Requests arrive cut anywhere, buffers shift and grow.
  The cuts must not matter, no byte may be lost, doubled or swapped, and a buffer
  may grow only for what waits in it.
* **Acceptance client.** Responses arrive cut anywhere, late, in part or not at
  all. A sound server must fail no test, a pass must be about the request just
  sent and about what the test says, and the client must end.

`PROJECT.json` lists these dangers as `hazards`, each at its line with the
properties that would catch it.

## 2. The modules

| module | models | run by | proved in |
|---|---|---|---|
| `Connection` | `Connection.cpp`, `Channel.cpp`, `SubReactor.cpp`, and the loop as connections see it | `MCConnection` | `ConnectionProofs`, `ConnectionLifeProofs` |
| `TaskQueue` | what `enqueueTask` promises (abstract) | | |
| `EventLoop` | `EventLoop.cpp`, implements `TaskQueue` | `MCEventLoop` | `EventLoopProofs` |
| `ThreadPool` | `ThreadPool.cpp`, `ThreadPool.h` | `MCThreadPool` | `ThreadPoolProofs` |
| `TimerQueue` | `TimerQueue.cpp` and the loop's timer pass | `MCTimerQueue` | `TimerQueueProofs` |
| `Server` | `main.cpp`, `Server.cpp`, `MainReactor.cpp`, `Acceptor.cpp`, the threads of `SubReactor.cpp` | `MCServer` | `ServerProofs` |
| `Buffer` | `Buffer.cpp`, as operators on a record | with `HttpProcess` | `HttpProcessProofs` |
| `HttpProcess` | `HttpProcess.cpp` between the two buffers of a connection | `MCHttpProcess` | `HttpProcessProofs` |
| `HttpReference` | what a stream seen as a whole asks for | `MCHttpProcess` | `HttpProcessProofs` |
| `Client` | `src/client/main.cpp` with its connection, and the server as the client sees it | `MCClient` | `ClientProofs` |

Definitions keep the names of the code. An operator named `f_X` is `f` with the
plausible mistake `X`; nothing uses it, and putting it in the place of `f`
makes the property it is paired with fail.

**Connection.** `conn[c]` holds the members of the object, its channel and the
kernel's side of its socket; `tasks`, `funcs` are the loop's queue and the copy
being run; `pool` the requests with workers; `todo` the events of the batch not
handled yet. A handler is one action: every C++ member is an operator that maps
a connection and the queue to their next value, and an action composes them in
the order of the code. Only the parse loop takes one action per round, so that
bytes and resets arrive between rounds. The stream is abstracted to what the
connection can tell apart: a fragment, complete lines, and four endings (a
request kept alive, one that closes, a malformed one, an over-long line). The
kernel is external: when a registration is on the ready list, what a write can
answer (all, some, EAGAIN, a pending error once, then SIGPIPE). `epoll_wait`
reports at most `MaxEvents` descriptors (`MAX_EVENTS`, 100): a ready connection
or the timer channel may be left for the next batch, with its edge. `Loads` says
who connects in a behaviour and what each peer sends; the others are absent.

**EventLoop.** `enqueueTask` is split where other threads can come in between:
the look at `stop`, the push under the lock, the write to the eventfd. The loop
is split into poll, the eventfd's callback, drain, each task, the look at `stop`.
The eventfd is edge triggered (`armed`), and any other descriptor may end a poll.

**ThreadPool.** What happens under `queue_mtx` is one step; `notify_one` and
`notify_all` are steps of their own, and a waiting worker may wake up for no
reason. `accepted` and `finished` are histories.

**TimerQueue.** Times are relative (what is left of a timer and until the
alarm) and time may pass before every step. `q` is the queue with its timerfd.
A full batch may leave the timer channel on the ready list. Ids
only grow, up to `MaxId`.

**Server.** Each loop is the queue that `EventLoop` is proved to implement, with
its copy and its stop flag, and the pool the queue that `ThreadPool` is proved
to be; of a connection only its life is kept. A worker's `enqueueTask` is still
two steps, because the loop may stop between them.

**HttpProcess.** A letter stands for the text of a line; `CR` and `LF` are bytes
of their own, so that reads end anywhere, between the two as well. One action
per line. The responses go through `writeBuffer` and leave in pieces of any size.
What `stoul` throws of a number too large ends the process (`terminated`) without
a result, as in the code; `HttpReference` asks for the 400 of any other body.
`HttpReference` names the lines of the whole stream by their position. Since an empty
line always ends a request, well or not, the request that a line belongs to is
the lines since the last empty one, and no recursion over the stream is needed.

**Client.** A test is a sequence of steps (connect, a request, the extra read,
the sleep, a request that should fail); `plan` holds the tests still to be run.
A response is four pieces that reads bring in any grouping: status line, rest of
the head, the text the tests look for, the last byte of the body. Of the server
the module keeps the answer, the half close, `handleDead`, and who still holds a
`shared_ptr` to the connection, because the socket is closed by the destructor
only. `slow` decides whether answers may come after the client has stopped
waiting. A server that exits resets a connection with unread input and closes the
others; a write to a reset socket fails once and then raises SIGPIPE.

## 3. The runs

| run | instance | distinct states | shows |
|---|---|---|---|
| `conn_safety` | 1 connection with all streams of up to two pieces and some of three, or 2 connections with one request each; pool on and off, batches of 2, FIN, RST, idle, stop | 2,048,000 | `DeadIsDetached`, `WorkingCounts`, `EachAnsweredOnce`, `NoLostEdge`, `StoppedIsDead`, `DeadIsFinal`, `EofAnsweredByPool`, `ErasedAfterBatch` |
| `conn_live` | 1 connection, both modes, streams of up to two pieces, partial requests too, fair | 437,000 | `PeerCloseHasReason`, `EventuallyReleased` |
| `loop_tasks` | main, a worker, another reactor and the loop itself post | 72,000 | `NoLostWakeup`, `ImplementsTaskQueue`, `QueuedIsRun`, `StopEnds` |
| `pool_tasks` | 3 workers, 2 producers of 2 tasks | 19,000 | `WorkConserving`, `EachTaskOnce`, `StopRunsAll`, `AcceptedIsRun`, `StopReturns` |
| `timer_idle` | 2 connections, timeout of 3 ticks, 6 ids, batches of 2 | 19,000 | `OneTimerEach`, `DueIsReported`, `LargerIdLater`, `NotTooEarly`, `IdleIsClosed` |
| `server_stop` | 2 sub reactors, 2 workers or no pool, 2 clients, 1 request each, a signal at any time | 44,000 | `NeverTerminated`, `NothingLeftBehind`, `StopReturns` |
| `http_stream` | about 1000 streams of up to 6 lines, buffers of 3 bytes, lines of up to 2, up to 2 headers | 862,000 | `InOrder`, `SameForAnyCut`, `GrowsForBacklog` |
| `client_tests` | the four tests, or the idle test; a prompt or a slow server, which may exit at any time; fair | 7,700 | `NoFalseAlarm`, `PassMeansAnswered`, `ClientEnds` |

Each also checks its module's `TypeOK`, except `conn_live`, which leaves it to
`conn_safety`, and `client_tests`: the types of `Client` are proved and say nothing
that a bug of the client would break. `TypeOK` of `Connection` is its types
(`Typed`) and that `working` is never negative before the stop. The module comments
state every property in words.

**Bounds.** A connection touches only its own members and the shared queue, so
one connection shows its life cycle and two show what they do to each other in
a batch, a timer pass and the stop. Two pieces are enough for a request behind
another, or behind an ending, in one read; the streams of three add a request
cut in two. `MaxStalls` = 1 fills the send buffer of a socket once: afterwards
the write paths are in the state they started from. Three workers let two sleep
while one runs, two producers let one notification overtake another. Six ids
let each connection refresh twice, and the second timer pass the first.
`MaxEvents` = 2 is less than two connections, the timer and the eventfd together:
in `Connection` and `TimerQueue` each ready connection, and the timer channel, is
left out of a batch at some time. `EventLoop` does not bound its batches: its
eventfd is in the batch whenever it is armed. The runs with two
connections use the symmetry between them, for safety properties only. With
3-byte buffers and 2-byte responses every branch of `dataIn` is reached from
both ends, and with 2 headers the limit is met, exceeded and not reached.
One round of the four tests is enough: every test opens its own connection, and
a round leaves nothing behind but results.
Deadlock is not checked: an idle server waits, a stopped one has ended, and so
has a client that has run its tests.

**Fairness.** The I/O thread, the workers, a thread inside `enqueueTask`, `stop`
or a notification take their steps: they are running threads that hold no lock
while they wait. The clock advances (`Expire`, `Tick`). Nothing is assumed of
peers, of callers of `enqueueTask` or `enqueue`, or of the person who sends the
signal; spurious wakeups and other descriptors never have to happen. In
`client_tests` the client, and the server and the network together, take their
steps; the server's exit never has to happen.

**Findings.** Four runs expect a violation: the code does something else than a
line of the repository says.

* `conn_zombie`: a write error while a `Connection: close` response is sent. The
  connection has called `handleDead`, then `sendHttpOnLoop` puts its channel back
  into epoll and its state back to `peerClose` while its removal is queued.
* `conn_eof_inline`: with the pool off, pipelined requests read together with
  the EOF. The first response that is written out ends the connection, the rest
  is dropped.
* `client_eof`: the connection's own `addTimerCallBack` holds a `shared_ptr` to
  it, so it is never destroyed and its descriptor never closed. The acceptance
  test of `Connection: close` is about exactly this and passes all the same:
  `readWithTimeout` returns 0 for its timeout as well as for the EOF.
* `conn_sigpipe`: a write to a socket that the peer has closed and reset raises
  SIGPIPE, whose default action ends the server before EPIPE can be handled.

Disagreements without a run of their own:

* An EOF behind part of a request leaves the connection half-closed with nothing
  outstanding (`README.md` of the server, line 41): the idle timer ends it, which is
  what `EventuallyReleased` shows. `PeerCloseHasReason` is about whole requests.
* A `Content-Length` too large for `stoul` ends the process; `DESIGN_v7.md:21` has a 400
  for it. `HttpReference` asks for the 400, and `SameForAnyCut` holds because a process
  that has ended returns nothing more.
* A line without a CRLF is never too long (`DESIGN_v7.md:21`): it is waited for.
* `enqueueTask` looks at `stop` before it takes the lock, so a task may still be queued
  in a loop that has stopped (`DESIGN_v9.md:68` calls that a no-op). `ImplementsTaskQueue`
  allows such a task, which never runs; that no accepted socket is in it is
  `NothingLeftBehind`.
* After 2^31 callbacks of a loop `timerId` overflows and ids stop following the
  expirations (`DESIGN_v8.md:138`).
* With the pool on, pipelined answers come in the order workers finish. No line of the
  repository asks for another (`DESIGN_v7.md:18` leaves pipelining out).
* The client's keep-alive test sends its second request although the first has timed
  out, and may pass on the late answer to the first (`PassMeansAnswered` leaves requests
  behind a failed one out); its idle test passes on a timeout, too.

## 4. The proofs

Every theorem is for arbitrary finite sets of connections, threads, tasks and
streams; the only assumptions are the named ones on the constants.

* `ConnectionProofs`: the types (`Typed`), and `DeadConnectionsAreDetached`
  (`DeadIsDetached`). A dead connection could be re-registered by a callback of
  the batch in which it died, so the invariant `ConnInv` adds that a connection
  whose read event is still to be handled is alive, that a connection in the
  parse loop has no read event left, and that no event is left outside the
  batch. It is proved operator by operator: each member of `Connection`
  preserves `Sound`, then each action preserves `ConnInv`.
* `ConnectionLifeProofs`, on top of `ConnInv`:
  * `NothingLivesAfterStop` (`StoppedIsDead`), `NoneComesBackToLife`
    (`DeadIsFinal`), `ErasedOnlyBetweenBatches` (`ErasedAfterBatch`). The invariant
    `Life` says that a connection not constructed yet is known to nobody
    (`Unborn`), that it has at most one task that constructs it (`QueueLife`), that
    no such task is behind a stop, in either queue or across them (`StopOrder`),
    and that the copy of the tasks exists only while it is run (`Phases`). Without
    the single construction a second `add` would revive a dead connection; without
    the order a connection could be constructed after the stop task.
  * `TypeCorrect` (`TypeOK`) and `WorkingIsTheOutstandingWork` (`WorkingCounts`). `Counts` is the same sum for the
    two queues apart, with the fact that a request in the pool has a number already
    given out: otherwise handing over a request might not enlarge the set. That `working`
    is never negative, the part of `TypeOK` beyond the types, follows from it.
  * `EachRequestHasOneAnswer` (`EachAnsweredOnce`). `Answers` adds, per connection,
    that the numbers in the pool and in each queue are distinct and apart, that
    nothing is in flight without the pool, and that a connection that was sent a 400
    is out of the parse loop with reading disabled and no read event left, so that
    no answer follows.
  * `NoEdgeIsLost` (`NoLostEdge`). `Edges` states it for the two queues apart, with the
    facts that a served connection is registered and that one not constructed yet
    has nothing to send. Each member of `Connection` either leaves the
    edges as they are, re-arms the channel, or asks for the removal (`Minded`); each
    step of a peer wakes the channel up (`Woken`).
  * `PoolAnswersBeforeTheEnd` (`EofAnsweredByPool`, an action property). `Texts` adds
    that, outside the parse loop, the read buffer of a living connection that is
    still read holds no complete request: the loop stops at an incomplete one, or
    when reading is over. The members behind the parse loop, unless a write fails,
    end a connection only with `working` at 0 (`Quits`); by `Counts` nothing is in
    flight then, so by `Answers` every request parsed is among the answers.
  * `HalfClosedHasAReason` (`PeerCloseHasReason`): if in the first state every piece
    of every stream ends a request (`WholeStreams`), then always `HasReason`. The
    property needs this of the peers: an EOF behind part of a request leaves the
    connection to the idle timer, and TLC refutes `HasReason` with such streams.
    `Reasons` adds that
    everything sent and not parsed yet is whole (`Whole`), and that a half-closed
    connection outside the parse loop is occupied (`Busy`, `Occupied`): requests with
    workers, answers queued or bytes unsent. In the parse loop its read buffer is
    not empty, so the loop's next round gives it such a reason or ends it; by `Counts`
    `working` is never negative, so handing a request over makes it nonzero.
* `EventLoopProofs`: `TypeCorrect`, `WakeupIsNeverLost` (`NoLostWakeup`, inductive
  once it is stated for the whole iteration and not only for the poll), and
  `LoopImplementsTaskQueue`: under the mapping `queue = funcs \o tasks`,
  `closed = (lpc = "done")` every step is a step of `TaskQueue` or a stutter.
* `ThreadPoolProofs`: `TypeCorrect`; `ExitLeavesNothing` (`ExitedIsDrained`);
  `TasksAreNeitherLostNorDoubled` (`EachTaskOnce`, with the fact that the ids of a
  producer are fresh); `StopReturnsAfterAll` (`StopRunsAll`, with the fact that a
  stop that has returned has joined every worker); `NoWorkerSleepsOverATask`
  (`WorkConserving`, by counting queued tasks against awake workers and pending
  notifications).
* `TimerQueueProofs`: `TypeCorrect`, `EachHasOneTimer` (`OneTimerEach`),
  `IdsAreInTimeOrder` (`LargerIdLater`), `NoTimerIsSleptOver` (`DueIsReported`) and
  `NoneClosedTooEarly` (`NotTooEarly`). The invariant adds that the clock is set to
  the timer with the least id, or has fired for it (`ClockSet`), that a tick nobody
  has read is on the ready list or in the batch (`EdgeKept`), that timers whose
  callback is due are overdue (`DyingDue`), and that what is left of a timer and
  the silence of its connection add up to the timeout (`IdleCounts`).
  `LargerIdLater` is what makes the clock of the first timer good for all.
* `ServerProofs`: `TypeCorrect`, `PoolOutlivesItsUsers` (`NeverTerminated`),
  `StopLeavesNothing` (`NothingLeftBehind`). From the position of the control
  thread follows which loops have ended (`Control`), the pool is stopped after all
  of them (`PoolLast`), a sub reactor is asked to stop only after the main reactor
  has ended (`AskedInOrder`), nothing that opens a socket is queued behind a stop
  (`LoopsOK`), and a socket on its way has its task in the queue of a loop that has
  not run its stop (`ConnStates`).
* `HttpProcessProofs`: what `dataIn`, `sckToBuffer`, `retrieve` and `findCRLF` do
  to the bytes of a buffer, as lemmas; on them, for every stream, every way to cut it
  into reads and writes and every size of the buffers:
  * `TypeCorrect`, `BytesStayInOrder` (`InOrder`) and `GrowthIsForBacklog`
    (`GrowsForBacklog`). `CountStops` (too many headers end the reading) is what
    bounds the header count.
  * `CutsDoNotMatter` (`SameForAnyCut`). `Agrees` says that, while parsing may go on, the
    bytes taken end with a line (`AtLine`), that no line that ends the parsing is
    among them, that the parser knows the lines of the request under way and
    nothing else (`Knows`), that there are as many results as answered lines, and
    that parse waits only when no whole line is left (`AllParsed`). By `InOrder` and
    the lemmas about `findCRLF` the line that parse sees is the next one of the stream.
* `ClientProofs`, for every number of rounds and either mode: `TypeCorrect`,
  `SoundServerPasses` (`NoFalseAlarm`) and `PassIsAboutTheRequest`
  (`PassMeansAnswered`). What could spoil a result is what is left of an earlier
  response, in the client's buffer, on its way or still to be sent. `ClientInv` says
  that the first request of a connection meets a clean one (`FirstAnswer`); that before
  the second request of the keep-alive test only the last byte of the first body may
  be in the way (`SecondAnswer`), and it is not taken for a status line; that an
  EOF comes behind the answer (`EofAfterAnswer`); that a running server never closes
  the socket, because `addTimerCallBack` holds the connection (`Held`); and that with a
  server that runs and answers in time whatever a request waits for is on its way
  (`Prompt`), so that no read times out on it.

TLC has checked the inductive invariants on the instances of the runs before they
were proved (`Agrees` on 130 of the streams of `http_stream`). Every safety invariant and action property of the passing runs is thereby stated
by a theorem. Only model-checked is what holds under fairness (`EventuallyReleased`,
`QueuedIsRun`, `StopEnds`, `AcceptedIsRun`, `StopReturns`, `IdleIsClosed`,
`ClientEnds`): the prover handles neither fairness nor ENABLED.

## 5. Not modelled

* `prev_main.cpp`: the superseded single-threaded server, compiled, never called.
* Of the acceptance client: the command line, what it prints, and the limit of
  64 KB on the head of a response, which no response of this server comes near.
* `error_solve`: `errif` ends the process. Modelled where the client fails to
  connect; elsewhere it guards system calls that do not fail in the modelled use
  (`accept` with EMFILE is one that can).
* `Buffer::dataOut` and `bufToBuf`: called by nothing. Socket set-up, and
  failures of `epoll_ctl` and `epoll_wait`, which end the process.
* The wrap of the `int` timer id after 2^31 callbacks of one loop; timers are
  modelled below that bound (`MaxId`).
* Texts: request and header lines are letters, responses are one or two bytes.

## 6. Plan

`TimerQueue` with ids of a small width that wrap: which of its invariants survive
the first id that is taken again. `accept` with its errors, once descriptors leak.
