# kenet in TLA+

kenet is a small C++ network library in the reactor style: one thread waits in
epoll and calls handlers, a thread pool runs what is handed to `runInLoop`, and
an asynchronous logger serves both.  This directory holds TLA+ models of it,
translated from the code in `src/src` and `src/include`, the configurations
that check them with TLC, and proofs that TLAPS checks.

Line numbers below refer to the code (`TcpServer.cpp:46` is
`src/src/TcpServer.cpp`, `threadpool.h:45` is
`src/include/threadpool/threadpool.h`).

## 1. Inventory

### Parts

| Part | State it keeps | Operations | Interacts with |
|---|---|---|---|
| `EventLoop` | `quit_`, `tid_`, its `Poller` and its `ThreadPool` of 4 | `loop`, `quit`, `isInLoopThread`, `runInLoop` | calls `Poller::poll`, then `Channel::handleEvent` of each result; `runInLoop` is `ThreadPool::enqueue` |
| `Poller` | the epoll descriptor | `updateChannel`, `removeChannel` (unused), `poll` | stores raw `Channel*` in epoll and returns them |
| `Channel` | `fd_`, `events_`, `revents_`, `added_`, callbacks, the weak `tie_` | enable/disable, `update`, `handleEvent`; its destructor closes `fd_` | calls back into its owner, an `Acceptor` or a `TcpConnection` |
| `Acceptor` | the listening socket and its channel | `Listen`, `handleAccept` | `TcpServer::onNewConn` for each accepted descriptor |
| `TcpServer` | `conns_` by descriptor, under `mu`; `totalConnections_`; `running_`; `serverThread_` | `start`, `startInThread`, `stop`, `join`, `onNewConn`, `removeConn` | `removeConn` gives the pool a task that holds the connection |
| `TcpConnection` | `state_`, `outBuf_`, its channel | `connectEstablished`, `send`, `sendInLoop`, `shutdown`, `handleRead/Write/Close/Error` | user callbacks; `runInLoop` with a raw `this` |
| `ThreadPool` | `tasks_`, `stop_`, `mutex_`, `condition_`, `workers_` | worker loop, `enqueue`, destructor | runs anything |
| `SpscRing` | `write_`, `read_`, `buf_` | `try_push`, `try_pop`, `empty` | one logging thread, the logger's worker |
| `AsyncLogger` | `producers_`, `running_`, `worker_`, `mu_`, `cv_`, sinks | `start`, `stop`, `_logf_impl`, `run`, `drain_all` | rings and sinks |
| `FileSink`, `ConsoleSink` | a buffer, a descriptor, bytes written | `write`, `flush`, `rotate` | files |
| `InetAddress` | a `sockaddr_in` | conversions | none |

The threads are the loop thread (the caller of `start()`, or `serverThread_`),
the four workers, the threads of the user, and the logger's worker.

### What is hard

* **Who closes what, when.**  A connection is destroyed by whichever thread
  drops the last `shared_ptr`: a worker that ran the task of `removeConn`, the
  loop at the end of `handleEvent`, a user thread.  The destructor closes the
  descriptor, the kernel may give the same number to the next `accept4` at
  once, and `conns_` is keyed by it.
* **Events of things that are gone.**  epoll returns raw pointers, and
  `EPOLLERR`/`EPOLLHUP` are reported even for a channel with `events_ = 0`.  Nor is
  that 0 final: a `send` or `shutdown` task on a worker may write `events_` after
  `disableAll`, and have the closed connection watched and reported again.
* **Removal in the pool.**  `runInLoop` does not run in the loop: removals and
  sends overlap with the handlers and with one another.
* **Output from two threads.**  `outBuf_` and `events_` have no lock; under
  `startInThread` every `send` runs in the pool while `handleWrite` runs in
  the loop.
* **The condition variable of the pool**, with a destructor that may run while
  tasks are queued.
* **Starting and stopping**, with three flags (`running_`, `quit_`,
  `joinable()`) that different threads read and write at different times, and a
  thread that runs before the pointer to it is set.
* **The logger.**  A ring without a lock whose indices are never masked; a
  worker that waits without being told of most records; a start that any
  logging thread may trigger, and a restart; sinks destroyed outside the lock.
* **The log file.**  Rotation closes a descriptor twice, among threads that open
  sockets, and names files by the second.

### What makes each part correct

* table and lifetimes: an entry of `conns_` is an existing connection that owns
  the descriptor it is filed under; a connected connection is in the table; a
  handler's connection is not destroyed under it; the counter counts; what the
  peer has left is forgotten, destroyed, and its descriptor reused;
* pool: a FIFO queue whose accepted tasks are run exactly once, also when it is
  destroyed; no lost wake-up; the destructor returns;
* output: the peer gets the bytes of the accepted messages in order, once, and
  all of them if it reads; EPOLLOUT is watched exactly while there is output;
  nobody works on a destroyed connection;
* lifecycle: `stop` stops and returns; the loop is over before the members go;
  destruction neither hangs nor terminates;
* ring: entries come out in order, each once and whole, and no slot is reused
  before it was read;
* logger: a record that was accepted is in a ring, in a sink or written, and is
  written in time; the worker's sinks outlive it; start, stop and log return;
* log file: each unit is in one file, in order; only the sink's own descriptor
  is closed.

`PROJECT.json` lists the hazards one by one with their lines.

## 2. Modules

| Module | Models |
|---|---|
| `TaskQueue` | the promise of the pool: submit, start in order, finish, close |
| `ThreadPool` | `threadpool.h` lock by lock; implements `TaskQueue` |
| `ConnLife` | the promise of the server about a connection: accepted, established, disconnected, removed, destroyed, once and in order |
| `TcpServer` | loop, poll, `handleEvent`, accept, table, removal, lifetimes, and what sends and `shutdown` do to the events; implements `ConnLife` |
| `OutputStream` | the promise of `send`: in order, once, completely |
| `TcpConnection` | `send`, `sendInLoop`, `handleWrite`, `shutdown`; implements `OutputStream` |
| `ServerLifecycle` | `start`, `startInThread`, `stop`, `join`, the destructors |
| `LossyFifo` | the promise of the ring: first in, first out, up to its capacity, and nothing old beyond it |
| `SpscRing` | `try_push` and `try_pop`, access by access; implements `LossyFifo` |
| `AsyncLogger` | `start`, `stop`, the automatic start, `run`, `drain_all` |
| `FileSink` | `write`, `flush`, `rotate`, among the descriptors of the process |
| `MCTcpServer`, `MCTcpConnection` | the symmetry set, and the uses of a connection, that TLC looks at |
| `QueueLemmas` | facts about `Append`, `Head` and `Tail` for the proofs |
| `TcpServerProofs`, `TcpConnectionProofs`, `ThreadPoolProofs`, `ServerLifecycleProofs`, `SpscRingProofs`, `AsyncLoggerProofs`, `FileSinkProofs` | theorems |

`TcpServer`, `TcpConnection` and `ServerLifecycle` take the pool from
`TaskQueue` and not from `ThreadPool`; the run `pool` (safety and
liveness) and the theorem `PoolIsTaskQueue` (safety) justify that.
`AsyncLogger` takes a ring for a counter of records, which `LossyFifo`, and hence
`SpscRing`, justifies while the producer is at most the capacity ahead, and its two sinks for a buffer,
which `FileSink` has in detail.

Operators named in `PROJECT.json` under "mutants" (`TakeNewest`,
`HeldNotByTable`, ...) are variants of the code with one plausible mistake.
No specification uses them; each serves to see that a property notices the
mistake.

### TcpServer

A `TcpConnection` and its `Channel` are one element of `Conn`, because the
connection owns the only lasting `shared_ptr` to the channel.  `Held(c)` is the
reference count: the table, the local of `onNewConn`, the guard in
`handleEvent` (`cur`), closures in the queue or in a worker, and users.  `Drop`
is what the thread that gave up a reference does: if nobody holds `c` any more,
it runs the destructors, and the descriptor becomes free.

Every handler is one action; the loop's steps in between are too:
`Poll`, `HandleEvent`, then `HandleReadData`/`HandleReadEnd`/`HandleReadError`,
then `HandleWrite`, then `HandleError`, then `EndEvent`, in the order of
`Channel::handleEvent`, which goes on with the next of the reported events when one of
them has closed the connection.
`onNewConn` is split where another thread can see the difference: counted,
inserted (under `mu`), established.  The body of the removal task is one step
under `mu`; the destruction of the closure, which may destroy the connection,
is another.

The output path is here as far as events and lifetimes need it: a `send` leaves output
behind and asks for EPOLLOUT, or it does not; `handleWrite` empties the buffer and calls
`disableWriting`, or it does not.  Which of the two is a free choice, because it depends
on bytes, the subject of `TcpConnection`.  With `Inline`, `send` runs in the callback;
without, and always for `shutdown`, a task of `RawTask` is queued that captured a raw
`this` and holds nothing.  On its worker `enableWriting` and `disableWriting` are four
steps: `events_` is read (`ReadMask`), written (`SetMask`), read again by
`updateChannel` (`ReloadMask`), and given to `epoll_ctl` (`UpdateChannel`); `step` and
`local` say how far the worker is and what it has read.  Between any two of them the loop
thread may close the connection and call `disableAll`, and other workers may erase and
destroy it (`RawOfDead`).  `late` remembers that a task wrote `events_` or called
`epoll_ctl` for a connection that was closed already, or met a destroyed one.

`Stage(c)` maps a connection to `ConnLife`: it is `accepted` while `onNewConn` has it
in hand, then in its `state_` as long as `conns_` has it, then `removed`, then
`destroyed`.  A step that took two of these at once, or one twice, or went back, would
violate `ImplementsConnLife`; so would two connections with one descriptor.

Choices worth knowing:

* `read` returns pending data first, then the end of the stream, then the
  pending error, which it clears; after that it returns 0.
* EPOLLRDHUP is never requested, so the `closeCb_` of `handleEvent` is dead code.
* `EAGAIN` in `handleRead` cannot happen: only the loop reads.
* A destroyed `Channel` in the batch, or a destroyed connection in a task, is undefined
  behaviour: either nothing happens (what is left of `tie_` says expired,
  `shared_from_this` throws and the worker catches) or the process ends (`aborted`).
* A write to a socket that was reset fetches the pending error; a later one, or one after
  the end of the stream, raises SIGPIPE, which nobody ignores: the process ends.
* The loop thread's own `enableReading`, `enableWriting`, `disableWriting` and `disableAll`
  are one step (`SetEvents`).  A task's four steps interleave with it.
* A worker inside `updateChannel` has a `shared_ptr` to the Channel; if the connection is
  destroyed then, the descriptor is closed when it returns, in the model already with the
  connection.
* `onMessage_` calls `send` or `shutdown` at most once and may keep the `Ptr`; `onConn_` only
  may keep it.  User threads release what they keep and call nothing:
  `TcpConnection` has no lock for calls of theirs.
* `totalConnections_` is counted modulo `CountMod` (2^64 in the code).
* `MAX_EVENTS` (1024) is larger than any instance.
* Destruction of the server is the subject of `ServerLifecycle`: here the pool
  stays open.

### ThreadPool

The lock, the predicate, the sleep, and the pop of a worker are separate steps,
as are lock, test/emplace and notify of `enqueue`, and lock, store, notify and
join of the destructor.  Spurious wake-ups may happen at any time.  A task is
identified with the call of `enqueue` that submits it.

### TcpConnection

One connection; each access to `outBuf_`, to `events_`, and each `epoll_ctl` is
a step.  Accesses are atomic in the model.  The code has no lock around them,
so this is only the meaning of the program where `NoRace` holds.  The run
`output` checks it, but for one thing: once `shutdown()` was called its task, on
a worker, may meet `handleWrite` at `events_`.  What the run claims after that
point is the order of the bytes, which `events_` has no part in.  An answer has
`Size` units, so partial writes of every size happen.  `accepted` and `arg` are
for the properties and for the parameters of calls.

How server and peer use the connection is chosen in the initial state from
`Scenario`: `inline` is what `isInLoopThread()` says in a callback, true under
`start()`, false under `startInThread()`, because `tid_` is the constructing
thread; `window` is how many messages the peer sends ahead of the answers; `ends`
is when it ends its stream; `shutdowns`, whether the callback may call
`shutdown()`.  The stream is promised until it is `cut`: by `shutdown()`, which
turns EPOLLOUT off also when output is pending (`TcpConnection.cpp:64`), or by a
peer that half-closes before it is answered, whose pending output `handleClose`
drops (`TcpConnection.cpp:117`).

Not in this module: resets and failing writes (their bytes; `TcpServer` has their
events), `send` from user threads,
`onWriteComplete_` (TcpServer never sets it).

### ServerLifecycle

The owner and other callers of `stop()` step by step, the loop reduced to its
test of `quit_` and to the removals it may hand out, and the order in which
members are destroyed: `serverThread_`, then `mu` and `conns_`, then `loop_`
with its pool.  `startInThread()` creates the thread in one step (`SpawnThread`) and
assigns it to `serverThread_` in another (`KeepThread`): the loop may begin, and a
`stop()` may pass, in between.  To join one thread from two is undefined: both return, or
the process ends.  A removal that runs after `mu` and `conns_` were destroyed is undefined
too: it may do no harm, or end the behaviour with `end = "undefined"`.

`hasty` remembers that a `stop()` found `running_` set before `startInThread()` had
returned and the loop had cleared `quit_` (`Begun`).  The code has two ways to fail then:
`loop()` forgets the `quit_` of such a call (`EventLoop.cpp:10`), so that its join never
ends; and the call finds `serverThread_` null, skips the join, and leaves `running_`
cleared, so that the `stop()` of the destructor does nothing and `~thread` ends the
process (`TcpServer.cpp:66`, `TcpServer.cpp:92`).  Nothing keeps a program from it, so no
assumption of the model does; the properties say what holds of all other behaviours, and
`LoopEndsFirst` holds of these too.

### SpscRing

One step per access to an index or a slot; release and acquire order them, so
that interleaving the steps is what the code does.  The indices are `size_t` and
are masked only to find a slot.  The model writes an index as the bits above and
below the mask (`lap`, `slot`), with `Laps * Cap` for 2^64, so that they wrap
around.  `pushed` and `popped` count the same without wrapping.

The test for "full" never fires below 2^64 - 1 outstanding entries, so a producer
can get further ahead than the ring is long.  The properties therefore say
what holds up to the capacity, and that the order of what is popped survives
beyond it.  A torn copy beyond it (`NoTornRead` allows it there) is undefined
behaviour of C++; the model lets the copy see one of the entries.

### AsyncLogger

A step that locks and unlocks `mu_` is one action, enabled while `mu_` is free;
only `start()` holds it over several steps.  `running_` is atomic and read
without the lock.  The owner calls `start` and `stop` in any order; producers
log, and the first that finds the logger stopped calls `start` inside
`call_once`, where the others wait.  What `drain_all` takes of one ring
is a single step: it takes effect when its last `try_pop` does.  `Polite` says that the
program does not let a `start()` overlap another `start()` or a `stop()`, and
does not start a logger that runs; the code has no defence against the first
(`log.h:113` joins and resets without the lock) and hangs in the second.

Left out: formatting, levels, the counter of dropped records, and `notify_one` of
every 1024th record, which shortens a wait that ends by itself.

### FileSink

The worker is the only caller, but `rotate()` makes four system calls, and other
threads open and close descriptors between them.  `table` is the process's
table; open takes the lowest free number.  Log text is counted in units; a file is
a set of units, because each `::write` appends.  A `::write` may take any front
part of the buffer, or nothing.  Where that part goes is the kernel's matter: to the
file when `table` says that the number is the sink's, into a stranger's descriptor
(`stray`) when another thread owns the number by now, and nowhere when it is free
(`WriteThrough`).  `replaced` has the units of rotated files that a later `rename`
replaced.

`met` remembers that another thread was given the sink's number between the two calls of
`close` in one rotation, `hasty` that two rotations had the same second in their names.
`EveryUnitOnce` and `InOrder` hold in any case; that nothing is astray is conditioned on
`met`, that nothing is replaced on `hasty`.  `OwnsItsDescriptor` and `LeavesOthersAlone`
are about a sink that was not met: the accident itself (`sink.h:73`) is what `met` exempts,
and these two do not catch it.

## 3. Runs

All runs end with `CHECK_DEADLOCK FALSE`, since all these systems may stop: a
server with no events sits in `epoll_wait`; a pool is destroyed, or idles in its condition
variable; a peer need not send; a process may have ended.  Liveness properties
say what must not stop.

| Run | Instance | Shows |
|---|---|---|
| `server_safety` | under `startInThread()`: 2 connections, 2 descriptors, 2 workers, one `send` or `shutdown` task, one reset | types, table, descriptors, guard; refinement of `ConnLife`; nobody is forgotten; counter and batch until a reset or a late task |
| `server_liveness` | under `start()`: 2 connections, 1 descriptor, 1 worker, sends by the loop, one `shutdown` task, one reset, fair | a connection that is gone is forgotten and destroyed; a waiting one is accepted |
| `pool` | 3 calls, 3 workers, fair | once, no lost wake-up, drained; refinement of `TaskQueue`, termination |
| `output` | answers of 3 units, send buffer of 2, 5 messages, fair; three uses: under `start()` 4 messages ahead and `shutdown()` at any time; under `start()` 2 ahead and a half-close at any time; under `startInThread()` 1 ahead and a close when all is answered | refinement of `OutputStream`, no race, no use after destruction, EPOLLOUT watched exactly while there is output |
| `lifecycle` | `startInThread()`, two more stoppers at any time, `join()`, 2 removals, 2 workers, fair | loop over and thread joined before members go; `stop` and the destructor return, unless a stop was hasty |
| `ring` | 2 slots, indices modulo 4, 9 entries, fair | refinement of `LossyFifo` (order, and every turn comes, over two wrap-arounds), no torn copy, nothing stale |
| `logger` | 2 producers with 2 records each, drains of 1, one `start()` and one `stop()` by the owner besides the automatic start, fair | sinks outlive the worker, nothing lost, `stop` writes, calls return, records are written |
| `sink` | rotation every 2 units, 3 descriptors, 4 units, 3 seconds | one place for every unit, also the stray and the replaced, in order; own descriptor only, until met |

Why the bounds are enough to meet the interesting cases: `accept4` may return any free
number, so the second connection takes the one that the first has given back,
while it is removed late by one worker and removed again by another; in
`server_liveness` it has to wait for the only one.  One task of `send` or `shutdown` at
any of its four steps meets `disableAll`, erasing, destruction and reuse; one reset next to an
orderly close shows every report after `disableAll`.  (Three connections, or two tasks,
are beyond five minutes; the proofs are for any number.)  Two workers are the least with
which tasks overtake each other, three the least with which a wake-up can go
to the wrong one; an answer larger than the send buffer always writes in
parts; and five messages, four of them outstanding, let the buffer fill, drain
partly, refill and empty; 9 entries take indices modulo 4 around twice, with the
producer ahead of the capacity; drains of 1 of a ring with 2 records leave
something for the next; and two rotations, with a descriptor of another thread below
and above the sink's, show both accidents of a rotation.  Constants that begin with
`Max` bound counters that the code does not bound.

Only `server_safety` uses symmetry: it checks invariants and a refinement without
fairness, all of which are symmetric, and no liveness.

### What the code does otherwise

These runs end in a counterexample; `PROJECT.json` quotes the lines.

| Run | Counterexample |
|---|---|
| `reset_batch` | a reported `Channel*` dangles when its event is handled |
| `pool_lifetime` | `sendInLoop` on a destroyed connection |
| `ring_overrun` | the producer overwrites what was not read; "full" is never reported |
| `logger_restart` | `start()` of a running logger waits for a worker that waits for `mu_` |

Each of them has a passing neighbour that says where the property does hold:
`OrderlyBatchIsLive` in `server_safety` is the first up to the first reset or late task;
`output` has the second when the peer asks one thing at a time and ends
its stream only when it is answered; `TurnIsInSlot` and `NoTornRead` in `ring` are about a
producer that is not too far ahead; `CallsReturn` in `logger` is about programs
that stop before they start again.

The same models show more with other constants, for which no run is kept:

* `TcpServer` with resets: `TotalIsTableSize` fails.  One report of a reset
  removes the connection twice, from `handleRead` and from `handleError`, and
  `totalConnections_` falls below the size of the table and wraps.
* `TcpServer` with `MaxResets = 0`: `TotalIsTableSize` and `BatchIsLive` fail all the same.
  A `send` task that was queued before the peer ended its stream asks for EPOLLOUT after
  `disableAll` (`TcpConnection.cpp:49`): epoll reports the closed connection, whose end of
  stream is then handled twice if EPOLLIN was in the mask that the task had read; and the
  removal may destroy it between the report and `handleEvent`.  Until a
  reset or such a late task both are right (`OrderlyTotalIsExact`, `OrderlyBatchIsLive`);
  without the conjunct `~late` of `Orderly` both of these fail.
* `TcpConnection` under `startInThread()` with a window of 2 (`Pipelined`):
  `InOrder` fails.  Two workers run two calls of `sendInLoop` in either order.  With 4,
  `InterestMatchesBuffer` fails too: `sendInLoop` on a worker and `handleWrite` in
  the loop interleave, and output stays in the buffer with EPOLLOUT off.
* `ServerLifecycle` without `hasty` in the properties: `StopReturns`, `DestroyReturns`,
  `QuitIsHeard` and `ThreadIsJoined` fail in `lifecycle`.  A `stop()` right
  after `startInThread()` sets `quit_`, which `loop()` resets when it begins
  (`EventLoop.cpp:10`), and then joins a thread that never ends; a `stop()` between the
  creation of the thread and its assignment to `serverThread_` (`TcpServer.cpp:66`) skips
  the join, and `~thread` terminates the process.
* `ServerLifecycle` with one removal: `TaskFindsServer` fails, and `end = "undefined"` is
  reached in `lifecycle`.  `~TcpServer` destroys `mu` and `conns_` before `loop_`, whose
  pool then drains tasks that lock the one and erase from the other.
* `AsyncLogger` with `Polite = FALSE` and a producer: `WorkerKeepsSinks` fails.
  A `start()` between the unlock and the join of `stop()` is joined and has its
  sinks destroyed by it.
* `FileSink`: `Appends` fails.  Two rotations in one second have one name, and
  `rename` replaces the first file (`sink.h:90`).  And `stray = {}` fails: another thread
  opens the number that `rotate()` has closed, `open_file()` closes it once more and takes
  it, the other thread closes what it takes for its own, a third opens it, and
  `flush` writes log text into that (`sink.h:61`).
* `ServerLifecycle` with `Blocking = TRUE`: `start()` never sets `running_`, so
  `stop()` of another thread returns at once and the loop goes on.
* In `lifecycle` itself `JoinThrows` fires: an owner in `join()` and a stopper
  in `stop()` join the same thread.  The liveness properties allow for the end of
  the process there.
* Two callbacks of `runInLoop` overlap (`ThreadPool`, two workers): the
  name of the function promises otherwise.

### Fairness

Weak fairness of a step of the loop thread, of each worker, and of starting a
queued task by some worker: these are threads the operating system schedules.
Peers, users and callers owe nothing, with one exception: in `TcpConnection` the
peer reads what has arrived, without which nothing can be delivered.
User callbacks and tasks return.  In `ThreadPool` a thread that asks for a mutex
which is again and again free gets it in the end only under an assumption on the
mutex: the model assumes weak fairness of `Lock` and `DtorLock`, which suffices,
since a finite number of calls contend, and that spurious wake-ups do not go on
for ever.  The loop's timeout of a second makes `LoopPoll` of `ServerLifecycle`
always end.  In `AsyncLogger` every thread inside a call and the worker are
weakly fair: the wait of the worker has a limit of 200 microseconds.  `Flush` is
strongly fair: time passes between two looks at the clock, so a worker that
looks again and again finds in the end that a flush is due.  In `SpscRing` the
worker calls `try_pop` again and again.

## 4. Proofs

TLAPS proves the following for every value of the constants that satisfies the
assumptions that the modules name.  TLC evaluates these assumptions in the runs.

**TcpServerProofs**: `TypeCorrect`, `TableOwnsSocketsAlways`,
`OneSocketPerFdAlways`, `ConnectedIsTrackedAlways`, `HandledIsLiveAlways` and
`OnlyDisconnectedErasedAlways`.  None of the invariants is inductive alone.
The strengthening says, in parts with a lemma each:

* who is held exists: whatever `Held` counts is "live" (the reference count is
  right), and what is live is held by somebody;
* an existing connection owns an open descriptor, and no two the same one;
* the entry for `f` is the connection that owns `f`; the connection in
  `onNewConn` finds its slot empty, because the previous owner of the
  descriptor was destroyed, hence not held, hence not in the table;
* a connection for which a removal is queued or running is disconnected, is
  held by that very task, and so still owns its descriptor: the erase hits its
  own entry or an empty slot, never a stranger.  This is the reason why a
  second, late removal is harmless to the table although not to the counter.

`OnlyDisconnectedErasedAlways` follows for each step from the invariant before
it.

The same module proves `OrderlyTotalIsExactAlways` and
`OrderlyBatchIsLiveAlways` on top of this invariant.  Until a peer resets
a connection, or a task of `send` or `shutdown` is late, the events in the batch and those being handled belong to
connections in state `kConnected` (`Handled`).  So the handler that disconnects a
connection is the last one called for it, it queues the only `removeConn` task for
it, and that task finds its entry in `conns_` (`TaskOnce`); the counter is
then decremented once for each entry erased.  `OrderlyInv` carries both and the
equation itself, a sum with `Cardinality`.  The assumption `CountModIsEnough`, fewer
descriptors than 2^64, is what keeps an accept from wrapping the counter.

The tasks of `send` and `shutdown` hold nothing and change nothing but the events of their
channel, a pending error and their own progress (`RawFrame`), so that table and lifetimes
stay right whenever they run.  What they do to the events needs more: such a task is for
a connection that was established once (`PostedIsEstablished`), and as long as that one is
connected, EPOLLIN is in the value of `events_` that the task has read (`TasksListen`): no
interleaving of its four steps with the loop thread's own updates takes a connected
connection out of epoll, which `NobodyIsForgottenAlways` needs.  The events of a closed
connection are changed by late tasks only (`RawOrderly`), which the two `Orderly` theorems
need.

With resets, `NobodyIsForgottenAlways` needs more of a removal: a disconnected
connection that is in `conns_` has a task of its own, which no other worker can make
harmless (`EntryHasTask`), because an entry is erased only by the task of its own
connection (`OnlyOwnEntry`); and what is live is held (`LiveIsHeld`).
`ServerImplementsConnLife` is the refinement step by step (`LifeStep`): an action that
changes no stage stutters (`LifeStutter`), one that changes the stage of one
connection takes the step of `ConnLife` with that name (`LifeMove`), and one that gives up
a reference may be `Destroy`, which finds the connection removed because the table was
one of its holders (`LifeDrop`).

**TcpConnectionProofs**: `TypeCorrect` for every use of a connection, and for the
uses that `Serial` describes `SerialNoRace`, `SerialInterest`, `SerialUsedIsLive`,
`SerialNothingStranded` and `SerialIsOutputStream`, for any sizes of answers and of the send buffer, any
number of messages and of workers.  Serial uses include those of the run `output`:
either the loop thread itself runs `sendInLoop`, or the pool does and
the peer waits for each answer and ends its stream only when it has them all;
`shutdown` only with the former and a peer that does not end its stream.  The
invariant is about who may be where:

* at most one call of `sendInLoop` is under way, queued or in a thread, because
  the next `handleRead` needs a request and the peer asks only when the last
  unit of the previous answer arrived; meanwhile the loop thread stays out of
  `handleWrite` and `handleClose`.  No lock says so: it follows from where the units are;
* the units are numbered without a gap over what the peer has, the send buffer,
  `outBuf_` and the argument of `sendInLoop`, in this order; the part that
  `handleWrite` has written and not erased yet is counted once;
* the connection is in the table, hence alive, while it is connected, and a queued
  `removeConn` means that no send is queued.

`SerialIsOutputStream` follows: every step delivers the next unit, accepts a
message, or changes nothing that `OutputStream` sees.  `SerialNothingStranded` says
that units the peer misses are on their way: if no call of `sendInLoop` is left, they
are in `outBuf_`, and then epoll watches for the room to write them; a peer that has
ended its stream misses none (`EndedIsAnswered`).  Under `startInThread()` a
peer that pipelines, or that ends its stream early, is no serial use: `pool_lifetime`
and the other counterexamples of section 3 show that the guarantees fail there.
`IdleIsNoTask` is the one assumption about the pool.

**ThreadPoolProofs**: `TypeCorrect`, `StartedExactlyOnce`, `NoWakeupIsLost`,
`DestructorDrains`, and `PoolIsTaskQueue`, that every behaviour of the pool is
one of `TaskQueue`'s safety specification: `Take` is `Start`, `Finish` is
`Finish`, the emplace is `Submit`, `DtorStop` is `Close`, and every other step
stutters.  The invariant is about the mutex: who holds it is between lock
and unlock, what a worker learnt from the predicate holds as long as it holds
the lock, stop is set exactly from the destructor's store on, and the
queue holds accepted tasks, none of them twice.

**ServerLifecycleProofs**: `TypeCorrect`, `LoopEndsFirstAlways`, `ThreadIsJoinedAlways`
and `QuitIsHeardAlways`, for every behaviour.  The invariant follows the owner through its
phases: `serverThread_` is null until `KeepThread`; when the owner has passed `join` nothing
is in the loop.  Two parts hold until a `stop()` is hasty: while `running_` is
cleared and the thread is joinable, some caller is still bound to join it
(`SomeoneJoins`), since a caller that finds `running_` set comes after `Begun`;
and whoever joins has set `quit_` after the loop cleared it (`Heard`), so the loop leaves.

**SpscRingProofs**: `TypeCorrect`, `TurnIsInSlotAlways`, `NoTornReadAlways`,
`NeverStaleAlways` and `RingIsLossyFifo`, for every capacity and width.  The invariant relates
the indices to the numbers of completed calls: they are as many slots apart as
entries are outstanding, up to whole rings and overflows; and it says of each slot
which entry was stored there last.  That an index is written as lap and slot is
what makes this provable without a modulo.  `RingIsLossyFifo` is the refinement
without its fairness: `PushTest` is `Begin`, `PushPublish` is `Send`, `PopLoad` is
`Receive`.  Indices that differ belong to different numbers of calls, so that an entry
which `PopTest` lets through is there; and what a slot holds was pushed already
(`NothingFromTheFuture`).

**AsyncLoggerProofs**: `TypeCorrect` for any program, and for `Polite` ones
`WorkerKeepsSinksAlways`, `NothingLostAlways`, `StopWritesAlways`, `NoCircularWaitAlways`.  The invariant
says that at most one thread is inside `start`, which phase of `start` or `stop`
goes with which state of the worker and of `running_`, and what the worker
still owes at each of its steps once it has seen `running_` cleared.
`NoCircularWaitAlways` rests on the same phases: who waits for the once flag waits for a
thread that starts, who waits for `mu_`, or in `join()` for a worker that needs it, waits
for its holder, and the holder waits for nobody.

**FileSinkProofs**: `TypeCorrect`, `EveryUnitOnceAlways`, `InOrderAlways`,
`OwnsItsDescriptorAlways`, `LeavesOthersAloneAlways`, `AppendsUnlessHastyAlways`.
The invariant says which descriptors the sink knows in which phase of a rotation,
that names of rotated files only grow with the clock, and that a flush finds the
file at its number, unless met, or nothing.  `EveryUnitOnceAlways` covers the write
into a stranger's descriptor and the file that `rename` replaces: a replaced file has
none of the units of the others because all of them are in order.

**QueueLemmas**: which elements occur in `Append(s, e)` and `Tail(s)`.

The inductive invariants were checked with TLC before they were proved.

Five theorems state properties that properties of the runs imply, and which no run
checks by themselves: `OneSocketPerFdAlways`, `ConnectedIsTrackedAlways`,
`OnlyDisconnectedErasedAlways` (all three follow from `TableOwnsSockets` and
`ImplementsConnLife`), `StartedExactlyOnce` and `AppendsUnlessHastyAlways`.
`PoolIsTaskQueue`, `SerialIsOutputStream` and `RingIsLossyFifo` are the safety parts of
three refinements; the runs check the whole abstract specifications.  `ConnLife` has no
fairness, and `ServerImplementsConnLife` is all of it.

Three more are the safety cores of liveness properties: `NoCircularWaitAlways` of
`CallsReturn`, `QuitIsHeardAlways` of `StopReturns` and `DestroyReturns`,
`SerialNothingStranded` of the promise of `OutputStream` to deliver.  They say that
nobody waits for something that no one will do, which fairness then turns into
progress.  The runs `logger`, `lifecycle` and `output` check the liveness itself.  Each
of the three holds as an INVARIANT of its run too, and fails where the liveness does:
`NoCircularWait` in `logger_restart`, `QuitIsHeard` without its exemption of a hasty `stop()`,
`NothingStranded` when `sendInLoop` does not enable EPOLLOUT.

Only model-checked: liveness (fairness and ENABLED are beyond the prover).  That is
`GoneIsDestroyed`, `BacklogIsAccepted`, `DtorReturns`, `StopReturns`, `DestroyReturns`,
`CallsReturn`, `LoggedIsWritten`, and the fairness of `TaskQueue`, `OutputStream` and
`LossyFifo`.

## 5. Not modelled

* `TcpConnection`: which bytes a reset or a failing write loses (events, table and
  lifetimes under them are in `TcpServer`), several calls of `send` in one callback, `send`
  from `onConn_`, and `send` by user threads that hold a `Ptr`, which races with the loop in
  the same way as a worker.
* Lifecycle: a second `startInThread` after `stop`, which binds the bound socket
  again and ends the process, and `stop` from a callback, which makes the loop
  thread join itself.
* Logger: threads that end (their rings stay registered), calls after
  the singleton's destruction, and a local time that goes back, which would let
  two rotations hours apart have one name.
* `ConsoleSink`: its buffer and its flush are `FileSink`'s without the file.
  A comment (`sink.h:103`) says stderr, the code writes descriptor 1.

Left out for good: `InetAddress` (stateless conversions), formatting of log
lines and colours, socket options, start-up failures that end the process at
once (`socket`, `epoll_create1`), the example, benchmark and load-test
programs, and the generated pages under `docs/html` with their scripts.
