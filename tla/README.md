# Formal models of brsdk

brsdk is a C++ base library: an epoll event loop with timers and TCP on top of
it, thread pools, queues, asynchronous logging, coroutines, data structures and
many small utilities.  This directory holds TLA+ models of its concurrent core,
TLC configurations that check them on small instances, and TLAPS proofs that
hold for every instance.  Names follow the code; `PROJECT.json` maps every
definition to the lines it models.

## 1. The system

The core is a reactor.  Everything in it belongs to one `EventLoop` and runs in
that loop's thread, except for a few calls that other threads may make, and
those hand a functor over to the loop.

| Component | State | Operations | Interacts with |
|---|---|---|---|
| `EventLoop` | `quit_`, `looping_`, `calling_pending_functors_`, `pending_functors_` (mutex), an eventfd | `loop`, `quit`, `RunInLoop`, `QueueInLoop`, destructor | any thread calls it; everything below runs in it |
| `TimerQueue` | `timers_` and `activeTimers_`, `canceling_timers_`, a timerfd | `AddTimer`, `Cancel`, `HandleRead` | requests arrive as functors of the loop; callbacks are user code that may add and cancel |
| `EventChannel`, pollers | `events_`, `revents_`, `index_` per descriptor, the epoll set | enable, disable, remove, dispatch | every object with a descriptor |
| `EventLoopThread` | `loop_`, `exiting_`, mutex and condition, the thread | `StartLoop`, destructor, `ThreadFunc` | owns a loop on another thread's stack |
| `EventLoopThreadPool` | `loops_`, `next_` | `start`, `GetNextLoop`, `GetLoopForHash` | gives `TcpServer` the loop of a new connection |
| `TcpConnection` | `state_`, the buffers, its channel, `reading_` | `send`, `shutdown`, `ForceClose`, `StartRead`, `StopRead`, and the handlers | user threads, its loop, the server's loop, the peer |
| `TcpServer`, `Acceptor` | `connections_`, the listening socket | `start`, `NewConnection`, `RemoveConnection`, destructor | the pool, one `TcpConnection` per client |
| `Connector`, `TcpClient` | `connect_` (in both), `state_`, `channel_`, `retry_delayms_`, `connection_` | `connect`, `stop`, `disconnect`, `restart`, destructor | the loop's timers, the `TcpConnection` handed over |
| `ThreadPool`, blocking queues | a queue, two condition variables, a running flag | `start`, `run`, `take`, `stop` | producer and consumer threads |
| `thpool` | a job queue, a binary semaphore, counts of threads alive and working | `add_work`, `wait`, `destroy`, `pause`, `resume` | its workers, any number of users |
| `AsyncLogging`, `Logger`, `LogFile` | two buffers of the callers, two of the writer | `append`, `start`, `stop`, `threadFunc` | every thread that logs |
| `CoSchedule` | the list of coroutines, `cur_`, `stop_`, `stoped_` | `add`, `run`, `yield`, `stop` | coroutines of one thread, another thread that stops it |
| `NetBuffer` | `buffer_`, `readerIdx_`, `writerIdx_` | `append`, `retrieve`, `prepend`, `make_space`, `shrink`, `read_fd` | the two buffers of a connection |
| red-black tree | `root` and the links and colours of the nodes | `rb_link_node`, `rb_insert_color`, `rb_erase`, `rb_replace_node`, walks | one owner |
| `MemorySlab` | the page descriptors, `slab_free_`, a list per size class | `alloc`, `free` under one mutex | any thread |
| other data structures, strings, time, files, crypto, ... | sequential | | used by one thread at a time |

What is hard in this code:

* **Handing over.**  A functor is pushed under a mutex and the loop is woken
  afterwards, only when `QueueInLoop` thinks it must be; a wakeup too few, or a
  `quit` at the wrong moment, leaves the loop asleep in poll.
* **Unprotected flags.**  `quit_`, `loop_`, `state_`, `connect_` are read and
  written by several threads in the middle of longer sequences.
* **Lifetime.**  Channels are raw pointers in epoll, functors are bound sometimes
  with `this` and sometimes with a shared pointer, and timers are deleted while
  their identity is still in a user's hand.
* **Order between loops.**  A connection lives in one loop and is registered in
  another; each sends the other functors, and the server may be gone when they
  arrive.
* **One notify.**  The pools wake one thread for one task or one place, `thpool`
  through a semaphore that counts to one; who is woken may find that somebody
  else was faster.
* **Limits.**  The queue of the pool is full, the logging thread falls behind, the
  process is out of descriptors, the slab out of pages.
* **Many ways to end.**  A connection is closed by its peer, by either kind of
  close of the user, by a timer, or by the destruction of its server; a client
  is stopped while it connects, retries or reconnects.

`PROJECT.json` lists every component, also those that are not modelled with the
reason, and every hazard at its line.

## 2. Modules

### TaskQueue, EventLoop, EventLoopProofs

`TaskQueue` is the promise: accepted functors wait in one queue and run once, in
order; a functor may instead run at once in the offering thread; nothing is left
when the executor closes.  It knows nothing of polling.

`EventLoop` splits each call where another thread can come between: the read of
`quit_`, the locked `push_back`, the decision to wake and the write of the
eventfd.  The loop thread has one action per stage of an iteration (`LoopTest`,
`PollWakeup`/`PollOther`, `HandleWakeupRead`, `HandleOther`, `SwapPending`,
`RunFunctor`, ...), with user code, in which the owner may call back into the
loop, inside handlers and functors.  The entry of `loop()` is two steps, `LoopStart`
(`looping_`) and `LoopEnter`, which clears `quit_`: a `quit` of another thread
between them, or before, is forgotten.  `Destroy` is of a loop that has returned
or was never run; it closes the eventfd and runs the functors that are left.

The refinement mapping to `TaskQueue` is `queue <- Accepted`, `done <- executed`,
and `Accepted` is `functors \o pending`, with one exception.  Once a loop has
polled, it can only be destroyed after a `quit`, so that a functor run by its
destructor which queues another one runs it at once.  A loop that never ran has
`quit_` unset: there such a functor goes into `pending_functors_` when nobody looks
there any more, and is not accepted.  Functors are opaque and each is offered once.

### TimerQueue, TimerQueueProofs

Time is relative (ticks left), so repeating timers need no bound on the clock.
Requests of other threads wait in a FIFO `inbox`, as functors of the loop do.
`HandleRead` is split into the read of the clock, one action per callback and
`Reset`, so that callbacks add and cancel timers while a batch is being run;
each Timer object is "none", "live" or "freed", and touching a freed one ends in
"undefined".

### InterestSet, Pollers, ContainersProofs

`InterestSet` is what an `EventPoller` promises: each channel is watched for
exactly the events it last asked for, whatever the others do, and only watched
channels become active.  `Pollers` has both implementations: epoll with the
states of `index_`, and `poll` with the array of entries, the negated descriptors
and the last entry moved into the place of a removed one.  Both refine
`InterestSet` (`wanted <- events`, `watched` from the kernel's set or the array).

### EventLoopThread, ThreadsProofs; EventLoopThreadPool, TcpServerProofs

`EventLoopThread` has the owner's and the worker's program counters, the latch of
`Thread::start`, the condition variable (with spurious wakeups) and the little of
the loop that matters here: `quit`, the eventfd, a count of functors.  A call of
`QueueInLoop` is three steps (the test of `quit_`, the push under the lock, the
wakeup), and an iteration one step for each place where the other thread can come
between: the test of `quit_`, the return of poll, the read of the eventfd, the swap
of the functors, and the end of those taken.  So the loop may leave between any two steps
of a call, and a functor pushed after the last swap is left to the destructor of
the loop (`Unwind`), which runs it.  If the loop is gone before the call ends, both
threads are "undefined".  The pool is
sequential; its index arithmetic is modelled as it is, the bitwise and included.

### TcpServer, TcpServerProofs

`TcpServer` and `Acceptor`, on top of `EventLoopThreadPool`, whose `GetNextLoop`
it calls.  Each loop has its queue of functors; `NewConnection`,
`RemoveConnection`, `RemoveConnectionInLoop` and `~TcpServer` send
`ConnectEstablished`, `RemoveConnectionInLoop` and `ConnectDestroyed` from one to
the other.  Of a connection only `state_`, its registration, and who holds it are
kept.  Descriptors are counted, so that `accept` meets `EMFILE`: the acceptor
then closes its spare descriptor, accepts, closes and reopens, in steps between
which other threads open and close descriptors.  The loops of the pool end with
the server.  A functor or a close that reaches the server after its destruction
sets `used`; the model stops there, as `failed` does in the modules below.

### TcpConnection, TcpConnectionProofs

One connection, from `NewConnection` to its last reference: the channel and epoll
registration (`Update` is `EpollPoller::UpdateChannel`), readiness (`Ready`), the
handlers in the order of `HandleEventWithGuard`, the functors in batches, one
user thread that tests `state_`, changes it and queues in separate steps, the
server's loop that erases the connection, and the server's destruction.  Data are
units of messages: a write takes any number of them, and the two histories
`output` and `wire` are what has not been and what has been sent.  `Owned` says
whether anybody still holds a `TcpConnectionPtr`.

Three sequences, against which the code has no guard, set `slips`: "stale" (the
test of `state_` and the assignment straddle a close), "readded" (`DisableAll`,
or a read call after the close, registers the channel again) and "halfClosed"
(`ConnectDestroyed` in `kDisconnecting`).  A failed assertion or the use of a
freed object sets `failed`.  After either the model stops and, but for
`ShutdownOnlyWhenDrained`, which no such step breaks, claims nothing: the program
has asserted, or is about to.  These sequences are in the model
on purpose, and are listed as hazards.

### TcpClient, TcpClientProofs

`Connector` and `TcpClient` in one module, since each calls into the other in the
middle of its operations.  A loop iteration takes a snapshot of what is ready
(`Poll`), handles it, and then runs a batch of functors; the connection is only
there or not.  The user thread sets the flag of the client, the flag of the
connector and queues the functor in three steps.  `RemoveConnection` and the
`restart` it calls are two steps, because `stop` may come between.  It uses the
same convention: `failed` stops the model.

### ThreadPool, ThreadPoolProofs; Thpool, AsyncLogging, CoSchedule, ThreadsProofs; MCThreads

What a thread does under the mutex, up to a wait or the unlock, is one step; the
unlock is a step of its own where the object may be gone by then.
`ThreadPool` has the owner (`start` adds the workers one by one), the callers of
`run`, which may be tasks, and the workers; `running_` is read with and without
the mutex as in the code.  `Thpool` has the binary semaphore, the two reads of
`threads_keepalive`, the counts and `thpool_wait`; a worker that leaves counts
itself out (`LeavePool`) and then unlocks (`UnlockThcount`), and if `thpool_destroy`
has freed the pool in between, the model stops in the stage "undefined".  `AsyncLogging` has the four
buffers, the file as a sequence of the buffers written and of notices, and the
wait with its time limit; lines are numbered.  `CoSchedule` has the list, `cur_`, what `_co.cpp` keeps of each
coroutine, and the thread in `stop`.

None of them knows of another, so `MCThreads` checks them, and
`EventLoopThread`, in one run: in each behaviour one component, the `subject`,
moves and the others stay in their initial states.

### NetBuffer, Slab, ContainersProofs; RbTree; MCContainers

`NetBuffer` is a record and its operations are operators, built from each other
as in the code.  `content` is the history of what must still be readable.  In
`RbTree` the mirrored halves of the rebalancing loops are one operator with a
side, and walks forward, backward and in postorder are compared with the set of
keys that were inserted.  `Slab` has the page descriptors with their lists as they
are threaded through memory, and `slab_empty`, which finds out whether a
neighbour is free by following its list; the three kinds of bitmap are one set.
A walk along `next` or `prev` is the least set of pages closed under the link
(`Reached`), which needs no recursion and can be reasoned about.
`MCContainers` is their harness, and that of `Pollers`, as `MCThreads` is.

## 3. Runs

| Run | Checks | Instance |
|---|---|---|
| `event_loop` | `NoLostWakeup`, `NoLostQuit`, `Fifo` (refinement), `PushedFunctorRuns`, `QuitEndsLoop` | two clients and the owner, three functors; a loop that is run, not run, run again, destroyed |
| `timer_queue` | `ActiveIsQueued`, `OneOwner`, `EarliestIsArmed`, `CancelHolds`, `TimersFire` | three timers, two of them repeating and two cancellable, delays of one or two ticks |
| `timer_queue_erase` | finding, `SameSize` | the same, one repeating |
| `threads`: event loop thread | `StartLoopHonest`, `ThreadReturns`, `QueuedFunctorsRun` | loops that quit by themselves, up to two functors |
| `threads`: pool | `PoolSound`, `PoolProgress` | up to two workers, two callers, four tasks, a queue of two |
| `threads`: thpool | `ThpoolSound` | two workers, two users, two jobs |
| `threads`: logging | `LoggingSound`, `LinesGetWritten` | buffers of two lines, more than three are too many, 14 lines |
| `threads`: coroutines | `NoOvertaking`, `StopComesBack` | four coroutines |
| `event_loop_thread_hang` | finding, `DestructorReturns` | loops that do not quit by themselves |
| `tcp_server` | `Balanced`, `EndsOnce`, `HeldWhileOpen`, `BacklogMoves`, `ClosedIsFreed` | no loop, one or two, three clients, three descriptors |
| `loop_pool_hash` | finding, `HashInRange` | up to four loops |
| `tcp_connection` | `StreamInOrder`, `OutputWatched`, `CallbacksPaired`, `RemovedBeforeFreed`, `ShutdownOnlyWhenDrained`, `ShutdownCompletes`, `ClosesForGood` | a two-unit message of the user and one of the message callback, all calls |
| `tcp_connection_assert` | finding, `AssertionsHold` | `shutdown` only |
| `tcp_client` | `SocketsAccounted`, `OneConnectIsSafe`, `StopEndsAttempts`, `ConnectIsAnswered` | every sequence of four calls, every answer of the kernel, delays 2, 4 and the limit 5 |
| `tcp_client_stop` | finding, `StopIsFinal` | two calls |
| `containers` | `PollersWatch` (refinement), `BufferSound`, `RbSound`, `SlabSound` | three channels, two events; a buffer of at most seven bytes; eight keys; five pages, two classes, four pointers up to symmetry |

A component's type invariant is a conjunct of one of its invariants
(`OneOwner`, `CallbacksPaired`, `HeldWhileOpen`, `StartLoopHonest`,
`SocketsAccounted`, `PoolSound`, `LoggingSound`, `NoOvertaking`, ...).

Why the bounds are enough.  The races of the event loop need a thread inside a
call and one more that has just finished one, and a functor in each of the
positions pushed, being run and queued from within: two clients and three
functors.  A timer queue goes wrong between one timer that runs, one that is
cancelled and one that must stay: three.  A write is divided in at most two parts
(the direct write and the buffer), so two units show every division that matters,
and the second sender shows what may overtake it.  `MaxFunctors` bounds only what
the user thread has waiting in the queue; it goes on calling while the loop runs
its batch.  Four calls reach connect, stop, connect again and destroy.

Four tasks fill a queue of two, with a third that waits for a place and one that
runs and offers another: the smallest jam.  Seven lines make
one buffer too many for the logging thread; with 14 it drops, recovers and drops
again.  Four coroutines leave two others before and after the one that ends.
Three clients are one that ends, one that is open and one that waits for a
descriptor, and three descriptors are the spare one, one for a client, and one
that another thread may take.  A buffer of seven bytes moves, grows and shrinks
with a room in front of one byte.  Eight keys make a tree of four levels, in which
each case of the removal occurs, on either side.  Five pages leave a run of two
beside one that merges with neighbours on both sides.  The allocator never looks
at who calls it, and `SlabSound` speaks of all callers alike, so permuting the
pointers is a symmetry; no liveness is checked in that run.

Deadlock is checked wherever the system has no end; the modules that end have a
`Finished` step.  `TcpConnection`, `TcpClient` and `TcpServer` really stop (the
connection is freed, the user has made its calls, no client is left), as do the
containers once every pointer and key is in use, so their configurations turn the
check off; what must still happen there is stated as liveness.

`QuitEndsLoop` speaks of a loop that is past its entry: until `LoopEnter` has cleared
`quit_` the code forgets a `quit`, and `event_loop_thread_hang` shows what comes of
it.  `QueuedFunctorsRun` speaks of a functor from its push on; one pushed before the
entry of `loop()` waits for the first iteration, one pushed after the last swap for
the destructor of the loop.

### Fairness

* Threads run: weak fairness of each thread's own steps.  Nothing makes a user
  call anything, a peer act, or a spurious wakeup happen.
* `poll` has a ten-second timeout in the code; no property leans on it.
* Time passes and timers fire (`Tick`; strong fairness of `Expire` and
  `HandleTimer`, which are only possible in one stage of an iteration).
* The logging thread's wait ends after `flush_interval_` (`Timeout` is a step of
  `LogThread`).  `LinesGetWritten` needs it: `stop` notifies without the mutex,
  and that notify may be lost.
* Tasks, jobs and coroutines end or yield.
* The loops of a server come to each functor (strong fairness of `RunFunctor`
  per loop: the base loop is inside `HandleRead` of the acceptor again and again).
* The peer reads: strong fairness of `PollWritable`, since the socket becomes
  writable again and again.  `ShutdownCompletes` needs it; a peer that never
  reads keeps a half-closed connection open for ever, in the code as well.
* The kernel answers a `connect`, and again and again with success: without it
  `Connector` retries for ever, which is what it is for.

## 4. What is proved

`EventLoopProofs`, for every set of clients and functors:

* `Invariant`: `Spec => []IInv`.  `NoLostWakeup` is not inductive: it speaks only
  of a loop blocked in poll.  `WakeupOK` is its general form: wherever the loop
  is, pending functors are about to be swapped, or the eventfd is readable or
  about to be written.  It rests on what each program location implies:
  `CallingOK` (`calling_pending_functors_` is set exactly inside
  `DoPendingFunctors`, so that a functor queued by a functor does write the
  eventfd), `OwnerOK`, `FunctorsOK`, and for the destructor `StoppedOK` and
  `ClosingOK` (nothing is queued behind the functors it runs).
* `TypeCorrect`, `WakeupNotLost`, `QuitNotLost`: the parts of it the run checks.
* `LoopImplementsTaskQueue`: `Spec => Promise!Spec`, step by step under `IInv`;
  `ClosingOK` is what shows that the queue is empty when the loop is gone.

`ContainersProofs` has three components.  For every set of channels and of events,
`PollersImplementInterestSet`: `Pollers` implements `InterestSet` whichever poller
is built.  The invariant says what `index_` means: under epoll, it is `kAdded`
exactly while the kernel has the descriptor; under poll, it is the place in
`pollfds_` of the entry of the channel, and entries and added channels are one to
one (`Entries`).  Without the second part the refinement is not inductive: a stale
index would let one channel overwrite the entry of another.  There is one lemma
for each thing the code does to the array (append, overwrite, move the last one
into the gap), and one for each operation of a channel.

For bytes of any kind, buffers of any sizes and calls of any length,
`BufferKeepsBytes`, the invariant `BufferSound`.  It is the two facts the
operations share, stated as lemmas: the indices stay in order, and each operation
changes the readable bytes as a byte queue would (`Holds`), whether it moves them,
grows the buffer, spills into the stack buffer or puts a header in front.

For any number of pages, size classes and callers, `SlabIsSound`, and
`SlabFindsRoom`, the invariant `SearchExact`: the search of `alloc_pages` ends at
free pages, and it ends without any, so that `alloc` returns null, only when there
is no stretch of free pages of that length.  It follows from `SlabSound`, which is what
the run checks: `FitIsFree` and `NoFitNoRoom` are its two halves.  `SlabSound` compares what callers hold with what a walk along
the links finds, and neither is in the state.  The invariant `SlabInv` therefore
says that there are sets of pages, one for each list head, such that

* the links make a list of each (`IsList`: one step along `next` or `prev` stays
  inside and the two are inverse, some page is the last, and no part of the list
  is closed under `prev`, so that `slab_empty` does come to the head);
* the set of the free list are the heads of the free runs, their `slab` fields the
  lengths, every page nobody holds is in just one run (`Runs`), and no run ends
  where another begins (`Apart`), which is that neighbours have merged;
* every other page has a `slab` field that is not 0 and a null `next` unless it is
  in the list of a class: the two tests of `slab_empty` (`SlabEmptyFree`);
* descriptors agree with what the callers hold (`HeldOK`), and a bitmap with the
  chunks held, the page being in the list of its class unless it is full
  (`UsedOK`).

`ListReached` makes the walk and the set the same: the list is closed under `next`,
and what `prev` says excludes a smaller closed set.  In `free_pages` the invariant
is broken for a moment, by a run that adjoins others: `FreedSound` allows the new
run two neighbours, `BackSound` one, and `ForwardSound` none (`ApartBut`).

`TimerQueueProofs`, for every set of timers, delays and requests:
`TimersHaveOneOwner`, `ActiveTimersQueued`, `TimerfdIsArmed` and `CancelIsKept`,
the four invariants of the run.  What makes them inductive is what the code never
speaks of: because `cancel` erases with the sequence number where `timers_` is
ordered by expiration, entries of freed Timers stay behind.  `EntriesOK` says
that an entry is that of an active timer or of a freed one; `ArmedOK` counts both,
since a new timer is compared with the entries left behind before the timerfd is
armed for it.  `Owned` is the ownership of each Timer, and `CancelledOK` puts a
timer cancelled by its own callback into `canceling_timers_` until `reset` frees
it.  All of this holds until a freed Timer is used.

`TcpConnectionProofs`, for messages of every size, any number of them, and any
calls of the user and of the message callback: `BytesAreWatched`,
`UserIsToldOnce`, `RemovedBeforeDestructor` and the action property
`ShutdownWaitsForOutput`.  The invariant says what each value of `state_` implies,
for as long as nothing has failed or slipped: the channel and its registration
(`ChannelOK`), the callbacks made (`CountsOK`), that nobody knows the connection
before it is established (`UnknownOK`), that `ConnectEstablished` is the first
functor and there is no second one (`FirstOK`), and who is still to take the
channel out of the poller (`EndOK`: the server that holds the connection, a
`RemoveConnectionInLoop` or a `ConnectDestroyed` on its way).  None of the four
properties is inductive by itself: that the channel has left the poller when the
last reference goes needs the functor queues, since the reference that goes last
is often the one in `ConnectDestroyed` itself.

`StreamIsInOrder` is proved on top of it, for messages of every size.  That what
the peer has been sent and the output buffer together are whole messages in order
(`Placed`) says nothing of the messages still on their way to the loop, and those
are what a direct write may overtake.  `StreamOK` adds them: some number `p` of
the user's messages is in the stream, and the functors of the batch and then of
the queue bring the next ones, from `p + 1` on and in order (`Pending`).  After
the close the functors find `kDisconnected` and drop their message, so `Pending`
ends there.  `Extends` is the lemma for a message that is appended whole; the
division between the direct write and the buffer only moves the border between
`wire` and `output`.

`TcpServerProofs` first has the pool, for every number of loops: `TypeCorrect`, and
`RoundRobinFair`, the invariant `Balanced`, from the position of `next_` relative
to where it stood at the last start.  `ServerUsesPool` shows that each step of
`TcpServer` is an operation of the pool or leaves it alone, and `ConnectionsSpread`
that the server's connections therefore are spread evenly.  Then, for every number
of clients, loops and descriptors: `ConnectionsEndOnce` and `OpenIsHeld`.  Neither property speaks of the queues,
which is where they are decided.  The invariant gives each connection one of five
stages, and for each stage what is on its way and where: `Fresh` (its loop has yet
to run `ConnectEstablished`, and if `ConnectDestroyed` is queued it is behind it),
`Open`, `Leaving` (closed, and the base loop is to erase it), `Erasing` (erased, one
`ConnectDestroyed` on its way) and `Over`.  A `RemoveConnectionInLoop` may be left
over in the last two, but only once the server is gone, which is when the code
uses the destroyed server; from there on the stages are not claimed.  Most of the
proof is about queues: what an append, a pop and the functors of `~TcpServer`
(which go in the order of the map, whatever that is) do to the number and order of
the functors of one connection, and to those of the others.

`ThreadPoolProofs`, for every number of workers, callers and tasks, and every limit
of the queue: `PoolIsSound`.  That nobody sleeps while there is something to do is
a statement about numbers of threads: `SleepersOK` says that the tasks in the
queue are no more than the workers that have been woken and have yet to look
(`Number(at, "take")`), and the free places no more than the callers of `run` that
have.  It also says that nobody at all sleeps unless the pool runs, which `stop`
provides by waking both sides.  `TaskOK` says where each task is: with one thread,
in the queue once, begun once, or nowhere (not offered yet, or dropped after
`stop`).

`TcpClientProofs`, for every number of calls and any delays: `SocketsAreAccounted`,
`OneConnectHolds` and `StoppedForGood`.  The invariant `ClientInv` holds while
nothing has failed.  `Accounted` counts descriptors: one for an attempt, one for a
connection, and one for each connection whose `ConnectDestroyed` is queued.  It
needs `PhasesOK`, which says that what `poll` has reported is still so when its
turn comes, whatever was handled before it.  The assertions of the connector need
two more: `Bounded` (each call of `connect` is in one place: on its way, a timer,
an attempt or a connection) and `ChannelOK` (a removed channel is reset before
anybody wants its place, that of a connection in the iteration that made it).
`StopOK` is what a `stop` leaves behind: `connect_` is off, and an attempt that is
under way has a `StopInLoop` queued before its end.  `DestroyOK` says the same of
the destructor, and `CallsOK` ties the call being made to the calls counted.

`ThreadsProofs` has four components.

* `StartLoopIsHonest`: `StartLoop` returns the loop of a thread that has
  published it, or none if it has left.  `ThreadInv` says between which steps of
  the worker `loop_` is set, and that a worker on its way out has set it back
  before the user can see `exiting_`.
* `NobodyIsOvertaken`, for every set of coroutines.  `NoOvertaking` bounds counts
  of turns; `InTurn` says which counts are possible: in the circular order that
  begins at `cur_`, whoever has had a turn since another one in the list had its
  own is behind it (`Ahead`).  `After` and `NextLeft` keep that when one yields or
  ends, and a new coroutine has had no turn yet.
* `JobsAreAwaited`, for every number of workers, users and jobs: the safety part
  of `ThpoolSound`.  `JobsOnce` says where each job is, `CountsOK` that the two
  counts of the pool are numbers of threads at certain places, and `JobsSeen` that
  while there are jobs the binary semaphore is set or somebody who took it is
  still on the way to the queue, where it will post again.
* `LoggingIsSound`, for buffers of any size and any limits.  `LogOrder` puts the
  four places a line can be into one order (file, buffers being written, full
  buffers, current buffer), with the lines dropped before all that wait;
  `LogFilled` says that only the last buffer taken may be empty.  Both are
  needed to see that a loss is announced where it happens: the buffers kept are
  not empty, so that only a line of the last of them can be next to a dropped one
  (`LossesAnnounced`).  `LogReady` is why the buffers never run out: the callers
  take the second buffer only by filling one, so that then there are two to
  recycle.

Assumptions: the owner is not a client, and "no functor", "no job", "no coroutine"
and the null buffer are none; the callers of a pool and the workers of a `thpool`
are finitely many; the bounds and sizes are naturals, where the code needs it not
zero; channels are positive numbers, as descriptors the pollers get are
(`PollPoller` negates them); a message has at least one unit; the first retry
delay is not above the limit; the logging thread keeps at least two buffers and
drops none before it has that many (2 and 25 in `async_logging.cpp:100-106`); a
page of the slab has at least two chunks beside those of its bitmap, as sizes from
half a page on get whole pages (`slab.cpp:242`).

Only model-checked: all liveness, the part of `ThpoolSound` that says that users
are served among it (liveness is out of the prover's reach), and the red-black tree.
Its walks and rebalancing loops are recursive operators, which cannot be used where
something is to be proved; written otherwise, what a walk returns and that all paths
have as many black nodes are statements by induction over trees, and the provers
cannot instantiate an induction over data.  Every other invariant and action
property of the passing runs is proved for all values of the constants.

## 5. Findings

| Run | Where | What |
|---|---|---|
| `timer_queue_erase` | `timer.cpp:151` | cancelling erases from `timers_` with an expiration that may be older than the timer's, so the two sets differ in size |
| `event_loop_thread_hang` | `event_loop.cpp:107` | `loop()` clears `quit_` on entry; a quit just before is lost and the destructor joins for ever |
| `loop_pool_hash` | `event_loop_thread_pool.cpp:94` | `hash & size` where a remainder was meant |
| `tcp_connection_assert` | `connection.cpp:252` | a half-closed connection is destroyed with its events set |
| `tcp_client_stop` | `connector.cpp:70` | `restart` overrides a `stop` made since `RemoveConnection` decided to reconnect |

The assertions are those of a build without `NDEBUG`, which is how the Makefile
builds.

## 6. Not modelled, and simplifications

* Functors, payloads and callbacks are opaque.  The callbacks for a drained
  buffer and for the high-water mark only notify; received data is only there or
  not.  `HandleError` of a connection only logs.  `EINTR` is not modelled.
* `TcpConnection` has one connection, over epoll; `TcpServer` has several, of
  which it keeps what the server needs.  In the former the server's loop is not
  the connection's, as with a thread pool.
* In `TcpClient` the retry delay is longer than one iteration of the loop, and the
  second for which the destructor keeps the connector longer than any functor
  waits.
* In `Pollers` a channel is not used after its removal: `PollPoller` leaves
  `index_` as it is (`poller_poll.cpp:96`), and an update of such a channel would
  write into another one's entry.  All owners in the library comply.
* `EventLoop`: after `quit_` is set, `RunInLoop` and `QueueInLoop` run the functor
  in the calling thread (`event_loop.cpp:149`), beside the loop that is leaving.
  It is in the model, and in the promise of `TaskQueue`; it is the code's design.
* `ThreadPool::run` drops the task without a word after `stop`, and workers leave
  tasks behind; both are in the model.  `AsyncLogging` loses the lines appended
  after its last exchange of buffers when it is stopped.
* `thpool`: `pause` and `resume` are left out, as a paused thread is a slow one.  A
  signal that is delivered after `resume` holds its thread until the next
  `resume`.  Of two users in `thpool_wait` one may sleep on after all is done,
  because `threads_all_idle` is signalled and not broadcast; `ThpoolSound` says
  so.  `threads_keepalive` is shared by all pools, so destroying one ends the
  workers of another.  A worker unlocks `thcount_lock` (`thpool.cpp:381`) after it
  has let `thpool_destroy` free it (`:241`): this is in the model, and no property
  excludes it.
* The blocking queues repeat the protocol of `ThreadPool`'s queue;
  `SyncTaskQueue::stop_` is never initialised (`block_queue.hpp:108`).
* `NetBuffer::find_EOL(start)` may search past the written bytes
  (`buffer.hpp:117`); searching is left out.  The calls whose arguments the code
  leaves unchecked are made with arguments that fit.
* Red-black tree: augmented trees are left out.  `rb_insert` loses the tree
  (`rbtree.cpp:691`); the model follows it there and claims nothing after it.
* Slab: the kinds of bitmap are one set, and `slab_exact_shift_`, which is
  incremented without an initial value (`slab.cpp:670`), is not there: the classes
  are constants.
* Other data structures are sequential and left for later; `min_top_heap.hpp`
  removes every item equal to the last one when it extracts the first.
* `LogFile`, formatting, and all other conversions and wrappers of system calls.
* Third-party code (`json`, `pugixml`, `httplib.hpp`, `httpserver.hpp`,
  `doctest.h`).  It is by far the larger part of the tree: what is modelled is a
  small share of all lines, and most of the lines that run concurrently.

The assertions are those of a build without `NDEBUG`; see the findings.

## 7. Plan

In order of what matters most:

1. `thpool_pause` with its signals, and the blocking queues, with their proofs
   next to those of `ThreadPool`.
2. The heap, the LRU map and the ring buffer.
3. Proofs: the rotations of the red-black tree on their own, which need no
   induction: that each keeps the order of the keys around it.
