# A TLA+ model of platoon

platoon is a single-threaded async runtime for Rust: an executor, timers, an epoll or kqueue
reactor, and synchronization primitives that never leave their thread (`Rc`, `Cell`, `RefCell`).
Nothing runs in parallel, but everything interleaves: between two polls of a future any other task
may run, move it to another task, drop it, or change what it waits for. The models cover those
interleavings, the results of the parker, and what happens when one of its calls fails.

Paths below are relative to the repository, so `src/runtime/executor.rs` is its executor.
`PROJECT.json` maps each definition to the lines it models and lists runs, mutants, findings,
hazards and theorems.

## The system

| Component | State | Operations | Correct when |
|---|---|---|---|
| Executor, `runtime/executor.rs` | run queue, `woke`, per task `state`, `payload`, `awaiter` | `block_on`, `spawn`, `run`, `wake` | no wake-up is lost, no task is queued twice, every queued task and every event gets its turn |
| Tasks, `task.rs` | `JoinHandle` | poll, `cancel`, drop, `yield_now` | whoever awaits a handle is woken when the task is done |
| Clock and timers, `runtime/clock.rs`, `time.rs` | ordered map of alarms, next id; per `Sleep` deadline, id, waker | `insert_alarm`, `remove_alarm`, `reset_alarm`, `replace_alarm_waker`, `park`; `Sleep`, `Interval`, `Timeout` | a suspended task is woken after its deadline, nothing panics, the thread neither oversleeps nor spins |
| Reactor, `runtime/reactor.rs`, `net/mod.rs` | slab of sources, per direction a waker and `woke` | `insert_source`, `remove_source`, `poll_ready`, `poll` | a stored waker means an armed source, readiness is not lost |
| System pollers, `sys.rs` | epoll or kqueue descriptor | `add`, `update`, `delete`, `poll` | one-shot interests are reported once and armed again; timeouts are kept |
| Semaphore, `sync/semaphore.rs` | pool of permits, slab with a doubly linked list of waiters | `acquire`, `try_acquire`, `add_permits`, drop of futures and permits, `forget` | first in, first out; what is granted stays covered |
| Mutex, RwLock, `sync/mutex.rs`, `sync/rwlock.rs` | a semaphore and a `RefCell` | `lock`, `read`, `write`, the `try_` forms, drop of guards | the `RefCell` never panics |
| Oneshot, `sync/oneshot.rs` | message, `complete`, two wakers | `send`, `poll_closed`, `close`, `try_recv`, poll, drops | the message arrives at most once and is not lost; both halves are woken |
| Runtime context, `runtime/mod.rs` | thread-local current runtime, `Rc` references between runtimes, tasks and sockets | `new`, `enter`, `current`, `spawn`, `block_on` | the context is that of the innermost guard; nested calls do not take each other's wake-ups; nothing leaks |
| TCP, `net/tcp.rs` | none of its own | `bind`, `accept`, `connect`, `peek`, reads and writes, through the reactor | a stream is returned when it is connected |

The executor calls the clock and the clock calls the reactor through one trait, `Park`: `park` and
`park_timeout` push wakers into a vector, and the executor wakes them afterwards. Wakers are the
only messages: futures leave clones of them in alarms, sources, waiters, channels and join handles.
`Mutex` and `RwLock` call the semaphore. All of it is reached from the poll of some future, which
is user code.

What is hard: wake-ups that arrive during the poll of the task they are for; futures that move
between tasks, which makes every stored waker a cached value; futures that are dropped after they
were granted something and before they took it; timers reset after they expired; parks that end
early, late or with an error; one-shot interests that are disarmed by every event, and updates that
fail half-way; calls of `block_on` inside polls; reference cycles; the fairness of a loop that three
parties share.

## Modules

| Module | Models | Checked by | Proved in |
|---|---|---|---|
| `Executor` | executor, tasks, join handles | `MCExecutor` | `ExecutorProofs` |
| `FifoSemaphore` | what the semaphore promises | `MCRwLock`, `MCSemaphore` | `FifoSemaphoreProofs` |
| `Semaphore` | the semaphore as coded; implements `FifoSemaphore` | `MCSemaphore` | `SemaphoreProofs` |
| `RwLock` | Mutex and RwLock; extends `FifoSemaphore` | `MCRwLock` | `RwLockProofs` |
| `Timers` | clock, Sleep, Interval, Timeout, timeout of epoll_wait | `MCTimers` | `TimersProofs` |
| `Oneshot` | the oneshot channel | `MCOneshot` | `OneshotProofs` |
| `Reactor` | reactor, retry loops of `Async`, TCP calls, epoll and kqueue | `MCReactor` | `ReactorProofs` |
| `IoLoop` | `Executor` and `Reactor` in joint steps | `MCIoLoop` | |
| `Runtime` | context and guards, nested `block_on`, ownership | `MCRuntime` | `RuntimeProofs` |

Each module keeps the mutated variant of an operator right before the operator, commented
`Mutant of`; nothing but the mutation check uses them. Variables commented `history` record what
properties speak of and are never read by a guard of the code.

**Executor.** `pc` is the place of the thread in `block_on`: `top` of the outer loop, `slots` (the
for loop), `polling` (inside a future), `park`, `tick` (`park_timeout`), `waking` (the vector of
wakers), `idle` outside. A poll is a span of steps, from `PollMain` or `RunTask` to `PollPending`,
`PollReadyMain`, `PollReadyTask` or `PollPanic`; in between the polled actor may spawn, wake, poll,
cancel or drop anything. `queue`, `woke`, `state`, `payload` and `awaiter` are the fields of the
code. The parker is seen through its contract: `ready` holds the actors whose wakers it will hand
over, all of them (`Park`), some of them (`ParkSome`: EINTR, a full event buffer) or with an error
(`ParkFailed`). A waker may be kept by anyone for any time, so any actor may be woken in any poll.
Nested `block_on` is the matter of `Runtime`.

**Semaphore.** `inner` is the struct `Inner`: permits, slab, head, tail; `AddWaiter`, `Remove`,
`WakeWaiters` are its methods, as functions from one `Inner` to the next. One slot of `Futures` is
a caller: a fresh future, a waiting one, then its permit, then the next caller. `MaxPermits` stands
for `usize::MAX`; `OverflowChecks` tells the debug build, where `+=` panics, from the release
build, where it wraps around. `FifoSemaphore` has no list: it keeps the set of those ahead of each
waiter and the sums of their requests; running sums instead of a recursive sum keep it within reach
of the provers. `Semaphore` keeps the same order and sums as history variables (`ahead`, `need`,
`demand`), which no action reads: `ListSound` says that the links are that order, and the loop of
`Inner::wake`, the recursive function `Walk`, has to reach by its links and remainders exactly those
whose sum the pool covers. The refinement mapping needs no more than the phase of each caller.

**RwLock.** A guard asks for `Cost(kind)` permits and borrows the value when it gets them, in the
same step, since there is no await in between. `Kinds = {"write"}` and one permit make a Mutex.
The locks use the semaphore as `FifoSemaphore`, which the theorem `Refinement` of
`SemaphoreProofs` justifies.

**Timers.** `alarms` is the `BTreeMap` from `(deadline, id)` to a waker. `now` passes on its own, in
user code and in the parker. Instants have a resolution finer than a millisecond (`MS` units), and
a `c_int` has a width (`C_INT`, its values reach from `-C_INT` to `C_INT - 1`), because the timeout is
converted to both. `pc` tells an idle thread, which waits for the next alarm (`parked`), from a busy one,
which only looks (`polling`); `start` and `timeout` are those of the wait. Instants are bounded by
the set `Instants`. The last act of an operation that panics is recorded in `panicked`. `ParkedInTime`
is stated from both sides and up to a millisecond, so it holds of either way of rounding; which way
it is to be is the question of `ParkRoundedUp`. An alarm is `Near` if the wait for it fits into a
`c_int`.

**Oneshot.** One action per method and drop; `Sender::send` includes the drop of the Sender that
it consumes.

**Reactor.** `poller` and `woke` are the fields of the two interests of each source, `events` is what
the system poller returned and `Reactor::poll` has not dispatched yet, `wakers` the vector it fills.
`op[t]` is the I/O call that a task is in: about to try its system call, about to call `poll_ready`,
or suspended. `do_io`, `poll_io` and `connect` differ in where the next poll resumes and in what
becomes of the source when the call ends or is dropped. `poll_ready` is four actions, one per outcome:
`PollReadyWoke`, `PollReadyReplace`, `PollReadyArm`, `PollReadyFails`. The kernel is external: `armed`
holds the interests it will report, once. `EpollWait` merges the directions of a socket into one event
and disarms the socket as a whole; `KqueueWait` gives an event per direction, with the end of a stream
counting for both. A failed `update` leaves epoll as it was, while kqueue may have applied either
change. Whether a socket is ready is chosen anew whenever the poller or a system call looks, which
allows for more than real sockets do. A source is named by its socket and not by its slab key; no user
code runs between the return of the poller and the dispatch, so no key is reused there. `Park` calls
the parker (`parked`), which returns with events (`EpollWait`, `KqueueWait`) or without (`WaitEmpty`: a
timeout or EINTR); no task is polled in between. `failed` and `stranded` record what a failed update has
damaged: the properties except exactly that.

**IoLoop.** `Reactor` instantiated into `Executor`: the reactor's woken tasks are the runnable actors,
its vector of wakers is the batch of `block_on`, and steps of both modules are taken together. It
replaces the executor's assumed parker by the reactor, for actors that do nothing but I/O on sockets
that are open. The reactor is `parked` while `block_on` is in `park` or `park_timeout`; `IoServed` is
the reactor's `SomeRetried`, without the premise that the parker is called.

**Runtime.** `frames` are the calls of `block_on` on the stack, `guards` the live enter guards, of the
user (depth 0) and of calls. `woke` is per executor, so calls on one runtime share it. Objects are
runtimes and tasks; `Root` and `Owns` say who holds an `Rc` of whom, and `Reclaim` is reference
counting, as the largest set of objects that are referenced from the thread or from one another: a
cycle stays. A task owns its executor; queue, alarms and sources own tasks (`stored`); a future owns the
runtimes of its timers and sockets (`holds`), and its own task through the waker that a `Sleep` keeps
beside its alarm (`asleep`). A future makes a timer or a socket (`Hold`), waits for it (`Suspend`) and
drops it (`Release`); when the alarm or the source fires (`Fire`) the stored waker is gone, while the
`Sleep` keeps the runtime and its waker. What a future has of one runtime counts as one object. `Leave`
is the return of `block_on` or a poll that panics, `ParkFails` the panic when the parker fails, and
`RunPolled` the panic when an inner call pops a task that is being polled further out.

## Runs

| Run | Bounds | Shows |
|---|---|---|
| `executor` | 2 tasks, main, 2 polls per tick | types, `ScheduledOnce`, `NoLostWake`, `NoLostJoin` |
| `executor_live` | the same, without handles and panics | `TaskProgress`, `EventsHandedOver` |
| `main_wake_honoured` | the same | violation, see Findings |
| `semaphore` | 3 callers, 2 tasks, 3 keys, 2 permits | types, `AssertionHolds`, `ListSound`, `GrantSignalled`, refinement `ImplementsFifo`, `EveryoneServed` |
| `rwlock` | 4 guards, 5 permits | `GrantsCovered`, `GrantedInOrder`, `FirstServed`, `BorrowNeverPanics`, `GuardsReturn` |
| `timers` | 2 timers, 2 tasks, instants 0, 1, 3 and 6, 2 units in a millisecond, timeouts below 3 ms | `PollNeverPanics`, `NoLostTimer`, `NoOrphanAlarm`, `ParkedInTime`, `TimersServed` |
| `tick_never_panics` | 1 timer | violation |
| `oneshot` | 4 tasks | delivery, closing and wake-ups |
| `reactor` | 2 tasks, 2 sockets, 4 calls, both pollers | `StoredMeansArmed`, `NoLostReadiness`, `ConnectedWhenReturned`, `Retried` |
| `io_served` | main and 1 task, 1 listener, 1 poll per tick | violation |
| `runtime` | 2 runtimes, 1 task, 2 nested calls, 2 guards, 1 timer or socket at a time | `ContextIsInnermost`, `GuardPerCall`, `OuterWakeKept`, `NothingSurvives` |
| `tasks_cancelled` | 1 runtime, 1 task | violation |

Why the bounds are enough. Two tasks and the main future are an actor, another, and one that is
special; two polls per tick make the for loop end both by its bound and earlier. The pool may start
empty, so that three callers make a list with a head, an inner node and a tail, and removals of
each of them happen; two permits let a large request stand between small ones. A RwLock with five
permits has room for more readers than there are guards, as one with `usize::MAX` has. Two timers
collide at one deadline and interleave at different ones; two units in a millisecond make rounding
visible, and with `C_INT` = 3 the instant 6 is just beyond a `c_int` when seen from 0, where the timeout
becomes negative, and within it when seen from 1. The channel has no parameter but its tasks. In `reactor` two tasks compete for one direction
of a socket, use both directions of it, or follow one another on it; the second socket is what an
accept returns. Both pollers are in one run: their steps mix there, and every behaviour of a build with
one of them is among the behaviours checked. Two runtimes, two nested calls and two guards are what it
takes to drop guards out of order, to nest on the same and on another runtime, to block inside a task
that is woken inside, and to let a task of one runtime wait in an alarm of the other; one timer or
socket at a time (`MaxHolds`) is enough for each kind of cycle. The proofs then remove the bounds for
the safety properties.

`FifoSemaphore` has no run of its own: the `rwlock` run checks its properties where it is used, the
`semaphore` run matches every step of the code, forgotten and added permits too, with one of its
steps, and its theorems cover all of its steps. A Mutex is covered by the theorems of
`RwLockProofs`, which hold for every `Kinds` and `MaxPermits`.

Symmetry is used for the tasks of `executor` and the runtimes of `runtime`, whose elements the code
never orders, and in no run that checks liveness. Deadlock is checked in all passing runs but
`oneshot`, where nothing is left to do when both halves are gone, and `runtime`, which creates a
bounded number of runtimes and ends when all are gone.

### Fairness

- `Executor!Fairness`: the thread keeps executing `block_on`, and every poll returns. Strong
  fairness of `Park` says that the parker does not always return a strict subset of what is ready:
  epoll hands out ready descriptors round robin, and EINTR does not happen on every call. Nothing
  is assumed of the main future or of the tasks beyond returning from their polls.
- `Semaphore!Fairness`: a woken task polls its granted future, which the executor's properties
  justify, and permits are dropped in the end. Nobody has to cancel. `EveryoneServed` has the
  premise that nobody waits for more permits than exist.
- `Timers!Fairness`: time passes and `epoll_wait` returns after its timeout. That the executor
  returns to the parker is a premise of `SleepsEnd`, since a busy main future may prevent it;
  `TimersServed` has the further one that the thread never parks with all alarms beyond a `c_int`.
- `Reactor!Fairness`: a woken task is polled, which the executor's properties justify; polls return;
  what `Reactor::poll` collected is woken; connection attempts end. Strong fairness of `Wait` for an
  interest says that a parker that is called again and again reports it: its peer keeps making the
  socket ready, and the poller does not pass over it for ever. It is asked only while the interest is
  armed and the thread is in the parker. That `block_on` calls the parker again and again, and comes
  back, is no fairness but the premise of `Retried`; `IoServed` shows that the code does not guarantee
  it. Nothing is assumed of the calls that other
  tasks make on the same socket, which is why `Retried` promises that *some* suspended call is retried:
  a newcomer may take the readiness each time.
- `IoLoop!IoFairness`: the thread takes steps, and a parker that is called again and again reports
  every interest that its peer keeps ready. Nothing forces `block_on` to call the parker, which is the
  point of the run.

## Findings

1. `MainWakeHonoured`: with an empty queue `block_on` parks without a look at `woke`. A main future
   that calls `yield_now` with no other task around is not polled again until a timer or a socket
   ends the park, and never if there is none.
2. `IoServed`: a main future and a task that wait for the same direction of one socket, say both in
   `accept`, replace and wake each other's waker in every `poll_ready`. Each wake-up of the main future
   makes `block_on` skip `park_timeout`, so the reactor is never polled: the connection that is there
   is not accepted, and no other timer or socket is served; only tasks that are queued still run. The same loop arises without sockets when
   a main future and a task keep waking one another, with `yield_now` and a channel; what does hold of
   events is `EventsHandedOver`.
3. `TickNeverPanics`: an `Interval` that had to wait panics when its tick completes. `reset_alarm`
   unwraps the alarm at the old deadline, which `park` has just removed. The same holds for
   `Sleep::reset` after the deadline.
4. `TasksCancelled`: dropping the last `Runtime` does not cancel what is still queued or waits for a
   timer or a socket: task and executor own each other. What does hold is `NothingSurvives`.

Observed on the way, without a run of their own:

- `add_permits` wraps around in a release build (`sync/semaphore.rs:104`), and the assertion of
  `poll_acquire` may fail later, in another task. With `OverflowChecks` set to FALSE in
  `MCSemaphore.cfg` the addition violates `ImplementsFifo`; with three permits and the invariants alone,
  `AssertionHolds` fails. A test expects the addition to panic (`tests/semaphore.rs:182`).
- The time to the next alarm is rounded down to milliseconds (`runtime/clock.rs:74`) although the comment
  above the line says `// round up to 1ms`. The thread wakes up to a millisecond early and then spins
  with a timeout of zero until the alarm is due. `ParkRoundedUp` states the comment; as an invariant in
  `MCTimers.cfg` it is violated by the first short sleep. `ParkedInTime` takes no side.
- A timeout of 2^31 ms or more is cut down to a `c_int` (`sys.rs:270`) and may become negative, and
  `epoll_wait` then blocks with no end: a task that sleeps for 25 days or longer is never woken unless
  something else ends the wait, against `time.rs:37`, "Puts the current task to sleep until `deadline`".
  `SleepsEnd`, which is `TimersServed` without its premise, is violated as a property in
  `MCTimers.cfg`.
- After guards are dropped out of order the context may be a runtime that was left, and stays set when
  no guard is alive; hence the premise `lifo` of `ContextIsInnermost` and `NothingSurvives`.
- A call that got an error from `update_interest` leaves its waker behind, so the next call on that
  interest waits without having armed it (`runtime/reactor.rs:87-91`).

## Proofs

All theorems hold for every value of the constants that satisfies the named ASSUMEs.

- **ExecutorProofs.** `IInv` adds to the properties: `LifecycleInv` (what `state` and `payload` say
  together; the future being polled is there), `TickInv` (the for loop has iterations left while a
  task runs, without which the bound of `polls` is not inductive) and `JoinInv` (while a task is
  incomplete its awaiter is the actor suspended on it; afterwards that actor has been notified).
  `NoLostJoin` follows from `JoinInv` and `NoLostWake`. Theorems: `TypeCorrect`, `QueueSound`,
  `WakesKept`, `JoinsKept`.
- **FifoSemaphoreProofs.** `OrderInv`: `ahead` is a strict total order of the line. `SumInv`: each
  `need` is that of the predecessor plus the own request, and `demand` is that of the last.
  `CoverInv`: a granted waiter is covered together with all those ahead, which is stronger than
  `GrantsCovered` and is what survives when one ahead takes its permits. Theorems: `TypeCorrect`,
  `AssertionNeverFails`, `FirstInFirstOut`, `NoPermitForgotten`.
- **SemaphoreProofs.** `IInv` has the list (`ListSound`, `LinkInv`), the ownership of waiters (`KeyInv`,
  `OwnInv`), `GrantSignalled`, the order and the sums of the line, and `YoungestInv`: every nonempty
  set of waiting futures has one that came last. That takes the place of induction over the list. The
  loop of `Inner::wake` has a closed form, `Covered`: from a waiter on it reaches those behind it whose
  requests add up to no more than the permits. The closed form satisfies the equation of the loop
  (`CoveredStep`), the youngest future for which both differed would have a successor for which they
  differ too (`WalkCovers`), and so the loop reaches exactly those with `need <= permits`
  (`LoopReaches`). Removal from the middle is `SkipOne`: if `f` is right ahead of `h` and `g` right
  ahead of `f`, then without `f`, `g` is right ahead of `h`, and nobody else's neighbour changes. `IInv`
  holds in every build; `Invariance`, `TypeCorrect`, `ListIsTheLine` and `GrantsSignalled` need no
  premise. `Refinement`, with one lemma per action, has the premise `OverflowChecks`, without which it
  is false (see the observations above). The theorems of `FifoSemaphoreProofs` are then instantiated
  through the refinement and read back in terms of the slab: `AssertionNeverFails`,
  `FirstInFirstOut`, `NoPermitForgotten`. The action property `LineMovesOn` holds in every build: no
  step gives a waiting future another waiter, lets anybody get ahead of it or takes its grant back.
- **RwLockProofs.** Adds `GuardInv` (holders and borrows agree) and `PermitInv` (the pool and the
  guards together have all permits; a writer has them alone), by cardinality. Theorems:
  `LockTypeCorrect`, `LocksNeverPanic`, `GuardsAlwaysReturn`.
- **TimersProofs.** Adds `IdInv` (alarm ids are unique and below `next_alarm`) and `WakerInv` (a
  Sleep remembers the waker of its alarm, the one of the task suspended on it). Theorems:
  `TypeCorrect`, `SleepPollsSafely`, `TimersKept`, `AlarmsOwned`, `ParksInTime`. The last one has no
  premise: it follows from what division by `MS` and the conversion to a `c_int` do to the distance of
  the first alarm (`ParkTimeoutSound`), and a distance that does not fit can only make the wait shorter
  or endless.
- **OneshotProofs.** Adds `HalvesInv`. Theorems: `TypeCorrect`,
  `MessageDelivered`, `ClosedMissesNothing`, `ReceiverServed`, `SenderServed`, `CompleteSound`,
  `WakersReleased`.
- **ReactorProofs.** `NoLostReadiness` is not inductive: it is split into `WakerInv` (the waker of a
  suspended call is stored or on its way, armed or not) and `StoredMeansArmed`, which is inductive
  thanks to `PhaseInv` (no user code runs while events are in hand, so the dispatch of an event finds
  the interests as the poller disarmed them). `ConnectedWhenReturned` needs `SettledInv` (flags and
  events are about settled sockets) and `UseInv` (the future of a connect has its socket for itself).
  Theorems: `TypeCorrect`, `StoredIsArmed`, `ReadinessKept`, `ConnectWaits`.
- **RuntimeProofs.** `ContextIsInnermost` needs `ChainInv` (each guard saved what the guard before it
  had installed), `GuardPerCall` and `OuterWakeKept` need `NestingInv` (one guard per call; a call
  knows that one inside it has the same runtime), `NothingSurvives` needs `StoredInv` (timers and
  sockets, and their wakers, belong to futures), which needs `PollingInv` (no future is dropped while it is polled), and
  `Referenced(alive)`: every allocated object has an owner. From it, with no roots left, tasks fall
  first, since only queues, stored wakers and the sleeps of their own futures own them, then the runtimes. Theorems: `TypeCorrect`,
  `ContextRestored`, `GuardsMatchCalls`, `OuterWakesKept`, `NothingLeft`.

Only model-checked: the liveness properties `TaskProgress`, `EventsHandedOver`, `EveryoneServed`,
`TimersServed` and `Retried`, which the prover does not reach (fairness, ENABLED). Every safety property
of a passing run is a theorem.

## Not modelled

- The bytes and addresses of sockets and their accessors, `shutdown`, the Windows stubs, FFI. The
  kqueue poller passes a pointer to a timespec that is gone by then (`sys.rs:143`); what the call
  makes of it is not defined. Events with EPOLLERR or EPOLLHUP alone, which are about neither
  direction, and a `delete` that the kernel refuses.
- Use of a waker on another thread, which panics.
- What a runtime owes its tasks after `block_on` panicked.
- In `Runtime`: join handles inside futures (a task that awaits its own handle is one more cycle), and
  wakers of a main future that outlive its `block_on`.
- `RefCell` borrows of the reactor: `remove_source` drops wakers while it is borrowed, and the drop of
  a task may call it again (`runtime/reactor.rs:66`).
- Debug and Display, `get_mut` and `into_inner`, re-exports.

## Plan

Done, in this order: Executor, the semaphore and its abstraction, the locks, timers, oneshot, the
reactor with the TCP calls and the pollers, its composition with the executor, runtimes; proofs of all
safety properties, the refinement of `FifoSemaphore` by the linked list last.

Next:

1. An abstract `Parker` (wakers handed over once, none forgotten) that Timers and Reactor implement,
   so that `Executor`'s view of trait `Park` is shown rather than assumed, as `IoLoop` does for the
   reactor.
2. Borrows of the reactor across the drop of wakers, in the composition of `Reactor` and `Runtime`.
