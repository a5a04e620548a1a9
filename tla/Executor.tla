------------------------------ MODULE Executor ------------------------------
(***************************************************************************)
(* The single-threaded executor of platoon (runtime/executor.rs): the      *)
(* block_on loop, the run queue, the wakers of tasks and of the main       *)
(* future, and the JoinHandle of a task (task.rs).                         *)
(*                                                                         *)
(* The poll of a future is user code.  It is modelled as a span of steps,  *)
(* from the step that enters it (PollMain, RunTask) to the one that leaves *)
(* it (PollPending, PollReadyMain, PollReadyTask, PollPanic), between      *)
(* which the polled actor may call any operation of the runtime.           *)
(*                                                                         *)
(* Wakers are Rc clones that futures leave in channels, semaphores, alarms *)
(* and I/O sources.  Any waker of an actor may be kept by anyone for any   *)
(* length of time, so every spawned task, and the main future, can be      *)
(* woken by any poll (WakeByRef) or by the parker.                         *)
(*                                                                         *)
(* The parker (trait Park) is seen through its contract: the outside world *)
(* makes wakers ready at any time, and park / park_timeout hand them over. *)
(***************************************************************************)
EXTENDS Naturals, Sequences

CONSTANTS
  Tasks,          \* the tasks that may be spawned
  Main,           \* the future given to block_on
  None,           \* no actor
  POLLS_PER_TICK  \* task polls between two looks at the parker (61)

Actors == Tasks \union {Main}

ASSUME ExecutorAssumption ==
  /\ Main \notin Tasks
  /\ None \notin Actors
  /\ POLLS_PER_TICK \in Nat \ {0}

VARIABLES
  pc,        \* where the thread is in block_on; "idle" outside of it
  polls,     \* iterations of the `for _ in 0..POLLS_PER_TICK' loop so far
  current,   \* the actor whose future is being polled, or None
  queue,     \* Shared.queue
  woke,      \* Shared.woke
  state,     \* TaskRepr.state, "Absent" before spawn
  payload,   \* TaskRepr.payload, "Absent" before spawn
  awaiter,   \* TaskRepr.awaiter
  handles,   \* tasks whose JoinHandle is alive
  ready,     \* actors whose waker the parker will hand over
  batch,     \* the `wakers' vector filled by park, being woken
  notified,  \* history: woken since its last poll began
  joiner     \* history: the actor suspended on the JoinHandle of a task

loopVars == <<pc, polls, current, batch>>
taskVars == <<payload, awaiter, handles>>
wakeVars == <<queue, woke, state, notified>>
vars == <<pc, polls, current, batch, payload, awaiter, handles, queue, woke,
          state, notified, ready, joiner>>

TypeOK ==
  /\ pc \in {"idle", "top", "slots", "polling", "park", "tick", "waking"}
  /\ polls \in 0 .. POLLS_PER_TICK
  /\ current \in Actors \union {None}
  /\ queue \in Seq(Tasks)
  /\ woke \in BOOLEAN
  /\ state \in [Tasks -> {"Absent", "Scheduled", "Idle", "Done"}]
  /\ payload \in [Tasks -> {"Absent", "Future", "Output", "Taken"}]
  /\ awaiter \in [Tasks -> Actors \union {None}]
  /\ handles \subseteq Tasks
  /\ ready \subseteq Actors
  /\ batch \subseteq Actors
  /\ notified \in [Actors -> BOOLEAN]
  /\ joiner \in [Tasks -> Actors \union {None}]
  /\ current # None <=> pc = "polling"

Init ==
  /\ pc = "idle"
  /\ polls = 0
  /\ current = None
  /\ queue = <<>>
  /\ woke = FALSE
  /\ state = [t \in Tasks |-> "Absent"]
  /\ payload = [t \in Tasks |-> "Absent"]
  /\ awaiter = [t \in Tasks |-> None]
  /\ handles = {}
  /\ ready = {}
  /\ batch = {}
  /\ notified = [a \in Actors |-> FALSE]
  /\ joiner = [t \in Tasks |-> None]

-----------------------------------------------------------------------------
(* Waking.  `st' is the state function the wake starts from.               *)

HasWaker(a) == a \in Tasks => payload[a] # "Absent"

\* Mutant of WakeTask: the state is not looked at.
WakeTaskAlways(t, st) ==
  /\ queue' = Append(queue, t)
  /\ state' = [st EXCEPT ![t] = "Scheduled"]
  /\ UNCHANGED woke

\* Mutant of WakeTask: a wake-up is dropped while its task is being polled.
WakeTaskNotRunning(t, st) ==
  LET push == st[t] = "Idle" /\ current # t
  IN  /\ queue' = IF push THEN Append(queue, t) ELSE queue
      /\ state' = IF push THEN [st EXCEPT ![t] = "Scheduled"] ELSE st
      /\ UNCHANGED woke

\* Mutant of WakeTask: the task is pushed to the front of the queue.
WakeTaskFront(t, st) ==
  /\ queue' = IF st[t] = "Idle" THEN <<t>> \o queue ELSE queue
  /\ state' = IF st[t] = "Idle" THEN [st EXCEPT ![t] = "Scheduled"] ELSE st
  /\ UNCHANGED woke

\* TaskRepr::wake: only an idle task is pushed onto the queue.
WakeTask(t, st) ==
  /\ queue' = IF st[t] = "Idle" THEN Append(queue, t) ELSE queue
  /\ state' = IF st[t] = "Idle" THEN [st EXCEPT ![t] = "Scheduled"] ELSE st
  /\ UNCHANGED woke

\* Shared::wake, the waker of the main future.
WakeMain(st) ==
  /\ woke' = TRUE
  /\ state' = st
  /\ UNCHANGED queue

Wake(a, st) ==
  /\ IF a = Main THEN WakeMain(st) ELSE WakeTask(a, st)
  /\ notified' = [notified EXCEPT ![a] = TRUE]

\* Entering the poll of `a': whatever woke it has been answered.
EnterPoll(a) ==
  /\ pc' = "polling"
  /\ current' = a
  /\ notified' = [notified EXCEPT ![a] = FALSE]
  /\ joiner' = [t \in Tasks |-> IF joiner[t] = a THEN None ELSE joiner[t]]

\* Mutant of AfterRun: one iteration too many.
AfterRunOffByOne ==
  /\ polls' = polls + 1
  /\ pc' = IF woke' THEN "top"
           ELSE IF polls' <= POLLS_PER_TICK THEN "slots" ELSE "tick"

\* Mutant of AfterRun: the for loop has no end, the parker has to wait until
\* the queue is empty.
AfterRunEndless ==
  /\ UNCHANGED polls
  /\ pc' = IF woke' THEN "top" ELSE "slots"

\* The end of an iteration of the for loop: the check of `woke', then the
\* next iteration or, after the last one, park_timeout(ZERO).
AfterRun ==
  /\ polls' = polls + 1
  /\ pc' = IF woke' THEN "top"
           ELSE IF polls' < POLLS_PER_TICK THEN "slots" ELSE "tick"

-----------------------------------------------------------------------------
(* block_on                                                                *)

BlockOn ==
  /\ pc = "idle"
  /\ pc' = "top"
  /\ woke' = TRUE
  /\ UNCHANGED <<polls, current, batch, taskVars, queue, state, notified,
                 ready, joiner>>

\* 'block_on: loop, with the main future woken.
PollMain ==
  /\ pc = "top"
  /\ woke
  /\ woke' = FALSE
  /\ EnterPoll(Main)
  /\ UNCHANGED <<polls, batch, taskVars, queue, state, ready>>

\* 'block_on: loop, with the main future not woken.
SkipMain ==
  /\ pc = "top"
  /\ ~woke
  /\ pc' = "slots"
  /\ polls' = 0
  /\ UNCHANGED <<current, batch, taskVars, wakeVars, ready, joiner>>

\* pop_front finds a task whose future is still there: TaskRepr::run.
RunTask ==
  /\ pc = "slots"
  /\ queue # <<>>
  /\ payload[Head(queue)] = "Future"
  /\ queue' = Tail(queue)
  /\ state' = [state EXCEPT ![Head(queue)] = "Idle"]
  /\ EnterPoll(Head(queue))
  /\ UNCHANGED <<polls, batch, taskVars, woke, ready>>

\* pop_front finds a task that is complete or cancelled: run does nothing.
RunStale ==
  /\ pc = "slots"
  /\ queue # <<>>
  /\ payload[Head(queue)] # "Future"
  /\ queue' = Tail(queue)
  /\ state' = [state EXCEPT ![Head(queue)] = "Idle"]
  /\ woke' = woke
  /\ AfterRun
  /\ UNCHANGED <<current, batch, taskVars, notified, ready, joiner>>

\* pop_front finds nothing: block in park, whatever `woke' says.
QueueEmpty ==
  /\ pc = "slots"
  /\ queue = <<>>
  /\ pc' = "park"
  /\ UNCHANGED <<polls, current, batch, taskVars, wakeVars, ready,
                 joiner>>

\* park returns once some waker is ready; park_timeout(ZERO) returns at once.
Park ==
  /\ \/ pc = "park" /\ ready # {}
     \/ pc = "tick"
  /\ pc' = "waking"
  /\ batch' = ready
  /\ ready' = {}
  /\ UNCHANGED <<polls, current, taskVars, wakeVars, joiner>>

\* park returns with only some of the wakers that are ready: the system call
\* was interrupted (EINTR), an alarm expired while it was blocked, or more
\* sources were ready than the event buffer holds.
ParkSome ==
  /\ pc \in {"park", "tick"}
  /\ pc' = "waking"
  /\ batch' \in SUBSET ready
  /\ ready' = ready \ batch'
  /\ UNCHANGED <<polls, current, taskVars, wakeVars, joiner>>

\* The parker fails and block_on panics: the wakers it had already taken out
\* of the alarms and the sources are dropped with the vector.
ParkFailed ==
  /\ pc \in {"park", "tick"}
  /\ pc' = "idle"
  /\ ready' \in SUBSET ready
  /\ UNCHANGED <<polls, current, batch, taskVars, wakeVars,
                 joiner>>

\* wakers.into_iter().for_each(util::wake), one waker at a time.
WakeBatch(a) ==
  /\ pc = "waking"
  /\ a \in batch
  /\ batch' = batch \ {a}
  /\ Wake(a, state)
  /\ UNCHANGED <<pc, polls, current, taskVars, ready, joiner>>

BatchDone ==
  /\ pc = "waking"
  /\ batch = {}
  /\ pc' = "top"
  /\ UNCHANGED <<polls, current, batch, taskVars, wakeVars, ready,
                 joiner>>

-----------------------------------------------------------------------------
(* The end of a poll                                                       *)

PollPending ==
  /\ pc = "polling"
  /\ current' = None
  /\ woke' = woke
  /\ IF current = Main THEN pc' = "slots" /\ polls' = 0 ELSE AfterRun
  /\ UNCHANGED <<batch, taskVars, queue, state, notified, ready,
                 joiner>>

\* The main future is ready: block_on returns.
PollReadyMain ==
  /\ pc = "polling"
  /\ current = Main
  /\ current' = None
  /\ pc' = "idle"
  /\ UNCHANGED <<polls, batch, taskVars, wakeVars, ready, joiner>>

\* The future of a task is ready: keep the output, wake the awaiter.
PollReadyTask ==
  /\ pc = "polling"
  /\ current \in Tasks
  /\ current' = None
  /\ payload' = [payload EXCEPT ![current] = "Output"]
  /\ awaiter' = [awaiter EXCEPT ![current] = None]
  /\ LET st == [state EXCEPT ![current] = "Done"]
     IN  IF awaiter[current] # None
           THEN Wake(awaiter[current], st)
           ELSE state' = st /\ UNCHANGED <<queue, woke, notified>>
  /\ AfterRun
  /\ UNCHANGED <<batch, handles, ready, joiner>>

\* A poll panics and unwinds out of block_on.  This is also what becomes of a
\* task that polls or cancels its own handle (payload is already borrowed)
\* and of an actor that polls a handle whose output was taken.
PollPanic ==
  /\ pc = "polling"
  /\ current' = None
  /\ pc' = "idle"
  /\ UNCHANGED <<polls, batch, taskVars, wakeVars, ready, joiner>>

-----------------------------------------------------------------------------
(* What a future may do while it is polled                                 *)

\* spawn, from inside a poll or, on a Runtime, outside of block_on.
Spawn(t) ==
  /\ pc \in {"idle", "polling"}
  /\ payload[t] = "Absent"
  /\ payload' = [payload EXCEPT ![t] = "Future"]
  /\ state' = [state EXCEPT ![t] = "Scheduled"]
  /\ queue' = Append(queue, t)
  /\ handles' = handles \union {t}
  /\ UNCHANGED <<loopVars, awaiter, woke, notified, ready, joiner>>

\* JoinHandle::poll on a complete task.
PollHandleReady(t) ==
  /\ pc = "polling"
  /\ t \in handles
  /\ payload[t] = "Output"
  /\ payload' = [payload EXCEPT ![t] = "Taken"]
  /\ handles' = handles \ {t}
  /\ joiner' = [joiner EXCEPT ![t] = None]
  /\ UNCHANGED <<loopVars, awaiter, wakeVars, ready>>

\* Mutant of PollHandlePending: the first awaiter is kept.
PollHandlePendingKeep(t) ==
  /\ pc = "polling"
  /\ t \in handles
  /\ t # current
  /\ payload[t] = "Future"
  /\ awaiter' = [awaiter EXCEPT ![t] = IF @ = None THEN current ELSE @]
  /\ joiner' = [joiner EXCEPT ![t] = current]
  /\ UNCHANGED <<loopVars, payload, handles, wakeVars, ready>>

\* JoinHandle::poll on a task that is not complete.
PollHandlePending(t) ==
  /\ pc = "polling"
  /\ t \in handles
  /\ t # current
  /\ payload[t] = "Future"
  /\ awaiter' = [awaiter EXCEPT ![t] = current]
  /\ joiner' = [joiner EXCEPT ![t] = current]
  /\ UNCHANGED <<loopVars, payload, handles, wakeVars, ready>>

\* JoinHandle::cancel, which consumes the handle and any output.
CancelHandle(t) ==
  /\ pc \in {"idle", "polling"}
  /\ t \in handles
  /\ t # current
  /\ payload' = [payload EXCEPT ![t] = "Taken"]
  /\ handles' = handles \ {t}
  /\ joiner' = [joiner EXCEPT ![t] = None]
  /\ UNCHANGED <<loopVars, awaiter, wakeVars, ready>>

\* Dropping a JoinHandle detaches the task.
DropHandle(t) ==
  /\ pc \in {"idle", "polling"}
  /\ t \in handles
  /\ handles' = handles \ {t}
  /\ joiner' = [joiner EXCEPT ![t] = None]
  /\ UNCHANGED <<loopVars, payload, awaiter, wakeVars, ready>>

\* wake_by_ref on any waker: its own, as YieldNow does, or one that another
\* actor left in a channel, a semaphore, ... The destructors that a poll or
\* block_on runs on its way out wake the same way.
WakeByRef(a) ==
  /\ pc \in {"idle", "polling"}
  /\ HasWaker(a)
  /\ Wake(a, state)
  /\ UNCHANGED <<loopVars, taskVars, ready, joiner>>

-----------------------------------------------------------------------------
\* The outside world: an alarm expires, a socket becomes ready.
EventReady(a) ==
  /\ HasWaker(a)
  /\ ready' = ready \union {a}
  /\ UNCHANGED <<loopVars, taskVars, wakeVars, joiner>>

Loop ==
  \/ PollMain \/ SkipMain \/ RunTask \/ RunStale \/ QueueEmpty \/ Park
  \/ \E a \in Actors : WakeBatch(a)
  \/ BatchDone

EndPoll == PollPending \/ PollReadyMain \/ PollReadyTask

InPoll ==
  \/ \E a \in Actors : WakeByRef(a)
  \/ \E t \in Tasks : \/ Spawn(t) \/ PollHandleReady(t)
                      \/ PollHandlePending(t) \/ CancelHandle(t)
                      \/ DropHandle(t)

Next ==
  \/ BlockOn \/ Loop \/ ParkSome \/ ParkFailed \/ EndPoll \/ PollPanic
  \/ InPoll
  \/ \E a \in Actors : EventReady(a)

Spec == Init /\ [][Next]_vars

\* The thread keeps executing block_on, every poll returns (a future that
\* never returns from poll blocks any cooperative executor), and the parker
\* does not always miss the same events.
Fairness == WF_vars(Loop) /\ WF_vars(EndPoll) /\ SF_vars(Park)

FairSpec == Spec /\ Fairness

-----------------------------------------------------------------------------
(* Properties                                                              *)

Has(q, t) == \E i \in 1 .. Len(q) : q[i] = t

NoDuplicate(q) == \A i, j \in 1 .. Len(q) : q[i] = q[j] => i = j

InQueue(t) == Has(queue, t)

Alive(a) == a \in Tasks => payload[a] = "Future"

Runnable(a) == IF a = Main THEN woke ELSE InQueue(a)

\* A task sits in the run queue at most once, and its state says so: wake
\* relies on `state' alone to decide whether to push.  A Done task may still
\* be queued, when its last poll woke it before returning Ready.
ScheduledOnce ==
  /\ NoDuplicate(queue)
  /\ \A t \in Tasks : state[t] = "Scheduled" => InQueue(t)
  /\ \A t \in Tasks : InQueue(t) => state[t] \in {"Scheduled", "Done"}

\* No wake-up is lost: an actor that was woken after its last poll began, from
\* inside that poll too, is due to be polled again.
NoLostWake ==
  \A a \in Actors : notified[a] /\ Alive(a) => Runnable(a)

\* An actor suspended on a JoinHandle is due to be polled once the task is
\* complete, whichever actor polled the handle before it.
NoLostJoin ==
  \A t \in Tasks :
    /\ joiner[t] # None
    /\ payload[t] # "Future"
    /\ Alive(joiner[t])
    => Runnable(joiner[t])

\* A queued task is polled, completed by then, or block_on has returned: no
\* pattern of wake-ups of the other tasks or of the main future starves it.
TaskProgress ==
  \A t \in Tasks :
    InQueue(t) ~> (current = t \/ ~Alive(t) \/ pc = "idle")

\* Ready events are handed over however busy the tasks keep the queue, unless
\* the main future is woken or block_on has returned.
EventsHandedOver ==
  \A a \in Actors : a \in ready ~> (a \notin ready \/ woke \/ pc = "idle")

\* What the documentation of yield_now and block_on says of the main future:
\* once woken it is polled again.  The code parks without a look at `woke'
\* when the queue is empty, so a main future that wakes itself is forgotten.
MainWakeHonoured ==
  woke /\ pc # "idle" ~> (current = Main \/ pc = "idle")

-----------------------------------------------------------------------------
(* The inductive invariant                                                 *)

\* Before spawn there is nothing; a Done task has no future left; the future
\* being polled is there.
LifecycleInv ==
  /\ \A t \in Tasks : state[t] = "Absent" <=> payload[t] = "Absent"
  /\ \A t \in Tasks : payload[t] = "Absent" => joiner[t] = None /\ t \notin handles
  /\ \A t \in Tasks : state[t] = "Done" => payload[t] # "Future"
  /\ current \in Tasks => payload[current] = "Future"

\* The for loop has not used up its iterations while it runs a task.
TickInv ==
  pc = "slots" \/ current \in Tasks => polls < POLLS_PER_TICK

\* While a task is incomplete its awaiter is the actor suspended on it; from
\* its completion on, that actor has been woken.
JoinInv ==
  \A t \in Tasks : joiner[t] # None =>
    /\ payload[t] = "Future" => awaiter[t] = joiner[t]
    /\ payload[t] # "Future" => notified[joiner[t]]

IInv ==
  /\ TypeOK
  /\ TickInv
  /\ LifecycleInv
  /\ ScheduledOnce
  /\ NoLostWake
  /\ JoinInv
=============================================================================
