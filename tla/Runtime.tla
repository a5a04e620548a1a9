------------------------------ MODULE Runtime ------------------------------
(***************************************************************************)
(* Runtimes as a whole (runtime/mod.rs): the thread-local context and the  *)
(* guards of `enter', calls of block_on, nested ones too, with the flag    *)
(* `woke' of their executor, and who owns whom: the Rc references between  *)
(* runtimes and tasks that decide what is dropped when.                    *)
(*                                                                         *)
(* A runtime is one object: whoever holds its executor holds its clock and *)
(* reactor too.  The order of the run queue, the alarms and the sources    *)
(* are the matter of Executor, Timers and Reactor; here they only own      *)
(* tasks.                                                                  *)
(***************************************************************************)
EXTENDS Naturals, Sequences, FiniteSets

CONSTANTS
  Runtimes,
  Tasks,
  None,       \* no runtime, no task
  Main,       \* the main future of a call of block_on
  MaxDepth,   \* bound: nested calls of block_on
  MaxGuards,  \* bound: guards alive at a time
  MaxHolds    \* bound: timers and sockets alive at a time

ASSUME RuntimeAssumption ==
  /\ Runtimes \intersect Tasks = {}
  /\ None \notin Runtimes \union Tasks
  /\ Main \notin Runtimes \union Tasks \union {None}
  /\ MaxDepth \in Nat
  /\ MaxGuards \in Nat
  /\ MaxHolds \in Nat

VARIABLES
  context,   \* RUNTIME, the thread-local current runtime
  guards,    \* live guards in the order of their creation: the runtime
             \* entered, the context saved, and the depth of the block_on
             \* that made the guard, 0 for one made by the user
  frames,    \* calls of block_on, the innermost last
  woke,      \* Shared.woke of each executor
  values,    \* runtimes that the user holds a Runtime value of
  held,      \* tasks that the user holds a JoinHandle or a waker of
  home,      \* TaskRepr.executor
  future,    \* tasks whose payload is still the future
  done,      \* tasks in State::Done, which wake-ups do not queue
  queue,     \* tasks in the run queue of their executor
  holds,     \* <<r, t>>: t's future holds a Sleep or a socket of r
  asleep,    \* <<r, t>>: it holds a Sleep of r that has set its alarm, and
             \* keeps a waker of t beside it
  stored,    \* <<r, t>>: an alarm or a source of r holds a waker of t
  alive,     \* what is allocated: runtimes and tasks
  spent,     \* runtimes created so far: a runtime is not created twice
  lifo       \* history: every guard was the newest when it was dropped

ctxVars == <<context, guards, lifo>>
partVars == <<holds, asleep, stored>>
taskVars == <<home, future, done, queue, holds, asleep, stored>>
vars == <<context, guards, frames, woke, values, held, home, future, done,
          queue, holds, asleep, stored, alive, spent, lifo>>

Guard == [depth : Nat, rt : Runtimes, saved : Runtimes \union {None}]

Frame == [rt : Runtimes,                            \* &self
          entered : BOOLEAN,                        \* polled once
          polling : Tasks \union {Main, None},      \* what is being polled
          owed : BOOLEAN,                           \* history: main future
                                                    \* woken since its poll
          shared : BOOLEAN]                         \* history: block_on was
                                                    \* called inside on rt

Depth == Len(frames)

Top == frames[Depth]

InPoll == frames # <<>> /\ Top.polling # None

\* User code runs: outside of block_on, or in a poll.
UserCode == frames = <<>> \/ InPoll

TypeOK ==
  /\ context \in Runtimes \union {None}
  /\ guards \in Seq(Guard)
  /\ frames \in Seq(Frame)
  /\ woke \in [Runtimes -> BOOLEAN]
  /\ values \subseteq Runtimes
  /\ held \subseteq Tasks
  /\ home \in [Tasks -> Runtimes \union {None}]
  /\ future \subseteq Tasks
  /\ done \subseteq Tasks
  /\ queue \subseteq Tasks
  /\ holds \subseteq Runtimes \X Tasks
  /\ asleep \subseteq Runtimes \X Tasks
  /\ stored \subseteq Runtimes \X Tasks
  /\ alive \subseteq Runtimes \union Tasks
  /\ spent \subseteq Runtimes
  /\ lifo \in BOOLEAN

Init ==
  /\ context = None
  /\ guards = <<>>
  /\ frames = <<>>
  /\ woke = [r \in Runtimes |-> FALSE]
  /\ values = {}
  /\ held = {}
  /\ home = [t \in Tasks |-> None]
  /\ future = {}
  /\ done = {}
  /\ queue = {}
  /\ holds = {}
  /\ asleep = {}
  /\ stored = {}
  /\ alive = {}
  /\ spent = {}
  /\ lifo = TRUE

-----------------------------------------------------------------------------
(* Ownership                                                               *)

\* References from the thread: values, handles, the context and what guards
\* saved, the calls of block_on and the task that run() is polling.
Root(o) ==
  \/ o \in values \union held \union {context}
  \/ \E i \in 1 .. Len(guards) : guards[i].saved = o
  \/ \E i \in 1 .. Len(frames) : o \in {frames[i].rt, frames[i].polling}

\* References between objects: a task owns its executor, through the timers
\* and sockets of its future other runtimes, and itself through the waker
\* that a Sleep keeps; a runtime owns what is in its run queue and the
\* wakers in its alarms and sources.
Owns(o, p) ==
  \/ o \in Tasks /\ p = home[o]
  \/ o \in Runtimes /\ p \in queue /\ home[p] = o
  \/ <<o, p>> \in stored
  \/ <<p, o>> \in holds
  \/ p = o /\ \E r \in Runtimes : <<r, o>> \in asleep

\* Every object of S is referenced: from the thread or from within S.
Referenced(S) == \A o \in S : Root(o) \/ \E p \in S : Owns(p, o)

\* Reference counting: of the objects A, those stay that the thread holds or
\* that another one that stays holds, cycles included.
Reclaim(A) == alive' = UNION {S \in SUBSET A : Referenced(S)'}

-----------------------------------------------------------------------------
(* The context                                                             *)

\* Mutant of Entered: the guard does not remember the context.
EnteredForget(r, d) ==
  /\ guards' = Append(guards, [depth |-> d, rt |-> r, saved |-> None])
  /\ context' = r
  /\ UNCHANGED lifo

\* Runtime::enter: the context becomes r, the guard keeps the old one.
Entered(r, d) ==
  /\ guards' = Append(guards, [depth |-> d, rt |-> r, saved |-> context])
  /\ context' = r
  /\ UNCHANGED lifo

\* Mutant of HasContext: a context that is not set is used.
HasContextAlways == TRUE

\* unwrap_current panics without a context.
HasContext == context # None

Without(s, i) == SubSeq(s, 1, i - 1) \o SubSeq(s, i + 1, Len(s))

\* Guard::drop: the context becomes what the guard saved.
Exited(i) ==
  /\ context' = guards[i].saved
  /\ guards' = Without(guards, i)
  /\ lifo' = (lifo /\ i = Len(guards))

Enter(r) ==
  /\ UserCode
  /\ r \in values
  /\ Len(guards) < MaxGuards
  /\ Entered(r, 0)
  /\ UNCHANGED <<frames, woke, values, held, taskVars, alive, spent>>

DropGuard(i) ==
  /\ UserCode
  /\ guards[i].depth = 0
  /\ Exited(i)
  /\ UNCHANGED <<frames, woke, values, held, taskVars, spent>>
  /\ Reclaim(alive)

-----------------------------------------------------------------------------
(* Runtime values                                                          *)

\* Runtime::new
New(r) ==
  /\ UserCode
  /\ r \notin spent
  /\ values' = values \union {r}
  /\ alive' = alive \union {r}
  /\ spent' = spent \union {r}
  /\ UNCHANGED <<ctxVars, frames, woke, held, taskVars>>

\* Runtime::current, when the context is set.
Current ==
  /\ UserCode
  /\ HasContext
  /\ values' = values \union {context}
  /\ UNCHANGED <<ctxVars, frames, woke, held, taskVars, alive, spent>>

\* The user's values of r are dropped; guards and block_on borrow from one.
DropValue(r) ==
  /\ UserCode
  /\ r \in values
  /\ \A i \in 1 .. Len(guards) : guards[i].rt # r
  /\ \A i \in 1 .. Len(frames) : frames[i].rt # r
  /\ values' = values \ {r}
  /\ UNCHANGED <<ctxVars, frames, woke, held, taskVars, spent>>
  /\ Reclaim(alive)

-----------------------------------------------------------------------------
(* block_on                                                                *)

\* Mutant of ClearWoke: the flag is the thread's, not the executor's.
ClearWokeAll(r) == woke' = [q \in Runtimes |-> FALSE]

\* woke.replace(false): the flag is that of the executor of r.
ClearWoke(r) == woke' = [woke EXCEPT ![r] = FALSE]

BlockOn(r) ==
  /\ UserCode
  /\ r \in values
  /\ Depth < MaxDepth
  /\ woke' = [woke EXCEPT ![r] = TRUE]
  /\ frames' =
       Append([i \in 1 .. Depth |->
                [frames[i] EXCEPT !.shared = @ \/ frames[i].rt = r]],
              [rt |-> r, entered |-> FALSE, polling |-> None, owed |-> FALSE,
               shared |-> FALSE])
  /\ UNCHANGED <<ctxVars, values, held, taskVars, alive, spent>>

\* The main future is polled; its first poll enters the context.
PollMain ==
  /\ frames # <<>>
  /\ Top.polling = None
  /\ woke[Top.rt]
  /\ ClearWoke(Top.rt)
  /\ frames' = [frames EXCEPT ![Depth].polling = Main, ![Depth].entered = TRUE,
                              ![Depth].owed = FALSE]
  /\ IF Top.entered THEN UNCHANGED ctxVars ELSE Entered(Top.rt, Depth)
  /\ UNCHANGED <<values, held, taskVars, alive, spent>>

\* The payload of t is borrowed: some call of block_on is polling it.
Polled(t) == \E i \in 1 .. Depth : frames[i].polling = t

\* A task is popped and run.  One whose future is gone is dropped.
RunTask(t) ==
  /\ frames # <<>>
  /\ Top.polling = None
  /\ Top.entered
  /\ t \in queue
  /\ home[t] = Top.rt
  /\ ~Polled(t)
  /\ queue' = queue \ {t}
  /\ done' = done \ {t}
  /\ frames' = IF t \in future THEN [frames EXCEPT ![Depth].polling = t] ELSE frames
  /\ UNCHANGED <<ctxVars, woke, values, held, home, future, partVars, spent>>
  /\ Reclaim(alive)

PollPending ==
  /\ InPoll
  /\ frames' = [frames EXCEPT ![Depth].polling = None]
  /\ UNCHANGED <<ctxVars, woke, values, held, taskVars, spent>>
  /\ Reclaim(alive)

\* Mutant of DropFuture: the alarms and sources of the future stay.
DropFutureKeep(t) ==
  /\ future' = future \ {t}
  /\ UNCHANGED partVars

\* The future of t is dropped, with its timers and sockets.
DropFuture(t) ==
  /\ future' = future \ {t}
  /\ holds' = {s \in holds : s[2] # t}
  /\ asleep' = {s \in asleep : s[2] # t}
  /\ stored' = {s \in stored : s[2] # t}

\* The task being polled is complete.
TaskReady ==
  /\ InPoll
  /\ Top.polling # Main
  /\ DropFuture(Top.polling)
  /\ done' = done \union {Top.polling}
  /\ frames' = [frames EXCEPT ![Depth].polling = None]
  /\ UNCHANGED <<ctxVars, woke, values, held, home, queue, spent>>
  /\ Reclaim(alive)

\* Mutant of Unwound: the guard is forgotten.
UnwoundKeep == UNCHANGED ctxVars

\* The guard in the main future is dropped with it.
Unwound ==
  \E i \in 1 .. Len(guards) : guards[i].depth = Depth /\ Exited(i)

\* block_on returns, or a poll panics and unwinds out of it.
Leave ==
  /\ InPoll
  /\ Unwound
  /\ frames' = SubSeq(frames, 1, Depth - 1)
  /\ UNCHANGED <<woke, values, held, taskVars, spent>>
  /\ Reclaim(alive)

\* The parker fails: block_on panics, the wakers of expired alarms and of
\* dispatched events are dropped.
ParkFails(lost) ==
  /\ frames # <<>>
  /\ Top.polling = None
  /\ Top.entered
  /\ \A s \in lost : s[1] = Top.rt
  /\ stored' = stored \ lost
  /\ Unwound
  /\ frames' = SubSeq(frames, 1, Depth - 1)
  /\ UNCHANGED <<woke, values, held, home, future, done, queue, holds, asleep,
                 spent>>
  /\ Reclaim(alive)

\* The popped task is polled further out: its payload is borrowed, run()
\* panics, and block_on is left.
RunPolled(t) ==
  /\ frames # <<>>
  /\ Top.polling = None
  /\ Top.entered
  /\ t \in queue
  /\ home[t] = Top.rt
  /\ Polled(t)
  /\ queue' = queue \ {t}
  /\ Unwound
  /\ frames' = SubSeq(frames, 1, Depth - 1)
  /\ UNCHANGED <<woke, values, held, home, future, done, partVars, spent>>
  /\ Reclaim(alive)

-----------------------------------------------------------------------------
(* Tasks and wakers                                                        *)

\* Runtime::spawn, and task::spawn, which takes the runtime from the context.
Spawn(t, r) ==
  /\ UserCode
  /\ r \in values \union {context}
  /\ home[t] = None
  /\ home' = [home EXCEPT ![t] = r]
  /\ future' = future \union {t}
  /\ queue' = queue \union {t}
  /\ held' = held \union {t}
  /\ alive' = alive \union {t}
  /\ UNCHANGED <<ctxVars, frames, woke, values, done, partVars, spent>>

\* The polled task leaves its waker with the user, in a channel or a lock ...
KeepWaker ==
  /\ InPoll
  /\ Top.polling \in Tasks
  /\ held' = held \union {Top.polling}
  /\ UNCHANGED <<ctxVars, frames, woke, values, taskVars, alive, spent>>

\* ... or in an alarm or a source.  First it makes a Sleep or opens a socket,
\* which takes the runtime that is the context ...
Hold ==
  /\ InPoll
  /\ Top.polling \in Tasks
  /\ HasContext
  /\ Cardinality(holds) < MaxHolds
  /\ holds' = holds \union {<<context, Top.polling>>}
  /\ UNCHANGED <<ctxVars, frames, woke, values, held, home, future, done,
                 queue, asleep, stored, alive, spent>>

\* ... then it polls the Sleep, or a call on the socket ...
Suspend(r, timer) ==
  /\ InPoll
  /\ <<r, Top.polling>> \in holds
  /\ stored' = stored \union {<<r, Top.polling>>}
  /\ asleep' = IF timer THEN asleep \union {<<r, Top.polling>>} ELSE asleep
  /\ UNCHANGED <<ctxVars, frames, woke, values, held, home, future, done,
                 queue, holds, alive, spent>>

\* ... and drops it, with its alarm or source.
Release(r) ==
  /\ InPoll
  /\ <<r, Top.polling>> \in holds
  /\ holds' = holds \ {<<r, Top.polling>>}
  /\ asleep' = asleep \ {<<r, Top.polling>>}
  /\ stored' = stored \ {<<r, Top.polling>>}
  /\ UNCHANGED <<ctxVars, frames, woke, values, held, home, future, done,
                 queue, spent>>
  /\ Reclaim(alive)

DropHeld(t) ==
  /\ UserCode
  /\ t \in held
  /\ held' = held \ {t}
  /\ UNCHANGED <<ctxVars, frames, woke, values, taskVars, spent>>
  /\ Reclaim(alive)

\* JoinHandle::cancel, which panics if the payload is borrowed.
Cancel(t) ==
  /\ UserCode
  /\ t \in held
  /\ ~Polled(t)
  /\ DropFuture(t)
  /\ held' = held \ {t}
  /\ UNCHANGED <<ctxVars, frames, woke, values, home, done, queue, spent>>
  /\ Reclaim(alive)

\* A held waker of t is woken.
WakeTask(t) ==
  /\ UserCode
  /\ t \in held \ done
  /\ queue' = queue \union {t}
  /\ UNCHANGED <<ctxVars, frames, woke, values, held, home, future, done,
                 partVars, alive, spent>>

\* The alarm or source of r that holds a waker of t fires, when block_on on r
\* parks.  The Sleep or the socket stays as it is.
Fire(r, t) ==
  /\ frames # <<>>
  /\ Top.rt = r /\ Top.entered /\ Top.polling = None
  /\ <<r, t>> \in stored
  /\ stored' = stored \ {<<r, t>>}
  /\ queue' = queue \union {t}
  /\ UNCHANGED <<ctxVars, frames, woke, values, held, home, future, done,
                 holds, asleep, spent>>
  /\ Reclaim(alive)

\* The waker of the main future of the i-th call is woken.
WakeMain(i) ==
  /\ frames[i].entered
  /\ woke' = [woke EXCEPT ![frames[i].rt] = TRUE]
  /\ frames' = [frames EXCEPT ![i].owed = TRUE]
  /\ UNCHANGED <<ctxVars, values, held, taskVars, alive, spent>>

Next ==
  \/ \E r \in Runtimes : Enter(r) \/ New(r) \/ DropValue(r) \/ BlockOn(r)
  \/ \E i \in 1 .. Len(guards) : DropGuard(i)
  \/ \E i \in 1 .. Len(frames) : WakeMain(i)
  \/ Current \/ PollMain \/ PollPending \/ TaskReady \/ Leave
  \/ KeepWaker \/ Hold
  \/ \E r \in Runtimes : Release(r) \/ \E timer \in BOOLEAN : Suspend(r, timer)
  \/ \E lost \in SUBSET stored : ParkFails(lost)
  \/ \E t \in Tasks : RunTask(t) \/ RunPolled(t) \/ DropHeld(t) \/ Cancel(t) \/ WakeTask(t)
  \/ \E t \in Tasks, r \in Runtimes : Spawn(t, r) \/ Fire(r, t)

Spec == Init /\ [][Next]_vars

-----------------------------------------------------------------------------
(* Properties                                                              *)

\* While guards are dropped newest first, those of block_on included, the
\* context is the runtime of the newest guard, and there is none without a
\* guard: nested calls and panics restore what they found.
ContextIsInnermost ==
  lifo => context = IF guards = <<>> THEN None ELSE guards[Len(guards)].rt

\* A call of block_on is in the context from the first poll of its future
\* until it is left, and not longer: guards and calls match one to one.
GuardPerCall ==
  /\ \A i \in 1 .. Len(frames) :
       frames[i].entered <=> \E j \in 1 .. Len(guards) : guards[j].depth = i
  /\ \A j \in 1 .. Len(guards) : guards[j].depth <= Len(frames)

\* A wake-up of an outer main future is not lost while an inner block_on
\* runs, unless that one is on the same runtime and consumes it.
OuterWakeKept ==
  \A i \in 1 .. Len(frames) :
    frames[i].owed /\ ~frames[i].shared => woke[frames[i].rt]

\* When the user has let go of everything, no guard was dropped out of
\* order, every task is complete or cancelled and no run queue holds one,
\* then nothing is left: no alarm, source or guard keeps a runtime or the
\* memory of a task alive.
NothingSurvives ==
  /\ values = {} /\ held = {} /\ guards = <<>> /\ frames = <<>>
  /\ future \intersect alive = {} /\ queue = {}
  /\ lifo
  => alive = {}

\* What the documentation of module task says: all spawned tasks are cancelled
\* when the runtime is dropped.  A task that is queued, or that waits for a
\* timer or a socket, keeps its runtime alive, which keeps the task.
TasksCancelled ==
  \A t \in future \intersect alive :
    Root(home[t]) \/ \E u \in held : home[u] = home[t]

-----------------------------------------------------------------------------
(* The inductive invariant                                                 *)

\* A guard saved the context that the guard before it had made.
ChainInv ==
  lifo =>
    \A i \in 1 .. Len(guards) :
      guards[i].saved = IF i = 1 THEN None ELSE guards[i - 1].rt

\* A call of block_on has one guard; it knows of the calls inside it.
NestingInv ==
  /\ \A i, j \in 1 .. Len(guards) :
       guards[i].depth = guards[j].depth /\ guards[i].depth # 0 => i = j
  /\ \A i, j \in 1 .. Len(frames) :
       i < j /\ frames[i].rt = frames[j].rt => frames[i].shared

\* A task that is polled has its future, and is polled once.
PollingInv ==
  /\ \A i \in 1 .. Len(frames) :
       frames[i].polling \in Tasks => frames[i].polling \in future
  /\ \A i, j \in 1 .. Len(frames) :
       frames[i].polling = frames[j].polling /\ frames[i].polling \in Tasks
         => i = j

\* Timers and sockets, and the wakers that are stored for them, belong to
\* futures.
StoredInv == \A s \in holds \union asleep \union stored : s[2] \in future

IInv ==
  /\ TypeOK
  /\ ContextIsInnermost
  /\ ChainInv
  /\ GuardPerCall
  /\ NestingInv
  /\ OuterWakeKept
  /\ PollingInv
  /\ StoredInv
  /\ Referenced(alive)
=============================================================================
