------------------------------- MODULE IoLoop -------------------------------
(***************************************************************************)
(* The executor with the reactor as its parker: block_on of Executor, and  *)
(* the calls, poll_ready and Reactor::poll of Reactor, in joint steps.     *)
(*                                                                         *)
(* The reactor's tasks are the executor's actors.  A waker that the        *)
(* reactor wakes is a wake-up of the executor: Reactor's set of woken      *)
(* tasks is the set of runnable actors, its vector of wakers the batch     *)
(* that block_on wakes.  Actors do nothing but spawn tasks and make calls  *)
(* on sockets that are open from the start.                                *)
(***************************************************************************)
EXTENDS Executor, FiniteSets

CONSTANTS Sockets, Calls, Backends, MaxEvents

VARIABLES open, poller, marked, events, op, armed, settled, failed, stranded

ioVars == <<open, poller, marked, events, op, armed, settled, failed, stranded>>

\* The interests' `woke' flags are called `marked' here.
R == INSTANCE Reactor
       WITH Tasks <- Actors, running <- current, wakers <- batch,
            parked <- pc \in {"park", "tick"},
            woken <- {a \in Actors : Runnable(a)}, woke <- marked

IoInit ==
  /\ Init
  /\ open = Sockets
  /\ poller = [i \in R!Interests |-> None]
  /\ marked = {}
  /\ events = {}
  /\ op = [a \in Actors |-> R!NoOp]
  /\ armed = {}
  /\ settled = Sockets
  /\ failed = {}
  /\ stranded = {}

\* block_on polls an actor, which polls the call it waits for.
PollActor ==
  /\ PollMain \/ RunTask
  /\ \E a \in Actors : R!PollTask(a)

\* One step of a call.  The only wake-up is that of a replaced waker.
CallStep ==
  /\ UNCHANGED vars \/ \E a \in Actors : ~Runnable(a) /\ WakeByRef(a)
  /\ \E a \in Actors :
       \/ R!CallStep(a)
       \/ \E c \in Calls : R!StartIo(a, c[1], c[2])

\* The poll of an actor returns, with its call suspended; after the last
\* poll of the tick the parker is called at once.
Suspend ==
  /\ PollPending
  /\ op[current].at \in {"none", "suspended"}
  /\ UNCHANGED ioVars

\* The loop of block_on outside of polls and of the parker; tasks are spawned
\* by whoever is polled.
LoopStep ==
  /\ BlockOn \/ SkipMain \/ QueueEmpty \/ BatchDone \/ \E t \in Tasks : Spawn(t)
  /\ UNCHANGED ioVars

\* park and park_timeout: the system poller returns events.
IoWait ==
  /\ UNCHANGED vars
  /\ R!Wait

\* The events are dispatched; after the last one the parker returns.
IoDispatch ==
  /\ UNCHANGED <<polls, taskVars, wakeVars, ready, joiner>>
  /\ \E e \in events, x \in Sockets :
       /\ pc' = IF events = {e} THEN "waking" ELSE pc
       /\ R!Dispatch(e, x)

\* park_timeout finds nothing ready.
IoTimeout ==
  /\ pc = "tick"
  /\ pc' = "waking"
  /\ UNCHANGED <<polls, current, batch, taskVars, wakeVars, ready, joiner, ioVars>>
  /\ R!WaitEmpty

IoWake ==
  \E a \in batch : WakeBatch(a) /\ R!WakeBatch(a)

IoNext ==
  \/ PollActor \/ CallStep \/ Suspend \/ LoopStep
  \/ IoWait \/ IoDispatch \/ IoTimeout \/ IoWake

\* The thread keeps executing block_on and calls keep being made; the parker,
\* whenever it is called again and again, reports every interest that the
\* peers keep ready.
IoFairness ==
  /\ WF_<<vars, ioVars>>(IoNext)
  /\ \A i \in R!Awaited : SF_<<vars, ioVars>>(IoWait /\ i \in UNION events')

IoSpec == IoInit /\ [][IoNext]_<<vars, ioVars>> /\ IoFairness

\* What the documentation of block_on says: I/O runs concurrently with the
\* main future.  Calls suspended on a socket that keeps becoming ready are
\* retried.  The code lets a main future and a task that wait for the same
\* direction of one socket wake each other in poll_ready for ever, and as
\* long as the main future is woken block_on does not call the parker.
IoServed ==
  R!SomeRetried
=============================================================================
