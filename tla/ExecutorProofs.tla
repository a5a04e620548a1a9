--------------------------- MODULE ExecutorProofs ---------------------------
(***************************************************************************)
(* Proofs about Executor, for every set of tasks and every value of        *)
(* POLLS_PER_TICK.  IInv is inductive; the safety properties follow.       *)
(***************************************************************************)
EXTENDS Executor, TLAPS

-----------------------------------------------------------------------------
(* Sequences without duplicates                                            *)

\* pop_front on a queue without duplicates removes exactly its head.
LEMMA PopFront ==
  ASSUME NEW S, NEW q \in Seq(S), q # <<>>, NoDuplicate(q)
  PROVE  /\ Head(q) \in S
         /\ Has(q, Head(q))
         /\ Tail(q) \in Seq(S)
         /\ NoDuplicate(Tail(q))
         /\ \A t : Has(Tail(q), t) <=> Has(q, t) /\ t # Head(q)
<1>1. /\ Len(q) \in Nat \ {0}
      /\ Head(q) = q[1]
      /\ Tail(q) \in Seq(S)
      /\ Len(Tail(q)) = Len(q) - 1
      /\ \A i \in 1 .. Len(q) - 1 : Tail(q)[i] = q[i + 1]
      /\ \A i \in 1 .. Len(q) : q[i] \in S
  OBVIOUS
<1>2. NoDuplicate(Tail(q))
  BY <1>1 DEF NoDuplicate
<1>3. ASSUME NEW t, Has(Tail(q), t)
      PROVE  Has(q, t) /\ t # Head(q)
  BY <1>1, <1>3 DEF Has, NoDuplicate
<1>4. ASSUME NEW t, Has(q, t), t # Head(q)
      PROVE  Has(Tail(q), t)
  <2>1. PICK i \in 1 .. Len(q) : q[i] = t
    BY <1>4 DEF Has
  <2>2. i - 1 \in 1 .. Len(q) - 1 /\ Tail(q)[i - 1] = t
    BY <1>1, <1>4, <2>1
  <2> QED BY <1>1, <2>2 DEF Has
<1>5. Head(q) \in S /\ Has(q, Head(q))
  BY <1>1 DEF Has
<1> QED BY <1>1, <1>2, <1>3, <1>4, <1>5

\* push_back of a new element keeps a queue free of duplicates.
LEMMA PushBack ==
  ASSUME NEW S, NEW q \in Seq(S), NEW e \in S
  PROVE  /\ Append(q, e) \in Seq(S)
         /\ \A t : Has(Append(q, e), t) <=> Has(q, t) \/ t = e
         /\ NoDuplicate(q) /\ ~Has(q, e) => NoDuplicate(Append(q, e))
<1>1. /\ Len(q) \in Nat
      /\ Append(q, e) \in Seq(S)
      /\ Len(Append(q, e)) = Len(q) + 1
      /\ \A i \in 1 .. Len(q) : Append(q, e)[i] = q[i]
      /\ Append(q, e)[Len(q) + 1] = e
  OBVIOUS
<1>2. ASSUME NEW t
      PROVE  Has(Append(q, e), t) <=> Has(q, t) \/ t = e
  BY <1>1 DEF Has
<1>3. ASSUME NoDuplicate(q), ~Has(q, e)
      PROVE  NoDuplicate(Append(q, e))
  BY <1>1, <1>3 DEF NoDuplicate, Has
<1> QED BY <1>1, <1>2, <1>3

-----------------------------------------------------------------------------
\* Wake keeps the bookkeeping of the run queue: whoever is woken from a state
\* that satisfies it is notified and, if it has a future left, runnable.
LEMMA WakeKeeps ==
  ASSUME NEW a \in Actors,
         NEW st \in [Tasks -> {"Absent", "Scheduled", "Idle", "Done"}],
         TypeOK,
         NoDuplicate(queue),
         \A t \in Tasks : st[t] = "Scheduled" => InQueue(t),
         \A t \in Tasks : InQueue(t) => st[t] \in {"Scheduled", "Done"},
         Wake(a, st)
  PROVE  /\ queue' \in Seq(Tasks)
         /\ woke' \in BOOLEAN
         /\ state' \in [Tasks -> {"Absent", "Scheduled", "Idle", "Done"}]
         /\ notified' \in [Actors -> BOOLEAN]
         /\ notified' = [notified EXCEPT ![a] = TRUE]
         /\ ScheduledOnce'
         /\ woke => woke'
         /\ a = Main => woke'
         /\ \A t \in Tasks : InQueue(t) => InQueue(t)'
         /\ \A t \in Tasks : state'[t] = "Absent" <=> st[t] = "Absent"
         /\ \A t \in Tasks : state'[t] = "Done" <=> st[t] = "Done"
         /\ a \in Tasks /\ st[a] \in {"Scheduled", "Idle"} => InQueue(a)'
<1>1. CASE a = Main
  BY <1>1, ExecutorAssumption
     DEF Wake, WakeMain, TypeOK, ScheduledOnce, InQueue, Actors
<1>2. CASE a # Main
  <2>1. a \in Tasks
    BY <1>2 DEF Actors
  <2>2. CASE st[a] = "Idle"
    <3>1. ~Has(queue, a)
      BY <2>1, <2>2 DEF InQueue
    <3>2. queue' = Append(queue, a) /\ state' = [st EXCEPT ![a] = "Scheduled"]
      BY <1>2, <2>2 DEF Wake, WakeTask
    <3>3. /\ queue' \in Seq(Tasks)
          /\ NoDuplicate(queue')
          /\ \A t : Has(queue', t) <=> Has(queue, t) \/ t = a
      BY <2>1, <3>1, <3>2, PushBack DEF TypeOK
    <3> QED
      BY <1>2, <2>1, <2>2, <3>2, <3>3
         DEF Wake, WakeTask, TypeOK, ScheduledOnce, InQueue
  <2>3. CASE st[a] # "Idle"
    BY <1>2, <2>1, <2>3 DEF Wake, WakeTask, TypeOK, ScheduledOnce, InQueue
  <2> QED BY <2>2, <2>3
<1> QED BY <1>1, <1>2

-----------------------------------------------------------------------------
(* Initial states, and the steps of block_on                               *)

LEMMA InitIInv == Init => IInv
<1> SUFFICES ASSUME Init PROVE IInv
  OBVIOUS
<1>1. TypeOK /\ TickInv
  <2>1. queue \in Seq(Tasks)
    BY SMT DEF Init
  <2>2. woke \in BOOLEAN
    BY Zenon DEF Init
  <2>3. notified \in [Actors -> BOOLEAN]
    BY DEF Init
  <2>4. polls \in 0 .. POLLS_PER_TICK /\ None \notin Tasks
    BY ExecutorAssumption DEF Init, Actors
  <2> QED BY <2>1, <2>2, <2>3, <2>4, ExecutorAssumption DEF Init, TypeOK, TickInv
<1>2. \A t : ~Has(queue, t)
  <2>1. queue = <<>>
    BY DEF Init
  <2>2. Len(queue) = 0
    BY <2>1
  <2> QED BY <2>2 DEF Has
<1>3. ScheduledOnce
  BY <1>2 DEF Init, ScheduledOnce, InQueue, NoDuplicate
<1>4. NoLostWake /\ LifecycleInv /\ JoinInv
  BY ExecutorAssumption DEF Init, NoLostWake, LifecycleInv, JoinInv, Actors
<1> QED BY <1>1, <1>3, <1>4 DEF IInv

\* Entering the poll of `a' answers its wake-ups and ends its suspension on
\* any handle, so that only other actors have to be accounted for.
LEMMA EnterPollKeeps ==
  ASSUME NEW a \in Actors, TypeOK, JoinInv, EnterPoll(a),
         UNCHANGED <<payload, awaiter>>
  PROVE  /\ notified' \in [Actors -> BOOLEAN]
         /\ joiner' \in [Tasks -> Actors \union {None}]
         /\ pc' = "polling" /\ current' = a
         /\ ~notified'[a]
         /\ \A b \in Actors \ {a} : notified'[b] = notified[b]
         /\ \A t \in Tasks : joiner'[t] \in {None, joiner[t]}
         /\ JoinInv'
  BY ExecutorAssumption DEF EnterPoll, TypeOK, JoinInv

LEMMA BlockOnIInv == IInv /\ BlockOn => IInv'
<1> SUFFICES ASSUME IInv, BlockOn PROVE IInv'
  OBVIOUS
<1> USE DEF BlockOn, taskVars
<1>1. TypeOK' /\ TickInv'
  BY DEF IInv, TypeOK, TickInv
<1>2. LifecycleInv' /\ JoinInv' /\ ScheduledOnce'
  BY DEF IInv, LifecycleInv, JoinInv, ScheduledOnce, InQueue
<1>3. NoLostWake'
  BY DEF IInv, NoLostWake, Alive, Runnable, InQueue
<1> QED BY <1>1, <1>2, <1>3 DEF IInv

LEMMA PollMainIInv == IInv /\ PollMain => IInv'
<1> SUFFICES ASSUME IInv, PollMain PROVE IInv'
  OBVIOUS
<1>1. Main \in Actors /\ Main \notin Tasks /\ Main # None
  BY ExecutorAssumption DEF Actors
<1>2. /\ notified' \in [Actors -> BOOLEAN]
      /\ joiner' \in [Tasks -> Actors \union {None}]
      /\ pc' = "polling" /\ current' = Main
      /\ ~notified'[Main]
      /\ \A b \in Actors \ {Main} : notified'[b] = notified[b]
      /\ \A t \in Tasks : joiner'[t] \in {None, joiner[t]}
      /\ JoinInv'
  BY <1>1, EnterPollKeeps DEF PollMain, taskVars, IInv
<1>3. TypeOK' /\ TickInv'
  BY <1>1, <1>2 DEF PollMain, taskVars, IInv, TypeOK, TickInv
<1>4. LifecycleInv' /\ ScheduledOnce'
  BY <1>1, <1>2 DEF PollMain, taskVars, IInv, LifecycleInv, ScheduledOnce,
                    InQueue
<1>5. NoLostWake'
  BY <1>1, <1>2 DEF PollMain, taskVars, IInv, NoLostWake, Alive, Runnable,
                    InQueue
<1> QED BY <1>2, <1>3, <1>4, <1>5 DEF IInv

\* pop_front: what the two ways of running a task share.
LEMMA PopKeeps ==
  ASSUME TypeOK, ScheduledOnce, LifecycleInv, queue # <<>>,
         queue' = Tail(queue),
         state' = [state EXCEPT ![Head(queue)] = "Idle"]
  PROVE  /\ Head(queue) \in Tasks
         /\ queue' \in Seq(Tasks)
         /\ state' \in [Tasks -> {"Absent", "Scheduled", "Idle", "Done"}]
         /\ state[Head(queue)] # "Absent"
         /\ ScheduledOnce'
         /\ \A t \in Tasks : InQueue(t)' <=> InQueue(t) /\ t # Head(queue)
<1>1. /\ Head(queue) \in Tasks
      /\ Has(queue, Head(queue))
      /\ queue' \in Seq(Tasks)
      /\ NoDuplicate(queue')
      /\ \A t : Has(queue', t) <=> Has(queue, t) /\ t # Head(queue)
  BY PopFront DEF TypeOK, ScheduledOnce
<1> QED BY <1>1 DEF TypeOK, ScheduledOnce, InQueue

LEMMA RunTaskIInv == IInv /\ RunTask => IInv'
<1> SUFFICES ASSUME IInv, RunTask PROVE IInv'
  OBVIOUS
<1> DEFINE h == Head(queue)
<1>1. /\ h \in Tasks
      /\ queue' \in Seq(Tasks)
      /\ state' \in [Tasks -> {"Absent", "Scheduled", "Idle", "Done"}]
      /\ state[h] # "Absent"
      /\ ScheduledOnce'
      /\ \A t \in Tasks : InQueue(t)' <=> InQueue(t) /\ t # h
  BY PopKeeps DEF IInv, RunTask
<1>2. h \in Actors /\ h # Main /\ h # None
  BY <1>1, ExecutorAssumption DEF Actors
<1>3. /\ notified' \in [Actors -> BOOLEAN]
      /\ joiner' \in [Tasks -> Actors \union {None}]
      /\ pc' = "polling" /\ current' = h
      /\ ~notified'[h]
      /\ \A b \in Actors \ {h} : notified'[b] = notified[b]
      /\ \A t \in Tasks : joiner'[t] \in {None, joiner[t]}
      /\ JoinInv'
  BY <1>2, EnterPollKeeps DEF RunTask, taskVars, IInv
<1>4. /\ state' = [state EXCEPT ![h] = "Idle"]
      /\ payload[h] = "Future"
      /\ UNCHANGED <<polls, batch, payload, awaiter, handles, woke, ready>>
  BY DEF RunTask, taskVars
<1> HIDE DEF h
<1>5. TypeOK' /\ TickInv'
  BY <1>1, <1>2, <1>3, <1>4 DEF IInv, TypeOK, TickInv, RunTask
<1>6. LifecycleInv'
  BY <1>1, <1>3, <1>4 DEF IInv, LifecycleInv, TypeOK
<1>7. NoLostWake'
  BY <1>1, <1>2, <1>3, <1>4 DEF IInv, NoLostWake, Alive, Runnable, Actors
<1> QED BY <1>1, <1>3, <1>5, <1>6, <1>7 DEF IInv

\* AfterRun only moves the program counter and the counter of polls.
LEMMA AfterRunKeeps ==
  ASSUME TypeOK, AfterRun, polls < POLLS_PER_TICK
  PROVE  /\ pc' \in {"top", "slots", "tick"}
         /\ polls' \in 0 .. POLLS_PER_TICK
         /\ pc' = "slots" => polls' < POLLS_PER_TICK
  BY ExecutorAssumption DEF AfterRun, TypeOK

LEMMA RunStaleIInv == IInv /\ RunStale => IInv'
<1> SUFFICES ASSUME IInv, RunStale PROVE IInv'
  OBVIOUS
<1> DEFINE h == Head(queue)
<1>1. /\ h \in Tasks
      /\ queue' \in Seq(Tasks)
      /\ state' \in [Tasks -> {"Absent", "Scheduled", "Idle", "Done"}]
      /\ state[h] # "Absent"
      /\ ScheduledOnce'
      /\ \A t \in Tasks : InQueue(t)' <=> InQueue(t) /\ t # h
  BY PopKeeps DEF IInv, RunStale
<1>2. /\ state' = [state EXCEPT ![h] = "Idle"]
      /\ payload[h] # "Future"
      /\ UNCHANGED <<current, batch, payload, awaiter, handles, woke, notified,
                     ready, joiner>>
      /\ pc = "slots"
  BY DEF RunStale, taskVars
<1>3. /\ pc' \in {"top", "slots", "tick"}
      /\ polls' \in 0 .. POLLS_PER_TICK
      /\ pc' = "slots" => polls' < POLLS_PER_TICK
  BY AfterRunKeeps DEF RunStale, IInv, TickInv
<1> HIDE DEF h
<1>4. TypeOK' /\ TickInv'
  BY <1>1, <1>2, <1>3, ExecutorAssumption DEF IInv, TypeOK, TickInv, Actors
<1>5. LifecycleInv' /\ JoinInv'
  BY <1>1, <1>2 DEF IInv, LifecycleInv, JoinInv, TypeOK
<1>6. NoLostWake'
  BY <1>1, <1>2, ExecutorAssumption
     DEF IInv, NoLostWake, Alive, Runnable, Actors
<1> QED BY <1>1, <1>4, <1>5, <1>6 DEF IInv

\* The steps that move only the program counter, the polls, the batch and the
\* set of ready events.
LEMMA QuietIInv ==
  ASSUME IInv, UNCHANGED <<current, taskVars, wakeVars, joiner>>,
         TypeOK', TickInv'
  PROVE  IInv'
<1>1. LifecycleInv' /\ JoinInv' /\ ScheduledOnce'
  BY DEF IInv, LifecycleInv, JoinInv, ScheduledOnce, InQueue, taskVars,
         wakeVars
<1>2. NoLostWake'
  BY DEF IInv, NoLostWake, Alive, Runnable, InQueue, taskVars, wakeVars
<1> QED BY <1>1, <1>2 DEF IInv

LEMMA LoopControlIInv ==
  IInv /\ (SkipMain \/ QueueEmpty \/ Park \/ ParkSome \/ ParkFailed \/ BatchDone)
    => IInv'
<1> SUFFICES ASSUME IInv,
                    \/ SkipMain \/ QueueEmpty \/ Park
                    \/ ParkSome \/ ParkFailed \/ BatchDone
             PROVE  IInv'
  OBVIOUS
<1> USE ExecutorAssumption
    DEF SkipMain, QueueEmpty, Park, ParkSome, ParkFailed, BatchDone
<1>1. UNCHANGED <<current, taskVars, wakeVars, joiner>>
  OBVIOUS
<1>2. TypeOK'
  BY DEF IInv, TypeOK, taskVars, wakeVars
<1>3. TickInv'
  BY DEF IInv, TypeOK, TickInv, Actors
<1> QED BY <1>1, <1>2, <1>3, QuietIInv

LEMMA EventReadyIInv ==
  ASSUME IInv, NEW a \in Actors, EventReady(a)
  PROVE  IInv'
<1>1. TypeOK' /\ TickInv'
  BY DEF IInv, TypeOK, TickInv, EventReady, loopVars, taskVars, wakeVars
<1> QED BY <1>1, QuietIInv DEF EventReady, loopVars

-----------------------------------------------------------------------------
(* Wake-ups                                                                *)

\* A wake-up that does not change the future of any task keeps IInv.
LEMMA WakeIInv ==
  ASSUME IInv, NEW a \in Actors, Wake(a, state),
         UNCHANGED <<pc, polls, current, taskVars, joiner>>,
         batch' \subseteq Actors, ready' \subseteq Actors
  PROVE  IInv'
<1>1. /\ queue' \in Seq(Tasks)
      /\ woke' \in BOOLEAN
      /\ state' \in [Tasks -> {"Absent", "Scheduled", "Idle", "Done"}]
      /\ notified' \in [Actors -> BOOLEAN]
      /\ notified' = [notified EXCEPT ![a] = TRUE]
      /\ ScheduledOnce'
      /\ woke => woke'
      /\ a = Main => woke'
      /\ \A t \in Tasks : InQueue(t) => InQueue(t)'
      /\ \A t \in Tasks : state'[t] = "Absent" <=> state[t] = "Absent"
      /\ \A t \in Tasks : state'[t] = "Done" <=> state[t] = "Done"
      /\ a \in Tasks /\ state[a] \in {"Scheduled", "Idle"} => InQueue(a)'
  BY WakeKeeps DEF IInv, ScheduledOnce, TypeOK
<1>2. TypeOK' /\ TickInv'
  BY <1>1 DEF IInv, TypeOK, TickInv, taskVars
<1>3. LifecycleInv' /\ JoinInv'
  BY <1>1 DEF IInv, TypeOK, LifecycleInv, JoinInv, taskVars
<1>4. NoLostWake'
  <2> SUFFICES ASSUME NEW b \in Actors, notified'[b], Alive(b)'
               PROVE  Runnable(b)'
    BY DEF NoLostWake
  <2>1. CASE b # a
    <3>1. Runnable(b)
      BY <1>1, <2>1 DEF IInv, TypeOK, NoLostWake, Alive, taskVars
    <3> QED BY <1>1, <3>1 DEF Runnable, Actors
  <2>2. CASE b = a /\ a = Main
    BY <1>1, <2>2 DEF Runnable
  <2>3. CASE b = a /\ a # Main
    <3>1. a \in Tasks /\ payload[a] = "Future"
      BY <2>3 DEF Actors, Alive, taskVars
    <3>2. state[a] \in {"Scheduled", "Idle"}
      BY <3>1 DEF IInv, LifecycleInv, TypeOK
    <3> QED BY <1>1, <2>3, <3>1, <3>2 DEF Runnable
  <2> QED BY <2>1, <2>2, <2>3
<1> QED BY <1>1, <1>2, <1>3, <1>4 DEF IInv

LEMMA WakeBatchIInv ==
  ASSUME IInv, NEW a \in Actors, WakeBatch(a)
  PROVE  IInv'
  BY WakeIInv DEF IInv, TypeOK, WakeBatch

LEMMA WakeByRefIInv ==
  ASSUME IInv, NEW a \in Actors, WakeByRef(a)
  PROVE  IInv'
  BY WakeIInv DEF IInv, TypeOK, WakeByRef, loopVars

-----------------------------------------------------------------------------
(* The end of a poll                                                       *)

LEMMA LeavePollIInv == IInv /\ (PollReadyMain \/ PollPanic) => IInv'
<1> SUFFICES ASSUME IInv, PollReadyMain \/ PollPanic PROVE IInv'
  OBVIOUS
<1> USE ExecutorAssumption DEF PollReadyMain, PollPanic, taskVars, wakeVars
<1>1. TypeOK' /\ TickInv'
  BY DEF IInv, TypeOK, TickInv, Actors
<1>2. LifecycleInv' /\ JoinInv' /\ ScheduledOnce'
  BY DEF IInv, LifecycleInv, JoinInv, ScheduledOnce, InQueue, Actors
<1>3. NoLostWake'
  BY DEF IInv, NoLostWake, Alive, Runnable, InQueue
<1> QED BY <1>1, <1>2, <1>3 DEF IInv

LEMMA PollPendingIInv == IInv /\ PollPending => IInv'
<1> SUFFICES ASSUME IInv, PollPending PROVE IInv'
  OBVIOUS
<1> USE DEF PollPending, taskVars
<1>1. TypeOK' /\ TickInv'
  <2>1. current' = None /\ None \notin Tasks
    BY ExecutorAssumption DEF Actors
  <2>2. CASE current = Main
    <3>1. pc' = "slots" /\ polls' = 0 /\ 0 < POLLS_PER_TICK
      BY <2>2, ExecutorAssumption
    <3> QED BY <2>1, <3>1, ExecutorAssumption DEF IInv, TypeOK, TickInv
  <2>3. CASE current # Main
    <3>1. current \in Tasks
      BY <2>3 DEF IInv, TypeOK, Actors
    <3>2. /\ pc' \in {"top", "slots", "tick"}
          /\ polls' \in 0 .. POLLS_PER_TICK
          /\ pc' = "slots" => polls' < POLLS_PER_TICK
      BY <2>3, <3>1, AfterRunKeeps DEF IInv, TickInv
    <3> QED BY <2>1, <3>2 DEF IInv, TypeOK, TickInv
  <2> QED BY <2>2, <2>3
<1>2. LifecycleInv' /\ JoinInv' /\ ScheduledOnce'
  BY ExecutorAssumption
     DEF IInv, LifecycleInv, JoinInv, ScheduledOnce, InQueue, Actors
<1>3. NoLostWake'
  BY DEF IInv, NoLostWake, Alive, Runnable, InQueue
<1> QED BY <1>1, <1>2, <1>3 DEF IInv

\* The step on which a task completes: the only one that both ends a future
\* and wakes an actor.
LEMMA PollReadyTaskIInv == IInv /\ PollReadyTask => IInv'
<1> SUFFICES ASSUME IInv, PollReadyTask PROVE IInv'
  OBVIOUS
<1> DEFINE c == current
           st == [state EXCEPT ![c] = "Done"]
           w == awaiter[c]
<1>1. /\ c \in Tasks /\ c \in Actors /\ c # None
      /\ payload[c] = "Future"
      /\ w \in Actors \union {None}
      /\ st \in [Tasks -> {"Absent", "Scheduled", "Idle", "Done"}]
  BY ExecutorAssumption
     DEF PollReadyTask, IInv, TypeOK, LifecycleInv, Actors
<1>2. /\ \A t \in Tasks : st[t] = "Scheduled" => InQueue(t)
      /\ \A t \in Tasks : InQueue(t) => st[t] \in {"Scheduled", "Done"}
  BY <1>1 DEF IInv, TypeOK, ScheduledOnce
<1>3. /\ queue' \in Seq(Tasks)
      /\ woke' \in BOOLEAN
      /\ state' \in [Tasks -> {"Absent", "Scheduled", "Idle", "Done"}]
      /\ notified' \in [Actors -> BOOLEAN]
      /\ notified' = IF w = None THEN notified ELSE [notified EXCEPT ![w] = TRUE]
      /\ ScheduledOnce'
      /\ woke => woke'
      /\ w = Main => woke'
      /\ \A t \in Tasks : InQueue(t) => InQueue(t)'
      /\ \A t \in Tasks : state'[t] = "Absent" <=> st[t] = "Absent"
      /\ \A t \in Tasks : state'[t] = "Done" <=> st[t] = "Done"
      /\ w \in Tasks /\ st[w] \in {"Scheduled", "Idle"} => Has(queue', w)
  <2>1. CASE w = None
    <3>1. state' = st /\ UNCHANGED <<queue, woke, notified>>
      BY <2>1 DEF PollReadyTask
    <3>2. None # Main /\ None \notin Tasks
      BY ExecutorAssumption DEF Actors
    <3> QED BY <1>1, <1>2, <2>1, <3>1, <3>2
            DEF IInv, TypeOK, ScheduledOnce, InQueue
  <2>2. CASE w # None
    <3>1. w \in Actors /\ Wake(w, st)
      BY <1>1, <2>2 DEF PollReadyTask
    <3>2. TypeOK /\ NoDuplicate(queue)
      BY DEF IInv, ScheduledOnce
    <3>3. PICK v, s0 : v = w /\ s0 = st
      OBVIOUS
    <3> HIDE DEF w, st
    <3>4. /\ v \in Actors /\ Wake(v, s0)
          /\ s0 \in [Tasks -> {"Absent", "Scheduled", "Idle", "Done"}]
          /\ \A t \in Tasks : s0[t] = "Scheduled" => InQueue(t)
          /\ \A t \in Tasks : InQueue(t) => s0[t] \in {"Scheduled", "Done"}
      BY <1>1, <1>2, <3>1, <3>3
    <3>5. /\ queue' \in Seq(Tasks)
          /\ woke' \in BOOLEAN
          /\ state' \in [Tasks -> {"Absent", "Scheduled", "Idle", "Done"}]
          /\ notified' \in [Actors -> BOOLEAN]
          /\ notified' = [notified EXCEPT ![v] = TRUE]
          /\ ScheduledOnce'
          /\ woke => woke'
          /\ v = Main => woke'
          /\ \A t \in Tasks : InQueue(t) => InQueue(t)'
          /\ \A t \in Tasks : state'[t] = "Absent" <=> s0[t] = "Absent"
          /\ \A t \in Tasks : state'[t] = "Done" <=> s0[t] = "Done"
          /\ v \in Tasks /\ s0[v] \in {"Scheduled", "Idle"} => Has(queue', v)
      BY <3>2, <3>4, WakeKeeps DEF InQueue
    <3> QED BY <2>2, <3>3, <3>5
  <2> QED BY <2>1, <2>2
<1>4. /\ payload' = [payload EXCEPT ![c] = "Output"]
      /\ awaiter' = [awaiter EXCEPT ![c] = None]
      /\ current' = None
      /\ UNCHANGED <<batch, handles, ready, joiner>>
  BY DEF PollReadyTask
<1>5. /\ pc' \in {"top", "slots", "tick"}
      /\ polls' \in 0 .. POLLS_PER_TICK
      /\ pc' = "slots" => polls' < POLLS_PER_TICK
  BY <1>1, AfterRunKeeps DEF PollReadyTask, IInv, TickInv
<1>6. None \notin Tasks
  BY ExecutorAssumption DEF Actors
<1>7. /\ \A t \in Tasks \ {c} : st[t] = state[t]
      /\ st[c] = "Done"
      /\ state[c] # "Absent"
  BY <1>1 DEF IInv, TypeOK, LifecycleInv
<1> HIDE DEF c, st, w
<1>8. TypeOK' /\ TickInv'
  BY <1>1, <1>3, <1>4, <1>5, <1>6 DEF IInv, TypeOK, TickInv
<1>9. LifecycleInv'
  BY <1>1, <1>3, <1>4, <1>6, <1>7 DEF IInv, TypeOK, LifecycleInv
<1>10. JoinInv'
  <2> SUFFICES ASSUME NEW t \in Tasks, joiner[t] # None
               PROVE  /\ payload'[t] = "Future" => awaiter'[t] = joiner[t]
                      /\ payload'[t] # "Future" => notified'[joiner[t]]
    BY <1>4 DEF JoinInv
  <2>1. joiner[t] \in Actors
    BY DEF IInv, TypeOK
  <2>2. CASE t # c
    BY <1>1, <1>3, <1>4, <2>1, <2>2 DEF IInv, TypeOK, JoinInv
  <2>3. CASE t = c
    <3>1. w = joiner[t] /\ payload'[t] = "Output"
      BY <1>1, <1>4, <2>3 DEF IInv, TypeOK, JoinInv, w
    <3> QED BY <1>3, <2>1, <3>1 DEF IInv, TypeOK
  <2> QED BY <2>2, <2>3
<1>11. NoLostWake'
  <2> SUFFICES ASSUME NEW b \in Actors, notified'[b], Alive(b)'
               PROVE  Runnable(b)'
    BY DEF NoLostWake
  <2>1. b # c /\ Alive(b)
    BY <1>1, <1>4 DEF Alive, IInv, TypeOK
  <2>2. CASE b # w
    <3>1. Runnable(b)
      BY <1>3, <2>1, <2>2 DEF IInv, TypeOK, NoLostWake
    <3> QED BY <1>3, <3>1 DEF Runnable, Actors
  <2>3. CASE b = w /\ w = Main
    BY <1>3, <2>3 DEF Runnable
  <2>4. CASE b = w /\ w # Main
    <3>1. w \in Tasks /\ payload[w] = "Future" /\ w # c
      BY <2>1, <2>4 DEF Actors, Alive
    <3>2. st[w] \in {"Scheduled", "Idle"}
      BY <1>7, <3>1 DEF IInv, LifecycleInv, TypeOK
    <3> QED BY <1>3, <2>4, <3>1, <3>2 DEF Runnable, InQueue
  <2> QED BY <2>2, <2>3, <2>4
<1> QED BY <1>3, <1>8, <1>9, <1>10, <1>11 DEF IInv

-----------------------------------------------------------------------------
(* What a future may do while it is polled                                 *)

LEMMA SpawnIInv ==
  ASSUME IInv, NEW t \in Tasks, Spawn(t)
  PROVE  IInv'
<1>1. ~Has(queue, t) /\ state[t] = "Absent"
  BY DEF Spawn, IInv, LifecycleInv, ScheduledOnce, InQueue
<1>2. /\ queue' \in Seq(Tasks)
      /\ NoDuplicate(queue')
      /\ \A u : Has(queue', u) <=> Has(queue, u) \/ u = t
  BY <1>1, PushBack DEF Spawn, IInv, TypeOK, ScheduledOnce
<1>3. t # current
  BY DEF Spawn, IInv, LifecycleInv
<1>4. TypeOK' /\ TickInv'
  BY <1>2 DEF Spawn, loopVars, IInv, TypeOK, TickInv
<1>5. LifecycleInv' /\ JoinInv'
  BY <1>3 DEF Spawn, loopVars, IInv, TypeOK, LifecycleInv, JoinInv
<1>6. ScheduledOnce'
  BY <1>1, <1>2 DEF Spawn, IInv, TypeOK, ScheduledOnce, InQueue
<1>7. NoLostWake'
  BY <1>2, ExecutorAssumption
     DEF Spawn, IInv, TypeOK, NoLostWake, Alive, Runnable, InQueue, Actors
<1> QED BY <1>4, <1>5, <1>6, <1>7 DEF IInv

\* The operations of a JoinHandle leave the run queue alone.
LEMMA HandleIInv ==
  ASSUME IInv, NEW t \in Tasks,
         \/ PollHandleReady(t) \/ PollHandlePending(t)
         \/ CancelHandle(t) \/ DropHandle(t)
  PROVE  IInv'
<1> USE DEF PollHandleReady, PollHandlePending, CancelHandle, DropHandle,
            loopVars, wakeVars
<1>1. current \in Actors \/ joiner' = [joiner EXCEPT ![t] = None]
  BY DEF IInv, TypeOK
<1>2. TypeOK' /\ TickInv'
  BY <1>1 DEF IInv, TypeOK, TickInv
<1>3. ScheduledOnce'
  BY DEF IInv, ScheduledOnce, InQueue
<1>4. NoLostWake'
  <2>1. \A u \in Tasks : payload'[u] = "Future" => payload[u] = "Future"
    BY DEF IInv, TypeOK
  <2>2. UNCHANGED <<queue, woke, notified>>
    OBVIOUS
  <2> QED BY <2>1, <2>2 DEF IInv, NoLostWake, Alive, Runnable, InQueue
<1>5. LifecycleInv'
  <2>1. CASE PollHandleReady(t)
    BY <2>1 DEF IInv, TypeOK, LifecycleInv
  <2>2. CASE PollHandlePending(t)
    BY <2>2 DEF IInv, TypeOK, LifecycleInv
  <2>3. CASE CancelHandle(t)
    BY <2>3, ExecutorAssumption DEF IInv, TypeOK, LifecycleInv, Actors
  <2>4. CASE DropHandle(t)
    BY <2>4 DEF IInv, TypeOK, LifecycleInv
  <2> QED BY <2>1, <2>2, <2>3, <2>4
<1>6. JoinInv'
  BY DEF IInv, TypeOK, JoinInv
<1> QED BY <1>2, <1>3, <1>4, <1>5, <1>6 DEF IInv

-----------------------------------------------------------------------------
(* Theorems                                                                *)

LEMMA NextIInv == IInv /\ [Next]_vars => IInv'
<1> SUFFICES ASSUME IInv, [Next]_vars PROVE IInv'
  OBVIOUS
<1>1. CASE BlockOn
  BY <1>1, BlockOnIInv
<1>2. CASE Loop
  BY <1>2, PollMainIInv, LoopControlIInv, RunTaskIInv, RunStaleIInv,
     WakeBatchIInv DEF Loop
<1>3. CASE ParkSome \/ ParkFailed
  BY <1>3, LoopControlIInv
<1>4. CASE EndPoll \/ PollPanic
  BY <1>4, PollPendingIInv, PollReadyTaskIInv, LeavePollIInv DEF EndPoll
<1>5. CASE InPoll
  BY <1>5, WakeByRefIInv, SpawnIInv, HandleIInv DEF InPoll
<1>6. CASE \E a \in Actors : EventReady(a)
  BY <1>6, EventReadyIInv
<1>7. CASE UNCHANGED vars
  BY <1>7 DEF vars, IInv, TypeOK, TickInv, LifecycleInv, ScheduledOnce,
              NoLostWake, JoinInv, InQueue, Alive, Runnable
<1> QED BY <1>1, <1>2, <1>3, <1>4, <1>5, <1>6, <1>7 DEF Next

\* IInv holds in every reachable state of the executor.
THEOREM Invariance == Spec => []IInv
  BY InitIInv, NextIInv, PTL DEF Spec

\* The variables of the executor and of its tasks keep their types: the for
\* loop of block_on never exceeds POLLS_PER_TICK, and an actor is current
\* exactly while the thread is inside a poll.
THEOREM TypeCorrect == Spec => []TypeOK
<1>1. IInv => TypeOK
  BY DEF IInv
<1> QED BY <1>1, Invariance, PTL

\* The run queue of any number of tasks has no duplicates and agrees with the
\* states that TaskRepr::wake looks at.
THEOREM QueueSound == Spec => []ScheduledOnce
<1>1. IInv => ScheduledOnce
  BY DEF IInv
<1> QED BY <1>1, Invariance, PTL

\* No wake-up of a task or of the main future is lost, whoever sends it and
\* in whichever step of block_on or of a poll it arrives.
THEOREM WakesKept == Spec => []NoLostWake
<1>1. IInv => NoLostWake
  BY DEF IInv
<1> QED BY <1>1, Invariance, PTL

\* An actor suspended on a JoinHandle is runnable once the task is complete.
THEOREM JoinsKept == Spec => []NoLostJoin
<1>1. IInv => NoLostJoin
  BY DEF IInv, TypeOK, JoinInv, NoLostWake, NoLostJoin
<1> QED BY <1>1, Invariance, PTL
=============================================================================
