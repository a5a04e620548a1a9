----------------------------- MODULE Semaphore ------------------------------
(***************************************************************************)
(* The semaphore of platoon as it is coded (sync/semaphore.rs): a pool of  *)
(* permits and a doubly linked list of waiters threaded through a slab.    *)
(* Mutex and RwLock are built on it.                                       *)
(*                                                                         *)
(* A slot `f' of Futures stands for one caller: a fresh Acquire future     *)
(* ("Idle"), one that waits ("Waiting", with the key of its waiter), or    *)
(* the Permit it became ("Done").  A slot whose permit or future was       *)
(* dropped stands for the next fresh one.  Futures are polled by tasks,    *)
(* and a future may move from one task to another between two polls.       *)
(*                                                                         *)
(* New waiters are linked in at `head'; the oldest one is at `tail'.       *)
(***************************************************************************)
EXTENDS Naturals, FiniteSets, FiniteSetsExt

CONSTANTS
  Futures,         \* slots for Acquire futures and Permits
  Tasks,           \* the tasks that poll them
  Keys,            \* the keys of the slab
  None,
  MaxPermits,      \* usize::MAX
  OverflowChecks   \* TRUE in debug builds: an overflowing `+=' panics

ASSUME SemaphoreAssumption ==
  /\ MaxPermits \in Nat
  /\ OverflowChecks \in BOOLEAN
  /\ None \notin Keys \union Tasks
  /\ IsFiniteSet(Keys) /\ Cardinality(Keys) >= Cardinality(Futures)

VARIABLES
  inner,    \* Inner: permits, waiters (key -> Waiter), head, tail
  state,    \* AcquireState of the slot
  key,      \* the key in AcquireState::Waiting, else None
  amount,   \* permits requested by the Acquire or owned by the Permit
  poller,   \* history: the task that polled a waiting future last
  signal,   \* history: the task woken for a waiting future since that poll
  ahead,    \* history: the futures that began to wait before a waiting one
  need,     \* history: permits that it and those ahead of it request together
  demand    \* history: permits that all waiting futures request together

slotVars == <<state, key, amount>>
lineVars == <<ahead, need, demand>>
vars == <<inner, slotVars, poller, signal, lineVars>>

Waiting == {f \in Futures : state[f] = "Waiting"}

Waiter == [waker: Tasks, next: Keys \union {None}, prev: Keys \union {None},
           required: 0 .. MaxPermits, woke: BOOLEAN]

TypeOK ==
  /\ DOMAIN inner = {"permits", "waiters", "head", "tail"}
  /\ inner.permits \in 0 .. MaxPermits
  /\ DOMAIN inner.waiters \subseteq Keys
  /\ \A k \in DOMAIN inner.waiters : inner.waiters[k] \in Waiter
  /\ {inner.head, inner.tail} \subseteq DOMAIN inner.waiters \union {None}
  /\ state \in [Futures -> {"Idle", "Waiting", "Done"}]
  /\ key \in [Futures -> Keys \union {None}]
  /\ amount \in [Futures -> 0 .. MaxPermits]
  /\ poller \in [Futures -> Tasks \union {None}]
  /\ signal \in [Futures -> Tasks \union {None}]
  /\ ahead \in [Futures -> SUBSET Futures]
  /\ need \in [Futures -> Nat]
  /\ demand \in Nat

Init ==
  /\ inner \in [permits: 0 .. MaxPermits, waiters: {<<>>}, head: {None},
                tail: {None}]
  /\ state = [f \in Futures |-> "Idle"]
  /\ key = [f \in Futures |-> None]
  /\ amount = [f \in Futures |-> 0]
  /\ poller = [f \in Futures |-> None]
  /\ signal = [f \in Futures |-> None]
  /\ ahead = [f \in Futures |-> {}]
  /\ need = [f \in Futures |-> 0]
  /\ demand = 0

-----------------------------------------------------------------------------
(* impl Inner.  Each operator returns the Inner that the method leaves.    *)

\* Inner::add, with the key that the slab picks.
AddWaiter(in, k, task, n) ==
  LET new == [waker |-> task, next |-> in.head, prev |-> None,
              required |-> n, woke |-> FALSE]
  IN  [in EXCEPT
        !.waiters = [j \in DOMAIN in.waiters \union {k} |->
                       IF j = k THEN new
                       ELSE IF j = in.head THEN [in.waiters[j] EXCEPT !.prev = k]
                       ELSE in.waiters[j]],
        !.head = k,
        !.tail = IF in.tail = None THEN k ELSE in.tail]

\* Mutant of Remove: the neighbour on the `next' side keeps its link.
RemoveHalf(in, k) ==
  LET w == in.waiters[k]
  IN  [in EXCEPT
        !.waiters = [j \in DOMAIN in.waiters \ {k} |->
                       [in.waiters[j] EXCEPT
                         !.next = IF j = w.prev THEN w.next ELSE @]],
        !.head = IF w.prev = None THEN w.next ELSE in.head,
        !.tail = IF w.next = None THEN w.prev ELSE in.tail]

\* Inner::remove.
Remove(in, k) ==
  LET w == in.waiters[k]
  IN  [in EXCEPT
        !.waiters = [j \in DOMAIN in.waiters \ {k} |->
                       [in.waiters[j] EXCEPT
                         !.next = IF j = w.prev THEN w.next ELSE @,
                         !.prev = IF j = w.next THEN w.prev ELSE @]],
        !.head = IF w.prev = None THEN w.next ELSE in.head,
        !.tail = IF w.next = None THEN w.prev ELSE in.tail]

\* The loop of Inner::wake: the waiters that it reaches from `k' on towards
\* the head with `n' permits.
Walk(in) ==
  LET walk[k \in Keys \union {None}] ==
        [n \in 0 .. MaxPermits |->
           IF k \notin DOMAIN in.waiters \/ n < in.waiters[k].required THEN {}
           ELSE {k} \union walk[in.waiters[k].prev][n - in.waiters[k].required]]
  IN  walk

Reached(in) == Walk(in)[in.tail][in.permits]

\* Inner::wake.
WakeWaiters(in) ==
  [in EXCEPT !.waiters = [k \in DOMAIN in.waiters |->
     [in.waiters[k] EXCEPT !.woke = @ \/ k \in Reached(in)]]]

\* Mutant of CanAcquire: the pool is not looked at.
CanAcquireUncovered(in, n) == DOMAIN in.waiters = {} \/ n = 0

\* Mutant of CanAcquire: a newcomer passes the waiters.
CanAcquireBarging(in, n) == n <= in.permits

\* The test of Inner::try_acquire.
CanAcquire(in, n) ==
  n <= in.permits /\ (DOMAIN in.waiters = {} \/ n = 0)

\* The wake-ups that a step sends: the wakers of the waiters that it grants.
SendSignals ==
  signal' = [f \in Futures |->
    IF /\ key'[f] # None
       /\ inner'.waiters[key'[f]].woke
       /\ ~inner.waiters[key'[f]].woke
      THEN inner'.waiters[key'[f]].waker
      ELSE IF key'[f] = None THEN None ELSE signal[f]]

\* History of the line: `f' joins it at its end, or leaves it.
Join(f, n) ==
  /\ ahead' = [ahead EXCEPT ![f] = Waiting]
  /\ need' = [need EXCEPT ![f] = demand + n]
  /\ demand' = demand + n

Leave(f) ==
  /\ ahead' = [g \in Futures |-> IF g = f THEN {} ELSE ahead[g] \ {f}]
  /\ need' = [g \in Futures |->
                IF g = f THEN 0
                ELSE IF f \in ahead[g] THEN need[g] - amount[f] ELSE need[g]]
  /\ demand' = demand - amount[f]

\* `permits += n', which panics before it stores anything, or wraps around.
Overflows(n) == inner.permits + n > MaxPermits

Added(n) == [inner EXCEPT !.permits = (@ + n) % (MaxPermits + 1)]

-----------------------------------------------------------------------------
(* Acquire::poll, state Idle, and try_acquire                              *)

AcquireNow(f, n) ==
  /\ state[f] = "Idle"
  /\ CanAcquire(inner, n)
  /\ inner' = [inner EXCEPT !.permits = @ - n]
  /\ state' = [state EXCEPT ![f] = "Done"]
  /\ amount' = [amount EXCEPT ![f] = n]
  /\ UNCHANGED <<key, poller, signal, lineVars>>

AcquireLater(f, n, task) ==
  /\ state[f] = "Idle"
  /\ ~CanAcquire(inner, n)
  /\ \E k \in Keys \ DOMAIN inner.waiters :
       /\ inner' = AddWaiter(inner, k, task, n)
       /\ key' = [key EXCEPT ![f] = k]
  /\ state' = [state EXCEPT ![f] = "Waiting"]
  /\ amount' = [amount EXCEPT ![f] = n]
  /\ poller' = [poller EXCEPT ![f] = task]
  /\ Join(f, n)
  /\ UNCHANGED signal

(* Acquire::poll, state Waiting                                            *)

\* The waiter was granted its permits, and the assertion holds.
PollGranted(f) ==
  /\ state[f] = "Waiting"
  /\ inner.waiters[key[f]].woke
  /\ inner.permits >= inner.waiters[key[f]].required
  /\ LET left == [inner EXCEPT !.permits = @ - inner.waiters[key[f]].required]
     IN  inner' = WakeWaiters(Remove(left, key[f]))
  /\ state' = [state EXCEPT ![f] = "Done"]
  /\ key' = [key EXCEPT ![f] = None]
  /\ poller' = [poller EXCEPT ![f] = None]
  /\ SendSignals
  /\ Leave(f)
  /\ UNCHANGED amount

\* Mutant of PollUngranted: the waker of the first poll is kept.
PollUngrantedKeep(f, task) ==
  /\ state[f] = "Waiting"
  /\ ~inner.waiters[key[f]].woke
  /\ poller' = [poller EXCEPT ![f] = task]
  /\ UNCHANGED <<inner, slotVars, signal, lineVars>>

\* It was not: keep the waker of the task that polls now.
PollUngranted(f, task) ==
  /\ state[f] = "Waiting"
  /\ ~inner.waiters[key[f]].woke
  /\ inner' = [inner EXCEPT !.waiters[key[f]].waker = task]
  /\ poller' = [poller EXCEPT ![f] = task]
  /\ UNCHANGED <<slotVars, signal, lineVars>>

\* Mutant of DropAcquire: the others are not looked at again.
DropAcquireNoWake(f) ==
  /\ state[f] = "Waiting"
  /\ inner' = Remove(inner, key[f])
  /\ state' = [state EXCEPT ![f] = "Idle"]
  /\ key' = [key EXCEPT ![f] = None]
  /\ amount' = [amount EXCEPT ![f] = 0]
  /\ poller' = [poller EXCEPT ![f] = None]
  /\ SendSignals
  /\ Leave(f)

\* Drop for Acquire, granted or not.
DropAcquire(f) ==
  /\ state[f] = "Waiting"
  /\ inner' = WakeWaiters(Remove(inner, key[f]))
  /\ state' = [state EXCEPT ![f] = "Idle"]
  /\ key' = [key EXCEPT ![f] = None]
  /\ amount' = [amount EXCEPT ![f] = 0]
  /\ poller' = [poller EXCEPT ![f] = None]
  /\ SendSignals
  /\ Leave(f)

-----------------------------------------------------------------------------
(* Permits                                                                 *)

\* add_permits(n); with n = 0 it returns at once.
AddPermits(n) ==
  /\ n > 0
  /\ OverflowChecks => ~Overflows(n)
  /\ inner' = WakeWaiters(Added(n))
  /\ UNCHANGED <<slotVars, poller, lineVars>>
  /\ SendSignals

\* Drop for Permit.
DropPermit(f) ==
  /\ state[f] = "Done"
  /\ inner' = IF amount[f] = 0 \/ (OverflowChecks /\ Overflows(amount[f]))
                THEN inner ELSE WakeWaiters(Added(amount[f]))
  /\ state' = [state EXCEPT ![f] = "Idle"]
  /\ amount' = [amount EXCEPT ![f] = 0]
  /\ UNCHANGED <<key, poller, lineVars>>
  /\ SendSignals

\* Permit::forget: the permits are lost.
ForgetPermit(f) ==
  /\ state[f] = "Done"
  /\ state' = [state EXCEPT ![f] = "Idle"]
  /\ amount' = [amount EXCEPT ![f] = 0]
  /\ UNCHANGED <<inner, key, poller, signal, lineVars>>

Next ==
  \/ \E f \in Futures :
       \/ \E n \in 0 .. MaxPermits :
            \/ AcquireNow(f, n)
            \/ \E task \in Tasks : AcquireLater(f, n, task)
       \/ \E task \in Tasks : PollUngranted(f, task)
       \/ PollGranted(f) \/ DropAcquire(f) \/ DropPermit(f) \/ ForgetPermit(f)
  \/ \E n \in 1 .. MaxPermits : AddPermits(n)

Spec == Init /\ [][Next]_vars

\* A granted future is polled, since its task was woken, and a permit is
\* dropped in the end; nothing obliges anyone to cancel.
Fairness == \A f \in Futures : WF_vars(PollGranted(f)) /\ WF_vars(DropPermit(f))

FairSpec == Spec /\ Fairness

-----------------------------------------------------------------------------
(* Properties                                                              *)

WaiterOf(f) == inner.waiters[key[f]]

\* The assertion of poll_acquire: between the grant and the poll of a waiter,
\* whatever the others do, its permits stay in the pool.
AssertionHolds ==
  \A f \in Waiting : WaiterOf(f).woke => inner.permits >= WaiterOf(f).required

\* `g' is the last of those ahead of `f'.
RightAhead(g, f) == g \in ahead[f] /\ \A h \in ahead[f] \ {g} : h \in ahead[g]

\* The slab holds the waiters of the waiting futures and nothing else, each
\* under its own key, and the links, followed in either direction, are the
\* order in which the futures began to wait, whoever left in between.
ListSound ==
  /\ {key[f] : f \in Waiting} = DOMAIN inner.waiters
  /\ \A f, g \in Waiting : key[f] = key[g] => f = g
  /\ \A f, g \in Waiting :
       /\ WaiterOf(f).next = key[g] <=> RightAhead(g, f)
       /\ WaiterOf(g).prev = key[f] <=> RightAhead(g, f)
  /\ \A f \in Waiting :
       /\ WaiterOf(f).next = None <=> ahead[f] = {}
       /\ WaiterOf(f).prev = None <=> Waiting = ahead[f] \union {f}
       /\ inner.tail = key[f] <=> ahead[f] = {}
       /\ inner.head = key[f] <=> Waiting = ahead[f] \union {f}
  /\ inner.tail = None <=> Waiting = {}
  /\ inner.head = None <=> Waiting = {}

\* The task that polled a granted future last has been woken for it, even if
\* the future moved between tasks while it waited.
GrantSignalled ==
  \A f \in Waiting : WaiterOf(f).woke => signal[f] = poller[f]

\* The permits that exist, in the pool and in the hands of callers.
Total == inner.permits + MapThenSumSet(LAMBDA f : amount[f],
                                       {f \in Futures : state[f] = "Done"})

\* A waiting future does not wait forever while the permits circulate: no
\* stream of later callers, large or small, overtakes it.  (Nobody who waits
\* asks for more permits than exist, which forgetting permits can bring about.)
EveryoneServed ==
  [](\A f \in Waiting : amount[f] <= Total) =>
    \A f \in Futures : state[f] = "Waiting" ~> state[f] # "Waiting"

-----------------------------------------------------------------------------
(* Refinement: the list implements the line of FifoSemaphore.              *)

Phase ==
  [f \in Futures |->
     IF state[f] = "Idle" THEN "idle"
     ELSE IF state[f] = "Done" THEN "holding"
     ELSE IF WaiterOf(f).woke THEN "granted" ELSE "waiting"]

Fifo == INSTANCE FifoSemaphore WITH avail <- inner.permits, phase <- Phase

\* The linked list serves waiters as the abstract line does, wake-ups of
\* Inner::wake included.
ImplementsFifo == Fifo!Spec
=============================================================================
