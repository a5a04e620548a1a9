--------------------------- MODULE FifoSemaphore ----------------------------
(***************************************************************************)
(* What the semaphore of platoon (sync/semaphore.rs) promises, without the *)
(* linked list that implements it: a counting semaphore whose waiters are  *)
(* served in the order in which they began to wait.                        *)
(*                                                                         *)
(* A waiter is first granted its permits (Waiter.woke is set and its task  *)
(* is woken) and takes them when its task polls it again.  Until then the  *)
(* permits stay in the common pool, so between the grant and the poll      *)
(* other waiters leave and permits come and go.                            *)
(*                                                                         *)
(* The line of waiters is kept as the set of those ahead of each one.      *)
(* `need' and `demand' are running sums over the line.                     *)
(***************************************************************************)
EXTENDS Naturals

CONSTANTS
  Futures,     \* the futures and permits of callers of acquire, try_acquire
  MaxPermits   \* usize::MAX

ASSUME FifoAssumption == MaxPermits \in Nat

VARIABLES
  avail,    \* permits in the pool
  phase,    \* of each future
  amount,   \* permits requested by a waiter, owned by a holder
  ahead,    \* ahead[f]: the waiters that began to wait before f
  need,     \* need[f]: permits that f and those ahead of it request together
  demand    \* permits that all waiters request together

vars == <<avail, phase, amount, ahead, need, demand>>

Phases == {"idle", "waiting", "granted", "holding"}

InLine(f) == phase[f] \in {"waiting", "granted"}

Line == {f \in Futures : InLine(f)}

TypeOK ==
  /\ avail \in 0 .. MaxPermits
  /\ phase \in [Futures -> Phases]
  /\ amount \in [Futures -> 0 .. MaxPermits]
  /\ ahead \in [Futures -> SUBSET Futures]
  /\ need \in [Futures -> Nat]
  /\ demand \in Nat

Init ==
  /\ avail \in 0 .. MaxPermits
  /\ phase = [f \in Futures |-> "idle"]
  /\ amount = [f \in Futures |-> 0]
  /\ ahead = [f \in Futures |-> {}]
  /\ need = [f \in Futures |-> 0]
  /\ demand = 0

-----------------------------------------------------------------------------
\* Mutant of Grant: those ahead are not counted.
GrantSkipping(ph) ==
  phase' = [f \in Futures |->
              IF ph[f] = "waiting" /\ amount[f] <= avail' THEN "granted"
                                                          ELSE ph[f]]

\* Every change of the pool or of the line that may free permits grants all
\* those whose turn has come: the pool covers them and everyone ahead.
Grant(ph) ==
  phase' = [f \in Futures |->
              IF ph[f] = "waiting" /\ need'[f] <= avail' THEN "granted"
                                                         ELSE ph[f]]

\* Mutant of Leave: those ahead are taken for those behind.
LeaveBackwards(f) ==
  /\ ahead' = [g \in Futures |-> IF g = f THEN {} ELSE ahead[g] \ {f}]
  /\ need' = [g \in Futures |->
                IF g = f THEN 0
                ELSE IF g \in ahead[f] THEN need[g] - amount[f] ELSE need[g]]
  /\ demand' = demand - amount[f]

\* `f' leaves the line.
Leave(f) ==
  /\ ahead' = [g \in Futures |-> IF g = f THEN {} ELSE ahead[g] \ {f}]
  /\ need' = [g \in Futures |->
                IF g = f THEN 0
                ELSE IF f \in ahead[g] THEN need[g] - amount[f] ELSE need[g]]
  /\ demand' = demand - amount[f]

\* Mutant of CanAcquire: a newcomer passes the waiters.
CanAcquireBarging(n) == n <= avail

CanAcquire(n) == n <= avail /\ (Line = {} \/ n = 0)

\* Mutant of Acquire: the permits stay in the pool.
AcquireFree(f, n) ==
  /\ phase[f] = "idle"
  /\ CanAcquire(n)
  /\ phase' = [phase EXCEPT ![f] = "holding"]
  /\ amount' = [amount EXCEPT ![f] = n]
  /\ UNCHANGED <<avail, ahead, need, demand>>

\* acquire or try_acquire succeeds at once.
Acquire(f, n) ==
  /\ phase[f] = "idle"
  /\ CanAcquire(n)
  /\ avail' = avail - n
  /\ phase' = [phase EXCEPT ![f] = "holding"]
  /\ amount' = [amount EXCEPT ![f] = n]
  /\ UNCHANGED <<ahead, need, demand>>

\* acquire has to wait.
Enqueue(f, n) ==
  /\ phase[f] = "idle"
  /\ ~CanAcquire(n)
  /\ phase' = [phase EXCEPT ![f] = "waiting"]
  /\ amount' = [amount EXCEPT ![f] = n]
  /\ ahead' = [ahead EXCEPT ![f] = Line]
  /\ need' = [need EXCEPT ![f] = demand + n]
  /\ demand' = demand + n
  /\ UNCHANGED avail

\* A granted waiter takes its permits.
Take(f) ==
  /\ phase[f] = "granted"
  /\ avail' = avail - amount[f]
  /\ Leave(f)
  /\ Grant([phase EXCEPT ![f] = "holding"])
  /\ UNCHANGED amount

\* Mutant of Cancel: nobody is granted what the waiter leaves.
CancelNoGrant(f) ==
  /\ InLine(f)
  /\ Leave(f)
  /\ UNCHANGED avail
  /\ phase' = [phase EXCEPT ![f] = "idle"]
  /\ amount' = [amount EXCEPT ![f] = 0]

\* A waiter gives up, granted or not.
Cancel(f) ==
  /\ InLine(f)
  /\ Leave(f)
  /\ UNCHANGED avail
  /\ Grant([phase EXCEPT ![f] = "idle"])
  /\ amount' = [amount EXCEPT ![f] = 0]

\* A permit is dropped and its permits return to the pool.
Release(f) ==
  /\ phase[f] = "holding"
  /\ avail + amount[f] <= MaxPermits
  /\ avail' = avail + amount[f]
  /\ UNCHANGED <<ahead, need, demand>>
  /\ Grant([phase EXCEPT ![f] = "idle"])
  /\ amount' = [amount EXCEPT ![f] = 0]

\* A permit is forgotten, or its drop panics because the pool is full.
Forget(f) ==
  /\ phase[f] = "holding"
  /\ phase' = [phase EXCEPT ![f] = "idle"]
  /\ amount' = [amount EXCEPT ![f] = 0]
  /\ UNCHANGED <<avail, ahead, need, demand>>

\* Permits are added to the pool.
Add(n) ==
  /\ avail + n <= MaxPermits
  /\ avail' = avail + n
  /\ UNCHANGED <<amount, ahead, need, demand>>
  /\ Grant(phase)

Next ==
  \/ \E f \in Futures :
       \/ \E n \in 0 .. MaxPermits : Acquire(f, n) \/ Enqueue(f, n)
       \/ Take(f) \/ Cancel(f) \/ Release(f) \/ Forget(f)
  \/ \E n \in 1 .. MaxPermits : Add(n)

Spec == Init /\ [][Next]_vars

-----------------------------------------------------------------------------
(* Properties                                                              *)

\* A granted waiter finds its permits in the pool whenever it is polled, with
\* those of everyone granted before it: the assertion of poll_acquire.
GrantsCovered ==
  \A f \in Futures : phase[f] = "granted" => amount[f] <= avail

\* Nobody is granted permits before those who began to wait earlier.
GrantedInOrder ==
  \A f \in Futures : \A g \in ahead[f] :
    phase[f] = "granted" => phase[g] = "granted"

\* The permits are not left lying about: the first of the line is granted as
\* soon as the pool covers it, although entering the line grants nobody.
FirstServed ==
  \A f \in Futures :
    phase[f] = "waiting" /\ ahead[f] = {} => avail < amount[f]

-----------------------------------------------------------------------------
(* The inductive invariant                                                 *)

\* `ahead' is a strict total order of the line.
OrderInv ==
  /\ \A f \in Futures : ahead[f] \subseteq Line
  /\ \A f \in Futures : ~InLine(f) => ahead[f] = {}
  /\ \A f \in Futures : f \notin ahead[f]
  /\ \A f, g \in Futures : g \in ahead[f] => ahead[g] \subseteq ahead[f]
  /\ \A f, g \in Line : f = g \/ f \in ahead[g] \/ g \in ahead[f]

\* What the running sums are sums of.
SumInv ==
  /\ \A f \in Line : amount[f] <= need[f] /\ need[f] <= demand
  /\ \A f \in Futures : \A g \in ahead[f] : need[g] + amount[f] <= need[f]
  /\ \A f \in Line : ahead[f] = {} => need[f] = amount[f]
  /\ \A f \in Line : ahead[f] # {} =>
       \E g \in ahead[f] : /\ ahead[f] = ahead[g] \union {g}
                           /\ need[f] = need[g] + amount[f]
  /\ Line = {} => demand = 0
  /\ Line # {} => \E g \in Line : Line = ahead[g] \union {g} /\ demand = need[g]

\* A grant is covered together with all those ahead of it.
CoverInv == \A f \in Futures : phase[f] = "granted" => need[f] <= avail

IInv ==
  /\ TypeOK
  /\ OrderInv
  /\ SumInv
  /\ CoverInv
  /\ GrantedInOrder
  /\ FirstServed
=============================================================================
