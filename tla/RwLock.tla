------------------------------- MODULE RwLock -------------------------------
(***************************************************************************)
(* The locks of platoon (sync/rwlock.rs, sync/mutex.rs): a semaphore that  *)
(* admits callers, and a RefCell that holds the value and panics when it   *)
(* is borrowed against its rules.  The guards of a lock own one permit     *)
(* each, or all of them, and a borrow of the value.                        *)
(*                                                                         *)
(* A RwLock has Kinds = {"read", "write"} and usize::MAX permits.  A Mutex *)
(* has one permit and Kinds = {"write"}.                                   *)
(***************************************************************************)
EXTENDS FifoSemaphore, FiniteSets

CONSTANT Kinds   \* the kinds of guard the lock gives out

ASSUME LockAssumption ==
  /\ Kinds \subseteq {"read", "write"}
  /\ MaxPermits >= 1

VARIABLES
  kind,        \* of the guard that a future asks for or has become
  shared,      \* guards with a Ref of the value
  exclusive    \* guards with a RefMut of the value

lockVars == <<avail, phase, amount, ahead, need, demand, kind, shared, exclusive>>

LockTypeOK ==
  /\ TypeOK
  /\ kind \in [Futures -> Kinds \union {"none"}]
  /\ shared \subseteq Futures
  /\ exclusive \subseteq Futures

\* Semaphore::new(PERMITS), RefCell::new(value)
LockInit ==
  /\ Init
  /\ avail = MaxPermits
  /\ kind = [f \in Futures |-> "none"]
  /\ shared = {}
  /\ exclusive = {}

\* Mutant of Cost: a writer leaves one permit behind.
CostOffByOne(k) == IF k = "read" THEN 1 ELSE MaxPermits - 1

\* The permits that a guard owns.
Cost(k) == IF k = "read" THEN 1 ELSE MaxPermits

\* What RefCell::borrow and RefCell::borrow_mut require.
CanBorrow(k) == exclusive = {} /\ (k = "write" => shared = {})

\* The borrow that follows the permit, without a point to suspend in between.
Borrow(f, k) ==
  /\ CanBorrow(k)
  /\ shared' = IF k = "read" THEN shared \union {f} ELSE shared
  /\ exclusive' = IF k = "write" THEN exclusive \union {f} ELSE exclusive

-----------------------------------------------------------------------------
\* lock, read, write, try_lock, try_read or try_write succeeds at once.
LockNow(f, k) ==
  /\ Acquire(f, Cost(k))
  /\ kind' = [kind EXCEPT ![f] = k]
  /\ Borrow(f, k)

\* lock, read or write has to wait.
LockLater(f, k) ==
  /\ Enqueue(f, Cost(k))
  /\ kind' = [kind EXCEPT ![f] = k]
  /\ UNCHANGED <<shared, exclusive>>

\* The future of lock, read or write is polled after its grant.
LockGranted(f) ==
  /\ Take(f)
  /\ Borrow(f, kind[f])
  /\ UNCHANGED kind

\* The future of lock, read or write is dropped while it waits.
LockCancelled(f) ==
  /\ Cancel(f)
  /\ kind' = [kind EXCEPT ![f] = "none"]
  /\ UNCHANGED <<shared, exclusive>>

\* A guard is dropped: the borrow first, then the permit.
DropGuard(f) ==
  /\ Release(f)
  /\ kind' = [kind EXCEPT ![f] = "none"]
  /\ shared' = shared \ {f}
  /\ exclusive' = exclusive \ {f}

LockNext ==
  \E f \in Futures :
    \/ \E k \in Kinds : LockNow(f, k) \/ LockLater(f, k)
    \/ LockGranted(f) \/ LockCancelled(f) \/ DropGuard(f)

LockSpec == LockInit /\ [][LockNext]_lockVars

-----------------------------------------------------------------------------
(* Properties                                                              *)

\* Whenever the semaphore lets a guard be built, at once or after a grant,
\* the RefCell allows its borrow: no lock operation panics.
BorrowNeverPanics ==
  /\ \A f \in Futures : phase[f] = "granted" => CanBorrow(kind[f])
  /\ \A k \in Kinds : CanAcquire(Cost(k)) => CanBorrow(k)

\* A guard can always be dropped: its permits fit into the pool again, and no
\* `+=' overflows although a RwLock starts with usize::MAX of them.
GuardsReturn ==
  \A f \in Futures : phase[f] = "holding" => avail + amount[f] <= MaxPermits

-----------------------------------------------------------------------------
(* The inductive invariant                                                 *)

Holders == {f \in Futures : phase[f] = "holding"}

\* Guards and borrows agree; a guard owns what its kind costs.
GuardInv ==
  /\ \A f \in Futures : phase[f] # "idle" => kind[f] \in Kinds /\ amount[f] = Cost(kind[f])
  /\ shared = {f \in Holders : kind[f] = "read"}
  /\ exclusive = {f \in Holders : kind[f] = "write"}

\* Every permit is in the pool or owned by a guard.
PermitInv ==
  /\ IsFiniteSet(Holders)
  /\ exclusive = {} => avail + Cardinality(Holders) = MaxPermits
  /\ \A w \in exclusive : Holders = {w} /\ avail = 0

LockIInv ==
  /\ IInv
  /\ LockTypeOK
  /\ GuardInv
  /\ PermitInv
=============================================================================
