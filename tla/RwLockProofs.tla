---------------------------- MODULE RwLockProofs ----------------------------
(***************************************************************************)
(* Proofs about RwLock and Mutex, for every number of callers and every    *)
(* number of permits.  The order of the line and the grants come from      *)
(* FifoSemaphoreProofs; what is new is that every permit is in the pool or *)
(* owned by a guard.                                                       *)
(***************************************************************************)
EXTENDS RwLock, FifoSemaphoreProofs, FiniteSetTheorems

LEMMA CostType ==
  ASSUME NEW k \in Kinds
  PROVE  /\ Cost(k) \in 1 .. MaxPermits
         /\ k = "read" => Cost(k) = 1
         /\ k = "write" => Cost(k) = MaxPermits
         /\ k \in {"read", "write"}
  BY FifoAssumption, LockAssumption DEF Cost

\* The permits of a guard in the pool mean that its borrow is possible.
LEMMA PermitsAllowBorrow ==
  ASSUME LockIInv, NEW k \in Kinds, Cost(k) <= avail
  PROVE  CanBorrow(k) /\ exclusive = {} /\ (k = "write" => Holders = {})
<1>1. avail \in Nat /\ avail <= MaxPermits /\ MaxPermits \in Nat /\ MaxPermits >= 1
  BY FifoAssumption, LockAssumption DEF LockIInv, IInv, TypeOK
<1>2. exclusive = {}
  BY <1>1, CostType DEF LockIInv, PermitInv
<1>3. ASSUME k = "write" PROVE Holders = {}
  <2>1. avail = MaxPermits /\ avail + Cardinality(Holders) = MaxPermits
    BY <1>1, <1>2, <1>3, CostType DEF LockIInv, PermitInv
  <2>2. Cardinality(Holders) \in Nat
    BY FS_CardinalityType DEF LockIInv, PermitInv
  <2>3. Cardinality(Holders) = 0
    BY <1>1, <2>1, <2>2
  <2> QED BY <2>3, FS_EmptySet DEF LockIInv, PermitInv
<1>4. k = "write" => shared = {}
  BY <1>3 DEF LockIInv, GuardInv
<1> QED BY <1>2, <1>3, <1>4 DEF CanBorrow

\* A guard is built: its permits leave the pool and it borrows the value.
LEMMA NewGuard ==
  ASSUME LockIInv, NEW f \in Futures, f \notin Holders,
         NEW k \in Kinds, Cost(k) <= avail, avail' = avail - Cost(k),
         Holders' = Holders \union {f},
         kind'[f] = k, \A g \in Futures \ {f} : kind'[g] = kind[g],
         Borrow(f, k)
  PROVE  /\ shared' = {g \in Holders' : kind'[g] = "read"}
         /\ exclusive' = {g \in Holders' : kind'[g] = "write"}
         /\ PermitInv'
         /\ shared' \subseteq Futures /\ exclusive' \subseteq Futures
<1>1. /\ avail \in Nat /\ avail <= MaxPermits /\ MaxPermits \in Nat
      /\ Holders \subseteq Futures /\ IsFiniteSet(Holders)
  BY FifoAssumption DEF LockIInv, IInv, TypeOK, PermitInv, Holders
<1>2. /\ exclusive = {} /\ (k = "write" => Holders = {})
      /\ avail + Cardinality(Holders) = MaxPermits
  BY PermitsAllowBorrow DEF LockIInv, PermitInv
<1>3. /\ shared = {g \in Holders : kind[g] = "read"}
      /\ exclusive = {g \in Holders : kind[g] = "write"}
  BY DEF LockIInv, GuardInv
<1>4. \A g \in Holders : kind'[g] = kind[g]
  BY <1>1
<1>5. CASE k = "read"
  <2>1. shared' = shared \union {f} /\ exclusive' = {}
    BY <1>2, <1>5 DEF Borrow
  <2>2. /\ IsFiniteSet(Holders \union {f})
        /\ Cardinality(Holders \union {f}) = Cardinality(Holders) + 1
    BY <1>1, FS_AddElement
  <2>3. Cardinality(Holders) \in Nat
    BY <1>1, FS_CardinalityType
  <2>4. avail' + Cardinality(Holders') = MaxPermits
    BY <1>1, <1>2, <1>5, <2>2, <2>3, CostType
  <2>5. PermitInv'
    BY <2>1, <2>2, <2>4 DEF PermitInv
  <2> QED BY <1>1, <1>2, <1>3, <1>4, <1>5, <2>1, <2>5
<1>6. CASE k = "write"
  <2>1. shared' = {} /\ exclusive' = {f} /\ Holders' = {f}
    BY <1>2, <1>3, <1>6 DEF Borrow
  <2>2. avail' = 0
    BY <1>1, <1>6, CostType
  <2>3. PermitInv'
    BY <2>1, <2>2, FS_Singleton DEF PermitInv
  <2> QED BY <1>6, <2>1, <2>3
<1> QED BY <1>5, <1>6, CostType

-----------------------------------------------------------------------------
(* The actions                                                             *)

\* What Take, Cancel and Release do to a future other than their own.
LEMMA GrantKeepsOthers ==
  ASSUME LockIInv, NEW f \in Futures, NEW p \in {"idle", "holding"},
         Grant([phase EXCEPT ![f] = p])
  PROVE  /\ phase'[f] = p
         /\ \A g \in Futures \ {f} :
              /\ phase'[g] = "holding" <=> phase[g] = "holding"
              /\ phase'[g] = "idle" <=> phase[g] = "idle"
<1> DEFINE ph == [phase EXCEPT ![f] = p]
<1>1. ph[f] = p /\ \A g \in Futures \ {f} : ph[g] = phase[g]
  BY DEF LockIInv, IInv, TypeOK
<1>2. \A g \in Futures : phase'[g] = ph[g] \/ (ph[g] = "waiting" /\ phase'[g] = "granted")
  BY DEF Grant
<1> HIDE DEF ph
<1> QED BY <1>1, <1>2

LEMMA LockNowIInv ==
  ASSUME LockIInv, NEW f \in Futures, NEW k \in Kinds, LockNow(f, k)
  PROVE  LockIInv'
<1>1. IInv'
  BY AcquireIInv, CostType, FifoAssumption DEF LockIInv, LockNow
<1>2. /\ phase[f] = "idle" /\ phase'[f] = "holding"
      /\ Cost(k) <= avail /\ avail' = avail - Cost(k)
      /\ amount'[f] = Cost(k) /\ kind'[f] = k
      /\ \A g \in Futures \ {f} :
           phase'[g] = phase[g] /\ amount'[g] = amount[g] /\ kind'[g] = kind[g]
      /\ Borrow(f, k)
  BY DEF LockIInv, LockTypeOK, TypeOK, LockNow, Acquire, CanAcquire
<1>3. f \notin Holders /\ Holders' = Holders \union {f}
  BY <1>2 DEF Holders
<1>4. /\ shared' = {g \in Holders' : kind'[g] = "read"}
      /\ exclusive' = {g \in Holders' : kind'[g] = "write"}
      /\ PermitInv'
      /\ shared' \subseteq Futures /\ exclusive' \subseteq Futures
  BY <1>2, <1>3, NewGuard
<1>5. LockTypeOK'
  BY <1>1, <1>4 DEF LockIInv, IInv, LockTypeOK, LockNow
<1>6. GuardInv'
  BY <1>2, <1>4 DEF LockIInv, GuardInv
<1> QED BY <1>1, <1>4, <1>5, <1>6 DEF LockIInv

LEMMA LockLaterIInv ==
  ASSUME LockIInv, NEW f \in Futures, NEW k \in Kinds, LockLater(f, k)
  PROVE  LockIInv'
<1>1. IInv'
  BY EnqueueIInv, CostType DEF LockIInv, LockLater
<1>2. /\ phase[f] = "idle" /\ phase'[f] = "waiting"
      /\ amount'[f] = Cost(k) /\ kind'[f] = k
      /\ \A g \in Futures \ {f} :
           phase'[g] = phase[g] /\ amount'[g] = amount[g] /\ kind'[g] = kind[g]
      /\ UNCHANGED <<avail, shared, exclusive>>
  BY DEF LockIInv, LockTypeOK, TypeOK, LockLater, Enqueue
<1>3. Holders' = Holders /\ f \notin Holders /\ Holders \subseteq Futures
  BY <1>2 DEF Holders
<1>4. LockTypeOK'
  BY <1>1, <1>2 DEF LockIInv, IInv, LockTypeOK, LockLater
<1>5. GuardInv'
  BY <1>2, <1>3 DEF LockIInv, GuardInv
<1>6. PermitInv'
  BY <1>2, <1>3 DEF LockIInv, PermitInv
<1> QED BY <1>1, <1>4, <1>5, <1>6 DEF LockIInv

LEMMA LockGrantedIInv ==
  ASSUME LockIInv, NEW f \in Futures, LockGranted(f)
  PROVE  LockIInv'
<1>1. IInv'
  BY TakeIInv DEF LockIInv, LockGranted
<1>2. /\ phase[f] = "granted" /\ avail' = avail - amount[f]
      /\ Grant([phase EXCEPT ![f] = "holding"])
      /\ amount' = amount /\ kind' = kind
      /\ Borrow(f, kind[f])
  BY DEF LockGranted, Take
<1>3. kind[f] \in Kinds /\ amount[f] = Cost(kind[f])
  BY <1>2 DEF LockIInv, GuardInv
<1>4. Cost(kind[f]) <= avail
  <2>1. f \in Line /\ need[f] <= avail
    BY <1>2 DEF LockIInv, IInv, CoverInv, Line, InLine
  <2>2. amount[f] <= need[f]
    BY <2>1 DEF LockIInv, IInv, SumInv
  <2> QED BY <1>3, <2>1, <2>2, FifoAssumption DEF LockIInv, IInv, TypeOK
<1>5. /\ phase'[f] = "holding"
      /\ \A g \in Futures \ {f} :
           /\ phase'[g] = "holding" <=> phase[g] = "holding"
           /\ phase'[g] = "idle" <=> phase[g] = "idle"
  BY <1>2, GrantKeepsOthers
<1>6. f \notin Holders /\ Holders' = Holders \union {f}
  BY <1>2, <1>5 DEF Holders
<1>7. /\ shared' = {g \in Holders' : kind'[g] = "read"}
      /\ exclusive' = {g \in Holders' : kind'[g] = "write"}
      /\ PermitInv'
      /\ shared' \subseteq Futures /\ exclusive' \subseteq Futures
  <2>1. PICK k \in Kinds : k = kind[f]
    BY <1>3
  <2>2. /\ Cost(k) <= avail /\ avail' = avail - Cost(k)
        /\ kind'[f] = k /\ \A g \in Futures \ {f} : kind'[g] = kind[g]
        /\ Borrow(f, k)
    BY <1>2, <1>3, <1>4, <2>1
  <2> QED BY <1>6, <2>2, NewGuard
<1>8. LockTypeOK'
  BY <1>1, <1>2, <1>7 DEF LockIInv, IInv, LockTypeOK
<1>9. GuardInv'
  BY <1>2, <1>3, <1>5, <1>7 DEF LockIInv, GuardInv
<1> QED BY <1>1, <1>7, <1>8, <1>9 DEF LockIInv

LEMMA LockCancelledIInv ==
  ASSUME LockIInv, NEW f \in Futures, LockCancelled(f)
  PROVE  LockIInv'
<1>1. IInv'
  BY CancelIInv DEF LockIInv, LockCancelled
<1>2. /\ phase[f] \in {"waiting", "granted"}
      /\ Grant([phase EXCEPT ![f] = "idle"])
      /\ UNCHANGED <<avail, shared, exclusive>>
      /\ \A g \in Futures \ {f} : amount'[g] = amount[g] /\ kind'[g] = kind[g]
  BY DEF LockIInv, LockTypeOK, TypeOK, LockCancelled, Cancel, InLine
<1>3. /\ phase'[f] = "idle"
      /\ \A g \in Futures \ {f} :
           /\ phase'[g] = "holding" <=> phase[g] = "holding"
           /\ phase'[g] = "idle" <=> phase[g] = "idle"
  BY <1>2, GrantKeepsOthers
<1>4. Holders' = Holders /\ f \notin Holders /\ Holders \subseteq Futures
  BY <1>2, <1>3 DEF Holders
<1>5. LockTypeOK'
  BY <1>1, <1>2 DEF LockIInv, IInv, LockTypeOK, LockCancelled
<1>6. GuardInv'
  BY <1>2, <1>3, <1>4 DEF LockIInv, GuardInv
<1>7. PermitInv'
  BY <1>2, <1>4 DEF LockIInv, PermitInv
<1> QED BY <1>1, <1>5, <1>6, <1>7 DEF LockIInv

LEMMA DropGuardIInv ==
  ASSUME LockIInv, NEW f \in Futures, DropGuard(f)
  PROVE  LockIInv'
<1>1. IInv'
  BY ReleaseIInv DEF LockIInv, DropGuard
<1>2. /\ phase[f] = "holding" /\ avail' = avail + amount[f]
      /\ Grant([phase EXCEPT ![f] = "idle"])
      /\ shared' = shared \ {f} /\ exclusive' = exclusive \ {f}
      /\ \A g \in Futures \ {f} : amount'[g] = amount[g] /\ kind'[g] = kind[g]
  BY DEF LockIInv, LockTypeOK, TypeOK, DropGuard, Release
<1>3. /\ phase'[f] = "idle"
      /\ \A g \in Futures \ {f} :
           /\ phase'[g] = "holding" <=> phase[g] = "holding"
           /\ phase'[g] = "idle" <=> phase[g] = "idle"
  BY <1>2, GrantKeepsOthers
<1>4. Holders' = Holders \ {f} /\ f \in Holders /\ Holders \subseteq Futures
  BY <1>2, <1>3 DEF Holders
<1>5. LockTypeOK'
  BY <1>1, <1>2 DEF LockIInv, IInv, LockTypeOK, DropGuard
<1>6. GuardInv'
  <2>1. /\ shared' = {g \in Holders' : kind'[g] = "read"}
        /\ exclusive' = {g \in Holders' : kind'[g] = "write"}
    BY <1>2, <1>4 DEF LockIInv, GuardInv
  <2> QED BY <1>2, <1>3, <2>1 DEF LockIInv, GuardInv
<1>7. /\ kind[f] \in Kinds /\ amount[f] = Cost(kind[f])
      /\ kind[f] \in {"read", "write"}
      /\ avail \in Nat /\ MaxPermits \in Nat /\ IsFiniteSet(Holders)
  <2>1. kind[f] \in Kinds /\ amount[f] = Cost(kind[f])
    BY <1>2 DEF LockIInv, GuardInv
  <2>2. kind[f] \in {"read", "write"}
    BY <2>1, LockAssumption
  <2>3. avail \in Nat /\ MaxPermits \in Nat
    BY FifoAssumption DEF LockIInv, IInv, TypeOK
  <2>4. IsFiniteSet(Holders)
    BY DEF LockIInv, PermitInv
  <2> QED BY <2>1, <2>2, <2>3, <2>4
<1>8. CASE kind[f] = "read"
  <2>1. exclusive = {} /\ exclusive' = {}
    BY <1>2, <1>4, <1>8 DEF LockIInv, GuardInv, PermitInv
  <2>2. /\ IsFiniteSet(Holders \ {f})
        /\ Cardinality(Holders \ {f}) = Cardinality(Holders) - 1
    BY <1>4, <1>7, FS_RemoveElement
  <2>3. Cardinality(Holders) \in Nat
    BY <1>7, FS_CardinalityType
  <2>4. avail + Cardinality(Holders) = MaxPermits /\ amount[f] = 1
    BY <1>7, <1>8, <2>1, CostType DEF LockIInv, PermitInv
  <2>5. avail' + Cardinality(Holders') = MaxPermits
    BY <1>2, <1>4, <1>7, <2>2, <2>3, <2>4
  <2> QED BY <1>1, <1>4, <1>5, <1>6, <2>1, <2>2, <2>5 DEF LockIInv, PermitInv
<1>9. CASE kind[f] = "write"
  <2>1. f \in exclusive
    BY <1>4, <1>9 DEF LockIInv, GuardInv
  <2>2. Holders = {f} /\ avail = 0
    BY <2>1 DEF LockIInv, PermitInv
  <2>3. Holders' = {} /\ exclusive' = {}
    BY <1>2, <1>4, <2>2 DEF LockIInv, GuardInv
  <2>4. avail' = MaxPermits
    BY <1>2, <1>7, <1>9, <2>2, CostType
  <2>5. PermitInv'
    BY <1>7, <2>3, <2>4, FS_EmptySet DEF PermitInv
  <2> QED BY <1>1, <1>5, <1>6, <2>5 DEF LockIInv
<1> QED BY <1>7, <1>8, <1>9

-----------------------------------------------------------------------------
(* Theorems                                                                *)

LEMMA LockInitIInv == LockInit => LockIInv
<1> SUFFICES ASSUME LockInit PROVE LockIInv
  OBVIOUS
<1>1. IInv
  BY InitIInv DEF LockInit
<1>2. Holders = {}
  BY DEF LockInit, Init, Holders
<1>3. PermitInv
  BY <1>2, FS_EmptySet, FifoAssumption DEF LockInit, PermitInv
<1>4. GuardInv
  BY <1>2 DEF LockInit, Init, GuardInv
<1> QED BY <1>1, <1>3, <1>4 DEF LockInit, LockIInv, LockTypeOK, IInv

LEMMA LockNextIInv == LockIInv /\ [LockNext]_lockVars => LockIInv'
<1> SUFFICES ASSUME LockIInv, [LockNext]_lockVars PROVE LockIInv'
  OBVIOUS
<1>1. CASE LockNext
  BY <1>1, LockNowIInv, LockLaterIInv, LockGrantedIInv, LockCancelledIInv,
     DropGuardIInv DEF LockNext
<1>2. CASE UNCHANGED lockVars
  <2>1. IInv'
    BY <1>2, NextIInv DEF lockVars, vars, LockIInv
  <2>2. Holders' = Holders
    BY <1>2 DEF lockVars, Holders
  <2> QED BY <1>2, <2>1, <2>2 DEF lockVars, LockIInv, LockTypeOK, IInv, GuardInv,
                                  PermitInv, Cost
<1> QED BY <1>1, <1>2

\* LockIInv holds in every reachable state of a lock.
THEOREM LockInvariance == LockSpec => []LockIInv
  BY LockInitIInv, LockNextIInv, PTL DEF LockSpec

\* No lock operation borrows the RefCell against its rules: where there is a
\* writer it is alone, and a granted or admissible guard can be built.
THEOREM LocksNeverPanic == LockSpec => []BorrowNeverPanics
<1>1. LockIInv => BorrowNeverPanics
  <2> SUFFICES ASSUME LockIInv PROVE BorrowNeverPanics
    OBVIOUS
  <2>1. ASSUME NEW f \in Futures, phase[f] = "granted"
        PROVE  CanBorrow(kind[f])
    <3>1. kind[f] \in Kinds /\ amount[f] = Cost(kind[f])
      BY <2>1 DEF LockIInv, GuardInv
    <3>2. f \in Line /\ need[f] <= avail
      BY <2>1 DEF LockIInv, IInv, CoverInv, Line, InLine
    <3>3. amount[f] <= need[f]
      BY <3>2 DEF LockIInv, IInv, SumInv
    <3>4. Cost(kind[f]) <= avail
      BY <3>1, <3>2, <3>3, FifoAssumption DEF LockIInv, IInv, TypeOK
    <3> QED BY <3>1, <3>4, PermitsAllowBorrow
  <2>2. ASSUME NEW k \in Kinds, CanAcquire(Cost(k)) PROVE CanBorrow(k)
    BY <2>2, PermitsAllowBorrow DEF CanAcquire
  <2> QED BY <2>1, <2>2 DEF BorrowNeverPanics
<1> QED BY <1>1, LockInvariance, PTL

\* The permits of every guard fit into the pool when it is dropped.
THEOREM GuardsAlwaysReturn == LockSpec => []GuardsReturn
<1>1. LockIInv => GuardsReturn
  <2> SUFFICES ASSUME LockIInv, NEW f \in Futures, phase[f] = "holding"
               PROVE  avail + amount[f] <= MaxPermits
    BY DEF GuardsReturn
  <2>1. /\ kind[f] \in Kinds /\ amount[f] = Cost(kind[f]) /\ f \in Holders
        /\ avail \in Nat /\ MaxPermits \in Nat
    BY FifoAssumption DEF LockIInv, GuardInv, Holders, IInv, TypeOK
  <2>2. CASE kind[f] = "write"
    <3>1. avail = 0
      BY <2>1, <2>2 DEF LockIInv, GuardInv, PermitInv
    <3> QED BY <2>1, <2>2, <3>1, CostType
  <2>3. CASE kind[f] = "read"
    <3>1. exclusive = {}
      BY <2>1, <2>3 DEF LockIInv, GuardInv, PermitInv
    <3>2. avail + Cardinality(Holders) = MaxPermits /\ IsFiniteSet(Holders)
      BY <3>1 DEF LockIInv, PermitInv
    <3>3. Cardinality(Holders) \in Nat /\ Cardinality(Holders) # 0
      BY <2>1, <3>2, FS_CardinalityType, FS_EmptySet
    <3> QED BY <2>1, <2>3, <3>2, <3>3, CostType
  <2> QED BY <2>1, <2>2, <2>3, CostType
<1> QED BY <1>1, LockInvariance, PTL

\* Guards and the kinds of lock futures keep their types.
THEOREM LockTypeCorrect == LockSpec => []LockTypeOK
<1>1. LockIInv => LockTypeOK
  BY DEF LockIInv
<1> QED BY <1>1, LockInvariance, PTL
=============================================================================
