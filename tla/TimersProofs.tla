---------------------------- MODULE TimersProofs ----------------------------
(***************************************************************************)
(* Proofs about Timers, for every set of timers, tasks and instants, every *)
(* resolution of the clock and every width of c_int.                       *)
(***************************************************************************)
EXTENDS Timers, TLAPS, WellFoundedInduction

-----------------------------------------------------------------------------
(* Arithmetic: what the conversions to milliseconds and to c_int do        *)

LEMMA DivRoundsDown ==
  ASSUME NEW n \in Nat, NEW m \in Nat \ {0}
  PROVE  n \div m \in Nat /\ (n \div m) * m <= n /\ n < (n \div m) * m + m
  BY SMT

LEMMA ScaleUp ==
  ASSUME NEW m \in Nat \ {0}, NEW p \in Int, NEW q \in Int, p <= q
  PROVE  p * m <= q * m
  BY SMT

LEMMA ScaleDown ==
  ASSUME NEW m \in Nat \ {0}, NEW p \in Int, NEW q \in Int, p * m <= q * m
  PROVE  p <= q
<1>1. SUFFICES ASSUME q + 1 <= p PROVE FALSE
  OBVIOUS
<1>2. (q + 1) * m <= p * m
  BY <1>1, ScaleUp
<1>3. (q + 1) * m = q * m + m
  OBVIOUS
<1> QED BY <1>2, <1>3

LEMMA CIntExact ==
  ASSUME NEW n \in Nat, n < C_INT
  PROVE  ToCInt(n) = n
  BY TimersAssumption, SMT DEF ToCInt

\* What does not fit becomes less, and may become negative.
LEMMA CIntBelow ==
  ASSUME NEW n \in Nat
  PROVE  ToCInt(n) <= n
<1>1. PICK c \in Nat \ {0} : c = C_INT
  BY TimersAssumption
<1>2. ASSUME NEW x \in Nat, NEW m \in Nat \ {0} PROVE x % m <= x /\ x % m \in Nat
  BY <1>2, SMT
<1>3. (n + c) % (2 * c) <= n + c /\ (n + c) % (2 * c) \in Nat
  BY <1>2
<1> QED BY <1>1, <1>3 DEF ToCInt

LEMMA CIntType ==
  ASSUME NEW n \in Int
  PROVE  ToCInt(n) \in Int
  BY TimersAssumption, SMT DEF ToCInt

LEMMA MinOfNaturals ==
  ASSUME NEW S, S \subseteq Nat, S # {}
  PROVE  Min(S) \in S /\ \A n \in S : Min(S) <= n
<1>1. IsWellFoundedOn(OpToRel(<, Nat), Nat)
  BY NatLessThanWellFounded
<1>2. \E m \in S : \A n \in S : ~ (<<n, m>> \in OpToRel(<, Nat))
  BY <1>1, WFMin
<1>3. \E m \in S : \A n \in S : ~ (n < m)
  BY <1>2 DEF OpToRel
<1>4. \E m \in S : \A n \in S : m =< n
  BY <1>3
<1> QED BY <1>4 DEF Min

\* The timeout of a park is an integer.  If it is not endless it does not
\* reach a millisecond beyond any alarm.  If an alarm is near it is not
\* endless, and reaches to less than a millisecond before some alarm.
LEMMA ParkTimeoutSound ==
  ASSUME IInv, Expired = {}
  PROVE  /\ ParkTimeout \in Int
         /\ \A k \in DOMAIN alarms :
              ParkTimeout >= 0 => now + ParkTimeout * MS < k[1] + MS
         /\ \A k \in DOMAIN alarms :
              k[1] - now <= (C_INT - 1) * MS =>
                /\ ParkTimeout >= 0
                /\ \E j \in DOMAIN alarms : j[1] < now + ParkTimeout * MS + MS
<1>1. CASE DOMAIN alarms = {}
  BY <1>1 DEF ParkTimeout
<1>2. CASE DOMAIN alarms # {}
  <2> DEFINE S == {k[1] : k \in DOMAIN alarms}
             d == Min(S) - now
  <2>1. /\ \A k \in DOMAIN alarms : k[1] \in Instants /\ k[1] \in Nat /\ k[1] > now
        /\ now \in Instants /\ now \in Nat
    BY TimersAssumption DEF IInv, TypeOK, Keys, Expired
  <2>2. S \subseteq Nat /\ S # {} /\ \A k \in DOMAIN alarms : k[1] \in S
    BY <1>2, <2>1
  <2>3. Min(S) \in S /\ \A n \in S : Min(S) <= n
    BY <2>2, MinOfNaturals
  <2>4. PICK j \in DOMAIN alarms : j[1] = Min(S)
    BY <2>3
  <2>5. Min(S) \in Nat /\ now <= Min(S)
    BY <2>1, <2>4
  <2> HIDE DEF S
  <2>6. d \in Nat /\ now + d = Min(S)
    BY <2>1, <2>5
  <2>7. ParkTimeout = ToCInt(d \div MS)
    BY <1>2 DEF ParkTimeout, S
  <2> HIDE DEF d
  <2>8. MS \in Nat \ {0} /\ C_INT \in Nat \ {0}
    BY TimersAssumption
  <2>9. PICK p \in Nat : p = d \div MS
    BY <2>6, <2>8, DivRoundsDown
  <2>10. p * MS <= d /\ d < p * MS + MS
    BY <2>6, <2>8, <2>9, DivRoundsDown
  <2>11. ParkTimeout \in Int /\ ParkTimeout <= p
    BY <2>7, <2>9, CIntType, CIntBelow
  <2>12. ParkTimeout * MS <= p * MS
    BY <2>8, <2>11, ScaleUp
  <2>13. PICK q \in Int : q = ParkTimeout * MS
    BY <2>8, <2>11
  <2>14. PICK r \in Int : r = p * MS
    BY <2>8
  <2>15. ASSUME NEW k \in DOMAIN alarms
         PROVE  now + ParkTimeout * MS < k[1] + MS
    <3>1. Min(S) <= k[1]
      BY <2>2, <2>3
    <3>2. now + q <= Min(S)
      BY <2>1, <2>5, <2>6, <2>10, <2>12, <2>13, <2>14
    <3> QED BY <2>1, <2>5, <2>8, <2>13, <3>1, <3>2
  <2>16. ASSUME NEW k \in DOMAIN alarms, k[1] - now <= (C_INT - 1) * MS
         PROVE  ParkTimeout >= 0 /\ j[1] < now + ParkTimeout * MS + MS
    <3>1. PICK e \in Int : e = (C_INT - 1) * MS
      BY <2>8
    <3>2. Min(S) <= k[1]
      BY <2>2, <2>3
    <3>3. p * MS <= (C_INT - 1) * MS
      BY <2>1, <2>5, <2>6, <2>10, <2>14, <2>16, <3>1, <3>2
    <3>4. p < C_INT
      BY <2>8, <3>3, ScaleDown
    <3>5. ParkTimeout = p
      BY <2>7, <2>9, <3>4, CIntExact
    <3> QED BY <2>1, <2>4, <2>5, <2>6, <2>8, <2>10, <2>14, <3>5
  <2> QED BY <2>11, <2>15, <2>16
<1> QED BY <1>1, <1>2

-----------------------------------------------------------------------------
(* The initial state                                                       *)

LEMMA InitIInv == Init => IInv
<1> SUFFICES ASSUME Init PROVE IInv
  OBVIOUS
<1>1. DOMAIN alarms = {} /\ alarms \in [DOMAIN alarms -> Tasks]
  BY DEF Init
<1>2. TypeOK
  <2>1. now \in Instants /\ start = None /\ next_alarm \in Nat /\ timeout \in Int
    BY DEF Init
  <2>2. /\ kind \in [Timers -> {"none", "sleep", "interval", "timeout"}]
        /\ deadline \in [Timers -> Instants]
        /\ id \in [Timers -> Nat \union {None}]
        /\ waker \in [Timers -> Tasks \union {None}]
        /\ waiting \in [Timers -> Tasks \union {None}]
    BY <2>1 DEF Init
  <2>3. /\ pc = "run" /\ failed \in BOOLEAN
        /\ wakers = {} /\ heard = {} /\ panicked = {} /\ unused = Timers
    BY DEF Init
  <2> QED BY <1>1, <2>1, <2>2, <2>3 DEF TypeOK
<1> QED BY <1>1, <1>2 DEF Init, IInv, IdInv, WakerInv, PollNeverPanics,
                          NoLostTimer, NoOrphanAlarm

-----------------------------------------------------------------------------
(* The actions                                                             *)

\* A timer that was not used before has no alarm.
LEMMA CreateIInv ==
  ASSUME IInv, NEW s \in Timers, NEW k \in {"sleep", "interval", "timeout"},
         NEW d \in Instants, Create(s, k, d)
  PROVE  IInv'
<1>1. /\ kind[s] = "none" /\ id[s] = None /\ waiting[s] = None
      /\ kind'[s] = k /\ deadline'[s] = d
      /\ \A r \in Timers \ {s} : kind'[r] = kind[r] /\ deadline'[r] = deadline[r]
      /\ s \in unused /\ unused' = unused \ {s}
      /\ UNCHANGED <<now, id, waker, alarms, next_alarm, pc, wakers, start,
                     timeout, failed, waiting, heard, panicked>>
  BY DEF Create, IInv, TypeOK, IdInv, WakerInv, clockVars, parkVars, Alive
<1>2. TypeOK'
  BY <1>1 DEF Create, IInv, TypeOK
<1>3. IdInv'
  BY <1>1 DEF IInv, IdInv, TypeOK
<1>4. ASSUME NEW r \in Timers \ {s}
      PROVE  Key(r)' = Key(r) /\ (Alive(r)' <=> Alive(r))
  BY <1>1 DEF Key, Alive
<1>5. WakerInv'
  BY <1>1, <1>4 DEF IInv, WakerInv
<1>6. PollNeverPanics' /\ NoLostTimer'
  BY <1>1, <1>4 DEF IInv, PollNeverPanics, NoLostTimer
<1>7. NoOrphanAlarm'
  <2> SUFFICES ASSUME NEW l \in DOMAIN alarms
               PROVE  \E r \in Timers : Alive(r)' /\ l = Key(r)'
    BY <1>1 DEF NoOrphanAlarm
  <2>1. PICK r \in Timers : Alive(r) /\ l = Key(r)
    BY DEF IInv, NoOrphanAlarm
  <2>2. r # s
    BY <1>1, <2>1 DEF Alive
  <2> QED BY <1>4, <2>1, <2>2
<1> QED BY <1>2, <1>3, <1>5, <1>6, <1>7 DEF IInv

\* The first poll sets an alarm under a new id.
LEMMA InsertIInv ==
  ASSUME IInv, NEW s \in Timers, NEW t \in Tasks, PollPending(s, t),
         id[s] = None
  PROVE  IInv'
<1> DEFINE k == <<deadline[s], next_alarm>>
<1>1. /\ Alive(s) /\ InsertAlarm(s, t)
      /\ waiting' = [waiting EXCEPT ![s] = t] /\ Unheard(s)
      /\ UNCHANGED <<now, kind, deadline, unused, pc, wakers, start, timeout,
                     failed, panicked>>
  BY DEF PollPending, PendingSleep, ReplaceWaker, parkVars
<1>2. /\ id'[s] = next_alarm /\ waker'[s] = t /\ waiting'[s] = t
      /\ next_alarm' = next_alarm + 1 /\ next_alarm \in Nat
      /\ \A r \in Timers \ {s} : /\ id'[r] = id[r] /\ waker'[r] = waker[r]
                                 /\ waiting'[r] = waiting[r]
      /\ next_alarm # None /\ t # None
  BY <1>1, TimersAssumption DEF InsertAlarm, IInv, TypeOK
<1>3. k \in Keys /\ Key(s)' = k
  BY <1>1, <1>2 DEF IInv, TypeOK, Key, Keys
<1>4. \A r \in Timers \ {s} : Key(r)' = Key(r)
  BY <1>1, <1>2 DEF Key
<1>5. \A l \in DOMAIN alarms : l[2] # next_alarm /\ l # k
  <2> SUFFICES ASSUME NEW l \in DOMAIN alarms PROVE l[2] # next_alarm
    BY DEF k
  <2>1. PICK r \in Timers : l = Key(r)
    BY DEF IInv, NoOrphanAlarm
  <2>2. l[2] = id[r] /\ l[2] \in Nat
    BY <2>1 DEF Key, IInv, TypeOK, Keys
  <2>3. id[r] < next_alarm
    BY <2>2, TimersAssumption DEF IInv, IdInv
  <2> QED BY <1>2, <2>2, <2>3
<1>6. alarms \in [DOMAIN alarms -> Tasks]
  BY DEF IInv, TypeOK
<1>7. /\ DOMAIN alarms' = DOMAIN alarms \union {k}
      /\ alarms'[k] = t
      /\ \A l \in DOMAIN alarms : alarms'[l] = alarms[l]
      /\ alarms' \in [DOMAIN alarms' -> Tasks]
  <2>1. alarms' = [l \in DOMAIN alarms \union {k} |->
                     IF l = k THEN t ELSE alarms[l]]
    BY <1>1 DEF InsertAlarm, InsertKey
  <2> HIDE DEF k
  <2> QED BY <1>5, <1>6, <2>1
<1> HIDE DEF k
<1>8. TypeOK'
  <2>1. heard' \subseteq Timers \X Tasks
    BY <1>1 DEF Unheard, IInv, TypeOK
  <2>2. /\ id' \in [Timers -> Nat \union {None}]
        /\ waker' \in [Timers -> Tasks \union {None}]
        /\ waiting' \in [Timers -> Tasks \union {None}]
        /\ next_alarm' \in Nat
    BY <1>1, <1>2 DEF InsertAlarm, IInv, TypeOK
  <2>3. DOMAIN alarms' \subseteq Keys
    BY <1>3, <1>7 DEF IInv, TypeOK
  <2> QED BY <1>1, <1>7, <2>1, <2>2, <2>3 DEF IInv, TypeOK
<1>9. IdInv'
  <2>1. \A r \in Timers : id'[r] # None => id'[r] < next_alarm'
    BY <1>2, TimersAssumption DEF IInv, IdInv, TypeOK
  <2>2. \A r \in Timers \ {s} : id[r] # next_alarm
    BY <1>2 DEF IInv, IdInv, TypeOK
  <2>3. \A q, r \in Timers : id'[r] # None /\ id'[q] = id'[r] => q = r
    BY <1>2, <2>2 DEF IInv, IdInv
  <2>4. \A r \in unused : kind'[r] = "none" /\ id'[r] = None
    BY <1>1, <1>2 DEF IInv, IdInv, TypeOK, Alive
  <2> QED BY <1>1, <2>1, <2>3, <2>4 DEF IdInv
<1>10. \A r \in Timers \ {s} : Key(r) # k
  BY <1>2 DEF Key, k, IInv, IdInv, TypeOK
<1>11. \A r \in Timers : Alive(r)' <=> Alive(r)
  BY <1>1 DEF Alive
<1>12. WakerInv'
  <2> SUFFICES ASSUME NEW r \in Timers
               PROVE  /\ id'[r] # None /\ Key(r)' \in DOMAIN alarms' =>
                           alarms'[Key(r)'] = waker'[r]
                      /\ waiting'[r] # None =>
                           Alive(r)' /\ id'[r] # None /\ waker'[r] = waiting'[r]
    BY <1>1 DEF IInv, WakerInv
  <2>1. CASE r = s
    BY <1>1, <1>2, <1>3, <1>7, <1>11, <2>1
  <2>2. CASE r # s
    BY <1>2, <1>4, <1>7, <1>10, <1>11, <2>2 DEF IInv, WakerInv
  <2> QED BY <2>1, <2>2
<1>13. PollNeverPanics'
  BY <1>1, <1>2, <1>3, <1>4, <1>7, <1>11 DEF IInv, PollNeverPanics
<1>14. NoLostTimer'
  <2> SUFFICES ASSUME NEW r \in Timers, waiting'[r] # None, ~failed'
               PROVE  \/ Key(r)' \in DOMAIN alarms' /\ alarms'[Key(r)'] = waiting'[r]
                      \/ <<Key(r)', waiting'[r]>> \in wakers'
                      \/ <<r, waiting'[r]>> \in heard'
    BY DEF NoLostTimer
  <2>1. CASE r = s
    BY <1>2, <1>3, <1>7, <2>1
  <2>2. CASE r # s
    BY <1>1, <1>2, <1>4, <1>7, <2>2 DEF IInv, NoLostTimer, Unheard
  <2> QED BY <2>1, <2>2
<1>15. NoOrphanAlarm'
  <2> SUFFICES ASSUME NEW l \in DOMAIN alarms'
               PROVE  \E r \in Timers : Alive(r)' /\ l = Key(r)'
    BY DEF NoOrphanAlarm
  <2>1. CASE l = k
    BY <1>1, <1>3, <1>11, <2>1
  <2>2. CASE l # k
    <3>1. PICK r \in Timers : Alive(r) /\ l = Key(r)
      BY <1>7, <2>2 DEF IInv, NoOrphanAlarm
    <3>2. r # s
      BY <1>7, <2>2, <3>1, TimersAssumption DEF Key, IInv, TypeOK, Keys
    <3> QED BY <1>4, <1>11, <3>1, <3>2
  <2> QED BY <2>1, <2>2
<1> QED BY <1>8, <1>9, <1>12, <1>13, <1>14, <1>15 DEF IInv

\* A later poll leaves the alarm as it is, or gives it a new waker.
LEMMA RepollIInv ==
  ASSUME IInv, NEW s \in Timers, NEW t \in Tasks, PollPending(s, t),
         id[s] # None
  PROVE  IInv'
<1>1. /\ Alive(s) /\ now < deadline[s] /\ PendingSleep(s, t)
      /\ waiting' = [waiting EXCEPT ![s] = t] /\ Unheard(s)
      /\ UNCHANGED <<now, kind, deadline, unused, pc, wakers, start, timeout,
                     failed>>
  BY DEF PollPending, parkVars
<1>2. Key(s) \in DOMAIN alarms /\ alarms[Key(s)] = waker[s]
  BY <1>1 DEF IInv, PollNeverPanics, WakerInv
<1>3. /\ alarms' = [alarms EXCEPT ![Key(s)] = t]
      /\ waker' = [waker EXCEPT ![s] = t]
      /\ UNCHANGED <<id, next_alarm, panicked>>
  <2>1. CASE waker[s] = t
    BY <1>1, <1>2, <2>1 DEF PendingSleep, ReplaceWaker, IInv, TypeOK
  <2>2. CASE waker[s] # t
    BY <1>1, <1>2, <2>2 DEF PendingSleep, ReplaceWaker
  <2> QED BY <2>1, <2>2
<1>4. \A r \in Timers : Key(r)' = Key(r) /\ (Alive(r)' <=> Alive(r))
  BY <1>1, <1>3 DEF Key, Alive
<1>5. \A r \in Timers \ {s} : Key(r) # Key(s)
  BY DEF Key, IInv, IdInv
<1>6. PICK k : k = Key(s)
  OBVIOUS
<1>7. /\ DOMAIN alarms' = DOMAIN alarms
      /\ alarms'[k] = t
      /\ \A l \in DOMAIN alarms : l # k => alarms'[l] = alarms[l]
      /\ alarms' \in [DOMAIN alarms -> Tasks]
  BY <1>2, <1>3, <1>6 DEF IInv, TypeOK
<1>8. /\ waker'[s] = t /\ waiting'[s] = t
      /\ \A r \in Timers \ {s} : waker'[r] = waker[r] /\ waiting'[r] = waiting[r]
  BY <1>1, <1>3 DEF IInv, TypeOK
<1>9. TypeOK'
  <2>1. heard' \subseteq Timers \X Tasks
    BY <1>1 DEF Unheard, IInv, TypeOK
  <2>2. /\ waker' \in [Timers -> Tasks \union {None}]
        /\ waiting' \in [Timers -> Tasks \union {None}]
    BY <1>1, <1>3 DEF IInv, TypeOK
  <2> QED BY <1>1, <1>3, <1>7, <2>1, <2>2 DEF IInv, TypeOK
<1>10. IdInv'
  BY <1>1, <1>3 DEF IInv, IdInv
<1>11. WakerInv'
  <2> SUFFICES ASSUME NEW r \in Timers
               PROVE  /\ id[r] # None /\ Key(r) \in DOMAIN alarms =>
                           alarms'[Key(r)] = waker'[r]
                      /\ waiting'[r] # None =>
                           Alive(r) /\ id[r] # None /\ waker'[r] = waiting'[r]
    BY <1>1, <1>3, <1>4, <1>7 DEF IInv, WakerInv
  <2>1. CASE r = s
    BY <1>1, <1>6, <1>7, <1>8, <2>1
  <2>2. CASE r # s
    BY <1>5, <1>6, <1>7, <1>8, <2>2 DEF IInv, WakerInv
  <2> QED BY <2>1, <2>2
<1>12. PollNeverPanics'
  BY <1>1, <1>3, <1>4, <1>7 DEF IInv, PollNeverPanics
<1>13. NoLostTimer'
  <2> SUFFICES ASSUME NEW r \in Timers, waiting'[r] # None, ~failed'
               PROVE  \/ Key(r) \in DOMAIN alarms /\ alarms'[Key(r)] = waiting'[r]
                      \/ <<Key(r), waiting'[r]>> \in wakers
                      \/ <<r, waiting'[r]>> \in heard'
    BY <1>1, <1>4, <1>7 DEF NoLostTimer
  <2>1. CASE r = s
    BY <1>2, <1>6, <1>7, <1>8, <2>1
  <2>2. CASE r # s
    BY <1>1, <1>5, <1>6, <1>7, <1>8, <2>2 DEF IInv, NoLostTimer, Unheard
  <2> QED BY <2>1, <2>2
<1>14. NoOrphanAlarm'
  BY <1>4, <1>7 DEF IInv, NoOrphanAlarm
<1> QED BY <1>9, <1>10, <1>11, <1>12, <1>13, <1>14 DEF IInv

\* A reset moves the alarm, if it is there, with its waker.  The task may go
\* on waiting, or have been answered.
LEMMA ResetIInv ==
  ASSUME IInv, NEW s \in Timers, NEW d \in Instants,
         Alive(s), pc = "run", ResetSleep(s, d),
         UNCHANGED <<now, kind, id, waker, unused, next_alarm, pc, wakers, start,
                     timeout, failed>>,
         waiting' \in [Timers -> Tasks \union {None}],
         \A r \in Timers \ {s} : waiting'[r] = waiting[r],
         waiting'[s] = None \/ (waiting'[s] = waiting[s] /\ heard' = heard),
         heard' \subseteq heard,
         \A h \in heard : h[1] # s => h \in heard'
  PROVE  IInv'
<1>1. /\ wakers = {} /\ alarms \in [DOMAIN alarms -> Tasks]
      /\ DOMAIN alarms \subseteq Keys
  BY DEF IInv, WakerInv, TypeOK
<1>2. \A r \in Timers : Alive(r)' <=> Alive(r)
  BY DEF Alive
<1>3. CASE id[s] # None /\ Key(s) \notin DOMAIN alarms
  <2>1. UNCHANGED <<deadline, alarms>> /\ panicked' = panicked \union {s}
    BY <1>3 DEF ResetSleep
  <2>2. \A r \in Timers : Key(r)' = Key(r)
    BY <2>1 DEF Key
  <2>3. TypeOK' /\ IdInv'
    BY <2>1 DEF IInv, TypeOK, IdInv
  <2>4. WakerInv' /\ PollNeverPanics' /\ NoOrphanAlarm'
    BY <1>2, <2>1, <2>2 DEF IInv, WakerInv, PollNeverPanics, NoOrphanAlarm
  <2>5. NoLostTimer'
    BY <2>1, <2>2 DEF IInv, NoLostTimer
  <2> QED BY <2>3, <2>4, <2>5 DEF IInv
<1>4. CASE id[s] = None
  <2>1. UNCHANGED <<alarms, panicked>> /\ deadline' = [deadline EXCEPT ![s] = d]
    BY <1>4 DEF ResetSleep
  <2>2. \A r \in Timers \ {s} : Key(r)' = Key(r)
    BY <2>1 DEF Key, IInv, TypeOK
  <2>3. TypeOK' /\ IdInv'
    BY <2>1 DEF IInv, TypeOK, IdInv
  <2>4. waiting'[s] = None
    BY <1>4 DEF IInv, WakerInv
  <2>5. WakerInv' /\ PollNeverPanics'
    BY <1>2, <1>4, <2>1, <2>2, <2>4 DEF IInv, WakerInv, PollNeverPanics
  <2>6. NoLostTimer'
    BY <2>1, <2>2, <2>4 DEF IInv, NoLostTimer
  <2>7. NoOrphanAlarm'
    <3> SUFFICES ASSUME NEW l \in DOMAIN alarms
                 PROVE  \E r \in Timers : Alive(r)' /\ l = Key(r)'
      BY <2>1 DEF NoOrphanAlarm
    <3>1. PICK r \in Timers : Alive(r) /\ l = Key(r)
      BY DEF IInv, NoOrphanAlarm
    <3>2. r # s
      BY <1>1, <1>4, <3>1, TimersAssumption DEF Key, Keys
    <3> QED BY <1>2, <2>2, <3>1, <3>2
  <2> QED BY <2>3, <2>5, <2>6, <2>7 DEF IInv
<1>5. CASE id[s] # None /\ Key(s) \in DOMAIN alarms
  <2>1. PICK k : k = Key(s)
    OBVIOUS
  <2>2. PICK n : n = <<d, id[s]>>
    OBVIOUS
  <2>3. /\ deadline' = [deadline EXCEPT ![s] = d]
        /\ panicked' = panicked
        /\ alarms' = InsertKey(RemoveKey(alarms, k), n, alarms[k])
    BY <1>5, <2>1, <2>2 DEF ResetSleep
  <2>4. /\ DOMAIN alarms' = (DOMAIN alarms \ {k}) \union {n}
        /\ alarms'[n] = alarms[k]
        /\ \A l \in DOMAIN alarms \ {k} : l # n => alarms'[l] = alarms[l]
        /\ alarms' \in [DOMAIN alarms' -> Tasks]
    BY <1>1, <1>5, <2>1, <2>3 DEF InsertKey, RemoveKey, Restrict
  <2>5. Key(s)' = n /\ \A r \in Timers \ {s} : Key(r)' = Key(r)
    BY <2>2, <2>3 DEF Key, IInv, TypeOK
  <2>6. \A r \in Timers \ {s} : id[r] # id[s] /\ Key(r) # n /\ Key(r) # k
    BY <1>5, <2>1, <2>2 DEF Key, IInv, IdInv
  <2>7. n \in Keys /\ alarms[k] = waker[s]
    BY <1>5, <2>1, <2>2 DEF Keys, IInv, TypeOK, WakerInv
  <2>8. TypeOK'
    <3>1. DOMAIN alarms' \subseteq Keys
      BY <1>1, <2>4, <2>7
    <3> QED BY <2>3, <2>4, <3>1 DEF IInv, TypeOK
  <2>9. IdInv'
    BY DEF IInv, IdInv
  <2>10. WakerInv'
    <3> SUFFICES ASSUME NEW r \in Timers
                 PROVE  /\ id[r] # None /\ Key(r)' \in DOMAIN alarms' =>
                             alarms'[Key(r)'] = waker[r]
                        /\ waiting'[r] # None =>
                             Alive(r) /\ id[r] # None /\ waker[r] = waiting'[r]
      BY <1>1, <1>2 DEF WakerInv
    <3>1. CASE r = s
      BY <2>4, <2>5, <2>7, <3>1 DEF IInv, WakerInv
    <3>2. CASE r # s
      BY <2>4, <2>5, <2>6, <3>2 DEF IInv, WakerInv
    <3> QED BY <3>1, <3>2
  <2>11. PollNeverPanics'
    <3> SUFFICES ASSUME NEW r \in Timers, Alive(r), id[r] # None,
                        now < deadline'[r]
                 PROVE  Key(r)' \in DOMAIN alarms'
      BY <1>2 DEF PollNeverPanics
    <3>1. CASE r = s
      BY <2>4, <2>5, <3>1
    <3>2. CASE r # s
      <4>1. Key(r) \in DOMAIN alarms
        BY <2>3, <3>2 DEF IInv, PollNeverPanics, TypeOK
      <4> QED BY <2>4, <2>5, <2>6, <3>2, <4>1
    <3> QED BY <3>1, <3>2
  <2>12. NoLostTimer'
    <3> SUFFICES ASSUME NEW r \in Timers, waiting'[r] # None, ~failed
                 PROVE  \/ Key(r)' \in DOMAIN alarms' /\ alarms'[Key(r)'] = waiting'[r]
                        \/ <<r, waiting'[r]>> \in heard'
      BY DEF NoLostTimer
    <3>1. CASE r = s
      <4>1. waiting'[s] = waiting[s] /\ waker[s] = waiting[s]
        BY <3>1 DEF IInv, WakerInv
      <4> QED BY <2>4, <2>5, <2>7, <3>1, <4>1
    <3>2. CASE r # s
      BY <1>1, <2>4, <2>5, <2>6, <3>2 DEF IInv, NoLostTimer
    <3> QED BY <3>1, <3>2
  <2>13. NoOrphanAlarm'
    <3> SUFFICES ASSUME NEW l \in DOMAIN alarms'
                 PROVE  \E r \in Timers : Alive(r)' /\ l = Key(r)'
      BY DEF NoOrphanAlarm
    <3>1. CASE l = n
      BY <1>2, <2>5, <3>1
    <3>2. CASE l # n
      <4>1. PICK r \in Timers : Alive(r) /\ l = Key(r) /\ l # k
        BY <2>4, <3>2 DEF IInv, NoOrphanAlarm
      <4> QED BY <1>2, <2>1, <2>5, <4>1
    <3> QED BY <3>1, <3>2
  <2> QED BY <2>8, <2>9, <2>10, <2>11, <2>12, <2>13 DEF IInv
<1> QED BY <1>3, <1>4, <1>5

\* PollReady and FutureReady touch neither the Sleep nor its alarm.
LEMMA AnsweredIInv ==
  ASSUME IInv, NEW s \in Timers, PollReady(s) \/ FutureReady(s)
  PROVE  IInv'
<1>1. /\ waiting' = [waiting EXCEPT ![s] = None] /\ Unheard(s)
      /\ UNCHANGED <<now, kind, deadline, id, waker, unused, alarms, next_alarm,
                     pc, wakers, start, timeout, failed, panicked>>
  BY DEF PollReady, FutureReady, sleepVars, clockVars, parkVars
<1>2. /\ waiting'[s] = None /\ \A r \in Timers \ {s} : waiting'[r] = waiting[r]
      /\ heard' \subseteq heard /\ \A h \in heard : h[1] # s => h \in heard'
  BY <1>1 DEF Unheard, IInv, TypeOK
<1>3. \A r \in Timers : Key(r)' = Key(r) /\ (Alive(r)' <=> Alive(r))
  BY <1>1 DEF Key, Alive
<1>4. TypeOK' /\ IdInv'
  BY <1>1, <1>2 DEF IInv, TypeOK, IdInv
<1>5. WakerInv' /\ PollNeverPanics' /\ NoOrphanAlarm'
  BY <1>1, <1>2, <1>3 DEF IInv, WakerInv, PollNeverPanics, NoOrphanAlarm
<1>6. NoLostTimer'
  BY <1>1, <1>2, <1>3 DEF IInv, NoLostTimer
<1> QED BY <1>4, <1>5, <1>6 DEF IInv

\* A dropped timer takes its alarm with it, and no other.
LEMMA DropTimerIInv ==
  ASSUME IInv, NEW s \in Timers, DropTimer(s)
  PROVE  IInv'
<1>1. /\ Alive(s) /\ wakers = {} /\ kind' = [kind EXCEPT ![s] = "none"]
      /\ alarms' = IF id[s] # None THEN RemoveKey(alarms, Key(s)) ELSE alarms
      /\ waiting' = [waiting EXCEPT ![s] = None] /\ Unheard(s)
      /\ UNCHANGED <<now, deadline, id, waker, unused, next_alarm, pc, wakers,
                     start, timeout, failed, panicked>>
  BY DEF DropTimer, parkVars, IInv, WakerInv
<1>2. /\ kind'[s] = "none" /\ waiting'[s] = None
      /\ \A r \in Timers \ {s} : kind'[r] = kind[r] /\ waiting'[r] = waiting[r]
      /\ heard' \subseteq heard /\ \A h \in heard : h[1] # s => h \in heard'
  BY <1>1 DEF Unheard, IInv, TypeOK
<1>3. /\ \A r \in Timers : Key(r)' = Key(r)
      /\ \A r \in Timers \ {s} : Alive(r)' <=> Alive(r)
      /\ ~Alive(s)'
  BY <1>1, <1>2 DEF Key, Alive
<1>4. PICK k : k = Key(s)
  OBVIOUS
<1>5. \A r \in Timers \ {s} : Key(r) \in DOMAIN alarms => Key(r) # k
  BY <1>4, TimersAssumption DEF Key, IInv, IdInv, TypeOK, Keys
<1>6. alarms \in [DOMAIN alarms -> Tasks] /\ DOMAIN alarms \subseteq Keys
  BY DEF IInv, TypeOK
<1>7. /\ DOMAIN alarms' = DOMAIN alarms \ {k}
      /\ \A l \in DOMAIN alarms' : alarms'[l] = alarms[l]
      /\ alarms' \in [DOMAIN alarms' -> Tasks]
  <2>1. CASE id[s] # None
    BY <1>1, <1>4, <1>6, <2>1 DEF RemoveKey, Restrict
  <2>2. CASE id[s] = None
    <3>1. k \notin DOMAIN alarms
      BY <1>4, <1>6, <2>2, TimersAssumption DEF Key, Keys
    <3> QED BY <1>1, <1>6, <2>2, <3>1
  <2> QED BY <2>1, <2>2
<1>8. TypeOK'
  <2>1. kind' \in [Timers -> {"none", "sleep", "interval", "timeout"}]
    BY <1>1 DEF IInv, TypeOK
  <2>2. waiting' \in [Timers -> Tasks \union {None}]
    BY <1>1 DEF IInv, TypeOK
  <2> QED BY <1>1, <1>2, <1>6, <1>7, <2>1, <2>2 DEF IInv, TypeOK
<1>9. IdInv'
  BY <1>1, <1>2 DEF IInv, IdInv, TypeOK
<1>10. WakerInv'
  BY <1>1, <1>2, <1>3, <1>7 DEF IInv, WakerInv
<1>11. PollNeverPanics'
  BY <1>1, <1>3, <1>5, <1>7 DEF IInv, PollNeverPanics
<1>12. NoLostTimer'
  BY <1>1, <1>2, <1>3, <1>5, <1>7 DEF IInv, NoLostTimer
<1>13. NoOrphanAlarm'
  <2> SUFFICES ASSUME NEW l \in DOMAIN alarms'
               PROVE  \E r \in Timers : Alive(r)' /\ l = Key(r)'
    BY DEF NoOrphanAlarm
  <2>1. PICK r \in Timers : Alive(r) /\ l = Key(r) /\ l # k
    BY <1>7 DEF IInv, NoOrphanAlarm
  <2> QED BY <1>3, <1>4, <2>1
<1> QED BY <1>8, <1>9, <1>10, <1>11, <1>12, <1>13 DEF IInv

\* Only expired alarms are taken, and their wakers are in hand.
LEMMA ParkIInv ==
  ASSUME IInv, NEW idle \in BOOLEAN, Park(idle)
  PROVE  IInv' /\ ParkedInTime'
<1>1. /\ pc = "run" /\ wakers = {}
      /\ pc' = IF idle THEN "parked" ELSE "polling"
      /\ wakers' = {<<k, alarms[k]>> : k \in Expired}
      /\ alarms' = Restrict(alarms, DOMAIN alarms \ Expired)
      /\ start' = now /\ timeout' = IF idle THEN ParkTimeout ELSE 0
      /\ UNCHANGED <<now, kind, deadline, id, waker, unused, next_alarm, failed,
                     waiting, heard, panicked>>
  BY DEF Park, sleepVars, IInv, WakerInv
<1>2. /\ alarms \in [DOMAIN alarms -> Tasks] /\ DOMAIN alarms \subseteq Keys
      /\ Expired \subseteq DOMAIN alarms
      /\ now \in Nat /\ \A k \in DOMAIN alarms : k[1] \in Nat
  BY TimersAssumption DEF IInv, TypeOK, Expired, Keys
<1>3. /\ DOMAIN alarms' = DOMAIN alarms \ Expired
      /\ \A l \in DOMAIN alarms' : alarms'[l] = alarms[l]
      /\ alarms' \in [DOMAIN alarms' -> Tasks]
  BY <1>1, <1>2 DEF Restrict
<1>4. \A r \in Timers : Key(r)' = Key(r) /\ (Alive(r)' <=> Alive(r))
  BY <1>1 DEF Key, Alive
<1>5. timeout' \in Int /\ ParkedInTime'
  <2>1. WaitEnd' = now + timeout' * MS
    BY <1>1 DEF WaitEnd
  <2>2. \A k : Near(k)' <=> k[1] - now <= (C_INT - 1) * MS
    BY <1>1 DEF Near
  <2>3. CASE idle /\ Expired = {}
    <3>1. timeout' = ParkTimeout
      BY <1>1, <2>3
    <3>2. DOMAIN alarms' = DOMAIN alarms
      BY <1>3, <2>3
    <3> QED BY <2>1, <2>2, <2>3, <3>1, <3>2, ParkTimeoutSound
            DEF ParkedInTime, SomeNear
  <2>4. CASE ~idle \/ Expired # {}
    <3>1. timeout' = 0
      BY <1>1, <2>4 DEF ParkTimeout
    <3>2. \A k \in DOMAIN alarms' : now < k[1] + MS
      BY <1>2, <1>3, TimersAssumption DEF Expired
    <3>3. WaitEnd' = now
      BY <1>2, <2>1, <3>1, TimersAssumption
    <3>4. timeout' >= 0 /\ timeout' \in Int
      BY <3>1
    <3>5. ~(pc' = "parked" /\ wakers' = {})
      BY <1>1, <2>4
    <3>6. ParkedInTime'
      BY <3>2, <3>3, <3>4, <3>5 DEF ParkedInTime
    <3> QED BY <3>4, <3>6
  <2> QED BY <2>3, <2>4
<1>6. TypeOK'
  <2>1. wakers' \subseteq Keys \X Tasks
    BY <1>1, <1>2
  <2> QED BY <1>1, <1>2, <1>3, <1>5, <2>1 DEF IInv, TypeOK
<1>7. IdInv'
  BY <1>1 DEF IInv, IdInv
<1>8. WakerInv'
  BY <1>1, <1>3, <1>4 DEF IInv, WakerInv
<1>9. PollNeverPanics'
  <2> SUFFICES ASSUME NEW r \in Timers, Alive(r), id[r] # None, now < deadline[r]
               PROVE  Key(r) \in DOMAIN alarms'
    BY <1>1, <1>4 DEF PollNeverPanics
  <2>1. Key(r) \in DOMAIN alarms
    BY DEF IInv, PollNeverPanics
  <2>2. Key(r) \notin Expired
    BY <1>2, TimersAssumption DEF Key, Expired, IInv, TypeOK
  <2> QED BY <1>3, <2>1, <2>2
<1>10. NoLostTimer'
  <2> SUFFICES ASSUME NEW r \in Timers, waiting[r] # None, ~failed
               PROVE  \/ Key(r) \in DOMAIN alarms' /\ alarms'[Key(r)] = waiting[r]
                      \/ <<Key(r), waiting[r]>> \in wakers'
                      \/ <<r, waiting[r]>> \in heard
    BY <1>1, <1>4 DEF NoLostTimer
  <2>1. \/ Key(r) \in DOMAIN alarms /\ alarms[Key(r)] = waiting[r]
        \/ <<r, waiting[r]>> \in heard
    BY <1>1 DEF IInv, NoLostTimer
  <2>2. CASE Key(r) \in Expired
    BY <1>1, <2>1, <2>2
  <2>3. CASE Key(r) \notin Expired
    BY <1>3, <2>1, <2>3
  <2> QED BY <2>2, <2>3
<1>11. NoOrphanAlarm'
  BY <1>3, <1>4 DEF IInv, NoOrphanAlarm
<1> QED BY <1>5, <1>6, <1>7, <1>8, <1>9, <1>10, <1>11 DEF IInv

\* Every waker in hand is woken, and its timer has heard.
LEMMA UnparkIInv ==
  ASSUME IInv, Unpark
  PROVE  IInv'
<1>1. /\ pc' = "run" /\ wakers' = {}
      /\ heard' = heard \union
                    {h \in Timers \X Tasks :
                       \E x \in wakers : x[1][2] = id[h[1]] /\ x[2] = h[2]}
      /\ start' = None /\ timeout' = 0
      /\ UNCHANGED <<now, kind, deadline, id, waker, unused, alarms, next_alarm,
                     failed, waiting, panicked>>
  BY DEF Unpark, LeavePark, sleepVars, clockVars
<1>2. \A r \in Timers : Key(r)' = Key(r) /\ (Alive(r)' <=> Alive(r))
  BY <1>1 DEF Key, Alive
<1>3. TypeOK'
  <2>1. heard' \subseteq Timers \X Tasks
    BY <1>1 DEF IInv, TypeOK
  <2> QED BY <1>1, <2>1 DEF IInv, TypeOK
<1>4. IdInv' /\ WakerInv' /\ PollNeverPanics' /\ NoOrphanAlarm'
  BY <1>1, <1>2 DEF IInv, IdInv, WakerInv, PollNeverPanics, NoOrphanAlarm
<1>5. NoLostTimer'
  <2> SUFFICES ASSUME NEW r \in Timers, waiting[r] # None,
                      <<Key(r), waiting[r]>> \in wakers
               PROVE  <<r, waiting[r]>> \in heard'
    BY <1>1, <1>2 DEF IInv, NoLostTimer
  <2>1. PICK x \in wakers : x = <<Key(r), waiting[r]>>
    OBVIOUS
  <2>2. x[1][2] = id[r] /\ x[2] = waiting[r] /\ waiting[r] \in Tasks
    BY <2>1 DEF Key, IInv, TypeOK
  <2>3. PICK h \in Timers \X Tasks : h = <<r, waiting[r]>>
    BY <2>2
  <2> QED BY <1>1, <2>2, <2>3
<1> QED BY <1>3, <1>4, <1>5 DEF IInv

LEMMA ParkFailedIInv ==
  ASSUME IInv, ParkFailed
  PROVE  IInv'
<1>1. /\ pc' = "run" /\ wakers' = {} /\ failed' = TRUE
      /\ start' = None /\ timeout' = 0
      /\ UNCHANGED <<now, kind, deadline, id, waker, unused, alarms, next_alarm,
                     waiting, heard, panicked>>
  BY DEF ParkFailed, LeavePark, sleepVars, clockVars
<1>2. \A r \in Timers : Key(r)' = Key(r) /\ (Alive(r)' <=> Alive(r))
  BY <1>1 DEF Key, Alive
<1>3. TypeOK'
  BY <1>1 DEF IInv, TypeOK
<1>4. IdInv' /\ WakerInv' /\ PollNeverPanics' /\ NoOrphanAlarm' /\ NoLostTimer'
  BY <1>1, <1>2 DEF IInv, IdInv, WakerInv, PollNeverPanics, NoOrphanAlarm,
                    NoLostTimer
<1> QED BY <1>3, <1>4 DEF IInv

LEMMA TimePassesIInv ==
  ASSUME IInv, TimePasses
  PROVE  IInv'
<1>1. /\ now' \in Instants /\ now < now' /\ now \in Instants
      /\ UNCHANGED <<kind, deadline, id, waker, unused, alarms, next_alarm, pc,
                     wakers, start, timeout, failed, waiting, heard, panicked>>
  BY TimersAssumption
     DEF TimePasses, sleepVars, clockVars, parkVars, IInv, TypeOK
<1>2. \A r \in Timers : Key(r)' = Key(r) /\ (Alive(r)' <=> Alive(r))
  BY <1>1 DEF Key, Alive
<1>3. TypeOK'
  BY <1>1 DEF IInv, TypeOK
<1>4. PollNeverPanics'
  <2>1. \A r \in Timers : deadline[r] \in Nat
    BY TimersAssumption DEF IInv, TypeOK
  <2>2. now \in Nat /\ now' \in Nat
    BY <1>1, TimersAssumption
  <2>3. \A r \in Timers : now' < deadline'[r] => now < deadline[r]
    BY <1>1, <2>1, <2>2
  <2> QED BY <1>1, <1>2, <2>3 DEF IInv, PollNeverPanics
<1>5. IdInv' /\ WakerInv' /\ NoOrphanAlarm' /\ NoLostTimer'
  BY <1>1, <1>2 DEF IInv, IdInv, WakerInv, NoOrphanAlarm, NoLostTimer
<1> QED BY <1>3, <1>4, <1>5 DEF IInv

-----------------------------------------------------------------------------
(* Theorems                                                                *)

LEMMA NextIInv == IInv /\ [Next]_vars => IInv'
<1> SUFFICES ASSUME IInv, [Next]_vars PROVE IInv'
  OBVIOUS
<1>1. ASSUME NEW s \in Timers, NEW t \in Tasks, PollPending(s, t) PROVE IInv'
  BY <1>1, InsertIInv, RepollIInv
<1>2. ASSUME NEW s \in Timers, NEW d \in Instants, Reset(s, d) PROVE IInv'
  <2>1. /\ Alive(s) /\ pc = "run" /\ ResetSleep(s, d)
        /\ UNCHANGED <<now, kind, id, waker, unused, next_alarm, pc, wakers, start,
                       timeout, failed>>
        /\ UNCHANGED <<waiting, heard>>
        /\ waiting \in [Timers -> Tasks \union {None}]
    BY <1>2 DEF Reset, Alive, parkVars, IInv, TypeOK
  <2> QED BY <2>1, ResetIInv
<1>3. ASSUME NEW s \in Timers, TickReady(s) PROVE IInv'
  <2>1. PICK d \in Instants : d = now + PERIOD
    BY <1>3 DEF TickReady
  <2>2. /\ Alive(s) /\ pc = "run" /\ ResetSleep(s, d)
        /\ UNCHANGED <<now, kind, id, waker, unused, next_alarm, pc, wakers, start,
                       timeout, failed>>
    BY <1>3, <2>1 DEF TickReady, Alive, parkVars
  <2>3. /\ waiting' \in [Timers -> Tasks \union {None}]
        /\ waiting'[s] = None /\ \A r \in Timers \ {s} : waiting'[r] = waiting[r]
        /\ heard' \subseteq heard /\ \A h \in heard : h[1] # s => h \in heard'
    BY <1>3 DEF TickReady, Unheard, IInv, TypeOK
  <2> QED BY <2>2, <2>3, ResetIInv
<1>4. CASE Next
  BY <1>1, <1>2, <1>3, <1>4, CreateIInv, AnsweredIInv, DropTimerIInv, ParkIInv,
     UnparkIInv, ParkFailedIInv, TimePassesIInv DEF Next, TimeUp, Interrupted,
     SleepUntil, IntervalAt, TimeoutAt
<1>5. CASE UNCHANGED vars
  <2>1. \A r \in Timers : Key(r)' = Key(r) /\ (Alive(r)' <=> Alive(r))
    BY <1>5 DEF vars, Key, Alive
  <2> QED BY <1>5, <2>1 DEF vars, IInv, TypeOK, IdInv, WakerInv, PollNeverPanics,
                            NoLostTimer, NoOrphanAlarm
<1> QED BY <1>4, <1>5

\* IInv holds in every reachable state of the timers.
THEOREM Invariance == Spec => []IInv
  BY InitIInv, NextIInv, PTL DEF Spec

\* Sleep::poll never reaches the unwrap of replace_alarm_waker without an
\* alarm, whatever was reset, moved to another task or expired before.
THEOREM SleepPollsSafely == Spec => []PollNeverPanics
<1>1. IInv => PollNeverPanics
  BY DEF IInv
<1> QED BY <1>1, Invariance, PTL

\* A task suspended on a timer has its waker with the alarm, in the hands of
\* the parker, or has been woken, unless park failed.
THEOREM TimersKept == Spec => []NoLostTimer
<1>1. IInv => NoLostTimer
  BY DEF IInv
<1> QED BY <1>1, Invariance, PTL

\* Neither reset nor drop leaves an alarm behind.
THEOREM AlarmsOwned == Spec => []NoOrphanAlarm
<1>1. IInv => NoOrphanAlarm
  BY DEF IInv
<1> QED BY <1>1, Invariance, PTL

\* A park ends within a millisecond of the first alarm.  It never ends
\* later, unless the alarm is too far away for a c_int and the wait is
\* endless; and an idle thread does not spin, except in the last millisecond
\* before an alarm that is near.
THEOREM ParksInTime == Spec => []ParkedInTime
<1>1. Init => ParkedInTime
  BY DEF Init, ParkedInTime
<1>2. IInv /\ ParkedInTime /\ [Next]_vars => ParkedInTime'
  <2> SUFFICES ASSUME IInv, ParkedInTime, [Next]_vars
               PROVE  ParkedInTime'
    OBVIOUS
  <2>1. ASSUME NEW idle \in BOOLEAN, Park(idle) PROVE ParkedInTime'
    BY <2>1, ParkIInv
  <2>2. CASE TimePasses \/ UNCHANGED vars
    BY <2>2 DEF TimePasses, clockVars, parkVars, vars, ParkedInTime, WaitEnd,
                SomeNear, Near
  <2>3. CASE pc' = "run"
    BY <2>3 DEF ParkedInTime
  <2>4. CASE Next /\ pc' # "run" /\ ~TimePasses
    <3>1. \E idle \in BOOLEAN : Park(idle)
      BY <2>4 DEF Next, SleepUntil, IntervalAt, TimeoutAt, Create, Reset,
                  PollPending, PollReady, TickReady, FutureReady, DropTimer,
                  TimeUp, Interrupted, Unpark, ParkFailed, LeavePark, parkVars
    <3> QED BY <2>1, <3>1
  <2> QED BY <2>2, <2>3, <2>4
<1> QED BY <1>1, <1>2, Invariance, PTL DEF Spec

\* Alarms, timers and the parker keep their types: an alarm always has the
\* waker of a task.
THEOREM TypeCorrect == Spec => []TypeOK
<1>1. IInv => TypeOK
  BY DEF IInv
<1> QED BY <1>1, Invariance, PTL
=============================================================================
