-------------------------- MODULE SemaphoreProofs ---------------------------
(***************************************************************************)
(* Proofs about Semaphore, for every number of futures, tasks and keys and *)
(* every bound of the pool: its list is the line of waiters in the order   *)
(* in which they came, and it implements FifoSemaphore.                    *)
(***************************************************************************)
EXTENDS Semaphore, TLAPS

\* What is proved of the abstract semaphore holds of its image here.
F == INSTANCE FifoSemaphoreProofs WITH avail <- inner.permits, phase <- Phase

\* A future has a key while it waits.
KeyInv ==
  \A f \in Futures : state[f] # "Waiting" => key[f] = None

\* A waiter belongs to its future: it holds the request of the future and
\* the waker of the task that polled it last.
OwnInv ==
  \A f \in Waiting : /\ WaiterOf(f).required = amount[f]
                     /\ WaiterOf(f).waker = poller[f]

\* No link leads out of the list.
LinkInv ==
  \A k \in DOMAIN inner.waiters :
    {inner.waiters[k].next, inner.waiters[k].prev} \subseteq
      DOMAIN inner.waiters \union {None}

\* Every set of waiting futures has one that came last.
YoungestInv ==
  \A S \in SUBSET Waiting :
    S # {} => \E f \in S : \A g \in S : f \notin ahead[g]

IInv ==
  /\ TypeOK
  /\ KeyInv
  /\ OwnInv
  /\ LinkInv
  /\ ListSound
  /\ GrantSignalled
  /\ YoungestInv
  /\ F!OrderInv
  /\ F!SumInv

-----------------------------------------------------------------------------
(* The loop of Inner::wake                                                 *)

\* The list `in' as the loop sees it: the waiters of the futures W in the
\* order `ah', with their requests `am' and the running sums `nd' of those.
Chain(in, W, kf, am, ah, nd) ==
  /\ DOMAIN in.waiters \subseteq Keys
  /\ \A k \in DOMAIN in.waiters : \E f \in W : kf[f] = k
  /\ \A f \in W : kf[f] \in DOMAIN in.waiters
  /\ \A f, g \in W : kf[f] = kf[g] => f = g
  /\ \A f \in W : am[f] \in Nat /\ nd[f] \in Nat
  /\ \A f \in W : in.waiters[kf[f]].required = am[f]
  /\ \A f \in W : in.waiters[kf[f]].prev \in DOMAIN in.waiters \union {None}
  /\ \A f \in W : f \notin ah[f]
  /\ \A f, g, h \in W : f \in ah[g] /\ g \in ah[h] => f \in ah[h]
  /\ \A f, g \in W : f \in ah[g] => nd[f] + am[g] <= nd[g]
  /\ \A f \in W : in.waiters[kf[f]].prev = None => \A g \in W : f \notin ah[g]
  /\ \A f, g \in W : in.waiters[kf[f]].prev = kf[g] =>
       /\ f \in ah[g] /\ nd[g] = nd[f] + am[g]
       /\ \A h \in W : f \in ah[h] => h = g \/ g \in ah[h]
  /\ \A S \in SUBSET W :
       S # {} => \E f \in S : \A g \in S : f \notin ah[g]

\* One step of the loop, with `rec' for the rest of it.
WalkStep(in, rec, k, n) ==
  IF k \notin DOMAIN in.waiters \/ n < in.waiters[k].required THEN {}
  ELSE {k} \union rec[in.waiters[k].prev][n - in.waiters[k].required]

\* What the loop reaches from the waiter of `f' on: that waiter and those
\* behind it whose requests, added up from `f' on, do not exceed `n'.
Covered(W, kf, am, ah, nd, f, n) ==
  {kf[g] : g \in {h \in W : /\ h = f \/ f \in ah[h]
                            /\ nd[h] + am[f] <= n + nd[f]}}

\* The covered waiters satisfy the equation of the loop.
LEMMA CoveredStep ==
  ASSUME NEW in, NEW W, NEW kf, NEW am, NEW ah, NEW nd,
         Chain(in, W, kf, am, ah, nd),
         NEW rec, NEW f \in W, NEW n \in 0 .. MaxPermits,
         \A g \in W : \A m \in 0 .. MaxPermits :
           in.waiters[kf[f]].prev = kf[g] =>
             rec[kf[g]][m] = Covered(W, kf, am, ah, nd, g, m),
         \A m \in 0 .. MaxPermits : rec[None][m] = {}
  PROVE  WalkStep(in, rec, kf[f], n) = Covered(W, kf, am, ah, nd, f, n)
<1>1. /\ n \in Nat /\ MaxPermits \in Nat /\ n <= MaxPermits
      /\ kf[f] \in DOMAIN in.waiters
      /\ in.waiters[kf[f]].required = am[f]
      /\ \A g \in W : am[g] \in Nat /\ nd[g] \in Nat
      /\ \A g \in W : f \in ah[g] => nd[f] + am[g] <= nd[g]
  BY SemaphoreAssumption DEF Chain
<1>2. CASE n < am[f]
  <2>1. \A h \in W : h = f \/ f \in ah[h] => ~(nd[h] + am[f] <= n + nd[f])
    BY <1>1, <1>2
  <2> QED BY <1>1, <1>2, <2>1 DEF WalkStep, Covered
<1>3. CASE ~(n < am[f])
  <2>1. n - am[f] \in 0 .. MaxPermits
    BY <1>1, <1>3
  <2>2. WalkStep(in, rec, kf[f], n)
          = {kf[f]} \union rec[in.waiters[kf[f]].prev][n - am[f]]
    BY <1>1, <1>3 DEF WalkStep
  <2>3. nd[f] + am[f] <= n + nd[f]
    BY <1>1, <1>3
  <2>4. CASE in.waiters[kf[f]].prev = None
    <3>1. \A h \in W : f \notin ah[h]
      BY <2>4 DEF Chain
    <3>2. Covered(W, kf, am, ah, nd, f, n) = {kf[f]}
      BY <2>3, <3>1 DEF Covered
    <3> QED BY <2>1, <2>2, <2>4, <3>2
  <2>5. CASE in.waiters[kf[f]].prev # None
    <3>1. PICK g \in W : in.waiters[kf[f]].prev = kf[g]
      BY <2>5 DEF Chain
    <3>2. /\ f \in ah[g] /\ nd[g] = nd[f] + am[g]
          /\ \A h \in W : f \in ah[h] => h = g \/ g \in ah[h]
          /\ \A h \in W : g \in ah[h] => f \in ah[h]
      BY <3>1 DEF Chain
    <3>3. \A h \in W : nd[h] + am[g] <= (n - am[f]) + nd[g]
                         <=> nd[h] + am[f] <= n + nd[f]
      BY <1>1, <1>3, <3>2
    <3>4. Covered(W, kf, am, ah, nd, f, n)
            = {kf[f]} \union Covered(W, kf, am, ah, nd, g, n - am[f])
      BY <2>3, <3>2, <3>3 DEF Covered
    <3> QED BY <2>1, <2>2, <3>1, <3>4
  <2> QED BY <2>4, <2>5
<1> QED BY <1>2, <1>3

\* The loop has the equation that defines it as soon as some function has.
LEMMA WalkEquation ==
  ASSUME NEW in, NEW rec,
         rec = [k \in Keys \union {None} |->
                  [n \in 0 .. MaxPermits |-> WalkStep(in, rec, k, n)]]
  PROVE  \A k \in Keys \union {None} : \A n \in 0 .. MaxPermits :
           Walk(in)[k][n] = WalkStep(in, Walk(in), k, n)
<1>1. Walk(in) = [k \in Keys \union {None} |->
                    [n \in 0 .. MaxPermits |-> WalkStep(in, Walk(in), k, n)]]
  BY DEF Walk, WalkStep
<1>2. ASSUME NEW k \in Keys \union {None}, NEW n \in 0 .. MaxPermits
      PROVE  Walk(in)[k][n] = WalkStep(in, Walk(in), k, n)
  <2>1. PICK w : w = Walk(in)
    OBVIOUS
  <2>2. PICK v : v = [j \in Keys \union {None} |->
                        [m \in 0 .. MaxPermits |-> WalkStep(in, w, j, m)]]
    OBVIOUS
  <2>3. v[k][n] = WalkStep(in, w, k, n)
    BY <2>2
  <2>4. w = v
    BY <1>1, <2>1, <2>2
  <2> QED BY <2>1, <2>3, <2>4
<1> QED BY <1>2

\* The loop reaches what is covered.
LEMMA WalkCovers ==
  ASSUME NEW in, NEW W, NEW kf, NEW am, NEW ah, NEW nd,
         Chain(in, W, kf, am, ah, nd)
  PROVE  \A f \in W : \A n \in 0 .. MaxPermits :
           Walk(in)[kf[f]][n] = Covered(W, kf, am, ah, nd, f, n)
<1> DEFINE C(f, n) == Covered(W, kf, am, ah, nd, f, n)
           D == Keys \union {None}
           N == 0 .. MaxPermits
<1>1. /\ \A f \in W : kf[f] \in DOMAIN in.waiters /\ kf[f] \in D
      /\ DOMAIN in.waiters \subseteq Keys /\ None \notin DOMAIN in.waiters
      /\ \A k \in DOMAIN in.waiters : \E f \in W : kf[f] = k
      /\ \A f, g \in W : kf[f] = kf[g] => f = g
  BY SemaphoreAssumption DEF Chain
<1>2. PICK rec : rec = [k \in D |-> [n \in N |->
                          UNION {C(f, n) : f \in {g \in W : kf[g] = k}}]]
  OBVIOUS
<1>3. \A f \in W : \A n \in N : rec[kf[f]][n] = C(f, n)
  <2> SUFFICES ASSUME NEW f \in W, NEW n \in N PROVE rec[kf[f]][n] = C(f, n)
    OBVIOUS
  <2>1. {g \in W : kf[g] = kf[f]} = {f}
    BY <1>1
  <2>2. rec[kf[f]][n] = UNION {C(g, n) : g \in {h \in W : kf[h] = kf[f]}}
    BY <1>1, <1>2
  <2> HIDE DEF C
  <2> QED BY <2>1, <2>2
<1>4. \A k \in D \ DOMAIN in.waiters : \A n \in N : rec[k][n] = {}
  <2> SUFFICES ASSUME NEW k \in D \ DOMAIN in.waiters, NEW n \in N
               PROVE  rec[k][n] = {}
    OBVIOUS
  <2>1. {g \in W : kf[g] = k} = {}
    BY <1>1
  <2>2. rec[k][n] = UNION {C(g, n) : g \in {h \in W : kf[h] = k}}
    BY <1>2
  <2> HIDE DEF C
  <2> QED BY <2>1, <2>2
<1>5. \A k \in D : \A n \in N : rec[k][n] = WalkStep(in, rec, k, n)
  <2> SUFFICES ASSUME NEW k \in D, NEW n \in N
               PROVE  rec[k][n] = WalkStep(in, rec, k, n)
    OBVIOUS
  <2>1. CASE k \notin DOMAIN in.waiters
    BY <1>4, <2>1 DEF WalkStep
  <2>2. CASE k \in DOMAIN in.waiters
    <3>1. PICK f \in W : kf[f] = k
      BY <1>1, <2>2
    <3>2. WalkStep(in, rec, kf[f], n) = C(f, n)
      BY <1>1, <1>3, <1>4, CoveredStep
    <3> QED BY <1>3, <3>1, <3>2
  <2> QED BY <2>1, <2>2
<1>6. rec = [k \in D |-> [n \in N |-> WalkStep(in, rec, k, n)]]
  <2>1. \A k \in D : rec[k] = [n \in N |-> rec[k][n]]
    BY <1>2
  <2>2. rec = [k \in D |-> rec[k]]
    BY <1>2
  <2> HIDE DEF C
  <2>3. \A k \in D : rec[k] = [n \in N |-> WalkStep(in, rec, k, n)]
    BY <1>5, <2>1
  <2> QED BY <2>2, <2>3
<1>7. \A k \in D : \A n \in N : Walk(in)[k][n] = WalkStep(in, Walk(in), k, n)
  BY <1>6, WalkEquation
<1>8. \A n \in N : Walk(in)[None][n] = {}
  BY <1>1, <1>7 DEF WalkStep
<1> DEFINE Bad == {f \in W : \E n \in N : Walk(in)[kf[f]][n] # C(f, n)}
<1>9. Bad = {}
  <2> SUFFICES ASSUME Bad # {} PROVE FALSE
    OBVIOUS
  <2>1. PICK f \in Bad : \A g \in Bad : f \notin ah[g]
    <3>1. Bad \in SUBSET W
      OBVIOUS
    <3> HIDE DEF Bad
    <3> QED BY <3>1 DEF Chain
  <2>2. PICK n \in N : Walk(in)[kf[f]][n] # C(f, n)
    BY <2>1
  <2>3. ASSUME NEW g \in W, NEW m \in N, in.waiters[kf[f]].prev = kf[g]
        PROVE  Walk(in)[kf[g]][m] = C(g, m)
    <3>1. f \in ah[g]
      BY <2>3 DEF Chain
    <3>2. g \notin Bad
      BY <2>1, <3>1
    <3> QED BY <3>2
  <2>4. WalkStep(in, Walk(in), kf[f], n) = C(f, n)
    BY <1>8, <2>3, CoveredStep
  <2>5. Walk(in)[kf[f]][n] = WalkStep(in, Walk(in), kf[f], n)
    BY <1>1, <1>7
  <2> QED BY <2>2, <2>4, <2>5
<1> QED BY <1>9

-----------------------------------------------------------------------------
(* The line and its image in the abstract semaphore                        *)

LEMMA LineFacts ==
  state \in [Futures -> {"Idle", "Waiting", "Done"}] =>
    /\ F!Line = Waiting
    /\ \A i \in Futures : F!InLine(i) <=> i \in Waiting
    /\ Phase \in [Futures -> F!Phases]
<1> SUFFICES ASSUME state \in [Futures -> {"Idle", "Waiting", "Done"}]
             PROVE  /\ F!Line = Waiting
                    /\ \A i \in Futures : F!InLine(i) <=> i \in Waiting
                    /\ Phase \in [Futures -> F!Phases]
  OBVIOUS
<1>1. ASSUME NEW f \in Futures
      PROVE  /\ Phase[f] \in {"idle", "waiting", "granted", "holding"}
             /\ Phase[f] \in {"waiting", "granted"} <=> state[f] = "Waiting"
  <2>1. state[f] \in {"Idle", "Waiting", "Done"}
    OBVIOUS
  <2> QED BY <2>1 DEF Phase
<1>2. \A i \in Futures : F!InLine(i) <=> i \in Waiting
  BY <1>1 DEF F!InLine, Waiting
<1>3. F!Line = Waiting
  BY <1>2 DEF F!Line, Waiting
<1>4. Phase \in [Futures -> F!Phases]
  BY <1>1 DEF Phase, F!Phases
<1> QED BY <1>2, <1>3, <1>4

LEMMA LineFactsNext ==
  state' \in [Futures -> {"Idle", "Waiting", "Done"}] =>
    /\ F!Line' = Waiting'
    /\ \A i \in Futures : F!InLine(i)' <=> i \in Waiting'
<1>1. (state \in [Futures -> {"Idle", "Waiting", "Done"}] =>
         /\ F!Line = Waiting
         /\ \A i \in Futures : F!InLine(i) <=> i \in Waiting
         /\ Phase \in [Futures -> F!Phases])'
  BY LineFacts, PTL
<1> QED BY <1>1

LEMMA ImageFacts ==
  TypeOK => /\ F!Line = Waiting
            /\ \A i \in Futures : F!InLine(i) <=> i \in Waiting
            /\ F!TypeOK
  BY LineFacts DEF F!TypeOK, TypeOK

LEMMA OrderFacts ==
  TypeOK /\ F!OrderInv =>
    /\ \A f \in Waiting : f \in Futures /\ f \notin ahead[f]
    /\ \A f \in Futures : ahead[f] \subseteq Waiting
    /\ \A f \in Futures \ Waiting : ahead[f] = {}
    /\ \A f, g, h \in Waiting : f \in ahead[g] /\ g \in ahead[h] => f \in ahead[h]
    /\ \A f, g \in Waiting : f = g \/ f \in ahead[g] \/ g \in ahead[f]
<1> SUFFICES ASSUME TypeOK, F!OrderInv
             PROVE  /\ \A f \in Waiting : f \in Futures /\ f \notin ahead[f]
                    /\ \A f \in Futures : ahead[f] \subseteq Waiting
                    /\ \A f \in Futures \ Waiting : ahead[f] = {}
                    /\ \A f, g, h \in Waiting :
                         f \in ahead[g] /\ g \in ahead[h] => f \in ahead[h]
                    /\ \A f, g \in Waiting :
                         f = g \/ f \in ahead[g] \/ g \in ahead[f]
  OBVIOUS
<1>1. /\ F!Line = Waiting
      /\ \A i \in Futures : F!InLine(i) <=> i \in Waiting
      /\ Waiting \subseteq Futures
  BY ImageFacts DEF Waiting
<1>2. /\ \A f \in Futures : ahead[f] \subseteq Waiting
      /\ \A f \in Futures : f \notin Waiting => ahead[f] = {}
      /\ \A f \in Futures : f \notin ahead[f]
      /\ \A f, g \in Futures : g \in ahead[f] => ahead[g] \subseteq ahead[f]
      /\ \A f, g \in Waiting : f = g \/ f \in ahead[g] \/ g \in ahead[f]
  BY <1>1 DEF F!OrderInv
<1> QED BY <1>1, <1>2

\* The one right ahead of a future is unique and carries the running sum.
LEMMA SumFacts ==
  TypeOK /\ F!OrderInv /\ F!SumInv =>
    /\ \A f \in Waiting : amount[f] \in Nat /\ need[f] \in Nat
    /\ \A f \in Waiting : \A g \in ahead[f] : need[g] + amount[f] <= need[f]
    /\ \A f \in Waiting : ahead[f] = {} => need[f] = amount[f]
    /\ \A f \in Waiting : ahead[f] # {} => \E g \in Waiting : RightAhead(g, f)
    /\ \A f, g \in Waiting : RightAhead(g, f) => need[f] = need[g] + amount[f]
    /\ Waiting # {} => \E g \in Waiting : Waiting = ahead[g] \union {g}
<1> SUFFICES ASSUME TypeOK, F!OrderInv, F!SumInv
             PROVE  /\ \A f \in Waiting : amount[f] \in Nat /\ need[f] \in Nat
                    /\ \A f \in Waiting : \A g \in ahead[f] :
                         need[g] + amount[f] <= need[f]
                    /\ \A f \in Waiting : ahead[f] = {} => need[f] = amount[f]
                    /\ \A f \in Waiting : ahead[f] # {} =>
                         \E g \in Waiting : RightAhead(g, f)
                    /\ \A f, g \in Waiting :
                         RightAhead(g, f) => need[f] = need[g] + amount[f]
                    /\ Waiting # {} =>
                         \E g \in Waiting : Waiting = ahead[g] \union {g}
  OBVIOUS
<1>1. F!Line = Waiting /\ Waiting \subseteq Futures
  BY ImageFacts DEF Waiting
<1>2. /\ \A f \in Futures : \A g \in ahead[f] : need[g] + amount[f] <= need[f]
      /\ \A f \in Waiting : ahead[f] = {} => need[f] = amount[f]
      /\ \A f \in Waiting : ahead[f] # {} =>
           \E g \in ahead[f] : /\ ahead[f] = ahead[g] \union {g}
                               /\ need[f] = need[g] + amount[f]
      /\ Waiting # {} => \E g \in Waiting : Waiting = ahead[g] \union {g}
  BY <1>1 DEF F!SumInv
<1>3. /\ \A f \in Waiting : ahead[f] \subseteq Waiting /\ f \notin ahead[f]
      /\ \A f, g, h \in Waiting : f \in ahead[g] /\ g \in ahead[h] => f \in ahead[h]
  BY OrderFacts
<1>4. \A f \in Waiting : amount[f] \in Nat /\ need[f] \in Nat
  BY <1>1, SemaphoreAssumption DEF TypeOK
<1>5. ASSUME NEW f \in Waiting, ahead[f] # {}
      PROVE  \E g \in Waiting : /\ RightAhead(g, f)
                                /\ need[f] = need[g] + amount[f]
                                /\ \A h \in Waiting : RightAhead(h, f) => h = g
  <2>1. PICK g \in ahead[f] : /\ ahead[f] = ahead[g] \union {g}
                              /\ need[f] = need[g] + amount[f]
    BY <1>2, <1>5
  <2>2. g \in Waiting /\ RightAhead(g, f)
    BY <1>3, <2>1 DEF RightAhead
  <2>3. ASSUME NEW h \in Waiting, RightAhead(h, f), h # g PROVE FALSE
    <3>1. h \in ahead[g] /\ g \in ahead[h]
      BY <2>1, <2>3 DEF RightAhead
    <3> QED BY <1>3, <2>2, <3>1
  <2> QED BY <2>1, <2>2, <2>3
<1>6. ASSUME NEW f \in Waiting, NEW g \in Waiting, RightAhead(g, f)
      PROVE  need[f] = need[g] + amount[f]
  <2>1. ahead[f] # {}
    BY <1>6 DEF RightAhead
  <2> QED BY <1>5, <1>6, <2>1
<1> QED BY <1>1, <1>2, <1>4, <1>5, <1>6

-----------------------------------------------------------------------------
\* `in' has the links, the requests and the pool of `inner'.
SameLinks(in) ==
  /\ DOMAIN in.waiters = DOMAIN inner.waiters
  /\ in.tail = inner.tail /\ in.permits = inner.permits
  /\ \A k \in DOMAIN inner.waiters :
       /\ in.waiters[k].prev = inner.waiters[k].prev
       /\ in.waiters[k].required = inner.waiters[k].required

LEMMA ListIsChain ==
  ASSUME IInv, NEW in, SameLinks(in)
  PROVE  Chain(in, Waiting, key, amount, ahead, need)
<1>1. /\ \A f \in Waiting : f \in Futures /\ f \notin ahead[f]
      /\ \A f \in Waiting : ahead[f] \subseteq Waiting
      /\ \A f, g, h \in Waiting : f \in ahead[g] /\ g \in ahead[h] => f \in ahead[h]
      /\ \A f, g \in Waiting : f = g \/ f \in ahead[g] \/ g \in ahead[f]
  BY OrderFacts DEF IInv
<1>2. /\ \A f \in Waiting : amount[f] \in Nat /\ need[f] \in Nat
      /\ \A f \in Waiting : \A g \in ahead[f] : need[g] + amount[f] <= need[f]
      /\ \A f, g \in Waiting : RightAhead(g, f) => need[f] = need[g] + amount[f]
  BY SumFacts DEF IInv
<1>3. /\ DOMAIN inner.waiters \subseteq Keys
      /\ \A k \in DOMAIN inner.waiters : \E f \in Waiting : key[f] = k
      /\ \A f \in Waiting : key[f] \in DOMAIN inner.waiters
      /\ \A f, g \in Waiting : key[f] = key[g] => f = g
  BY DEF IInv, TypeOK, ListSound
<1>4. /\ \A f \in Waiting : inner.waiters[key[f]].required = amount[f]
      /\ \A f \in Waiting :
           inner.waiters[key[f]].prev \in DOMAIN inner.waiters \union {None}
  BY <1>3 DEF IInv, OwnInv, LinkInv, WaiterOf
<1>5. ASSUME NEW f \in Waiting, inner.waiters[key[f]].prev = None, NEW g \in Waiting
      PROVE  f \notin ahead[g]
  <2>1. Waiting = ahead[f] \union {f}
    BY <1>5 DEF IInv, ListSound, WaiterOf
  <2> QED BY <1>1, <2>1
<1>6. ASSUME NEW f \in Waiting, NEW g \in Waiting,
             inner.waiters[key[f]].prev = key[g]
      PROVE  /\ f \in ahead[g] /\ need[g] = need[f] + amount[g]
             /\ \A h \in Waiting : f \in ahead[h] => h = g \/ g \in ahead[h]
  <2>1. RightAhead(f, g)
    BY <1>6 DEF IInv, ListSound, WaiterOf
  <2> QED BY <1>1, <1>2, <2>1 DEF RightAhead
<1>7. \A S \in SUBSET Waiting :
        S # {} => \E f \in S : \A g \in S : f \notin ahead[g]
  BY DEF IInv, YoungestInv
<1>8. /\ DOMAIN in.waiters = DOMAIN inner.waiters
      /\ \A f \in Waiting :
           /\ in.waiters[key[f]].prev = inner.waiters[key[f]].prev
           /\ in.waiters[key[f]].required = inner.waiters[key[f]].required
  BY <1>3 DEF SameLinks
<1> QED BY <1>1, <1>2, <1>3, <1>4, <1>5, <1>6, <1>7, <1>8 DEF Chain

\* Inner::wake reaches exactly those whose turn has come: the pool covers
\* them and everyone ahead.
LEMMA LoopReaches ==
  IInv => \A in : SameLinks(in) =>
            \A f \in Waiting : key[f] \in Reached(in) <=> need[f] <= inner.permits
<1> SUFFICES ASSUME IInv, NEW in, SameLinks(in), NEW f \in Waiting
             PROVE  key[f] \in Reached(in) <=> need[f] <= inner.permits
  OBVIOUS
<1>1. Chain(in, Waiting, key, amount, ahead, need)
  BY ListIsChain
<1>2. PICK t \in Waiting : ahead[t] = {} /\ inner.tail = key[t]
  <2>1. inner.tail # None
    BY DEF IInv, ListSound
  <2>2. inner.tail \in DOMAIN inner.waiters
    BY <2>1 DEF IInv, TypeOK
  <2> QED BY <2>2 DEF IInv, ListSound
<1>3. /\ need[t] = amount[t] /\ amount[t] \in Nat /\ need[f] \in Nat
      /\ inner.permits \in 0 .. MaxPermits
  BY <1>2, SumFacts DEF IInv, TypeOK
<1>4. f = t \/ t \in ahead[f]
  BY <1>2, OrderFacts DEF IInv
<1>5. \A g, h \in Waiting : key[g] = key[h] => g = h
  BY DEF IInv, ListSound
<1>6. Reached(in) = Walk(in)[key[t]][inner.permits]
  BY <1>2 DEF Reached, SameLinks
<1>7. Walk(in)[key[t]][inner.permits]
        = Covered(Waiting, key, amount, ahead, need, t, inner.permits)
  BY <1>1, <1>3, WalkCovers
<1>8. key[f] \in Covered(Waiting, key, amount, ahead, need, t, inner.permits)
        <=> need[f] + amount[t] <= inner.permits + need[t]
  BY <1>4, <1>5 DEF Covered
<1>9. inner.permits \in Nat
  BY <1>3, SemaphoreAssumption
<1> QED BY <1>3, <1>6, <1>7, <1>8, <1>9

-----------------------------------------------------------------------------
(* The methods of Inner                                                    *)

\* The part of TypeOK that is about Inner.
InnerOK(in) ==
  /\ DOMAIN in = {"permits", "waiters", "head", "tail"}
  /\ in.permits \in 0 .. MaxPermits
  /\ DOMAIN in.waiters \subseteq Keys
  /\ \A k \in DOMAIN in.waiters : in.waiters[k] \in Waiter
  /\ {in.head, in.tail} \subseteq DOMAIN in.waiters \union {None}

\* Inner::wake grants and leaves everything else alone.
LEMMA WakeFacts ==
  ASSUME NEW in, InnerOK(in), NEW out, out = WakeWaiters(in)
  PROVE  /\ InnerOK(out)
         /\ out.permits = in.permits /\ out.head = in.head /\ out.tail = in.tail
         /\ DOMAIN out.waiters = DOMAIN in.waiters
         /\ \A k \in DOMAIN in.waiters :
              /\ out.waiters[k].next = in.waiters[k].next
              /\ out.waiters[k].prev = in.waiters[k].prev
              /\ out.waiters[k].required = in.waiters[k].required
              /\ out.waiters[k].waker = in.waiters[k].waker
              /\ out.waiters[k].woke <=> in.waiters[k].woke \/ k \in Reached(in)
<1> DEFINE W == [k \in DOMAIN in.waiters |->
                   [in.waiters[k] EXCEPT !.woke = @ \/ k \in Reached(in)]]
<1>1. out = [in EXCEPT !.waiters = W]
  BY DEF WakeWaiters
<1>2. /\ DOMAIN out = DOMAIN in /\ out.waiters = W
      /\ out.permits = in.permits /\ out.head = in.head /\ out.tail = in.tail
  <2> HIDE DEF W
  <2> QED BY <1>1 DEF InnerOK
<1>3. ASSUME NEW k \in DOMAIN in.waiters
      PROVE  /\ W[k] \in Waiter
             /\ W[k].next = in.waiters[k].next
             /\ W[k].prev = in.waiters[k].prev
             /\ W[k].required = in.waiters[k].required
             /\ W[k].waker = in.waiters[k].waker
             /\ W[k].woke <=> in.waiters[k].woke \/ k \in Reached(in)
  <2>1. in.waiters[k] \in Waiter
    BY DEF InnerOK
  <2>2. W[k] = [in.waiters[k] EXCEPT
                  !.woke = in.waiters[k].woke \/ k \in Reached(in)]
    OBVIOUS
  <2>3. PICK b \in BOOLEAN : b = (in.waiters[k].woke \/ k \in Reached(in))
    OBVIOUS
  <2>4. W[k] = [in.waiters[k] EXCEPT !.woke = b]
    BY <2>2, <2>3
  <2>5. /\ W[k] \in Waiter
        /\ W[k].next = in.waiters[k].next
        /\ W[k].prev = in.waiters[k].prev
        /\ W[k].required = in.waiters[k].required
        /\ W[k].waker = in.waiters[k].waker
        /\ W[k].woke = b
    <3> HIDE DEF W
    <3> QED BY <2>1, <2>4 DEF Waiter
  <2> QED BY <2>3, <2>5
<1>4. DOMAIN W = DOMAIN in.waiters
  OBVIOUS
<1> HIDE DEF W
<1> QED BY <1>2, <1>3, <1>4 DEF InnerOK

\* Inner::remove links the neighbours of a waiter to each other.
LEMMA RemoveFacts ==
  ASSUME NEW in, InnerOK(in), NEW k \in DOMAIN in.waiters,
         NEW out, out = Remove(in, k),
         {in.waiters[k].next, in.waiters[k].prev} \subseteq
           (DOMAIN in.waiters \ {k}) \union {None},
         in.head = k => in.waiters[k].prev = None,
         in.tail = k => in.waiters[k].next = None
  PROVE  /\ InnerOK(out)
         /\ out.permits = in.permits
         /\ out.head = IF in.waiters[k].prev = None
                         THEN in.waiters[k].next ELSE in.head
         /\ out.tail = IF in.waiters[k].next = None
                         THEN in.waiters[k].prev ELSE in.tail
         /\ DOMAIN out.waiters = DOMAIN in.waiters \ {k}
         /\ \A j \in DOMAIN in.waiters \ {k} :
              /\ out.waiters[j].next = IF j = in.waiters[k].prev
                                         THEN in.waiters[k].next
                                         ELSE in.waiters[j].next
              /\ out.waiters[j].prev = IF j = in.waiters[k].next
                                         THEN in.waiters[k].prev
                                         ELSE in.waiters[j].prev
              /\ out.waiters[j].required = in.waiters[j].required
              /\ out.waiters[j].waker = in.waiters[j].waker
              /\ out.waiters[j].woke = in.waiters[j].woke
<1> DEFINE w == in.waiters[k]
           W == [j \in DOMAIN in.waiters \ {k} |->
                   [in.waiters[j] EXCEPT
                     !.next = IF j = w.prev THEN w.next ELSE @,
                     !.prev = IF j = w.next THEN w.prev ELSE @]]
           hd == IF w.prev = None THEN w.next ELSE in.head
           tl == IF w.next = None THEN w.prev ELSE in.tail
<1>1. out = [in EXCEPT !.waiters = W, !.head = hd, !.tail = tl]
  BY DEF Remove
<1>2. /\ DOMAIN out = DOMAIN in /\ out.waiters = W
      /\ out.permits = in.permits /\ out.head = hd /\ out.tail = tl
  <2> HIDE DEF W, hd, tl
  <2> QED BY <1>1 DEF InnerOK
<1>3. ASSUME NEW j \in DOMAIN in.waiters \ {k}
      PROVE  /\ W[j] \in Waiter
             /\ W[j].next = IF j = w.prev THEN w.next ELSE in.waiters[j].next
             /\ W[j].prev = IF j = w.next THEN w.prev ELSE in.waiters[j].prev
             /\ W[j].required = in.waiters[j].required
             /\ W[j].waker = in.waiters[j].waker
             /\ W[j].woke = in.waiters[j].woke
  <2>1. in.waiters[j] \in Waiter /\ w \in Waiter
    BY DEF InnerOK
  <2> QED BY <2>1 DEF Waiter
<1>4. DOMAIN W = DOMAIN in.waiters \ {k}
  OBVIOUS
<1>5. {hd, tl} \subseteq (DOMAIN in.waiters \ {k}) \union {None}
  BY DEF InnerOK
<1> HIDE DEF W
<1> QED BY <1>2, <1>3, <1>4, <1>5 DEF InnerOK

\* Inner::add links a new waiter in at the head.
LEMMA AddFacts ==
  ASSUME NEW in, InnerOK(in), NEW k \in Keys \ DOMAIN in.waiters,
         NEW task \in Tasks, NEW n \in 0 .. MaxPermits,
         NEW out, out = AddWaiter(in, k, task, n)
  PROVE  /\ InnerOK(out)
         /\ out.permits = in.permits
         /\ out.head = k
         /\ out.tail = IF in.tail = None THEN k ELSE in.tail
         /\ DOMAIN out.waiters = DOMAIN in.waiters \union {k}
         /\ out.waiters[k].next = in.head /\ out.waiters[k].prev = None
         /\ out.waiters[k].required = n /\ out.waiters[k].waker = task
         /\ ~out.waiters[k].woke
         /\ \A j \in DOMAIN in.waiters :
              /\ out.waiters[j].next = in.waiters[j].next
              /\ out.waiters[j].prev = IF j = in.head THEN k
                                       ELSE in.waiters[j].prev
              /\ out.waiters[j].required = in.waiters[j].required
              /\ out.waiters[j].waker = in.waiters[j].waker
              /\ out.waiters[j].woke = in.waiters[j].woke
<1> DEFINE new == [waker |-> task, next |-> in.head, prev |-> None,
                   required |-> n, woke |-> FALSE]
           W == [j \in DOMAIN in.waiters \union {k} |->
                   IF j = k THEN new
                   ELSE IF j = in.head THEN [in.waiters[j] EXCEPT !.prev = k]
                   ELSE in.waiters[j]]
           tl == IF in.tail = None THEN k ELSE in.tail
<1>1. out = [in EXCEPT !.waiters = W, !.head = k, !.tail = tl]
  BY DEF AddWaiter
<1>2. /\ DOMAIN out = DOMAIN in /\ out.waiters = W
      /\ out.permits = in.permits /\ out.head = k /\ out.tail = tl
  <2> HIDE DEF W, tl
  <2> QED BY <1>1 DEF InnerOK
<1>3. W[k] = new /\ new \in Waiter /\ DOMAIN W = DOMAIN in.waiters \union {k}
  BY DEF InnerOK, Waiter
<1>4. ASSUME NEW j \in DOMAIN in.waiters
      PROVE  /\ W[j] \in Waiter
             /\ W[j].next = in.waiters[j].next
             /\ W[j].prev = IF j = in.head THEN k ELSE in.waiters[j].prev
             /\ W[j].required = in.waiters[j].required
             /\ W[j].waker = in.waiters[j].waker
             /\ W[j].woke = in.waiters[j].woke
  <2>1. in.waiters[j] \in Waiter /\ j # k
    BY DEF InnerOK
  <2>2. W[j] = IF j = in.head THEN [in.waiters[j] EXCEPT !.prev = k]
                              ELSE in.waiters[j]
    BY <2>1
  <2> HIDE DEF W
  <2>3. CASE j = in.head
    BY <2>1, <2>2, <2>3 DEF Waiter
  <2>4. CASE j # in.head
    BY <2>1, <2>2, <2>4
  <2> QED BY <2>3, <2>4
<1>5. {k, tl} \subseteq DOMAIN in.waiters \union {k} \union {None}
  BY DEF InnerOK
<1>6. /\ new.next = in.head /\ new.prev = None /\ new.required = n
      /\ new.waker = task /\ ~new.woke
  OBVIOUS
<1> HIDE DEF W, new
<1>7. InnerOK(out)
  <2>1. \A j \in DOMAIN out.waiters : out.waiters[j] \in Waiter
    BY <1>2, <1>3, <1>4
  <2>2. DOMAIN out.waiters \subseteq Keys
    BY <1>2, <1>3 DEF InnerOK
  <2> QED BY <1>2, <1>3, <1>5, <2>1, <2>2 DEF InnerOK
<1> QED BY <1>2, <1>3, <1>4, <1>6, <1>7

-----------------------------------------------------------------------------
(* A future leaves the line                                                *)

\* Who is right ahead of whom, who is first and who is last, once `f' is gone.
LEMMA SkipOne ==
  ASSUME TypeOK, F!OrderInv, NEW f \in Waiting,
         \A g \in Waiting \ {f} : ahead'[g] = ahead[g] \ {f},
         NEW g \in Waiting \ {f}
  PROVE  /\ \A h \in Waiting \ {f} :
              /\ RightAhead(f, g) => (RightAhead(h, g)' <=> RightAhead(h, f))
              /\ ~RightAhead(f, g) => (RightAhead(h, g)' <=> RightAhead(h, g))
              /\ RightAhead(g, f) => (RightAhead(g, h)' <=> RightAhead(f, h))
              /\ ~RightAhead(g, f) => (RightAhead(g, h)' <=> RightAhead(g, h))
         /\ RightAhead(f, g) => (ahead'[g] = {} <=> ahead[f] = {})
         /\ ~RightAhead(f, g) => (ahead'[g] = {} <=> ahead[g] = {})
         /\ ahead[f] = {} => (ahead'[g] = {} <=> RightAhead(f, g))
         /\ ahead[f] # {} => (ahead'[g] = {} <=> ahead[g] = {})
         /\ RightAhead(g, f) =>
              (Waiting \ {f} = ahead'[g] \union {g} <=>
                 Waiting = ahead[f] \union {f})
         /\ ~RightAhead(g, f) =>
              (Waiting \ {f} = ahead'[g] \union {g} <=>
                 Waiting = ahead[g] \union {g})
         /\ Waiting = ahead[f] \union {f} =>
              (Waiting \ {f} = ahead'[g] \union {g} <=> RightAhead(g, f))
         /\ Waiting # ahead[f] \union {f} =>
              (Waiting \ {f} = ahead'[g] \union {g} <=>
                 Waiting = ahead[g] \union {g})
<1>1. /\ \A h \in Waiting : ahead[h] \subseteq Waiting /\ h \notin ahead[h]
      /\ \A h, i, j \in Waiting : h \in ahead[i] /\ i \in ahead[j] => h \in ahead[j]
      /\ \A h, i \in Waiting : h = i \/ h \in ahead[i] \/ i \in ahead[h]
  BY OrderFacts
<1>2. \A h \in Waiting \ {f} : \A x : x \in ahead'[h] <=> x \in ahead[h] /\ x # f
  OBVIOUS
<1>3. ASSUME NEW h \in Waiting \ {f}, RightAhead(f, g)
      PROVE  RightAhead(h, g)' <=> RightAhead(h, f)
  BY <1>1, <1>2, <1>3 DEF RightAhead
<1>4. ASSUME NEW h \in Waiting \ {f}, ~RightAhead(f, g)
      PROVE  RightAhead(h, g)' <=> RightAhead(h, g)
  BY <1>1, <1>2, <1>4 DEF RightAhead
<1>5. ASSUME NEW h \in Waiting \ {f}, RightAhead(g, f)
      PROVE  RightAhead(g, h)' <=> RightAhead(f, h)
  BY <1>1, <1>2, <1>5 DEF RightAhead
<1>6. ASSUME NEW h \in Waiting \ {f}, ~RightAhead(g, f)
      PROVE  RightAhead(g, h)' <=> RightAhead(g, h)
  BY <1>1, <1>2, <1>6 DEF RightAhead
<1>7. /\ ahead'[g] = {} <=> \A x \in ahead[g] : x = f
      /\ Waiting \ {f} = ahead'[g] \union {g} <=>
           \A x \in Waiting : x = f \/ x = g \/ x \in ahead[g]
      /\ Waiting = ahead[g] \union {g} <=> \A x \in Waiting : x = g \/ x \in ahead[g]
      /\ Waiting = ahead[f] \union {f} <=> \A x \in Waiting : x = f \/ x \in ahead[f]
  BY <1>1, <1>2
<1>8. RightAhead(f, g) => (ahead'[g] = {} <=> ahead[f] = {})
  BY <1>1, <1>7 DEF RightAhead
<1>9. ~RightAhead(f, g) => (ahead'[g] = {} <=> ahead[g] = {})
  BY <1>1, <1>7 DEF RightAhead
<1>10. ahead[f] = {} => (ahead'[g] = {} <=> RightAhead(f, g))
  BY <1>1, <1>7 DEF RightAhead
<1>11. ahead[f] # {} => (ahead'[g] = {} <=> ahead[g] = {})
  BY <1>1, <1>7
<1>12. RightAhead(g, f) => (Waiting \ {f} = ahead'[g] \union {g} <=>
                              Waiting = ahead[f] \union {f})
  BY <1>1, <1>7 DEF RightAhead
<1>13. ~RightAhead(g, f) => (Waiting \ {f} = ahead'[g] \union {g} <=>
                               Waiting = ahead[g] \union {g})
  BY <1>1, <1>7 DEF RightAhead
<1>14. Waiting = ahead[f] \union {f} =>
         (Waiting \ {f} = ahead'[g] \union {g} <=> RightAhead(g, f))
  BY <1>1, <1>7 DEF RightAhead
<1>15. Waiting # ahead[f] \union {f} =>
         (Waiting \ {f} = ahead'[g] \union {g} <=> Waiting = ahead[g] \union {g})
  BY <1>1, <1>7
<1> QED BY <1>3, <1>4, <1>5, <1>6, <1>8, <1>9, <1>10, <1>11, <1>12, <1>13,
           <1>14, <1>15

\* What the list of a sound state says of one waiting future.
LEMMA ListFacts ==
  IInv =>
    /\ InnerOK(inner)
    /\ \A f \in Waiting :
         /\ key[f] \in DOMAIN inner.waiters /\ key[f] # None
         /\ WaiterOf(f).next \in (DOMAIN inner.waiters \ {key[f]}) \union {None}
         /\ WaiterOf(f).prev \in (DOMAIN inner.waiters \ {key[f]}) \union {None}
         /\ inner.head = key[f] => WaiterOf(f).prev = None
         /\ inner.tail = key[f] => WaiterOf(f).next = None
    /\ \A k \in DOMAIN inner.waiters : \E f \in Waiting : key[f] = k
<1> SUFFICES ASSUME IInv
             PROVE  /\ InnerOK(inner)
                    /\ \A f \in Waiting :
                         /\ key[f] \in DOMAIN inner.waiters /\ key[f] # None
                         /\ WaiterOf(f).next \in
                              (DOMAIN inner.waiters \ {key[f]}) \union {None}
                         /\ WaiterOf(f).prev \in
                              (DOMAIN inner.waiters \ {key[f]}) \union {None}
                         /\ inner.head = key[f] => WaiterOf(f).prev = None
                         /\ inner.tail = key[f] => WaiterOf(f).next = None
                    /\ \A k \in DOMAIN inner.waiters :
                         \E f \in Waiting : key[f] = k
  OBVIOUS
<1>1. InnerOK(inner)
  BY DEF IInv, TypeOK, InnerOK
<1>2. ASSUME NEW f \in Waiting
      PROVE  /\ key[f] \in DOMAIN inner.waiters /\ key[f] # None
             /\ inner.head = key[f] => WaiterOf(f).prev = None
             /\ inner.tail = key[f] => WaiterOf(f).next = None
  BY SemaphoreAssumption DEF IInv, TypeOK, ListSound
<1>3. ASSUME NEW f \in Waiting
      PROVE  WaiterOf(f).next # key[f] /\ WaiterOf(f).prev # key[f]
  <2>1. ~RightAhead(f, f)
    BY OrderFacts DEF RightAhead, IInv
  <2> QED BY <2>1 DEF IInv, ListSound
<1>4. ASSUME NEW f \in Waiting
      PROVE  {WaiterOf(f).next, WaiterOf(f).prev} \subseteq
               DOMAIN inner.waiters \union {None}
  BY <1>2 DEF IInv, LinkInv, WaiterOf
<1>5. \A k \in DOMAIN inner.waiters : \E f \in Waiting : key[f] = k
  BY DEF IInv, ListSound
<1> QED BY <1>1, <1>2, <1>3, <1>4, <1>5

\* After Inner::remove of the waiter of `f', the list is the line without `f'.
LEMMA RemoveKeepsList ==
  ASSUME IInv, NEW f \in Waiting,
         Waiting' = Waiting \ {f},
         \A g \in Waiting \ {f} : key'[g] = key[g],
         \A g \in Waiting \ {f} : ahead'[g] = ahead[g] \ {f},
         DOMAIN inner'.waiters = DOMAIN inner.waiters \ {key[f]},
         inner'.head = IF WaiterOf(f).prev = None THEN WaiterOf(f).next
                                                  ELSE inner.head,
         inner'.tail = IF WaiterOf(f).next = None THEN WaiterOf(f).prev
                                                  ELSE inner.tail,
         \A k \in DOMAIN inner.waiters \ {key[f]} :
           /\ inner'.waiters[k].next = IF k = WaiterOf(f).prev
                                         THEN WaiterOf(f).next
                                         ELSE inner.waiters[k].next
           /\ inner'.waiters[k].prev = IF k = WaiterOf(f).next
                                         THEN WaiterOf(f).prev
                                         ELSE inner.waiters[k].prev
  PROVE  LinkInv' /\ ListSound'
<1>1. /\ \A g \in Waiting : key[g] \in DOMAIN inner.waiters /\ key[g] # None
      /\ \A k \in DOMAIN inner.waiters : \E g \in Waiting : key[g] = k
      /\ \A g, h \in Waiting : key[g] = key[h] => g = h
      /\ WaiterOf(f).next \in (DOMAIN inner.waiters \ {key[f]}) \union {None}
      /\ WaiterOf(f).prev \in (DOMAIN inner.waiters \ {key[f]}) \union {None}
  BY ListFacts DEF IInv, ListSound
<1>2. /\ \A g, h \in Waiting : WaiterOf(g).next = key[h] <=> RightAhead(h, g)
      /\ \A g, h \in Waiting : WaiterOf(h).prev = key[g] <=> RightAhead(h, g)
      /\ \A g \in Waiting : WaiterOf(g).next = None <=> ahead[g] = {}
      /\ \A g \in Waiting : WaiterOf(g).prev = None <=> Waiting = ahead[g] \union {g}
      /\ \A g \in Waiting : inner.tail = key[g] <=> ahead[g] = {}
      /\ \A g \in Waiting : inner.head = key[g] <=> Waiting = ahead[g] \union {g}
      /\ inner.tail # None /\ inner.head # None
  BY DEF IInv, ListSound
<1>3. \A g \in Waiting \ {f} : key[g] # key[f] /\ key[g] \in DOMAIN inner.waiters \ {key[f]}
  BY <1>1
<1>4. ASSUME NEW g \in Waiting \ {f}
      PROVE  /\ WaiterOf(g)'.next = IF RightAhead(f, g) THEN WaiterOf(f).next
                                                        ELSE WaiterOf(g).next
             /\ WaiterOf(g)'.prev = IF RightAhead(g, f) THEN WaiterOf(f).prev
                                                        ELSE WaiterOf(g).prev
  <2>1. /\ key[g] = WaiterOf(f).prev <=> RightAhead(f, g)
        /\ key[g] = WaiterOf(f).next <=> RightAhead(g, f)
    BY <1>2
  <2> QED BY <1>3, <2>1 DEF WaiterOf
<1>5. {key'[g] : g \in Waiting'} = DOMAIN inner'.waiters
  BY <1>1, <1>3
<1>6. \A g, h \in Waiting' : key'[g] = key'[h] => g = h
  BY <1>1
<1>7. ASSUME NEW g \in Waiting', NEW h \in Waiting'
      PROVE  /\ WaiterOf(g)'.next = key'[h] <=> RightAhead(h, g)'
             /\ WaiterOf(h)'.prev = key'[g] <=> RightAhead(h, g)'
  <2>1. /\ RightAhead(f, g) => (RightAhead(h, g)' <=> RightAhead(h, f))
        /\ ~RightAhead(f, g) => (RightAhead(h, g)' <=> RightAhead(h, g))
        /\ RightAhead(h, f) => (RightAhead(h, g)' <=> RightAhead(f, g))
        /\ ~RightAhead(h, f) => (RightAhead(h, g)' <=> RightAhead(h, g))
    BY SkipOne DEF IInv
  <2> QED BY <1>2, <1>4, <2>1
<1>8. ASSUME NEW g \in Waiting'
      PROVE  /\ WaiterOf(g)'.next = None <=> ahead'[g] = {}
             /\ WaiterOf(g)'.prev = None <=> Waiting' = ahead'[g] \union {g}
             /\ inner'.tail = key'[g] <=> ahead'[g] = {}
             /\ inner'.head = key'[g] <=> Waiting' = ahead'[g] \union {g}
  <2>1. /\ RightAhead(f, g) => (ahead'[g] = {} <=> ahead[f] = {})
        /\ ~RightAhead(f, g) => (ahead'[g] = {} <=> ahead[g] = {})
        /\ ahead[f] = {} => (ahead'[g] = {} <=> RightAhead(f, g))
        /\ ahead[f] # {} => (ahead'[g] = {} <=> ahead[g] = {})
        /\ RightAhead(g, f) => (Waiting \ {f} = ahead'[g] \union {g} <=>
                                  Waiting = ahead[f] \union {f})
        /\ ~RightAhead(g, f) => (Waiting \ {f} = ahead'[g] \union {g} <=>
                                   Waiting = ahead[g] \union {g})
        /\ Waiting = ahead[f] \union {f} =>
             (Waiting \ {f} = ahead'[g] \union {g} <=> RightAhead(g, f))
        /\ Waiting # ahead[f] \union {f} =>
             (Waiting \ {f} = ahead'[g] \union {g} <=>
                Waiting = ahead[g] \union {g})
    BY SkipOne DEF IInv
  <2>2. WaiterOf(g)'.next = None <=> ahead'[g] = {}
    BY <1>2, <1>4, <2>1
  <2>3. WaiterOf(g)'.prev = None <=> Waiting' = ahead'[g] \union {g}
    BY <1>2, <1>4, <2>1
  <2>4. inner'.tail = key'[g] <=> ahead'[g] = {}
    BY <1>2, <2>1
  <2>5. inner'.head = key'[g] <=> Waiting' = ahead'[g] \union {g}
    BY <1>2, <2>1
  <2> QED BY <2>2, <2>3, <2>4, <2>5
<1>9. /\ inner'.tail = None <=> Waiting' = {}
      /\ inner'.head = None <=> Waiting' = {}
  <2>1. /\ \A g \in Waiting : ahead[g] \subseteq Waiting /\ g \notin ahead[g]
        /\ \A g, h \in Waiting : g = h \/ g \in ahead[h] \/ h \in ahead[g]
    BY OrderFacts DEF IInv
  <2>2. /\ ahead[f] = {} => (Waiting = ahead[f] \union {f} <=> Waiting \ {f} = {})
        /\ Waiting = ahead[f] \union {f} => (ahead[f] = {} <=> Waiting \ {f} = {})
        /\ Waiting \ {f} = {} => ahead[f] = {} /\ Waiting = ahead[f] \union {f}
    BY <2>1
  <2> QED BY <1>2, <2>2
<1>10. ListSound'
  <2>1. ListSound' <=>
          /\ {key'[g] : g \in Waiting'} = DOMAIN inner'.waiters
          /\ \A g, h \in Waiting' : key'[g] = key'[h] => g = h
          /\ \A g, h \in Waiting' :
               /\ WaiterOf(g)'.next = key'[h] <=> RightAhead(h, g)'
               /\ WaiterOf(h)'.prev = key'[g] <=> RightAhead(h, g)'
          /\ \A g \in Waiting' :
               /\ WaiterOf(g)'.next = None <=> ahead'[g] = {}
               /\ WaiterOf(g)'.prev = None <=> Waiting' = ahead'[g] \union {g}
               /\ inner'.tail = key'[g] <=> ahead'[g] = {}
               /\ inner'.head = key'[g] <=> Waiting' = ahead'[g] \union {g}
          /\ inner'.tail = None <=> Waiting' = {}
          /\ inner'.head = None <=> Waiting' = {}
    BY DEF ListSound
  <2> QED BY <1>5, <1>6, <1>7, <1>8, <1>9, <2>1
<1>11. LinkInv'
  <2> SUFFICES ASSUME NEW k \in DOMAIN inner'.waiters
               PROVE  {inner'.waiters[k].next, inner'.waiters[k].prev} \subseteq
                        DOMAIN inner'.waiters \union {None}
    BY DEF LinkInv
  <2>1. PICK g \in Waiting \ {f} : key[g] = k
    BY <1>1
  <2>2. /\ inner.waiters[k].next \in DOMAIN inner.waiters \union {None}
        /\ inner.waiters[k].prev \in DOMAIN inner.waiters \union {None}
    BY DEF IInv, LinkInv
  <2>3. /\ inner.waiters[k].next = key[f] => k = WaiterOf(f).prev
        /\ inner.waiters[k].prev = key[f] => k = WaiterOf(f).next
    BY <1>2, <2>1 DEF WaiterOf
  <2> QED BY <1>1, <2>2, <2>3
<1> QED BY <1>10, <1>11

\* After Inner::add of a waiter for `f', the list is the line with `f' last.
LEMMA AddKeepsList ==
  ASSUME IInv, NEW f \in Futures \ Waiting, NEW k \in Keys \ DOMAIN inner.waiters,
         Waiting' = Waiting \union {f},
         key'[f] = k,
         \A g \in Waiting : key'[g] = key[g],
         ahead'[f] = Waiting,
         \A g \in Waiting : ahead'[g] = ahead[g],
         DOMAIN inner'.waiters = DOMAIN inner.waiters \union {k},
         inner'.head = k,
         inner'.tail = IF inner.tail = None THEN k ELSE inner.tail,
         inner'.waiters[k].next = inner.head,
         inner'.waiters[k].prev = None,
         \A j \in DOMAIN inner.waiters :
           /\ inner'.waiters[j].next = inner.waiters[j].next
           /\ inner'.waiters[j].prev = IF j = inner.head THEN k
                                       ELSE inner.waiters[j].prev
  PROVE  LinkInv' /\ ListSound'
<1>1. /\ \A g \in Waiting : key[g] \in DOMAIN inner.waiters /\ key[g] # None
      /\ \A j \in DOMAIN inner.waiters : \E g \in Waiting : key[g] = j
      /\ \A g, h \in Waiting : key[g] = key[h] => g = h
      /\ \A g \in Waiting : WaiterOf(g).next \in DOMAIN inner.waiters \union {None}
      /\ \A g \in Waiting : WaiterOf(g).prev \in DOMAIN inner.waiters \union {None}
      /\ {inner.head, inner.tail} \subseteq DOMAIN inner.waiters \union {None}
  BY ListFacts DEF IInv, ListSound, TypeOK
<1>2. /\ \A g, h \in Waiting : WaiterOf(g).next = key[h] <=> RightAhead(h, g)
      /\ \A g, h \in Waiting : WaiterOf(h).prev = key[g] <=> RightAhead(h, g)
      /\ \A g \in Waiting : WaiterOf(g).next = None <=> ahead[g] = {}
      /\ \A g \in Waiting : WaiterOf(g).prev = None <=> Waiting = ahead[g] \union {g}
      /\ \A g \in Waiting : inner.tail = key[g] <=> ahead[g] = {}
      /\ \A g \in Waiting : inner.head = key[g] <=> Waiting = ahead[g] \union {g}
      /\ inner.tail = None <=> Waiting = {}
      /\ inner.head = None <=> Waiting = {}
  BY DEF IInv, ListSound
<1>3. /\ k \notin DOMAIN inner.waiters /\ k # None
      /\ \A g \in Waiting : key[g] # k /\ g # f
  BY <1>1, SemaphoreAssumption
<1>4. /\ \A g \in Waiting : ahead[g] \subseteq Waiting /\ g \notin ahead[g]
      /\ \A g, h \in Waiting : g = h \/ g \in ahead[h] \/ h \in ahead[g]
      /\ \A h, i, j \in Waiting : h \in ahead[i] /\ i \in ahead[j] => h \in ahead[j]
  BY OrderFacts DEF IInv
<1>5. /\ WaiterOf(f)'.next = inner.head /\ WaiterOf(f)'.prev = None
      /\ \A g \in Waiting :
           /\ WaiterOf(g)'.next = WaiterOf(g).next
           /\ WaiterOf(g)'.prev = IF Waiting = ahead[g] \union {g} THEN k
                                  ELSE WaiterOf(g).prev
  BY <1>1, <1>2 DEF WaiterOf
<1>6. /\ \A g, h \in Waiting : RightAhead(h, g)' <=> RightAhead(h, g)
      /\ \A g \in Waiting : RightAhead(g, f)' <=> Waiting = ahead[g] \union {g}
      /\ \A g \in Waiting' : ~RightAhead(f, g)'
      /\ \A g, h \in Waiting : RightAhead(h, g) => Waiting # ahead[h] \union {h}
  <2>1. \A g, h \in Waiting : RightAhead(h, g)' <=> RightAhead(h, g)
    BY DEF RightAhead
  <2>2. ASSUME NEW g \in Waiting
        PROVE  RightAhead(g, f)' <=> Waiting = ahead[g] \union {g}
    BY <1>4 DEF RightAhead
  <2>3. \A g \in Waiting' : ~RightAhead(f, g)'
    BY <1>3, <1>4 DEF RightAhead
  <2>4. ASSUME NEW g \in Waiting, NEW h \in Waiting, RightAhead(h, g)
        PROVE  Waiting # ahead[h] \union {h}
    BY <1>4, <2>4 DEF RightAhead
  <2> QED BY <2>1, <2>2, <2>3, <2>4
<1>7. {key'[g] : g \in Waiting'} = DOMAIN inner'.waiters
  BY <1>1, <1>3
<1>8. \A g, h \in Waiting' : key'[g] = key'[h] => g = h
  BY <1>1, <1>3
<1>9. ASSUME NEW g \in Waiting', NEW h \in Waiting'
      PROVE  /\ WaiterOf(g)'.next = key'[h] <=> RightAhead(h, g)'
             /\ WaiterOf(h)'.prev = key'[g] <=> RightAhead(h, g)'
  <2>1. CASE g \in Waiting /\ h \in Waiting
    BY <1>2, <1>3, <1>5, <1>6, <2>1
  <2>2. CASE g = f /\ h \in Waiting
    BY <1>1, <1>2, <1>3, <1>5, <1>6, <2>2
  <2>3. CASE g \in Waiting' /\ h = f
    <3>1. ~RightAhead(f, g)' /\ key'[g] # None
      BY <1>1, <1>3, <1>6, <2>3
    <3>2. WaiterOf(g)'.next # k
      BY <1>1, <1>3, <1>5, <2>3
    <3> QED BY <1>5, <2>3, <3>1, <3>2
  <2> QED BY <2>1, <2>2, <2>3
<1>10. ASSUME NEW g \in Waiting'
       PROVE  /\ WaiterOf(g)'.next = None <=> ahead'[g] = {}
              /\ WaiterOf(g)'.prev = None <=> Waiting' = ahead'[g] \union {g}
              /\ inner'.tail = key'[g] <=> ahead'[g] = {}
              /\ inner'.head = key'[g] <=> Waiting' = ahead'[g] \union {g}
  <2>1. CASE g = f
    <3>1. Waiting' = ahead'[g] \union {g}
      BY <2>1
    <3>2. inner'.tail = k <=> Waiting = {}
      BY <1>1, <1>2, <1>3
    <3> QED BY <1>2, <1>5, <2>1, <3>1, <3>2
  <2>2. CASE g \in Waiting
    <3>1. Waiting' # ahead'[g] \union {g}
      BY <1>3, <1>4, <2>2
    <3>2. inner'.tail = inner.tail
      BY <1>2, <2>2
    <3> QED BY <1>2, <1>3, <1>5, <2>2, <3>1, <3>2
  <2> QED BY <2>1, <2>2
<1>11. inner'.tail # None /\ inner'.head # None /\ Waiting' # {}
  BY <1>3
<1>12. ListSound'
  <2>1. ListSound' <=>
          /\ {key'[g] : g \in Waiting'} = DOMAIN inner'.waiters
          /\ \A g, h \in Waiting' : key'[g] = key'[h] => g = h
          /\ \A g, h \in Waiting' :
               /\ WaiterOf(g)'.next = key'[h] <=> RightAhead(h, g)'
               /\ WaiterOf(h)'.prev = key'[g] <=> RightAhead(h, g)'
          /\ \A g \in Waiting' :
               /\ WaiterOf(g)'.next = None <=> ahead'[g] = {}
               /\ WaiterOf(g)'.prev = None <=> Waiting' = ahead'[g] \union {g}
               /\ inner'.tail = key'[g] <=> ahead'[g] = {}
               /\ inner'.head = key'[g] <=> Waiting' = ahead'[g] \union {g}
          /\ inner'.tail = None <=> Waiting' = {}
          /\ inner'.head = None <=> Waiting' = {}
    BY DEF ListSound
  <2> QED BY <1>7, <1>8, <1>9, <1>10, <1>11, <2>1
<1>13. LinkInv'
  <2> SUFFICES ASSUME NEW j \in DOMAIN inner'.waiters
               PROVE  {inner'.waiters[j].next, inner'.waiters[j].prev} \subseteq
                        DOMAIN inner'.waiters \union {None}
    BY DEF LinkInv
  <2>1. CASE j = k
    BY <1>1, <2>1
  <2>2. CASE j # k
    <3>1. /\ inner.waiters[j].next \in DOMAIN inner.waiters \union {None}
          /\ inner.waiters[j].prev \in DOMAIN inner.waiters \union {None}
      BY <2>2 DEF IInv, LinkInv
    <3> QED BY <2>2, <3>1
  <2> QED BY <2>1, <2>2
<1> QED BY <1>12, <1>13

\* A step that leaves the line and the links as they are.
LEMMA StayKeeps ==
  ASSUME IInv, TypeOK', Waiting' = Waiting, UNCHANGED <<key, lineVars>>,
         \A f \in Waiting : amount'[f] = amount[f],
         DOMAIN inner'.waiters = DOMAIN inner.waiters,
         inner'.head = inner.head, inner'.tail = inner.tail,
         \A k \in DOMAIN inner.waiters :
           /\ inner'.waiters[k].next = inner.waiters[k].next
           /\ inner'.waiters[k].prev = inner.waiters[k].prev
  PROVE  /\ LinkInv' /\ ListSound' /\ YoungestInv'
         /\ F!OrderInv' /\ F!SumInv'
<1>1. /\ F!Line = Waiting /\ F!Line' = Waiting
      /\ \A f \in Futures : F!InLine(f) <=> F!InLine(f)'
  <2>1. /\ F!Line' = Waiting'
        /\ \A i \in Futures : F!InLine(i)' <=> i \in Waiting'
    BY LineFactsNext DEF TypeOK
  <2> QED BY <2>1, ImageFacts DEF IInv
<1>2. /\ ahead' = ahead /\ need' = need /\ demand' = demand /\ key' = key
  BY DEF lineVars
<1>3. LinkInv'
  BY DEF IInv, LinkInv
<1>4. YoungestInv'
  BY <1>2 DEF IInv, YoungestInv
<1>5. F!OrderInv'
  BY <1>1, <1>2 DEF IInv, F!OrderInv
<1>6. F!SumInv'
  <2>1. \A f \in Futures : \A g \in ahead[f] : f \in Waiting
    BY OrderFacts DEF IInv
  <2> QED BY <1>1, <1>2, <2>1 DEF IInv, F!SumInv
<1>7. ListSound'
  <2>1. \A f \in Waiting : key[f] \in DOMAIN inner.waiters
    BY ListFacts
  <2>2. \A f \in Waiting : /\ WaiterOf(f)'.next = WaiterOf(f).next
                           /\ WaiterOf(f)'.prev = WaiterOf(f).prev
    BY <1>2, <2>1 DEF WaiterOf
  <2>3. \A f, g : RightAhead(f, g)' <=> RightAhead(f, g)
    BY <1>2 DEF RightAhead
  <2> QED BY <1>2, <2>2, <2>3 DEF IInv, ListSound
<1> QED BY <1>3, <1>4, <1>5, <1>6, <1>7

\* The wake-ups of a step reach the tasks that polled last.
LEMMA SignalsKeep ==
  ASSUME IInv, SendSignals, Waiting' \subseteq Waiting, KeyInv',
         \A f \in Waiting' :
           /\ key'[f] = key[f] /\ poller'[f] = poller[f]
           /\ inner'.waiters[key[f]].waker = inner.waiters[key[f]].waker
  PROVE  GrantSignalled' /\ signal' \in [Futures -> Tasks \union {None}]
<1>1. \A f \in Waiting' :
        /\ f \in Futures
        /\ key'[f] # None /\ key[f] \in DOMAIN inner.waiters
        /\ inner.waiters[key[f]].waker = poller[f]
        /\ inner.waiters[key[f]].waker \in Tasks
        /\ inner.waiters[key[f]].woke => signal[f] = poller[f]
  <2> SUFFICES ASSUME NEW f \in Waiting'
               PROVE  /\ f \in Futures
                      /\ key'[f] # None /\ key[f] \in DOMAIN inner.waiters
                      /\ inner.waiters[key[f]].waker = poller[f]
                      /\ inner.waiters[key[f]].waker \in Tasks
                      /\ inner.waiters[key[f]].woke => signal[f] = poller[f]
    OBVIOUS
  <2>1. f \in Waiting /\ f \in Futures
    BY DEF Waiting
  <2>2. key[f] \in DOMAIN inner.waiters /\ key[f] # None
    BY <2>1, ListFacts
  <2>3. inner.waiters[key[f]] \in Waiter
    BY <2>2 DEF IInv, TypeOK
  <2> QED BY <2>1, <2>2, <2>3
          DEF IInv, OwnInv, GrantSignalled, WaiterOf, Waiter
<1>2. GrantSignalled'
  <2> SUFFICES ASSUME NEW f \in Waiting', inner'.waiters[key'[f]].woke
               PROVE  signal'[f] = poller'[f]
    BY DEF GrantSignalled, WaiterOf
  <2>1. CASE inner.waiters[key[f]].woke
    <3>1. signal'[f] = signal[f]
      BY <1>1, <2>1 DEF SendSignals
    <3> QED BY <1>1, <2>1, <3>1
  <2>2. CASE ~inner.waiters[key[f]].woke
    <3>1. signal'[f] = inner'.waiters[key'[f]].waker
      BY <1>1, <2>2 DEF SendSignals
    <3> QED BY <1>1, <3>1
  <2> QED BY <2>1, <2>2
<1>3. signal' \in [Futures -> Tasks \union {None}]
  <2>1. ASSUME NEW f \in Futures
        PROVE  (IF /\ key'[f] # None
                   /\ inner'.waiters[key'[f]].woke
                   /\ ~inner.waiters[key'[f]].woke
                  THEN inner'.waiters[key'[f]].waker
                  ELSE IF key'[f] = None THEN None ELSE signal[f])
                 \in Tasks \union {None}
    <3>1. signal[f] \in Tasks \union {None}
      BY DEF IInv, TypeOK
    <3>2. key'[f] # None => f \in Waiting'
      BY DEF KeyInv, Waiting
    <3>3. f \in Waiting' => inner'.waiters[key'[f]].waker \in Tasks
      BY <1>1
    <3> QED BY <3>1, <3>2, <3>3
  <2> QED BY <2>1 DEF SendSignals
<1> QED BY <1>2, <1>3

-----------------------------------------------------------------------------
(* The actions                                                             *)

LEMMA InitIInv == Init => IInv
<1> SUFFICES ASSUME Init PROVE IInv
  OBVIOUS
<1>1. /\ DOMAIN inner = {"permits", "waiters", "head", "tail"}
      /\ inner.permits \in 0 .. MaxPermits
      /\ inner.waiters = <<>> /\ inner.head = None /\ inner.tail = None
  BY DEF Init
<1>2. DOMAIN inner.waiters = {}
  BY <1>1
<1>3. TypeOK
  BY <1>1, <1>2, SemaphoreAssumption DEF Init, TypeOK
<1>4. Waiting = {}
  BY DEF Init, Waiting
<1>5. F!Line = {} /\ \A f \in Futures : ~F!InLine(f)
  BY <1>3, <1>4, ImageFacts
<1>6. F!OrderInv /\ F!SumInv
  BY <1>5 DEF Init, F!OrderInv, F!SumInv
<1>7. ListSound
  BY <1>1, <1>2, <1>4 DEF ListSound
<1>8. KeyInv /\ OwnInv /\ LinkInv /\ GrantSignalled /\ YoungestInv
  BY <1>2, <1>4 DEF Init, KeyInv, OwnInv, LinkInv, GrantSignalled, YoungestInv
<1> QED BY <1>3, <1>6, <1>7, <1>8 DEF IInv

\* No permit moves within the list: acquire or try_acquire succeeds at once, or
\* a permit is forgotten.
LEMMA QuietIInv ==
  ASSUME IInv, NEW f \in Futures \ Waiting,
         DOMAIN inner' = DOMAIN inner,
         inner'.permits \in 0 .. MaxPermits,
         inner'.waiters = inner.waiters,
         inner'.head = inner.head, inner'.tail = inner.tail,
         state' \in [Futures -> {"Idle", "Waiting", "Done"}],
         state'[f] # "Waiting",
         \A g \in Futures \ {f} : state'[g] = state[g],
         amount' \in [Futures -> 0 .. MaxPermits],
         \A g \in Futures \ {f} : amount'[g] = amount[g],
         UNCHANGED <<key, poller, signal, lineVars>>
  PROVE  IInv'
<1>1. TypeOK'
  BY DEF IInv, TypeOK, lineVars
<1>2. Waiting' = Waiting /\ \A g \in Waiting : amount'[g] = amount[g]
  BY DEF Waiting
<1>3. /\ LinkInv' /\ ListSound' /\ YoungestInv'
      /\ F!OrderInv' /\ F!SumInv'
  BY <1>1, <1>2, StayKeeps
<1>4. KeyInv'
  <2>1. \A g \in Futures : state'[g] # "Waiting" => state[g] # "Waiting"
    BY <1>2 DEF Waiting
  <2> QED BY <2>1 DEF IInv, KeyInv
<1>5. OwnInv' /\ GrantSignalled'
  BY <1>2 DEF IInv, OwnInv, GrantSignalled, WaiterOf
<1> QED BY <1>1, <1>3, <1>4, <1>5 DEF IInv

LEMMA AcquireNowIInv ==
  ASSUME IInv, NEW f \in Futures, NEW n \in 0 .. MaxPermits, AcquireNow(f, n)
  PROVE  IInv'
<1>1. f \notin Waiting
  BY DEF AcquireNow, Waiting
<1>2. /\ DOMAIN inner' = DOMAIN inner
      /\ inner'.waiters = inner.waiters
      /\ inner'.head = inner.head /\ inner'.tail = inner.tail
      /\ inner'.permits = inner.permits - n
  BY DEF AcquireNow, IInv, TypeOK
<1>3. inner'.permits \in 0 .. MaxPermits
  <2>1. n \in Nat /\ inner.permits \in Nat /\ n <= inner.permits
        /\ inner.permits <= MaxPermits
    BY SemaphoreAssumption DEF AcquireNow, CanAcquire, IInv, TypeOK
  <2> QED BY <1>2, <2>1, SemaphoreAssumption
<1>4. /\ state' \in [Futures -> {"Idle", "Waiting", "Done"}]
      /\ state'[f] # "Waiting"
      /\ \A g \in Futures \ {f} : state'[g] = state[g]
      /\ amount' \in [Futures -> 0 .. MaxPermits]
      /\ \A g \in Futures \ {f} : amount'[g] = amount[g]
      /\ UNCHANGED <<key, poller, signal, lineVars>>
  BY DEF AcquireNow, IInv, TypeOK
<1> QED BY <1>1, <1>2, <1>3, <1>4, QuietIInv

LEMMA ForgetPermitIInv ==
  ASSUME IInv, NEW f \in Futures, ForgetPermit(f)
  PROVE  IInv'
<1>1. f \notin Waiting
  BY DEF ForgetPermit, Waiting
<1>2. /\ inner' = inner /\ inner'.permits \in 0 .. MaxPermits
      /\ state' \in [Futures -> {"Idle", "Waiting", "Done"}]
      /\ state'[f] # "Waiting"
      /\ \A g \in Futures \ {f} : state'[g] = state[g]
      /\ amount' \in [Futures -> 0 .. MaxPermits]
      /\ \A g \in Futures \ {f} : amount'[g] = amount[g]
      /\ UNCHANGED <<key, poller, signal, lineVars>>
  BY SemaphoreAssumption DEF ForgetPermit, IInv, TypeOK
<1> QED BY <1>1, <1>2, QuietIInv

LEMMA PollUngrantedIInv ==
  ASSUME IInv, NEW f \in Futures, NEW task \in Tasks, PollUngranted(f, task)
  PROVE  IInv'
<1>1. f \in Waiting /\ key[f] \in DOMAIN inner.waiters
  BY ListFacts DEF PollUngranted, Waiting
<1>2. /\ DOMAIN inner' = DOMAIN inner
      /\ inner'.waiters = [inner.waiters EXCEPT ![key[f]].waker = task]
      /\ inner'.permits = inner.permits
      /\ inner'.head = inner.head /\ inner'.tail = inner.tail
  BY DEF PollUngranted, IInv, TypeOK
<1>3. DOMAIN inner'.waiters = DOMAIN inner.waiters
  BY <1>2
<1>4. ASSUME NEW k \in DOMAIN inner.waiters
      PROVE  /\ inner'.waiters[k] \in Waiter
             /\ inner'.waiters[k].next = inner.waiters[k].next
             /\ inner'.waiters[k].prev = inner.waiters[k].prev
             /\ inner'.waiters[k].required = inner.waiters[k].required
             /\ inner'.waiters[k].woke = inner.waiters[k].woke
             /\ inner'.waiters[k].waker = IF k = key[f] THEN task
                                          ELSE inner.waiters[k].waker
  <2>1. inner.waiters[k] \in Waiter
    BY DEF IInv, TypeOK
  <2>2. inner'.waiters[k] = IF k = key[f] THEN [inner.waiters[k] EXCEPT !.waker = task]
                                          ELSE inner.waiters[k]
    BY <1>2
  <2> QED BY <2>1, <2>2 DEF Waiter
<1>5. /\ UNCHANGED <<state, key, amount, signal>>
      /\ UNCHANGED lineVars
      /\ poller' = [poller EXCEPT ![f] = task]
  BY DEF PollUngranted, slotVars
<1>6. TypeOK'
  BY <1>2, <1>3, <1>4, <1>5 DEF IInv, TypeOK, lineVars
<1>7. Waiting' = Waiting
  BY <1>5 DEF Waiting
<1>8. /\ LinkInv' /\ ListSound' /\ YoungestInv'
      /\ F!OrderInv' /\ F!SumInv'
  BY <1>2, <1>3, <1>4, <1>5, <1>6, <1>7, StayKeeps
<1>9. KeyInv'
  BY <1>5 DEF IInv, KeyInv
<1>10. ASSUME NEW g \in Waiting
       PROVE  /\ g \in Futures /\ key[g] \in DOMAIN inner.waiters
              /\ key[g] = key[f] => g = f
              /\ poller'[g] = IF g = f THEN task ELSE poller[g]
  BY <1>1, <1>5, ListFacts DEF IInv, ListSound, TypeOK, Waiting
<1>11. OwnInv'
  BY <1>4, <1>5, <1>7, <1>10 DEF IInv, OwnInv, WaiterOf
<1>12. GrantSignalled'
  <2> SUFFICES ASSUME NEW g \in Waiting, inner'.waiters[key[g]].woke
               PROVE  signal[g] = poller'[g]
    BY <1>5, <1>7 DEF GrantSignalled, WaiterOf
  <2>1. inner.waiters[key[g]].woke
    BY <1>4, <1>10
  <2>2. g # f
    BY <2>1 DEF PollUngranted
  <2> QED BY <1>10, <2>1, <2>2 DEF IInv, GrantSignalled, WaiterOf
<1> QED BY <1>6, <1>8, <1>9, <1>11, <1>12 DEF IInv

\* Permits return to the pool, and Inner::wake runs.
LEMMA WakeIInv ==
  ASSUME IInv, NEW in, InnerOK(in), in.waiters = inner.waiters,
         in.head = inner.head, in.tail = inner.tail,
         inner' = WakeWaiters(in),
         state' \in [Futures -> {"Idle", "Waiting", "Done"}],
         amount' \in [Futures -> 0 .. MaxPermits],
         Waiting' = Waiting,
         \A f \in Waiting : amount'[f] = amount[f],
         UNCHANGED <<key, poller, lineVars>>,
         SendSignals
  PROVE  IInv'
<1>1. /\ InnerOK(inner')
      /\ inner'.head = inner.head /\ inner'.tail = inner.tail
      /\ DOMAIN inner'.waiters = DOMAIN inner.waiters
      /\ \A k \in DOMAIN inner.waiters :
           /\ inner'.waiters[k].next = inner.waiters[k].next
           /\ inner'.waiters[k].prev = inner.waiters[k].prev
           /\ inner'.waiters[k].required = inner.waiters[k].required
           /\ inner'.waiters[k].waker = inner.waiters[k].waker
  BY WakeFacts
<1>2. \A f \in Waiting : key[f] \in DOMAIN inner.waiters
  BY ListFacts
<1>3. KeyInv'
  BY DEF IInv, KeyInv, Waiting
<1>4. GrantSignalled' /\ signal' \in [Futures -> Tasks \union {None}]
  BY <1>1, <1>2, <1>3, SignalsKeep
<1>5. TypeOK'
  BY <1>1, <1>4 DEF IInv, TypeOK, InnerOK, lineVars
<1>6. OwnInv'
  BY <1>1, <1>2 DEF IInv, OwnInv, WaiterOf
<1>7. /\ LinkInv' /\ ListSound' /\ YoungestInv'
      /\ F!OrderInv' /\ F!SumInv'
  BY <1>1, <1>5, StayKeeps
<1> QED BY <1>3, <1>4, <1>5, <1>6, <1>7 DEF IInv

\* A sum within the bound does not wrap around.
LEMMA NoWrap ==
  ASSUME NEW m \in Nat, NEW a \in Nat, a <= m
  PROVE  a % (m + 1) = a
  OBVIOUS

\* `permits += n', wrapped around or not.
LEMMA AddedFacts ==
  ASSUME IInv, NEW n \in Nat
  PROVE  /\ InnerOK(Added(n))
         /\ Added(n).waiters = inner.waiters
         /\ Added(n).head = inner.head /\ Added(n).tail = inner.tail
         /\ ~Overflows(n) => Added(n).permits = inner.permits + n
<1>1. inner.permits \in Nat /\ MaxPermits \in Nat
  BY SemaphoreAssumption DEF IInv, TypeOK
<1>2. PICK p : p = (inner.permits + n) % (MaxPermits + 1)
  OBVIOUS
<1>3. p \in 0 .. MaxPermits
  BY <1>1, <1>2
<1>4. inner.permits + n <= MaxPermits => p = inner.permits + n
  <2>1. PICK a \in Nat : a = inner.permits + n
    BY <1>1
  <2>2. a <= MaxPermits => a % (MaxPermits + 1) = a
    BY <1>1, NoWrap
  <2> QED BY <1>2, <2>1, <2>2
<1>5. inner.permits + n > MaxPermits <=> ~(inner.permits + n <= MaxPermits)
  BY <1>1
<1>6. Added(n) = [inner EXCEPT !.permits = p]
  BY <1>2 DEF Added
<1>7. /\ DOMAIN Added(n) = DOMAIN inner
      /\ Added(n).permits = p /\ Added(n).waiters = inner.waiters
      /\ Added(n).head = inner.head /\ Added(n).tail = inner.tail
  BY <1>6 DEF IInv, TypeOK
<1> HIDE DEF Added
<1> QED BY <1>3, <1>4, <1>5, <1>7 DEF IInv, TypeOK, InnerOK, Overflows

LEMMA AddPermitsIInv ==
  ASSUME IInv, NEW n \in 1 .. MaxPermits, AddPermits(n)
  PROVE  IInv'
<1>1. n \in Nat
  BY SemaphoreAssumption
<1>2. PICK in : in = Added(n)
  OBVIOUS
<1>3. /\ InnerOK(in) /\ in.waiters = inner.waiters
      /\ in.head = inner.head /\ in.tail = inner.tail
  BY <1>1, <1>2, AddedFacts
<1>4. inner' = WakeWaiters(in) /\ SendSignals
  BY <1>2 DEF AddPermits
<1>5. /\ UNCHANGED <<state, amount>> /\ UNCHANGED <<key, poller, lineVars>>
  BY DEF AddPermits, slotVars
<1>6. Waiting' = Waiting
  BY <1>5 DEF Waiting
<1> QED BY <1>3, <1>4, <1>5, <1>6, WakeIInv DEF IInv, TypeOK

LEMMA DropPermitIInv ==
  ASSUME IInv, NEW f \in Futures, DropPermit(f)
  PROVE  IInv'
<1>1. f \notin Waiting
  BY DEF DropPermit, Waiting
<1>2. /\ state' \in [Futures -> {"Idle", "Waiting", "Done"}]
      /\ state'[f] = "Idle"
      /\ \A g \in Futures \ {f} : state'[g] = state[g]
      /\ amount' \in [Futures -> 0 .. MaxPermits]
      /\ \A g \in Futures \ {f} : amount'[g] = amount[g]
      /\ UNCHANGED <<key, poller, lineVars>>
      /\ SendSignals
  BY SemaphoreAssumption DEF DropPermit, IInv, TypeOK
<1>3. Waiting' = Waiting /\ \A g \in Waiting : g \in Futures /\ amount'[g] = amount[g]
  BY <1>1, <1>2 DEF Waiting
<1>4. CASE inner' = inner
  <2>1. signal' = [g \in Futures |-> IF key[g] = None THEN None ELSE signal[g]]
    BY <1>2, <1>4 DEF SendSignals
  <2>2. signal' \in [Futures -> Tasks \union {None}]
    BY <2>1 DEF IInv, TypeOK
  <2>3. TypeOK'
    BY <1>2, <1>4, <2>2 DEF IInv, TypeOK, lineVars
  <2>4. /\ LinkInv' /\ ListSound' /\ YoungestInv'
        /\ F!OrderInv' /\ F!SumInv'
    BY <1>2, <1>3, <1>4, <2>3, StayKeeps
  <2>5. KeyInv'
    BY <1>2, <1>3 DEF IInv, KeyInv, Waiting
  <2>6. OwnInv'
    BY <1>2, <1>3, <1>4 DEF IInv, OwnInv, WaiterOf
  <2>7. GrantSignalled'
    <3>1. \A g \in Waiting : signal'[g] = signal[g]
      BY <1>3, <2>1, ListFacts
    <3> QED BY <1>2, <1>3, <1>4, <3>1 DEF IInv, GrantSignalled, WaiterOf
  <2> QED BY <2>3, <2>4, <2>5, <2>6, <2>7 DEF IInv
<1>5. CASE inner' = WakeWaiters(Added(amount[f]))
  <2>1. amount[f] \in Nat
    BY SemaphoreAssumption DEF IInv, TypeOK
  <2>2. PICK in : in = Added(amount[f])
    OBVIOUS
  <2>3. /\ InnerOK(in) /\ in.waiters = inner.waiters
        /\ in.head = inner.head /\ in.tail = inner.tail
    BY <2>1, <2>2, AddedFacts
  <2> QED BY <1>2, <1>3, <1>5, <2>2, <2>3, WakeIInv
<1> QED BY <1>4, <1>5 DEF DropPermit

LEMMA AcquireLaterIInv ==
  ASSUME IInv, NEW f \in Futures, NEW n \in 0 .. MaxPermits, NEW task \in Tasks,
         AcquireLater(f, n, task)
  PROVE  IInv'
<1>1. PICK k \in Keys \ DOMAIN inner.waiters :
        inner' = AddWaiter(inner, k, task, n) /\ key' = [key EXCEPT ![f] = k]
  BY DEF AcquireLater
<1>2. /\ state[f] = "Idle" /\ f \notin Waiting
      /\ state' = [state EXCEPT ![f] = "Waiting"]
      /\ amount' = [amount EXCEPT ![f] = n]
      /\ poller' = [poller EXCEPT ![f] = task]
      /\ ahead' = [ahead EXCEPT ![f] = Waiting]
      /\ need' = [need EXCEPT ![f] = demand + n]
      /\ demand' = demand + n
      /\ signal' = signal
  BY DEF AcquireLater, Join, Waiting
<1>3. /\ key'[f] = k /\ state'[f] = "Waiting" /\ amount'[f] = n
      /\ poller'[f] = task /\ ahead'[f] = Waiting
      /\ \A g \in Futures \ {f} :
           /\ key'[g] = key[g] /\ state'[g] = state[g] /\ amount'[g] = amount[g]
           /\ poller'[g] = poller[g] /\ ahead'[g] = ahead[g]
  BY <1>1, <1>2 DEF IInv, TypeOK
<1>4. /\ InnerOK(inner')
      /\ inner'.head = k
      /\ inner'.tail = IF inner.tail = None THEN k ELSE inner.tail
      /\ DOMAIN inner'.waiters = DOMAIN inner.waiters \union {k}
      /\ inner'.waiters[k].next = inner.head /\ inner'.waiters[k].prev = None
      /\ inner'.waiters[k].required = n /\ inner'.waiters[k].waker = task
      /\ ~inner'.waiters[k].woke
      /\ \A j \in DOMAIN inner.waiters :
           /\ inner'.waiters[j].next = inner.waiters[j].next
           /\ inner'.waiters[j].prev = IF j = inner.head THEN k
                                       ELSE inner.waiters[j].prev
           /\ inner'.waiters[j].required = inner.waiters[j].required
           /\ inner'.waiters[j].waker = inner.waiters[j].waker
           /\ inner'.waiters[j].woke = inner.waiters[j].woke
  <2>1. InnerOK(inner)
    BY ListFacts
  <2> QED BY <1>1, <2>1, AddFacts
<1>5. Waiting' = Waiting \union {f} /\ Waiting \subseteq Futures
  BY <1>2, <1>3 DEF Waiting
<1>6. TypeOK'
  <2>1. demand + n \in Nat
    BY SemaphoreAssumption DEF IInv, TypeOK
  <2> QED BY <1>1, <1>2, <1>4, <1>5, <2>1 DEF IInv, TypeOK, InnerOK
<1>7. LinkInv' /\ ListSound'
  BY <1>2, <1>3, <1>4, <1>5, AddKeepsList
<1>8. KeyInv'
  BY <1>3 DEF IInv, KeyInv
<1>9. \A g \in Waiting : /\ g \in Futures /\ g # f
                         /\ key[g] \in DOMAIN inner.waiters
  BY <1>2, <1>5, ListFacts
<1>10. OwnInv'
  <2> SUFFICES ASSUME NEW g \in Waiting'
               PROVE  /\ inner'.waiters[key'[g]].required = amount'[g]
                      /\ inner'.waiters[key'[g]].waker = poller'[g]
    BY DEF OwnInv, WaiterOf
  <2>1. CASE g = f
    BY <1>3, <1>4, <2>1
  <2>2. CASE g \in Waiting
    BY <1>3, <1>4, <1>9, <2>2 DEF IInv, OwnInv, WaiterOf
  <2> QED BY <1>5, <2>1, <2>2
<1>11. GrantSignalled'
  <2> SUFFICES ASSUME NEW g \in Waiting', inner'.waiters[key'[g]].woke
               PROVE  signal'[g] = poller'[g]
    BY DEF GrantSignalled, WaiterOf
  <2>1. g # f /\ g \in Waiting
    BY <1>3, <1>4, <1>5
  <2> QED BY <1>2, <1>3, <1>4, <1>9, <2>1 DEF IInv, GrantSignalled, WaiterOf
<1>12. YoungestInv'
  <2> SUFFICES ASSUME NEW S \in SUBSET Waiting', S # {}
               PROVE  \E g \in S : \A h \in S : g \notin ahead'[h]
    BY DEF YoungestInv
  <2>1. \A g \in Waiting : ahead[g] \subseteq Waiting
    BY <1>5, OrderFacts DEF IInv
  <2>2. CASE f \in S
    BY <1>2, <1>3, <1>5, <1>9, <2>1, <2>2
  <2>3. CASE f \notin S
    <3>1. S \in SUBSET Waiting
      BY <1>5, <2>3
    <3>2. PICK g \in S : \A h \in S : g \notin ahead[h]
      BY <3>1 DEF IInv, YoungestInv
    <3> QED BY <1>3, <1>9, <3>1, <3>2
  <2> QED BY <2>2, <2>3
<1>13. F!OrderInv' /\ F!SumInv'
  <2>1. /\ F!Line = Waiting /\ F!TypeOK
        /\ \A i \in Futures : F!InLine(i) <=> i \in Waiting
    BY ImageFacts DEF IInv
  <2>2. \A i \in Futures : F!InLine(i)' <=> i \in Waiting'
    BY <1>6, LineFactsNext DEF TypeOK
  <2>3. \A g \in Futures : F!InLine(g)' <=> F!InLine(g) \/ g = f
    BY <1>5, <1>6, <2>1, <2>2
  <2>4. ~F!InLine(f) /\ F!OrderInv /\ F!SumInv
    BY <1>2, <2>1 DEF IInv
  <2> QED BY <1>2, <1>3, <2>1, <2>3, <2>4, F!JoinKeeps, SemaphoreAssumption
<1> QED BY <1>6, <1>7, <1>8, <1>10, <1>11, <1>12, <1>13 DEF IInv

\* A waiter is removed, and Inner::wake runs.
LEMMA LeaveIInv ==
  ASSUME IInv, NEW f \in Waiting,
         NEW in, InnerOK(in), in.waiters = inner.waiters,
         in.head = inner.head, in.tail = inner.tail,
         inner' = WakeWaiters(Remove(in, key[f])),
         state' \in [Futures -> {"Idle", "Waiting", "Done"}],
         state'[f] # "Waiting",
         \A g \in Futures \ {f} : state'[g] = state[g],
         key' = [key EXCEPT ![f] = None],
         amount' \in [Futures -> 0 .. MaxPermits],
         \A g \in Futures \ {f} : amount'[g] = amount[g],
         poller' = [poller EXCEPT ![f] = None],
         SendSignals,
         Leave(f)
  PROVE  IInv'
<1>1. /\ f \in Futures /\ key[f] \in DOMAIN inner.waiters
      /\ WaiterOf(f).next \in (DOMAIN inner.waiters \ {key[f]}) \union {None}
      /\ WaiterOf(f).prev \in (DOMAIN inner.waiters \ {key[f]}) \union {None}
      /\ inner.head = key[f] => WaiterOf(f).prev = None
      /\ inner.tail = key[f] => WaiterOf(f).next = None
  BY ListFacts DEF Waiting
<1>2. PICK k, mid : k = key[f] /\ mid = Remove(in, key[f])
  OBVIOUS
<1>3. /\ InnerOK(mid)
      /\ mid.head = IF WaiterOf(f).prev = None THEN WaiterOf(f).next
                                               ELSE inner.head
      /\ mid.tail = IF WaiterOf(f).next = None THEN WaiterOf(f).prev
                                               ELSE inner.tail
      /\ DOMAIN mid.waiters = DOMAIN inner.waiters \ {key[f]}
      /\ \A j \in DOMAIN inner.waiters \ {key[f]} :
           /\ mid.waiters[j].next = IF j = WaiterOf(f).prev THEN WaiterOf(f).next
                                    ELSE inner.waiters[j].next
           /\ mid.waiters[j].prev = IF j = WaiterOf(f).next THEN WaiterOf(f).prev
                                    ELSE inner.waiters[j].prev
           /\ mid.waiters[j].required = inner.waiters[j].required
           /\ mid.waiters[j].waker = inner.waiters[j].waker
  <2>1. /\ k \in DOMAIN in.waiters /\ mid = Remove(in, k)
        /\ {in.waiters[k].next, in.waiters[k].prev} \subseteq
             (DOMAIN in.waiters \ {k}) \union {None}
        /\ in.head = k => in.waiters[k].prev = None
        /\ in.tail = k => in.waiters[k].next = None
    BY <1>1, <1>2 DEF WaiterOf
  <2>2. WaiterOf(f) = in.waiters[k]
    BY <1>2 DEF WaiterOf
  <2> QED BY <1>2, <2>1, <2>2, RemoveFacts
<1>4. /\ InnerOK(inner')
      /\ inner'.head = mid.head /\ inner'.tail = mid.tail
      /\ DOMAIN inner'.waiters = DOMAIN mid.waiters
      /\ \A j \in DOMAIN mid.waiters :
           /\ inner'.waiters[j].next = mid.waiters[j].next
           /\ inner'.waiters[j].prev = mid.waiters[j].prev
           /\ inner'.waiters[j].required = mid.waiters[j].required
           /\ inner'.waiters[j].waker = mid.waiters[j].waker
  BY <1>2, <1>3, WakeFacts
<1>5. Waiting' = Waiting \ {f} /\ Waiting \subseteq Futures
  BY DEF Waiting
<1>6. /\ key'[f] = None
      /\ \A g \in Futures \ {f} : key'[g] = key[g] /\ poller'[g] = poller[g]
      /\ \A g \in Futures \ {f} : ahead'[g] = ahead[g] \ {f}
  BY <1>1 DEF IInv, TypeOK, Leave
<1>7. \A g \in Waiting \ {f} : /\ g \in Futures \ {f}
                               /\ key[g] \in DOMAIN inner.waiters \ {key[f]}
  BY <1>5, ListFacts DEF IInv, ListSound
<1>8. LinkInv' /\ ListSound'
  BY <1>3, <1>4, <1>5, <1>6, <1>7, RemoveKeepsList
<1>9. KeyInv'
  BY <1>6 DEF IInv, KeyInv
<1>10. GrantSignalled' /\ signal' \in [Futures -> Tasks \union {None}]
  <2>1. \A g \in Waiting' :
          /\ key'[g] = key[g] /\ poller'[g] = poller[g]
          /\ inner'.waiters[key[g]].waker = inner.waiters[key[g]].waker
    BY <1>3, <1>4, <1>5, <1>6, <1>7
  <2> QED BY <1>5, <1>9, <2>1, SignalsKeep
<1>11. OwnInv'
  <2> SUFFICES ASSUME NEW g \in Waiting \ {f}
               PROVE  /\ inner'.waiters[key'[g]].required = amount'[g]
                      /\ inner'.waiters[key'[g]].waker = poller'[g]
    BY <1>5 DEF OwnInv, WaiterOf
  <2> QED BY <1>3, <1>4, <1>6, <1>7 DEF IInv, OwnInv, WaiterOf
<1>12. YoungestInv'
  <2> SUFFICES ASSUME NEW S \in SUBSET Waiting', S # {}
               PROVE  \E g \in S : \A h \in S : g \notin ahead'[h]
    BY DEF YoungestInv
  <2>1. S \in SUBSET Waiting /\ \A h \in S : ahead'[h] = ahead[h] \ {f}
    BY <1>5, <1>6, <1>7
  <2>2. PICK g \in S : \A h \in S : g \notin ahead[h]
    BY <2>1 DEF IInv, YoungestInv
  <2> QED BY <2>1, <2>2
<1>13. /\ ahead' \in [Futures -> SUBSET Futures]
       /\ need' \in [Futures -> Nat] /\ demand' \in Nat
       /\ F!OrderInv' /\ F!SumInv'
  <2>1. /\ F!Line = Waiting /\ F!TypeOK
        /\ \A i \in Futures : F!InLine(i) <=> i \in Waiting
    BY ImageFacts DEF IInv
  <2>2. \A i \in Futures : F!InLine(i)' <=> i \in Waiting'
    BY LineFactsNext
  <2>3. \A g \in Futures : F!InLine(g)' <=> F!InLine(g) /\ g # f
    BY <1>5, <2>1, <2>2
  <2>4. f \in F!Line /\ F!OrderInv /\ F!SumInv
    BY <2>1 DEF IInv
  <2>5. F!Leave(f)
    BY DEF Leave, F!Leave
  <2> QED BY <2>1, <2>3, <2>4, <2>5, F!LeaveKeeps, SemaphoreAssumption
<1>14. TypeOK'
  BY <1>4, <1>10, <1>13 DEF IInv, TypeOK, InnerOK
<1> QED BY <1>8, <1>9, <1>10, <1>11, <1>12, <1>13, <1>14 DEF IInv

LEMMA PollGrantedIInv ==
  ASSUME IInv, NEW f \in Futures, PollGranted(f)
  PROVE  IInv'
<1>1. f \in Waiting /\ key[f] \in DOMAIN inner.waiters
  BY ListFacts DEF PollGranted, Waiting
<1>2. PICK in :
        in = [inner EXCEPT !.permits = @ - inner.waiters[key[f]].required]
  OBVIOUS
<1>3. /\ DOMAIN in = DOMAIN inner /\ in.waiters = inner.waiters
      /\ in.head = inner.head /\ in.tail = inner.tail
      /\ in.permits = inner.permits - inner.waiters[key[f]].required
  BY <1>2 DEF IInv, TypeOK
<1>4. in.permits \in 0 .. MaxPermits
  <2>1. inner.waiters[key[f]] \in Waiter
    BY <1>1 DEF IInv, TypeOK
  <2>2. /\ inner.waiters[key[f]].required \in Nat
        /\ inner.permits \in Nat /\ inner.permits <= MaxPermits
        /\ inner.permits >= inner.waiters[key[f]].required
    BY <2>1, SemaphoreAssumption DEF Waiter, PollGranted, IInv, TypeOK
  <2> QED BY <1>3, <2>2, SemaphoreAssumption
<1>5. InnerOK(in)
  BY <1>3, <1>4, ListFacts DEF InnerOK
<1>6. inner' = WakeWaiters(Remove(in, key[f]))
  BY <1>2 DEF PollGranted
<1>7. /\ state' \in [Futures -> {"Idle", "Waiting", "Done"}]
      /\ state'[f] # "Waiting"
      /\ \A g \in Futures \ {f} : state'[g] = state[g]
      /\ key' = [key EXCEPT ![f] = None]
      /\ amount' \in [Futures -> 0 .. MaxPermits]
      /\ \A g \in Futures \ {f} : amount'[g] = amount[g]
      /\ poller' = [poller EXCEPT ![f] = None]
      /\ SendSignals
      /\ Leave(f)
  BY DEF PollGranted, IInv, TypeOK
<1> QED BY <1>1, <1>3, <1>5, <1>6, <1>7, LeaveIInv

LEMMA DropAcquireIInv ==
  ASSUME IInv, NEW f \in Futures, DropAcquire(f)
  PROVE  IInv'
<1>1. f \in Waiting
  BY DEF DropAcquire, Waiting
<1>2. PICK in : in = inner
  OBVIOUS
<1>3. /\ InnerOK(in) /\ in.waiters = inner.waiters
      /\ in.head = inner.head /\ in.tail = inner.tail
      /\ inner' = WakeWaiters(Remove(in, key[f]))
  BY <1>2, ListFacts DEF DropAcquire
<1>4. /\ state' \in [Futures -> {"Idle", "Waiting", "Done"}]
      /\ state'[f] # "Waiting"
      /\ \A g \in Futures \ {f} : state'[g] = state[g]
      /\ key' = [key EXCEPT ![f] = None]
      /\ amount' \in [Futures -> 0 .. MaxPermits]
      /\ \A g \in Futures \ {f} : amount'[g] = amount[g]
      /\ poller' = [poller EXCEPT ![f] = None]
      /\ SendSignals
      /\ Leave(f)
  BY SemaphoreAssumption DEF DropAcquire, IInv, TypeOK
<1> QED BY <1>1, <1>3, <1>4, LeaveIInv

-----------------------------------------------------------------------------
LEMMA NextIInv == IInv /\ [Next]_vars => IInv'
<1> SUFFICES ASSUME IInv, [Next]_vars PROVE IInv'
  OBVIOUS
<1>1. CASE Next
  BY <1>1, AcquireNowIInv, AcquireLaterIInv, PollUngrantedIInv,
     PollGrantedIInv, DropAcquireIInv, DropPermitIInv, ForgetPermitIInv,
     AddPermitsIInv DEF Next
<1>2. CASE UNCHANGED vars
  <2>1. UNCHANGED <<inner, state, key, amount, poller, signal, ahead, need, demand>>
    BY <1>2 DEF vars, slotVars, lineVars
  <2>2. TypeOK'
    BY <2>1 DEF IInv, TypeOK
  <2>3. Waiting' = Waiting
    BY <2>1 DEF Waiting
  <2>4. /\ LinkInv' /\ ListSound' /\ YoungestInv'
        /\ F!OrderInv' /\ F!SumInv'
    BY <2>1, <2>2, <2>3, StayKeeps DEF lineVars
  <2> QED BY <2>1, <2>2, <2>3, <2>4
          DEF IInv, KeyInv, OwnInv, GrantSignalled, WaiterOf
<1> QED BY <1>1, <1>2

-----------------------------------------------------------------------------
(* Refinement: what each action is in the abstract semaphore               *)

LEMMA LoopReachesNext ==
  IInv' => \A in : SameLinks(in)' =>
             \A f \in Waiting' :
               key'[f] \in Reached(in) <=> need'[f] <= inner'.permits
<1>1. (IInv => \A in : SameLinks(in) =>
                 \A f \in Waiting :
                   key[f] \in Reached(in) <=> need[f] <= inner.permits)'
  BY LoopReaches, PTL
<1> QED BY <1>1

\* Inner::wake grants those whose turn has come, and nobody else.
LEMMA WakeGrants ==
  ASSUME IInv', NEW in, InnerOK(in), inner' = WakeWaiters(in)
  PROVE  \A f \in Waiting' :
           /\ key'[f] \in DOMAIN in.waiters
           /\ inner'.waiters[key'[f]].woke <=>
                in.waiters[key'[f]].woke \/ need'[f] <= inner'.permits
<1>1. /\ inner'.permits = in.permits /\ inner'.tail = in.tail
      /\ DOMAIN inner'.waiters = DOMAIN in.waiters
      /\ \A k \in DOMAIN in.waiters :
           /\ inner'.waiters[k].prev = in.waiters[k].prev
           /\ inner'.waiters[k].required = in.waiters[k].required
           /\ inner'.waiters[k].woke <=> in.waiters[k].woke \/ k \in Reached(in)
  BY WakeFacts
<1>2. SameLinks(in)'
  BY <1>1 DEF SameLinks
<1>3. \A f \in Waiting' : key'[f] \in Reached(in) <=> need'[f] <= inner'.permits
  BY <1>2, LoopReachesNext
<1>4. \A f \in Waiting' : key'[f] \in DOMAIN inner'.waiters
  BY DEF IInv, ListSound
<1> QED BY <1>1, <1>3, <1>4

LEMMA PhaseFacts ==
  ASSUME NEW f \in Futures
  PROVE  /\ state[f] = "Idle" => Phase[f] = "idle"
         /\ state[f] = "Done" => Phase[f] = "holding"
         /\ f \in Waiting /\ inner.waiters[key[f]].woke => Phase[f] = "granted"
         /\ f \in Waiting /\ ~inner.waiters[key[f]].woke => Phase[f] = "waiting"
         /\ state'[f] = "Idle" => Phase'[f] = "idle"
         /\ state'[f] = "Done" => Phase'[f] = "holding"
         /\ f \in Waiting' /\ inner'.waiters[key'[f]].woke => Phase'[f] = "granted"
         /\ f \in Waiting' /\ ~inner'.waiters[key'[f]].woke => Phase'[f] = "waiting"
  BY DEF Phase, Waiting, WaiterOf

\* A step after which Inner::wake runs is a Grant of the abstract semaphore.
\* `ph' are the phases before the grant.
LEMMA WakeIsGrant ==
  ASSUME IInv, IInv', NEW in, InnerOK(in), inner' = WakeWaiters(in),
         NEW ph \in [Futures -> {"idle", "waiting", "granted", "holding"}],
         Waiting' \subseteq Waiting,
         \A f \in Waiting' :
           /\ key'[f] = key[f] /\ ph[f] = Phase[f]
           /\ in.waiters[key[f]].woke = inner.waiters[key[f]].woke,
         \A f \in Futures \ Waiting' :
           ph[f] = IF state'[f] = "Idle" THEN "idle" ELSE "holding"
  PROVE  F!Grant(ph)
<1>1. ASSUME NEW f \in Waiting'
      PROVE  Phase'[f] = IF ph[f] = "waiting" /\ need'[f] <= inner'.permits
                           THEN "granted" ELSE ph[f]
  <2>1. f \in Futures /\ f \in Waiting
    BY DEF Waiting
  <2>2. inner'.waiters[key'[f]].woke <=>
          inner.waiters[key[f]].woke \/ need'[f] <= inner'.permits
    BY WakeGrants
  <2>3. CASE inner.waiters[key[f]].woke
    BY <2>1, <2>2, <2>3, PhaseFacts
  <2>4. CASE ~inner.waiters[key[f]].woke
    BY <2>1, <2>2, <2>4, PhaseFacts
  <2> QED BY <2>3, <2>4
<1>2. ASSUME NEW f \in Futures \ Waiting'
      PROVE  Phase'[f] = ph[f] /\ ph[f] # "waiting"
  <2>1. state'[f] \in {"Idle", "Done"}
    BY DEF IInv, TypeOK, Waiting
  <2> QED BY <2>1, PhaseFacts
<1>3. \A f \in Futures :
        Phase'[f] = IF ph[f] = "waiting" /\ need'[f] <= inner'.permits
                      THEN "granted" ELSE ph[f]
  BY <1>1, <1>2
<1>4. Phase' = [f \in Futures |-> Phase'[f]]
  BY DEF Phase
<1> QED BY <1>3, <1>4 DEF F!Grant

\* The steps that do not call Inner::wake leave the phases of the others alone.
LEMMA PhaseStays ==
  ASSUME IInv, NEW f \in Futures,
         \A g \in Futures \ {f} : state'[g] = state[g] /\ key'[g] = key[g],
         \A g \in Waiting \ {f} :
           inner'.waiters[key[g]].woke = inner.waiters[key[g]].woke
  PROVE  Phase' = [Phase EXCEPT ![f] = Phase'[f]]
<1>1. ASSUME NEW g \in Futures \ {f} PROVE Phase'[g] = Phase[g]
  <2>1. CASE state[g] = "Waiting"
    BY <2>1 DEF Phase, WaiterOf, Waiting
  <2>2. CASE state[g] # "Waiting"
    <3>1. state[g] \in {"Idle", "Done"}
      BY <2>2 DEF IInv, TypeOK
    <3> QED BY <3>1 DEF Phase
  <2> QED BY <2>1, <2>2
<1>2. /\ Phase' = [g \in Futures |-> Phase'[g]]
      /\ Phase = [g \in Futures |-> Phase[g]]
  BY DEF Phase
<1> QED BY <1>1, <1>2

LEMMA CanAcquireImage ==
  ASSUME IInv, NEW n
  PROVE  CanAcquire(inner, n) <=> F!CanAcquire(n)
<1>1. F!Line = Waiting
  BY ImageFacts DEF IInv
<1>2. {key[f] : f \in Waiting} = DOMAIN inner.waiters
  BY DEF IInv, ListSound
<1>3. DOMAIN inner.waiters = {} <=> Waiting = {}
  BY <1>2
<1> QED BY <1>1, <1>3 DEF CanAcquire, F!CanAcquire

LEMMA AcquireNowRefines ==
  ASSUME IInv, NEW f \in Futures, NEW n \in 0 .. MaxPermits, AcquireNow(f, n)
  PROVE  F!Acquire(f, n)
<1>1. /\ inner'.permits = inner.permits - n
      /\ inner'.waiters = inner.waiters
      /\ state[f] = "Idle" /\ state'[f] = "Done"
      /\ \A g \in Futures \ {f} : state'[g] = state[g] /\ key'[g] = key[g]
      /\ amount' = [amount EXCEPT ![f] = n]
      /\ UNCHANGED <<ahead, need, demand>>
      /\ CanAcquire(inner, n)
  BY DEF AcquireNow, IInv, TypeOK, lineVars
<1>2. Phase' = [Phase EXCEPT ![f] = Phase'[f]]
  BY <1>1, PhaseStays
<1>3. Phase[f] = "idle" /\ Phase'[f] = "holding"
  BY <1>1, PhaseFacts
<1>4. F!CanAcquire(n)
  BY <1>1, CanAcquireImage
<1> QED BY <1>1, <1>2, <1>3, <1>4 DEF F!Acquire

LEMMA AcquireLaterRefines ==
  ASSUME IInv, IInv', NEW f \in Futures, NEW n \in 0 .. MaxPermits,
         NEW task \in Tasks, AcquireLater(f, n, task)
  PROVE  F!Enqueue(f, n)
<1>1. PICK k \in Keys \ DOMAIN inner.waiters :
        inner' = AddWaiter(inner, k, task, n) /\ key' = [key EXCEPT ![f] = k]
  BY DEF AcquireLater
<1>2. /\ inner'.permits = inner.permits
      /\ ~inner'.waiters[k].woke
      /\ \A j \in DOMAIN inner.waiters :
           inner'.waiters[j].woke = inner.waiters[j].woke
  <2>1. InnerOK(inner)
    BY ListFacts
  <2> QED BY <1>1, <2>1, AddFacts
<1>3. /\ state[f] = "Idle" /\ state'[f] = "Waiting" /\ key'[f] = k
      /\ \A g \in Futures \ {f} : state'[g] = state[g] /\ key'[g] = key[g]
      /\ amount' = [amount EXCEPT ![f] = n]
      /\ ahead' = [ahead EXCEPT ![f] = Waiting]
      /\ need' = [need EXCEPT ![f] = demand + n]
      /\ demand' = demand + n
      /\ ~CanAcquire(inner, n)
  BY <1>1 DEF AcquireLater, Join, IInv, TypeOK
<1>4. Phase' = [Phase EXCEPT ![f] = Phase'[f]]
  <2>1. \A g \in Waiting : key[g] \in DOMAIN inner.waiters
    BY ListFacts
  <2> QED BY <1>2, <1>3, <2>1, PhaseStays
<1>5. Phase[f] = "idle" /\ Phase'[f] = "waiting"
  BY <1>2, <1>3, PhaseFacts DEF Waiting
<1>6. ~F!CanAcquire(n) /\ F!Line = Waiting
  BY <1>3, CanAcquireImage, ImageFacts DEF IInv
<1> QED BY <1>2, <1>3, <1>4, <1>5, <1>6 DEF F!Enqueue

LEMMA PollUngrantedRefines ==
  ASSUME IInv, NEW f \in Futures, NEW task \in Tasks, PollUngranted(f, task)
  PROVE  UNCHANGED F!vars
<1>1. f \in Waiting /\ key[f] \in DOMAIN inner.waiters
  BY ListFacts DEF PollUngranted, Waiting
<1>2. /\ inner'.permits = inner.permits
      /\ inner'.waiters = [inner.waiters EXCEPT ![key[f]].waker = task]
      /\ UNCHANGED <<state, key, amount, ahead, need, demand>>
  BY DEF PollUngranted, IInv, TypeOK, slotVars, lineVars
<1>3. ASSUME NEW k \in DOMAIN inner.waiters
      PROVE  inner'.waiters[k].woke = inner.waiters[k].woke
  <2>1. inner.waiters[k] \in Waiter
    BY DEF IInv, TypeOK
  <2>2. inner'.waiters[k] = IF k = key[f] THEN [inner.waiters[k] EXCEPT !.waker = task]
                                          ELSE inner.waiters[k]
    BY <1>2
  <2> QED BY <2>1, <2>2 DEF Waiter
<1>4. \A g \in Waiting : key[g] \in DOMAIN inner.waiters
  BY ListFacts
<1>5. Phase' = [Phase EXCEPT ![f] = Phase'[f]]
  BY <1>2, <1>3, <1>4, PhaseStays
<1>6. Phase'[f] = Phase[f]
  BY <1>1, <1>2, <1>3 DEF Phase, WaiterOf
<1>7. Phase' = Phase
  BY <1>5, <1>6 DEF Phase
<1> QED BY <1>2, <1>7 DEF F!vars

\* A waiter leaves the list for the state `s' and the abstract phase `p'.
LEMMA LeaveIsGrant ==
  ASSUME IInv, IInv', NEW f \in Waiting,
         NEW in, InnerOK(in), in.waiters = inner.waiters,
         in.head = inner.head, in.tail = inner.tail,
         inner' = WakeWaiters(Remove(in, key[f])),
         \A g \in Futures \ {f} : state'[g] = state[g] /\ key'[g] = key[g],
         NEW p, \/ state'[f] = "Idle" /\ p = "idle"
                \/ state'[f] = "Done" /\ p = "holding"
  PROVE  /\ F!Grant([Phase EXCEPT ![f] = p])
         /\ inner'.permits = in.permits
<1>1. /\ f \in Futures /\ key[f] \in DOMAIN inner.waiters
      /\ WaiterOf(f).next \in (DOMAIN inner.waiters \ {key[f]}) \union {None}
      /\ WaiterOf(f).prev \in (DOMAIN inner.waiters \ {key[f]}) \union {None}
      /\ inner.head = key[f] => WaiterOf(f).prev = None
      /\ inner.tail = key[f] => WaiterOf(f).next = None
  BY ListFacts DEF Waiting
<1>2. PICK k, mid, ph : /\ k = key[f] /\ mid = Remove(in, key[f])
                        /\ ph = [Phase EXCEPT ![f] = p]
  OBVIOUS
<1>3. /\ InnerOK(mid) /\ mid.permits = in.permits
      /\ \A j \in DOMAIN inner.waiters \ {key[f]} :
           mid.waiters[j].woke = inner.waiters[j].woke
  <2>1. /\ k \in DOMAIN in.waiters /\ mid = Remove(in, k)
        /\ {in.waiters[k].next, in.waiters[k].prev} \subseteq
             (DOMAIN in.waiters \ {k}) \union {None}
        /\ in.head = k => in.waiters[k].prev = None
        /\ in.tail = k => in.waiters[k].next = None
    BY <1>1, <1>2 DEF WaiterOf
  <2> QED BY <1>2, <2>1, RemoveFacts
<1>4. inner' = WakeWaiters(mid) /\ inner'.permits = mid.permits
  BY <1>2, <1>3, WakeFacts
<1>5. Waiting' = Waiting \ {f} /\ Waiting \subseteq Futures
  BY DEF Waiting
<1>6. \A g \in Waiting \ {f} : key[g] \in DOMAIN inner.waiters \ {key[f]}
  BY ListFacts DEF IInv, ListSound
<1>7. Phase \in [Futures -> {"idle", "waiting", "granted", "holding"}]
  BY LineFacts DEF IInv, TypeOK, F!Phases
<1>8. /\ ph \in [Futures -> {"idle", "waiting", "granted", "holding"}]
      /\ ph[f] = p /\ \A g \in Futures \ {f} : ph[g] = Phase[g]
  BY <1>1, <1>2, <1>7
<1>9. ASSUME NEW g \in Futures \ Waiting'
      PROVE  ph[g] = IF state'[g] = "Idle" THEN "idle" ELSE "holding"
  <2>1. CASE g = f
    BY <1>8, <2>1
  <2>2. CASE g # f
    <3>1. state[g] \in {"Idle", "Done"} /\ state'[g] = state[g]
      BY <1>5, <2>2 DEF IInv, TypeOK, Waiting
    <3> QED BY <1>8, <2>2, <3>1, PhaseFacts
  <2> QED BY <2>1, <2>2
<1>10. \A g \in Waiting' :
         /\ key'[g] = key[g] /\ ph[g] = Phase[g]
         /\ mid.waiters[key[g]].woke = inner.waiters[key[g]].woke
  BY <1>3, <1>5, <1>6, <1>8
<1>11. F!Grant(ph)
  BY <1>3, <1>4, <1>5, <1>8, <1>9, <1>10, WakeIsGrant
<1> QED BY <1>2, <1>3, <1>4, <1>11

LEMMA PollGrantedRefines ==
  ASSUME IInv, IInv', NEW f \in Futures, PollGranted(f)
  PROVE  F!Take(f)
<1>1. f \in Waiting /\ key[f] \in DOMAIN inner.waiters
  BY ListFacts DEF PollGranted, Waiting
<1>2. PICK in :
        in = [inner EXCEPT !.permits = @ - inner.waiters[key[f]].required]
  OBVIOUS
<1>3. inner.waiters[key[f]].required = amount[f]
  BY <1>1 DEF IInv, OwnInv, WaiterOf
<1>4. /\ DOMAIN in = DOMAIN inner /\ in.waiters = inner.waiters
      /\ in.head = inner.head /\ in.tail = inner.tail
      /\ in.permits = inner.permits - amount[f]
  BY <1>2, <1>3 DEF IInv, TypeOK
<1>5. in.permits \in 0 .. MaxPermits
  <2>1. /\ amount[f] \in Nat
        /\ inner.permits \in Nat /\ inner.permits <= MaxPermits
        /\ inner.permits >= amount[f]
    BY <1>3, SemaphoreAssumption DEF PollGranted, IInv, TypeOK
  <2> QED BY <1>4, <2>1, SemaphoreAssumption
<1>6. InnerOK(in)
  BY <1>4, <1>5, ListFacts DEF InnerOK
<1>7. /\ inner' = WakeWaiters(Remove(in, key[f]))
      /\ state'[f] = "Done"
      /\ \A g \in Futures \ {f} : state'[g] = state[g] /\ key'[g] = key[g]
      /\ amount' = amount /\ Leave(f)
      /\ inner.waiters[key[f]].woke
  BY <1>2 DEF PollGranted, IInv, TypeOK
<1>8. /\ F!Grant([Phase EXCEPT ![f] = "holding"])
      /\ inner'.permits = in.permits
  BY <1>1, <1>4, <1>6, <1>7, LeaveIsGrant
<1>9. Phase[f] = "granted"
  BY <1>1, <1>7, PhaseFacts
<1>10. F!Leave(f)
  BY <1>7 DEF Leave, F!Leave
<1> QED BY <1>4, <1>7, <1>8, <1>9, <1>10 DEF F!Take

LEMMA DropAcquireRefines ==
  ASSUME IInv, IInv', NEW f \in Futures, DropAcquire(f)
  PROVE  F!Cancel(f)
<1>1. f \in Waiting
  BY DEF DropAcquire, Waiting
<1>2. PICK in : in = inner
  OBVIOUS
<1>3. /\ InnerOK(in) /\ in.waiters = inner.waiters
      /\ in.head = inner.head /\ in.tail = inner.tail
      /\ inner' = WakeWaiters(Remove(in, key[f]))
  BY <1>2, ListFacts DEF DropAcquire
<1>4. /\ state'[f] = "Idle"
      /\ \A g \in Futures \ {f} : state'[g] = state[g] /\ key'[g] = key[g]
      /\ amount' = [amount EXCEPT ![f] = 0] /\ Leave(f)
  BY DEF DropAcquire, IInv, TypeOK
<1>5. /\ F!Grant([Phase EXCEPT ![f] = "idle"])
      /\ inner'.permits = inner.permits
  BY <1>1, <1>2, <1>3, <1>4, LeaveIsGrant
<1>6. F!Leave(f)
  BY <1>4 DEF Leave, F!Leave
<1>7. F!InLine(f)
  BY <1>1, ImageFacts DEF IInv
<1> QED BY <1>4, <1>5, <1>6, <1>7 DEF F!Cancel

\* Without a wrap-around, permits that are added or dropped are those of Add
\* and Release.
LEMMA AddPermitsRefines ==
  ASSUME OverflowChecks, IInv, IInv', NEW n \in 1 .. MaxPermits, AddPermits(n)
  PROVE  F!Add(n)
<1>1. /\ n \in Nat /\ inner.permits \in Nat /\ MaxPermits \in Nat
      /\ inner.permits + n <= MaxPermits
  <2>1. n \in Nat /\ inner.permits \in Nat /\ MaxPermits \in Nat
    BY SemaphoreAssumption DEF IInv, TypeOK
  <2> QED BY <2>1 DEF AddPermits, Overflows
<1>2. PICK in : in = Added(n)
  OBVIOUS
<1>3. /\ InnerOK(in) /\ in.waiters = inner.waiters
      /\ in.permits = inner.permits + n
  <2>1. ~Overflows(n)
    BY <1>1 DEF Overflows
  <2> QED BY <1>1, <1>2, <2>1, AddedFacts
<1>4. /\ inner' = WakeWaiters(in)
      /\ UNCHANGED <<state, key, amount, ahead, need, demand>>
  BY <1>2 DEF AddPermits, slotVars, lineVars
<1>5. inner'.permits = inner.permits + n
  BY <1>3, <1>4, WakeFacts
<1>6. PICK ph : ph = Phase
  OBVIOUS
<1>7. ph \in [Futures -> {"idle", "waiting", "granted", "holding"}]
  BY <1>6, LineFacts DEF IInv, TypeOK, F!Phases
<1>8. Waiting' = Waiting
  BY <1>4 DEF Waiting
<1>9. ASSUME NEW g \in Futures \ Waiting'
      PROVE  ph[g] = IF state'[g] = "Idle" THEN "idle" ELSE "holding"
  <2>1. state[g] \in {"Idle", "Done"} /\ state'[g] = state[g]
    BY <1>4, <1>8 DEF IInv, TypeOK, Waiting
  <2> QED BY <1>6, <2>1, PhaseFacts
<1>10. \A g \in Waiting' :
         /\ key'[g] = key[g] /\ ph[g] = Phase[g]
         /\ in.waiters[key[g]].woke = inner.waiters[key[g]].woke
  BY <1>3, <1>4, <1>6
<1>11. F!Grant(ph)
  BY <1>3, <1>4, <1>7, <1>8, <1>9, <1>10, WakeIsGrant
<1> QED BY <1>1, <1>4, <1>5, <1>6, <1>11 DEF F!Add

\* A permit whose drop gives nothing back, because it is empty or the pool
\* would overflow, is forgotten.
LEMMA DropPermitRefines ==
  ASSUME OverflowChecks, IInv, IInv', NEW f \in Futures, DropPermit(f)
  PROVE  F!Release(f) \/ F!Forget(f)
<1>1. /\ state[f] = "Done" /\ state'[f] = "Idle"
      /\ \A g \in Futures \ {f} : state'[g] = state[g] /\ key'[g] = key[g]
      /\ amount' = [amount EXCEPT ![f] = 0]
      /\ UNCHANGED <<key, ahead, need, demand>>
  BY DEF DropPermit, IInv, TypeOK, lineVars
<1>2. Phase[f] = "holding" /\ Phase'[f] = "idle"
  BY <1>1, PhaseFacts
<1>3. CASE inner' = inner
  <2>1. Phase' = [Phase EXCEPT ![f] = Phase'[f]]
    BY <1>1, <1>3, PhaseStays
  <2> QED BY <1>1, <1>2, <1>3, <2>1 DEF F!Forget
<1>4. CASE ~Overflows(amount[f]) /\ inner' = WakeWaiters(Added(amount[f]))
  <2>1. /\ amount[f] \in Nat /\ inner.permits \in Nat /\ MaxPermits \in Nat
    BY SemaphoreAssumption DEF IInv, TypeOK
  <2>2. inner.permits + amount[f] <= MaxPermits
    BY <1>4, <2>1 DEF Overflows
  <2>3. PICK in, ph : /\ in = Added(amount[f])
                      /\ ph = [Phase EXCEPT ![f] = "idle"]
    OBVIOUS
  <2>4. /\ InnerOK(in) /\ in.waiters = inner.waiters
        /\ in.permits = inner.permits + amount[f]
        /\ inner' = WakeWaiters(in)
    BY <1>4, <2>1, <2>3, AddedFacts
  <2>5. inner'.permits = inner.permits + amount[f]
    BY <2>4, WakeFacts
  <2>6. Phase \in [Futures -> {"idle", "waiting", "granted", "holding"}]
    BY LineFacts DEF IInv, TypeOK, F!Phases
  <2>7. /\ ph \in [Futures -> {"idle", "waiting", "granted", "holding"}]
        /\ ph[f] = "idle" /\ \A g \in Futures \ {f} : ph[g] = Phase[g]
    BY <2>3, <2>6
  <2>8. Waiting' = Waiting /\ f \notin Waiting /\ Waiting \subseteq Futures
    BY <1>1 DEF Waiting
  <2>9. ASSUME NEW g \in Futures \ Waiting'
        PROVE  ph[g] = IF state'[g] = "Idle" THEN "idle" ELSE "holding"
    <3>1. CASE g = f
      BY <1>1, <2>7, <3>1
    <3>2. CASE g # f
      <4>1. state[g] \in {"Idle", "Done"} /\ state'[g] = state[g]
        BY <1>1, <2>8, <3>2 DEF IInv, TypeOK, Waiting
      <4> QED BY <2>7, <3>2, <4>1, PhaseFacts
    <3> QED BY <3>1, <3>2
  <2>10. \A g \in Waiting' :
           /\ key'[g] = key[g] /\ ph[g] = Phase[g]
           /\ in.waiters[key[g]].woke = inner.waiters[key[g]].woke
    BY <1>1, <2>4, <2>7, <2>8
  <2>11. F!Grant(ph)
    BY <2>4, <2>7, <2>8, <2>9, <2>10, WakeIsGrant
  <2> QED BY <1>1, <1>2, <2>2, <2>3, <2>5, <2>11 DEF F!Release
<1> QED BY <1>3, <1>4 DEF DropPermit

LEMMA ForgetPermitRefines ==
  ASSUME IInv, NEW f \in Futures, ForgetPermit(f)
  PROVE  F!Forget(f)
<1>1. /\ state[f] = "Done" /\ state'[f] = "Idle"
      /\ \A g \in Futures \ {f} : state'[g] = state[g] /\ key'[g] = key[g]
      /\ amount' = [amount EXCEPT ![f] = 0]
      /\ UNCHANGED <<inner, key, ahead, need, demand>>
  BY DEF ForgetPermit, IInv, TypeOK, lineVars
<1>2. Phase[f] = "holding" /\ Phase'[f] = "idle"
  BY <1>1, PhaseFacts
<1>3. Phase' = [Phase EXCEPT ![f] = Phase'[f]]
  BY <1>1, PhaseStays
<1> QED BY <1>1, <1>2, <1>3 DEF F!Forget

LEMMA InitRefines == Init => F!Init
<1> SUFFICES ASSUME Init PROVE F!Init
  OBVIOUS
<1>1. inner.permits \in 0 .. MaxPermits
  BY DEF Init
<1>2. Phase = [f \in Futures |-> "idle"]
  BY DEF Init, Phase
<1> QED BY <1>1, <1>2 DEF Init, F!Init

LEMMA NextRefines ==
  OverflowChecks /\ IInv /\ [Next]_vars => [F!Next]_(F!vars)
<1> SUFFICES ASSUME OverflowChecks, IInv, [Next]_vars PROVE [F!Next]_(F!vars)
  OBVIOUS
<1>1. IInv'
  BY NextIInv
<1>2. CASE Next
  <2>1. ASSUME NEW f \in Futures, NEW n \in 0 .. MaxPermits, AcquireNow(f, n)
        PROVE  F!Next
    BY <2>1, AcquireNowRefines DEF F!Next
  <2>2. ASSUME NEW f \in Futures, NEW n \in 0 .. MaxPermits,
               NEW task \in Tasks, AcquireLater(f, n, task)
        PROVE  F!Next
    BY <1>1, <2>2, AcquireLaterRefines DEF F!Next
  <2>3. ASSUME NEW f \in Futures, NEW task \in Tasks, PollUngranted(f, task)
        PROVE  UNCHANGED F!vars
    BY <2>3, PollUngrantedRefines
  <2>4. ASSUME NEW f \in Futures, PollGranted(f) PROVE F!Next
    BY <1>1, <2>4, PollGrantedRefines DEF F!Next
  <2>5. ASSUME NEW f \in Futures, DropAcquire(f) PROVE F!Next
    BY <1>1, <2>5, DropAcquireRefines DEF F!Next
  <2>6. ASSUME NEW f \in Futures, DropPermit(f) PROVE F!Next
    BY <1>1, <2>6, DropPermitRefines DEF F!Next
  <2>7. ASSUME NEW f \in Futures, ForgetPermit(f) PROVE F!Next
    BY <2>7, ForgetPermitRefines DEF F!Next
  <2>8. ASSUME NEW n \in 1 .. MaxPermits, AddPermits(n) PROVE F!Next
    BY <1>1, <2>8, AddPermitsRefines DEF F!Next
  <2> QED BY <1>2, <2>1, <2>2, <2>3, <2>4, <2>5, <2>6, <2>7, <2>8 DEF Next
<1>3. CASE UNCHANGED vars
  <2>1. UNCHANGED <<inner, state, key, amount, ahead, need, demand>>
    BY <1>3 DEF vars, slotVars, lineVars
  <2>2. Phase' = Phase
    BY <2>1 DEF Phase, WaiterOf
  <2> QED BY <2>1, <2>2 DEF F!vars
<1> QED BY <1>2, <1>3

\* The image that the proofs use is the one that the runs check.
LEMMA SameImage == F!Spec => Fifo!Spec
<1>1. F!Init => Fifo!Init
  BY DEF F!Init, Fifo!Init
<1>2. F!vars = Fifo!vars
  BY DEF F!vars, Fifo!vars
<1>3. F!Next => Fifo!Next
  BY DEF F!Next, Fifo!Next, F!Take, Fifo!Take, F!Leave, Fifo!Leave,
         F!Grant, Fifo!Grant, F!Cancel, Fifo!Cancel, F!Release, Fifo!Release,
         F!Forget, Fifo!Forget, F!Add, Fifo!Add, F!Acquire, Fifo!Acquire,
         F!Enqueue, Fifo!Enqueue, F!CanAcquire, Fifo!CanAcquire,
         F!Line, Fifo!Line, F!InLine, Fifo!InLine
<1>4. (UNCHANGED F!vars) => UNCHANGED Fifo!vars
  BY DEF F!vars, Fifo!vars
<1>5. [F!Next]_(F!vars) => [Fifo!Next]_(Fifo!vars)
  BY <1>3, <1>4
<1> QED BY <1>1, <1>5, PTL DEF F!Spec, Fifo!Spec

-----------------------------------------------------------------------------
(* The theorems                                                            *)

\* The list, the keys and the wakers stay consistent with the line of waiters
\* through every call of acquire, try_acquire, add_permits and every drop, in
\* every build, pools that wrap around included.
THEOREM Invariance == Spec => []IInv
  BY InitIInv, NextIInv, PTL DEF Spec

\* Types: the pool stays within usize, the slab holds waiters, and head and
\* tail are keys that the slab holds.
THEOREM TypeCorrect == Spec => []TypeOK
<1>1. IInv => TypeOK
  BY DEF IInv
<1> QED BY <1>1, Invariance, PTL

\* Inner::add and Inner::remove keep the linked list sound: whoever joins and
\* leaves, in whatever order, the links are the order of arrival, both ways,
\* and the slab holds the waiters of the waiting futures and no other.
THEOREM ListIsTheLine == Spec => []ListSound
<1>1. IInv => ListSound
  BY DEF IInv
<1> QED BY <1>1, Invariance, PTL

\* Inner::wake wakes the task that polled a granted future last, even if the
\* future moved from task to task before (Acquire::poll replaces the waker).
THEOREM GrantsSignalled == Spec => []GrantSignalled
<1>1. IInv => GrantSignalled
  BY DEF IInv
<1> QED BY <1>1, Invariance, PTL

LEMMA ImageSpec == OverflowChecks => (Spec => F!Spec)
<1> SUFFICES ASSUME OverflowChecks PROVE Spec => F!Spec
  OBVIOUS
<1>1. IInv /\ [Next]_vars => [F!Next]_(F!vars)
  BY NextRefines
<1> QED BY <1>1, InitRefines, Invariance, PTL DEF Spec, F!Spec

\* Where `permits += n' does not wrap around, the linked list with its loop in
\* Inner::wake is a fair line: every step of the code is a step of the
\* abstract semaphore or leaves it alone.
THEOREM Refinement == OverflowChecks => (Spec => ImplementsFifo)
  BY ImageSpec, SameImage, PTL DEF ImplementsFifo

\* With the order and the sums of the line, what the abstract semaphore
\* promises are statements about the waiters in the slab.
LEMMA ImageInvariant == OverflowChecks => (Spec => [](IInv /\ F!IInv))
<1> SUFFICES ASSUME OverflowChecks PROVE Spec => [](IInv /\ F!IInv)
  OBVIOUS
<1>1. F!Spec => []F!IInv
  BY F!Invariance, SemaphoreAssumption
<1> QED BY <1>1, ImageSpec, Invariance, PTL

\* The assertion of poll_acquire never fails where `permits += n' does not
\* wrap around: from the grant of a waiter to the poll that takes its permits,
\* whoever else takes, cancels, drops or adds permits, the pool covers it.
THEOREM AssertionNeverFails == OverflowChecks => (Spec => []AssertionHolds)
<1> SUFFICES ASSUME OverflowChecks PROVE Spec => []AssertionHolds
  OBVIOUS
<1>1. ASSUME IInv, F!IInv PROVE AssertionHolds
  <2> SUFFICES ASSUME NEW f \in Waiting, WaiterOf(f).woke
               PROVE  inner.permits >= WaiterOf(f).required
    BY DEF AssertionHolds
  <2>1. f \in Futures /\ Phase[f] = "granted"
    BY PhaseFacts DEF WaiterOf, Waiting
  <2>2. need[f] <= inner.permits
    BY <1>1, <2>1 DEF F!IInv, F!CoverInv
  <2>3. amount[f] <= need[f]
    BY <1>1, SumFacts DEF IInv
  <2>4. /\ amount[f] \in Nat /\ need[f] \in Nat /\ inner.permits \in Nat
        /\ WaiterOf(f).required = amount[f]
    BY <1>1, <2>1, SemaphoreAssumption DEF IInv, TypeOK, OwnInv
  <2> QED BY <2>2, <2>3, <2>4
<1>2. IInv /\ F!IInv => AssertionHolds
  BY <1>1
<1> QED BY <1>2, ImageInvariant, PTL

\* Inner::wake never passes anybody over: a waiter is granted only when all
\* those between it and the tail of the list are.
GrantsInOrder ==
  \A f \in Waiting : \A g \in ahead[f] : WaiterOf(f).woke => WaiterOf(g).woke

THEOREM FirstInFirstOut == OverflowChecks => (Spec => []GrantsInOrder)
<1> SUFFICES ASSUME OverflowChecks PROVE Spec => []GrantsInOrder
  OBVIOUS
<1>1. ASSUME IInv, F!IInv PROVE GrantsInOrder
  <2> SUFFICES ASSUME NEW f \in Waiting, NEW g \in ahead[f], WaiterOf(f).woke
               PROVE  WaiterOf(g).woke
    BY DEF GrantsInOrder
  <2>1. f \in Futures /\ Phase[f] = "granted"
    BY PhaseFacts DEF WaiterOf, Waiting
  <2>2. g \in Waiting
    BY <1>1, OrderFacts DEF IInv
  <2>3. Phase[g] = "granted"
    BY <1>1, <2>1 DEF F!IInv, F!GrantedInOrder
  <2> QED BY <2>2, <2>3, PhaseFacts DEF WaiterOf, Waiting
<1>2. IInv /\ F!IInv => GrantsInOrder
  BY <1>1
<1> QED BY <1>2, ImageInvariant, PTL

\* No permits lie idle in front of a waiter: the one at the tail of the list,
\* which Inner::wake looks at first, is granted or asks for more than there is.
TailServed ==
  inner.tail # None =>
    \/ inner.waiters[inner.tail].woke
    \/ inner.permits < inner.waiters[inner.tail].required

THEOREM NoPermitForgotten == OverflowChecks => (Spec => []TailServed)
<1> SUFFICES ASSUME OverflowChecks PROVE Spec => []TailServed
  OBVIOUS
<1>1. ASSUME IInv, F!IInv, inner.tail # None,
             ~inner.waiters[inner.tail].woke
      PROVE  inner.permits < inner.waiters[inner.tail].required
  <2>1. inner.tail \in DOMAIN inner.waiters
    BY <1>1 DEF IInv, TypeOK
  <2>2. PICK f \in Waiting : key[f] = inner.tail
    BY <1>1, <2>1 DEF IInv, ListSound
  <2>3. ahead[f] = {}
    BY <1>1, <2>2 DEF IInv, ListSound
  <2>4. f \in Futures /\ Phase[f] = "waiting"
    BY <1>1, <2>2, PhaseFacts DEF Waiting
  <2>5. inner.permits < amount[f]
    BY <1>1, <2>3, <2>4 DEF F!IInv, F!FirstServed
  <2>6. inner.waiters[inner.tail].required = amount[f]
    BY <1>1, <2>2 DEF IInv, OwnInv, WaiterOf
  <2> QED BY <2>5, <2>6
<1>2. IInv /\ F!IInv => TailServed
  BY <1>1 DEF TailServed
<1> QED BY <1>2, ImageInvariant, PTL

-----------------------------------------------------------------------------
(* What a step may never do to a future that goes on waiting               *)

\* While it waits it keeps its waiter, nobody gets ahead of it, and Inner::wake
\* never takes a grant back.
LineKept ==
  \A g \in Waiting \cap Waiting' :
    /\ key'[g] = key[g]
    /\ ahead'[g] \subseteq ahead[g]
    /\ inner.waiters[key[g]].woke => inner'.waiters[key[g]].woke

\* Steps that leave the line as it is.
LEMMA StayKept ==
  ASSUME IInv, UNCHANGED <<key, ahead>>,
         \A k \in DOMAIN inner.waiters :
           inner.waiters[k].woke => inner'.waiters[k].woke
  PROVE  LineKept
<1>1. \A g \in Waiting : key[g] \in DOMAIN inner.waiters
  BY ListFacts
<1> QED BY <1>1 DEF LineKept

\* A newcomer joins behind.
LEMMA AcquireLaterKept ==
  ASSUME IInv, NEW f \in Futures, NEW n \in 0 .. MaxPermits,
         NEW task \in Tasks, AcquireLater(f, n, task)
  PROVE  LineKept
<1>1. PICK k \in Keys \ DOMAIN inner.waiters :
        inner' = AddWaiter(inner, k, task, n) /\ key' = [key EXCEPT ![f] = k]
  BY DEF AcquireLater
<1>2. \A j \in DOMAIN inner.waiters :
        inner'.waiters[j].woke = inner.waiters[j].woke
  <2>1. InnerOK(inner)
    BY ListFacts
  <2> QED BY <1>1, <2>1, AddFacts
<1>3. /\ f \notin Waiting
      /\ \A g \in Futures \ {f} : key'[g] = key[g] /\ ahead'[g] = ahead[g]
  BY <1>1 DEF AcquireLater, Join, IInv, TypeOK, Waiting
<1>4. \A g \in Waiting : g \in Futures /\ key[g] \in DOMAIN inner.waiters
  BY ListFacts DEF Waiting
<1> QED BY <1>2, <1>3, <1>4 DEF LineKept

\* Somebody leaves, from wherever in the line.
LEMMA LeaveKept ==
  ASSUME IInv, NEW f \in Waiting,
         NEW in, InnerOK(in), in.waiters = inner.waiters,
         in.head = inner.head, in.tail = inner.tail,
         inner' = WakeWaiters(Remove(in, key[f])),
         key' = [key EXCEPT ![f] = None], f \notin Waiting', Leave(f)
  PROVE  LineKept
<1>1. /\ f \in Futures /\ key[f] \in DOMAIN inner.waiters
      /\ WaiterOf(f).next \in (DOMAIN inner.waiters \ {key[f]}) \union {None}
      /\ WaiterOf(f).prev \in (DOMAIN inner.waiters \ {key[f]}) \union {None}
      /\ inner.head = key[f] => WaiterOf(f).prev = None
      /\ inner.tail = key[f] => WaiterOf(f).next = None
  BY ListFacts DEF Waiting
<1>2. PICK k, mid : k = key[f] /\ mid = Remove(in, key[f])
  OBVIOUS
<1>3. /\ InnerOK(mid) /\ DOMAIN mid.waiters = DOMAIN inner.waiters \ {key[f]}
      /\ \A j \in DOMAIN inner.waiters \ {key[f]} :
           mid.waiters[j].woke = inner.waiters[j].woke
  <2>1. /\ k \in DOMAIN in.waiters /\ mid = Remove(in, k)
        /\ {in.waiters[k].next, in.waiters[k].prev} \subseteq
             (DOMAIN in.waiters \ {k}) \union {None}
        /\ in.head = k => in.waiters[k].prev = None
        /\ in.tail = k => in.waiters[k].next = None
    BY <1>1, <1>2 DEF WaiterOf
  <2> QED BY <1>2, <2>1, RemoveFacts
<1>4. \A j \in DOMAIN mid.waiters :
        mid.waiters[j].woke => inner'.waiters[j].woke
  BY <1>2, <1>3, WakeFacts
<1>5. \A g \in Waiting \ {f} :
        g \in Futures /\ key[g] \in DOMAIN inner.waiters \ {key[f]}
  BY ListFacts DEF IInv, ListSound, Waiting
<1>6. \A g \in Futures \ {f} : key'[g] = key[g] /\ ahead'[g] \subseteq ahead[g]
  BY DEF Leave, IInv, TypeOK
<1> QED BY <1>3, <1>4, <1>5, <1>6 DEF LineKept

LEMMA NextKept == IInv /\ [Next]_vars => LineKept \/ UNCHANGED vars
<1> SUFFICES ASSUME IInv, Next PROVE LineKept
  OBVIOUS
<1>1. ASSUME NEW f \in Futures, NEW n \in 0 .. MaxPermits, AcquireNow(f, n)
      PROVE  LineKept
  <2>1. inner'.waiters = inner.waiters /\ UNCHANGED <<key, ahead>>
    BY <1>1 DEF AcquireNow, IInv, TypeOK, lineVars
  <2> QED BY <2>1, StayKept
<1>2. ASSUME NEW f \in Futures, NEW task \in Tasks, PollUngranted(f, task)
      PROVE  LineKept
  <2>1. /\ inner'.waiters = [inner.waiters EXCEPT ![key[f]].waker = task]
        /\ UNCHANGED <<key, ahead>>
    BY <1>2 DEF PollUngranted, IInv, TypeOK, slotVars, lineVars
  <2>2. ASSUME NEW k \in DOMAIN inner.waiters
        PROVE  inner'.waiters[k].woke = inner.waiters[k].woke
    <3>1. inner.waiters[k] \in Waiter
      BY DEF IInv, TypeOK
    <3>2. inner'.waiters[k] = IF k = key[f]
                                THEN [inner.waiters[k] EXCEPT !.waker = task]
                                ELSE inner.waiters[k]
      BY <2>1
    <3> QED BY <3>1, <3>2 DEF Waiter
  <2> QED BY <2>1, <2>2, StayKept
<1>3. ASSUME NEW f \in Futures, PollGranted(f) PROVE LineKept
  <2>1. f \in Waiting
    BY <1>3 DEF PollGranted, Waiting
  <2>2. PICK in :
          in = [inner EXCEPT !.permits = @ - inner.waiters[key[f]].required]
    OBVIOUS
  <2>3. /\ DOMAIN in = DOMAIN inner /\ in.waiters = inner.waiters
        /\ in.head = inner.head /\ in.tail = inner.tail
        /\ in.permits = inner.permits - inner.waiters[key[f]].required
    BY <2>2 DEF IInv, TypeOK
  <2>4. in.permits \in 0 .. MaxPermits
    <3>1. inner.waiters[key[f]].required = amount[f]
      BY <2>1 DEF IInv, OwnInv, WaiterOf
    <3>2. /\ amount[f] \in Nat
          /\ inner.permits \in Nat /\ inner.permits <= MaxPermits
          /\ inner.permits >= amount[f]
      BY <1>3, <3>1, SemaphoreAssumption DEF PollGranted, IInv, TypeOK
    <3> QED BY <2>3, <3>1, <3>2, SemaphoreAssumption
  <2>5. InnerOK(in)
    BY <2>3, <2>4, ListFacts DEF InnerOK
  <2>6. /\ inner' = WakeWaiters(Remove(in, key[f]))
        /\ key' = [key EXCEPT ![f] = None] /\ f \notin Waiting' /\ Leave(f)
    BY <1>3, <2>2 DEF PollGranted, Waiting, IInv, TypeOK
  <2> QED BY <2>1, <2>3, <2>5, <2>6, LeaveKept
<1>4. ASSUME NEW f \in Futures, DropAcquire(f) PROVE LineKept
  <2>1. f \in Waiting
    BY <1>4 DEF DropAcquire, Waiting
  <2>2. PICK in : in = inner
    OBVIOUS
  <2>3. /\ InnerOK(in) /\ in.waiters = inner.waiters
        /\ in.head = inner.head /\ in.tail = inner.tail
        /\ inner' = WakeWaiters(Remove(in, key[f]))
    BY <1>4, <2>2, ListFacts DEF DropAcquire
  <2>4. key' = [key EXCEPT ![f] = None] /\ f \notin Waiting' /\ Leave(f)
    BY <1>4 DEF DropAcquire, Waiting, IInv, TypeOK
  <2> QED BY <2>1, <2>3, <2>4, LeaveKept
<1>5. ASSUME NEW n \in Nat, inner' = WakeWaiters(Added(n)),
             UNCHANGED <<key, ahead>>
      PROVE  LineKept
  <2>1. PICK in : in = Added(n)
    OBVIOUS
  <2>2. InnerOK(in) /\ in.waiters = inner.waiters /\ inner' = WakeWaiters(in)
    BY <1>5, <2>1, AddedFacts
  <2>3. \A k \in DOMAIN inner.waiters :
          inner.waiters[k].woke => inner'.waiters[k].woke
    BY <2>2, WakeFacts
  <2> QED BY <1>5, <2>3, StayKept
<1>6. ASSUME NEW f \in Futures, DropPermit(f) PROVE LineKept
  <2>1. amount[f] \in Nat /\ UNCHANGED <<key, ahead>>
    BY <1>6, SemaphoreAssumption DEF DropPermit, IInv, TypeOK, lineVars
  <2>2. CASE inner' = inner
    BY <2>1, <2>2, StayKept
  <2>3. CASE inner' = WakeWaiters(Added(amount[f]))
    BY <1>5, <2>1, <2>3
  <2> QED BY <1>6, <2>2, <2>3 DEF DropPermit
<1>7. ASSUME NEW f \in Futures, ForgetPermit(f) PROVE LineKept
  <2>1. inner' = inner /\ UNCHANGED <<key, ahead>>
    BY <1>7 DEF ForgetPermit, lineVars
  <2> QED BY <2>1, StayKept
<1>8. ASSUME NEW n \in 1 .. MaxPermits, AddPermits(n) PROVE LineKept
  <2>1. n \in Nat /\ UNCHANGED <<key, ahead>> /\ inner' = WakeWaiters(Added(n))
    BY <1>8, SemaphoreAssumption DEF AddPermits, slotVars, lineVars
  <2> QED BY <1>5, <2>1
<1> QED BY <1>1, <1>2, <1>3, <1>4, <1>6, <1>7, <1>8, AcquireLaterKept DEF Next

\* No step of the code moves a waiting future back in the line or revokes its
\* grant: not the arrival, the cancellation or the move of another future, nor
\* an addition that wraps around.
THEOREM LineMovesOn == Spec => [][LineKept]_vars
<1>1. IInv /\ [Next]_vars => [LineKept]_vars
  BY NextKept
<1> QED BY <1>1, Invariance, PTL DEF Spec
=============================================================================
