------------------------ MODULE FifoSemaphoreProofs -------------------------
(***************************************************************************)
(* Proofs about FifoSemaphore, for every number of futures, every size of  *)
(* the requests and every bound of the pool.                               *)
(***************************************************************************)
EXTENDS FifoSemaphore, TLAPS

LEMMA InitIInv == Init => IInv
<1> SUFFICES ASSUME Init PROVE IInv
  OBVIOUS
<1>1. TypeOK
  BY FifoAssumption DEF Init, TypeOK, Phases
<1>2. Line = {}
  BY DEF Init, Line, InLine
<1> QED
  BY <1>1, <1>2 DEF Init, IInv, OrderInv, SumInv, CoverInv, GrantedInOrder,
                    FirstServed, InLine

-----------------------------------------------------------------------------
\* Grant moves some of the waiting futures to granted: the line stays as `ph'
\* has it, and afterwards exactly those that the pool covers are granted.
LEMMA GrantKeeps ==
  ASSUME NEW ph \in [Futures -> Phases],
         Grant(ph),
         avail' \in 0 .. MaxPermits,
         need' \in [Futures -> Nat],
         \A f \in Futures : ph[f] = "granted" => need'[f] <= avail'
  PROVE  /\ phase' \in [Futures -> Phases]
         /\ \A f \in Futures : InLine(f)' <=> ph[f] \in {"waiting", "granted"}
         /\ \A f \in Futures :
              InLine(f)' => (phase'[f] = "granted" <=> need'[f] <= avail')
  BY FifoAssumption DEF Grant, Phases, InLine

\* After every Grant, exactly those that the pool covers are granted.
AllCoveredGranted ==
  \A f \in Line : phase[f] = "granted" <=> need[f] <= avail

\* Then grants are in order and the first of the line is served.
LEMMA CoveredSuffices ==
  TypeOK /\ OrderInv /\ SumInv /\ AllCoveredGranted => IInv
<1> SUFFICES ASSUME TypeOK, OrderInv, SumInv, AllCoveredGranted
             PROVE  IInv
  OBVIOUS
<1> USE DEF AllCoveredGranted
<1>1. CoverInv
  BY DEF CoverInv, Line, InLine
<1>2. GrantedInOrder
  <2> SUFFICES ASSUME NEW f \in Futures, NEW g \in ahead[f],
                      phase[f] = "granted"
               PROVE  phase[g] = "granted"
    BY DEF GrantedInOrder
  <2>1. g \in Line /\ f \in Line /\ g \in Futures
    BY DEF OrderInv, TypeOK, Line, InLine
  <2>2. need[g] + amount[f] <= need[f] /\ need[f] <= avail
    BY <2>1 DEF SumInv
  <2>3. need[g] <= avail
    BY <2>1, <2>2, FifoAssumption DEF TypeOK
  <2> QED BY <2>1, <2>3
<1>3. FirstServed
  BY FifoAssumption DEF FirstServed, SumInv, Line, InLine, TypeOK
<1> QED BY <1>1, <1>2, <1>3 DEF IInv

-----------------------------------------------------------------------------
\* A future leaves the line: the order and the sums of those that remain.
\* `ahead', `need' and `demand' after the step are those of Leave, and the
\* line after the step is the old one without `f'.
LEMMA LeaveKeeps ==
  ASSUME TypeOK, OrderInv, SumInv, NEW f \in Line, Leave(f),
         \A g \in Futures : InLine(g)' <=> InLine(g) /\ g # f,
         \A g \in Futures \ {f} : amount'[g] = amount[g]
  PROVE  /\ ahead' \in [Futures -> SUBSET Futures]
         /\ need' \in [Futures -> Nat]
         /\ demand' \in Nat
         /\ OrderInv'
         /\ SumInv'
         /\ \A g \in Line \ {f} : g \in ahead[f] => need'[g] = need[g]
         /\ \A g \in Line \ {f} : g \notin ahead[f] => need'[g] = need[g] - amount[f]
<1>1. /\ f \in Futures
      /\ Line' = Line \ {f}
      /\ Line \subseteq Futures
  BY DEF Line
<1>2. /\ \A g \in Futures : amount[g] \in Nat /\ need[g] \in Nat
      /\ demand \in Nat
      /\ \A g \in Futures : ahead[g] \subseteq Futures
  BY FifoAssumption DEF TypeOK
<1>3. /\ \A g \in Line \ {f} : ahead'[g] = ahead[g] \ {f}
      /\ \A g \in Futures : ahead'[g] = IF g = f THEN {} ELSE ahead[g] \ {f}
      /\ \A g \in Line \ {f} :
           need'[g] = IF f \in ahead[g] THEN need[g] - amount[f] ELSE need[g]
      /\ demand' = demand - amount[f]
  BY <1>1 DEF Leave
<1>4. /\ \A g \in Line \ {f} : f \in ahead[g] <=> g \notin ahead[f]
      /\ \A g \in Line : ahead[g] \subseteq Line
      /\ \A g \in Line : g \notin ahead[g]
      /\ \A g \in Line : \A h \in ahead[g] : ahead[h] \subseteq ahead[g]
      /\ \A g, h \in Line : g = h \/ g \in ahead[h] \/ h \in ahead[g]
  BY <1>1 DEF OrderInv
<1>5. /\ \A g \in Line : amount[g] <= need[g] /\ need[g] <= demand
      /\ \A g \in Line : \A h \in ahead[g] : need[h] + amount[g] <= need[g]
  BY <1>1 DEF SumInv
<1>6. ahead' \in [Futures -> SUBSET Futures]
  BY <1>1, <1>2 DEF Leave
<1>7. need' \in [Futures -> Nat] /\ demand' \in Nat
  <2>1. \A g \in Futures : f \in ahead[g] => amount[f] <= need[g]
    <3> SUFFICES ASSUME NEW g \in Futures, f \in ahead[g]
                 PROVE  amount[f] <= need[g]
      OBVIOUS
    <3>1. g \in Line
      BY DEF OrderInv, Line
    <3>2. need[f] + amount[g] <= need[g] /\ amount[f] <= need[f]
      BY <1>5, <3>1
    <3> QED BY <1>1, <1>2, <3>2
  <2>2. \A g \in Futures :
          (IF g = f THEN 0
           ELSE IF f \in ahead[g] THEN need[g] - amount[f] ELSE need[g]) \in Nat
    BY <1>1, <1>2, <2>1
  <2>3. need' \in [Futures -> Nat]
    BY <2>2 DEF Leave
  <2>4. amount[f] <= demand
    BY <1>1, <1>2, <1>5
  <2> QED BY <1>1, <1>2, <1>3, <2>3, <2>4
<1>8. OrderInv'
  <2>1. /\ \A g \in Futures : ahead[g] \subseteq Line
        /\ \A g \in Futures : ~InLine(g) => ahead[g] = {}
        /\ \A g \in Futures : g \notin ahead[g]
        /\ \A g, h \in Futures : h \in ahead[g] => ahead[h] \subseteq ahead[g]
    BY DEF OrderInv
  <2>2. ahead'[f] = {} /\ \A g \in Futures \ {f} : ahead'[g] = ahead[g] \ {f}
    BY <1>1, <1>3
  <2> HIDE DEF Line
  <2>3. ASSUME NEW g \in Futures PROVE ahead'[g] \subseteq Line'
    BY <1>1, <2>1, <2>2
  <2>4. ASSUME NEW g \in Futures, ~InLine(g)' PROVE ahead'[g] = {}
    BY <2>1, <2>2, <2>4
  <2>5. ASSUME NEW g \in Futures PROVE g \notin ahead'[g]
    BY <2>1, <2>2
  <2>6. ASSUME NEW g \in Futures, NEW h \in Futures, h \in ahead'[g]
        PROVE  ahead'[h] \subseteq ahead'[g]
    <3>1. g # f /\ h # f /\ h \in ahead[g]
      BY <2>2, <2>6
    <3> QED BY <2>1, <2>2, <3>1
  <2>7. \A g, h \in Line' : g = h \/ g \in ahead'[h] \/ h \in ahead'[g]
    BY <1>1, <1>3, <1>4
  <2> QED BY <2>3, <2>4, <2>5, <2>6, <2>7 DEF OrderInv
<1>9. \A g \in Line \ {f} : g \in ahead[f] => need'[g] = need[g]
  BY <1>3, <1>4
<1>10. \A g \in Line \ {f} : g \notin ahead[f] => need'[g] = need[g] - amount[f]
  BY <1>3, <1>4
<1>11. \A g \in Line \ {f} : amount'[g] <= need'[g] /\ need'[g] <= demand'
  <2> SUFFICES ASSUME NEW g \in Line \ {f}
               PROVE  amount'[g] <= need'[g] /\ need'[g] <= demand'
    OBVIOUS
  <2>1. amount'[g] = amount[g] /\ g \in Futures
    BY <1>1
  <2>2. CASE g \in ahead[f]
    <3>1. need[g] + amount[f] <= need[f] /\ need[f] <= demand
      BY <1>5, <2>2
    <3> QED BY <1>1, <1>2, <1>3, <1>5, <1>9, <2>1, <2>2, <3>1
  <2>3. CASE g \notin ahead[f]
    <3>1. need[f] + amount[g] <= need[g] /\ amount[f] <= need[f]
      BY <1>4, <1>5, <2>3
    <3> QED BY <1>1, <1>2, <1>3, <1>5, <1>10, <2>1, <2>3, <3>1
  <2> QED BY <2>2, <2>3
<1>12. \A g \in Futures : \A h \in ahead'[g] : need'[h] + amount'[g] <= need'[g]
  <2> SUFFICES ASSUME NEW g \in Futures, NEW h \in ahead'[g]
               PROVE  need'[h] + amount'[g] <= need'[g]
    OBVIOUS
  <2>1. /\ g \in Line \ {f} /\ h \in Line \ {f} /\ h \in ahead[g]
        /\ h \in Futures /\ amount'[g] = amount[g]
    BY <1>1, <1>3 DEF OrderInv, Line
  <2>2. need[h] + amount[g] <= need[g]
    BY <1>5, <2>1
  <2>3. CASE g \in ahead[f]
    <3>1. h \in ahead[f]
      BY <1>4, <2>1, <2>3
    <3> QED BY <1>9, <2>1, <2>2, <2>3, <3>1
  <2>4. CASE g \notin ahead[f] /\ h \notin ahead[f]
    BY <1>1, <1>2, <1>10, <2>1, <2>2, <2>4
  <2>5. CASE g \notin ahead[f] /\ h \in ahead[f]
    <3>1. need[h] + amount[f] <= need[f] /\ need[f] + amount[g] <= need[g]
      BY <1>4, <1>5, <2>1, <2>5
    <3> QED BY <1>1, <1>2, <1>9, <1>10, <2>1, <2>5, <3>1
  <2> QED BY <2>3, <2>4, <2>5
\* The predecessor of `f', which becomes that of its successor.
<1>13. ASSUME ahead[f] # {}
       PROVE  \E q \in Line \ {f} : /\ ahead[f] = ahead[q] \union {q}
                                    /\ need[f] = need[q] + amount[f]
                                    /\ ahead'[q] = ahead[q]
                                    /\ need'[q] = need[q]
  <2>1. PICK q \in ahead[f] : /\ ahead[f] = ahead[q] \union {q}
                              /\ need[f] = need[q] + amount[f]
    BY <1>13 DEF SumInv
  <2>2. q \in Line \ {f} /\ f \notin ahead[q]
    BY <1>4, <2>1
  <2>3. ahead'[q] = ahead[q] \ {f} /\ need'[q] = need[q]
    BY <1>3, <2>2
  <2>4. ahead[q] \ {f} = ahead[q]
    BY <2>2
  <2> QED BY <2>1, <2>2, <2>3, <2>4
<1>14. ASSUME NEW g \in Line \ {f}, ahead'[g] = {}
       PROVE  need'[g] = amount'[g]
  <2>1. amount'[g] = amount[g] /\ g \in Futures
    BY <1>1
  <2>2. CASE ahead[g] = {}
    <3>1. need[g] = amount[g]
      BY <2>2 DEF SumInv
    <3> QED BY <1>3, <2>1, <2>2, <3>1
  <2>3. CASE ahead[g] # {}
    <3>1. PICK p \in ahead[g] : /\ ahead[g] = ahead[p] \union {p}
                                /\ need[g] = need[p] + amount[g]
      BY <2>3 DEF SumInv
    <3>2. p = f /\ ahead[f] = {}
      BY <1>3, <1>4, <1>14, <3>1
    <3>3. need[f] = amount[f]
      BY <3>2 DEF SumInv
    <3> QED BY <1>1, <1>2, <1>3, <2>1, <3>1, <3>2, <3>3
  <2> QED BY <2>2, <2>3
<1>15. ASSUME NEW g \in Line \ {f}, ahead'[g] # {}
       PROVE  \E p \in ahead'[g] : /\ ahead'[g] = ahead'[p] \union {p}
                                    /\ need'[g] = need'[p] + amount'[g]
  <2>1. amount'[g] = amount[g] /\ g \in Futures /\ ahead[g] # {}
    BY <1>1, <1>3, <1>15
  <2>2. PICK p \in ahead[g] : /\ ahead[g] = ahead[p] \union {p}
                              /\ need[g] = need[p] + amount[g]
    BY <2>1 DEF SumInv
  <2>3. p \in Line /\ p \in Futures
    BY <1>1, <1>4, <2>2
  <2>4. CASE p # f
    <3>1. /\ p \in ahead'[g]
          /\ ahead'[g] = ahead'[p] \union {p}
          /\ f \in ahead[g] <=> f \in ahead[p]
      <4>1. ahead'[g] = ahead[g] \ {f} /\ ahead'[p] = ahead[p] \ {f}
        BY <1>3, <2>3, <2>4
      <4> QED BY <2>2, <2>4, <4>1
    <3>2. need'[g] = need'[p] + amount'[g]
      BY <1>1, <1>2, <1>3, <2>1, <2>2, <2>3, <2>4, <3>1
    <3> QED BY <3>1, <3>2
  <2>5. CASE p = f
    <3>1. f \in ahead[g] /\ ahead'[g] = ahead[f] /\ ahead[f] # {}
      <4>1. ahead'[g] = ahead[g] \ {f} /\ f \notin ahead[f]
        BY <1>3, <1>4
      <4>2. ahead[g] = ahead[f] \union {f}
        BY <2>2, <2>5
      <4>3. ahead'[g] = ahead[f]
        BY <4>1, <4>2
      <4> QED BY <1>15, <4>2, <4>3
    <3>2. PICK q \in Line \ {f} : /\ ahead[f] = ahead[q] \union {q}
                                  /\ need[f] = need[q] + amount[f]
                                  /\ ahead'[q] = ahead[q]
                                  /\ need'[q] = need[q]
      BY <1>13, <3>1
    <3>3. q \in Futures /\ need'[g] = need[g] - amount[f]
      BY <1>1, <1>3, <3>1
    <3>4. need'[g] = need'[q] + amount'[g]
      BY <1>1, <1>2, <2>1, <2>2, <2>5, <3>2, <3>3
    <3> QED BY <3>1, <3>2, <3>4
  <2> QED BY <2>4, <2>5
<1>16. PICK l \in Line : Line = ahead[l] \union {l} /\ demand = need[l]
  BY DEF SumInv
<1>17. Line \ {f} = {} => demand' = 0
  <2> SUFFICES ASSUME Line \ {f} = {} PROVE demand' = 0
    OBVIOUS
  <2>1. l = f /\ ahead[f] = {}
    BY <1>4, <1>16
  <2>2. need[f] = amount[f]
    BY <2>1 DEF SumInv
  <2> QED BY <1>1, <1>2, <1>3, <1>16, <2>1, <2>2
<1>18. Line \ {f} # {} =>
         \E g \in Line \ {f} : /\ Line \ {f} = ahead'[g] \union {g}
                               /\ demand' = need'[g]
  <2> SUFFICES ASSUME Line \ {f} # {}
               PROVE  \E g \in Line \ {f} : /\ Line \ {f} = ahead'[g] \union {g}
                                             /\ demand' = need'[g]
    OBVIOUS
  <2>1. CASE l # f
    <3>1. f \in ahead[l]
      BY <1>16, <2>1
    <3>2. Line \ {f} = ahead'[l] \union {l} /\ demand' = need'[l]
      BY <1>1, <1>3, <1>16, <2>1, <3>1
    <3> QED BY <2>1, <3>2
  <2>2. CASE l = f
    <3>1. Line \ {f} = ahead[f] /\ ahead[f] # {}
      BY <1>4, <1>16, <2>2
    <3>2. PICK q \in Line \ {f} : /\ ahead[f] = ahead[q] \union {q}
                                  /\ need[f] = need[q] + amount[f]
                                  /\ ahead'[q] = ahead[q]
                                  /\ need'[q] = need[q]
      BY <1>13, <3>1
    <3>3. demand' = need'[q]
      BY <1>1, <1>2, <1>3, <1>16, <2>2, <3>2
    <3> QED BY <3>1, <3>2, <3>3
  <2> QED BY <2>1, <2>2
<1>19. SumInv'
  BY <1>1, <1>11, <1>12, <1>14, <1>15, <1>17, <1>18 DEF SumInv
<1> QED BY <1>6, <1>7, <1>8, <1>9, <1>10, <1>19

\* A future joins the line at its end: the order and the sums with it.
LEMMA JoinKeeps ==
  ASSUME TypeOK, OrderInv, SumInv, NEW f \in Futures, ~InLine(f),
         NEW n \in 0 .. MaxPermits,
         ahead' = [ahead EXCEPT ![f] = Line],
         need' = [need EXCEPT ![f] = demand + n],
         demand' = demand + n,
         amount'[f] = n,
         \A g \in Futures : InLine(g)' <=> InLine(g) \/ g = f,
         \A g \in Futures \ {f} : amount'[g] = amount[g]
  PROVE  /\ ahead' \in [Futures -> SUBSET Futures]
         /\ need' \in [Futures -> Nat]
         /\ demand' \in Nat
         /\ OrderInv'
         /\ SumInv'
<1>1. /\ n \in Nat /\ demand \in Nat
      /\ \A g \in Futures : need[g] \in Nat /\ amount[g] \in Nat
      /\ \A g \in Futures : ahead[g] \subseteq Futures
  BY FifoAssumption DEF TypeOK
<1>2. ~InLine(f) /\ f \notin Line /\ ahead[f] = {}
  BY DEF Line, OrderInv
<1>3. /\ amount'[f] = n
      /\ ahead'[f] = Line /\ need'[f] = demand + n
      /\ \A g \in Futures \ {f} : /\ amount'[g] = amount[g]
                                  /\ ahead'[g] = ahead[g]
                                  /\ need'[g] = need[g]
      /\ demand' = demand + n
  BY DEF TypeOK
<1>4. Line' = Line \union {f} /\ Line \subseteq Futures
  BY DEF Line
<1>5. /\ \A g \in Futures : ahead[g] \subseteq Line
      /\ \A g \in Futures : ~InLine(g) => ahead[g] = {}
      /\ \A g \in Futures : g \notin ahead[g]
      /\ \A g, h \in Futures : h \in ahead[g] => ahead[h] \subseteq ahead[g]
      /\ \A g, h \in Line : g = h \/ g \in ahead[h] \/ h \in ahead[g]
  BY DEF OrderInv
<1>6. /\ ahead' \in [Futures -> SUBSET Futures]
      /\ need' \in [Futures -> Nat]
      /\ demand' \in Nat
  <2>1. demand + n \in Nat
    BY <1>1
  <2> QED BY <1>4, <2>1 DEF TypeOK
<1>7. OrderInv'
  <2>1. ASSUME NEW g \in Futures PROVE ahead'[g] \subseteq Line'
    BY <1>3, <1>4, <1>5
  <2>2. ASSUME NEW g \in Futures, ~InLine(g)' PROVE ahead'[g] = {}
    BY <1>5, <2>2, <1>3
  <2>3. ASSUME NEW g \in Futures PROVE g \notin ahead'[g]
    BY <1>2, <1>3, <1>5
  <2>4. ASSUME NEW g \in Futures, NEW h \in Futures, h \in ahead'[g]
        PROVE  ahead'[h] \subseteq ahead'[g]
    <3>1. h \in Line /\ h # f
      BY <1>2, <1>3, <1>5, <2>4
    <3> QED BY <1>3, <1>5, <2>4, <3>1
  <2>5. ASSUME NEW g \in Line', NEW h \in Line'
        PROVE  g = h \/ g \in ahead'[h] \/ h \in ahead'[g]
    BY <1>3, <1>4, <1>5
  <2> QED BY <2>1, <2>2, <2>3, <2>4, <2>5 DEF OrderInv
<1>8. SumInv'
  <2>1. \A g \in Line : g # f /\ g \in Futures
    BY <1>2, <1>4
  <2>2. \A g \in Line : amount[g] <= need[g] /\ need[g] <= demand
    BY DEF SumInv
  <2>3. \A g \in Line' : amount'[g] <= need'[g] /\ need'[g] <= demand'
    BY <1>1, <1>3, <1>4, <2>1, <2>2
  <2>4. ASSUME NEW g \in Futures, NEW h \in ahead'[g]
        PROVE  need'[h] + amount'[g] <= need'[g]
    <3>1. h \in Line
      BY <1>3, <1>5
    <3>2. CASE g = f
      BY <1>1, <1>3, <2>1, <2>2, <3>1, <3>2
    <3>3. CASE g # f
      BY <1>3, <2>1, <3>1, <3>3 DEF SumInv
    <3> QED BY <3>2, <3>3
  <2>5. Line = {} => demand = 0
    BY DEF SumInv
  <2>6. ASSUME NEW g \in Line', ahead'[g] = {} PROVE need'[g] = amount'[g]
    <3>1. CASE g = f
      BY <1>1, <1>3, <2>5, <2>6, <3>1
    <3>2. CASE g # f
      BY <1>3, <1>4, <2>1, <2>6, <3>2 DEF SumInv
    <3> QED BY <3>1, <3>2
  <2>7. ASSUME NEW g \in Line', ahead'[g] # {}
        PROVE  \E h \in ahead'[g] : /\ ahead'[g] = ahead'[h] \union {h}
                                     /\ need'[g] = need'[h] + amount'[g]
    <3>1. CASE g = f
      <4>1. PICK h \in Line : Line = ahead[h] \union {h} /\ demand = need[h]
        BY <1>3, <2>7, <3>1 DEF SumInv
      <4> QED BY <1>3, <2>1, <3>1, <4>1
    <3>2. CASE g # f
      <4>1. g \in Line /\ ahead[g] # {} /\ ahead'[g] = ahead[g]
        BY <1>3, <1>4, <2>1, <2>7, <3>2
      <4>2. PICK h \in ahead[g] : /\ ahead[g] = ahead[h] \union {h}
                                  /\ need[g] = need[h] + amount[g]
        BY <4>1 DEF SumInv
      <4>3. h \in Line
        BY <1>4, <1>5, <4>1
      <4> QED BY <1>3, <2>1, <4>1, <4>2, <4>3
    <3> QED BY <3>1, <3>2
  <2>8. f \in Line' /\ Line' = ahead'[f] \union {f} /\ demand' = need'[f]
    BY <1>3, <1>4
  <2> QED BY <2>3, <2>4, <2>6, <2>7, <2>8 DEF SumInv
<1> QED BY <1>6, <1>7, <1>8

-----------------------------------------------------------------------------
(* The actions                                                             *)

\* acquire or try_acquire succeeds: either nobody waits, or no permit moves.
LEMMA AcquireIInv ==
  ASSUME IInv, NEW f \in Futures, NEW n \in 0 .. MaxPermits, Acquire(f, n)
  PROVE  IInv'
<1>1. /\ n \in Nat /\ avail \in Nat /\ n <= avail /\ avail' = avail - n
      /\ Line = {} \/ n = 0
  BY FifoAssumption DEF IInv, TypeOK, Acquire, CanAcquire
<1>2. /\ phase[f] = "idle" /\ phase'[f] = "holding"
      /\ \A g \in Futures \ {f} : phase'[g] = phase[g] /\ amount'[g] = amount[g]
      /\ UNCHANGED <<ahead, need, demand>>
  BY DEF Acquire, IInv, TypeOK
<1>3. f \notin Line /\ Line' = Line /\ Line \subseteq Futures
  BY <1>2 DEF Line, InLine
<1>4. TypeOK'
  <2>1. avail' \in 0 .. MaxPermits
    BY <1>1, FifoAssumption DEF IInv, TypeOK
  <2> QED BY <2>1 DEF Acquire, IInv, TypeOK, Phases
<1>5. OrderInv'
  <2>1. \A g \in Futures : InLine(g)' <=> InLine(g)
    BY <1>2 DEF InLine
  <2> QED BY <1>2, <1>3, <2>1 DEF IInv, OrderInv
<1>6. SumInv'
  <2>1. \A g \in Line : amount'[g] = amount[g]
    BY <1>2, <1>3
  <2>2. \A g \in Futures : \A h \in ahead[g] : g \in Line
    BY DEF IInv, OrderInv, Line
  <2> QED BY <1>2, <1>3, <2>1, <2>2 DEF IInv, SumInv
<1>7. CASE Line = {}
  <2>1. \A g \in Futures : phase'[g] \notin {"waiting", "granted"}
    BY <1>3, <1>7 DEF Line, InLine
  <2>2. \A g \in Futures : ahead'[g] = {}
    BY <1>2, <1>7 DEF IInv, OrderInv
  <2>3. CoverInv' /\ GrantedInOrder' /\ FirstServed'
    BY <2>1, <2>2 DEF CoverInv, GrantedInOrder, FirstServed
  <2> QED BY <1>4, <1>5, <1>6, <2>3 DEF IInv
<1>8. CASE n = 0
  <2>1. avail' = avail
    BY <1>1, <1>8
  <2>2. CoverInv' /\ FirstServed'
    BY <1>2, <2>1 DEF IInv, CoverInv, FirstServed
  <2>3. GrantedInOrder'
    <3> SUFFICES ASSUME NEW g \in Futures, NEW h \in ahead[g],
                        phase'[g] = "granted"
                 PROVE  phase'[h] = "granted"
      BY <1>2 DEF GrantedInOrder
    <3>1. g # f /\ h # f /\ h \in Futures
      BY <1>2, <1>3 DEF IInv, OrderInv
    <3> QED BY <1>2, <3>1 DEF IInv, GrantedInOrder
  <2> QED BY <1>4, <1>5, <1>6, <2>2, <2>3 DEF IInv
<1> QED BY <1>1, <1>7, <1>8

\* A future joins the line.  Nobody is granted anything, which is sound since
\* the newcomer is first only if the pool does not cover it.
LEMMA EnqueueIInv ==
  ASSUME IInv, NEW f \in Futures, NEW n \in 0 .. MaxPermits, Enqueue(f, n)
  PROVE  IInv'
<1>1. /\ n \in Nat /\ avail \in Nat /\ demand \in Nat
      /\ \A g \in Futures : need[g] \in Nat /\ amount[g] \in Nat
      /\ \A g \in Futures : ahead[g] \subseteq Futures
  BY FifoAssumption DEF IInv, TypeOK
<1>2. ~InLine(f) /\ f \notin Line /\ ahead[f] = {}
  BY DEF Enqueue, InLine, Line, IInv, OrderInv
<1>3. /\ phase'[f] = "waiting" /\ amount'[f] = n
      /\ ahead'[f] = Line /\ need'[f] = demand + n
      /\ \A g \in Futures \ {f} : /\ phase'[g] = phase[g]
                                  /\ amount'[g] = amount[g]
                                  /\ ahead'[g] = ahead[g]
                                  /\ need'[g] = need[g]
      /\ demand' = demand + n /\ avail' = avail
  BY DEF Enqueue, IInv, TypeOK
<1>4. Line' = Line \union {f} /\ Line \subseteq Futures
  BY <1>3 DEF Line, InLine
<1>5. /\ \A g \in Futures : ahead[g] \subseteq Line
      /\ \A g \in Futures : ~InLine(g) => ahead[g] = {}
      /\ \A g \in Futures : g \notin ahead[g]
      /\ \A g, h \in Futures : h \in ahead[g] => ahead[h] \subseteq ahead[g]
      /\ \A g, h \in Line : g = h \/ g \in ahead[h] \/ h \in ahead[g]
  BY DEF IInv, OrderInv
<1>6. \A g \in Futures : InLine(g)' <=> InLine(g) \/ g = f
  BY <1>3 DEF InLine
<1>7. /\ ahead' \in [Futures -> SUBSET Futures]
      /\ need' \in [Futures -> Nat]
      /\ demand' \in Nat
      /\ OrderInv' /\ SumInv'
  BY <1>2, <1>3, <1>6, JoinKeeps DEF Enqueue, IInv
<1>8. TypeOK'
  BY <1>7 DEF Enqueue, IInv, TypeOK, Phases
<1>9. CoverInv'
  BY <1>3 DEF IInv, CoverInv
<1>10. GrantedInOrder'
  <2> SUFFICES ASSUME NEW g \in Futures, NEW h \in ahead'[g],
                      phase'[g] = "granted"
               PROVE  phase'[h] = "granted"
    BY DEF GrantedInOrder
  <2>1. g # f /\ h \in ahead[g] /\ h # f /\ h \in Futures
    BY <1>2, <1>3, <1>4, <1>5
  <2> QED BY <1>3, <2>1 DEF IInv, GrantedInOrder
<1>11. FirstServed'
  <2> SUFFICES ASSUME NEW g \in Futures, phase'[g] = "waiting", ahead'[g] = {}
               PROVE  avail' < amount'[g]
    BY DEF FirstServed
  <2>1. CASE g = f
    <3>1. ~(n <= avail)
      BY <1>3, <2>1 DEF Enqueue, CanAcquire
    <3> QED BY <1>1, <1>3, <2>1, <3>1
  <2>2. CASE g # f
    BY <1>3, <2>2 DEF IInv, FirstServed
  <2> QED BY <2>1, <2>2
<1> QED BY <1>7, <1>8, <1>9, <1>10, <1>11 DEF IInv

\* A future leaves the line, and the pool loses nothing or what that future
\* was granted.  Those behind it need less by as much as the pool loses; those
\* ahead of it were covered together with it.
LEMMA LeaveGrantIInv ==
  ASSUME IInv, NEW f \in Line, Leave(f),
         NEW ph \in [Futures -> Phases], Grant(ph),
         ph[f] \in {"idle", "holding"},
         \A g \in Futures \ {f} : ph[g] = phase[g],
         amount' \in [Futures -> 0 .. MaxPermits],
         \A g \in Futures \ {f} : amount'[g] = amount[g],
         \/ avail' = avail
         \/ phase[f] = "granted" /\ avail' = avail - amount[f]
  PROVE  IInv'
<1>1. /\ avail \in Nat /\ MaxPermits \in Nat /\ avail <= MaxPermits
      /\ \A g \in Futures : need[g] \in Nat /\ amount[g] \in Nat
      /\ f \in Futures
      /\ amount[f] <= need[f]
  BY FifoAssumption DEF IInv, TypeOK, Line, SumInv
<1>2. phase[f] = "granted" => need[f] <= avail
  BY <1>1 DEF IInv, CoverInv
<1>3. avail' \in 0 .. MaxPermits
  BY <1>1, <1>2
<1>4. \A g \in Futures : f \in ahead[g] => amount[f] <= need[g]
  <2> SUFFICES ASSUME NEW g \in Futures, f \in ahead[g]
               PROVE  amount[f] <= need[g]
    OBVIOUS
  <2>1. need[f] + amount[g] <= need[g]
    BY DEF IInv, SumInv
  <2> QED BY <1>1, <2>1
<1>5. need' \in [Futures -> Nat]
  <2>1. \A g \in Futures :
          (IF g = f THEN 0
           ELSE IF f \in ahead[g] THEN need[g] - amount[f] ELSE need[g]) \in Nat
    BY <1>1, <1>4
  <2> QED BY <2>1 DEF Leave
<1>6. \A g \in Futures : ph[g] = "granted" => need'[g] <= avail'
  <2> SUFFICES ASSUME NEW g \in Futures, ph[g] = "granted"
               PROVE  need'[g] <= avail'
    OBVIOUS
  <2>1. g # f /\ phase[g] = "granted" /\ g \in Line /\ need[g] <= avail
    BY DEF IInv, CoverInv, Line, InLine
  <2>2. need'[g] = IF f \in ahead[g] THEN need[g] - amount[f] ELSE need[g]
    BY <2>1 DEF Leave
  <2>3. CASE f \in ahead[g]
    BY <1>1, <1>2, <2>1, <2>2, <2>3
  <2>4. CASE f \notin ahead[g]
    <3>1. need[g] + amount[f] <= need[f]
      BY <1>1, <2>1, <2>4 DEF IInv, OrderInv, SumInv
    <3> QED BY <1>1, <1>2, <2>1, <2>2, <2>4, <3>1
  <2> QED BY <2>3, <2>4
<1>7. \A g \in Futures : ph[g] \in {"waiting", "granted"} <=> InLine(g) /\ g # f
  BY <1>1 DEF InLine
<1>8. /\ phase' \in [Futures -> Phases]
      /\ \A g \in Futures : InLine(g)' <=> ph[g] \in {"waiting", "granted"}
      /\ \A g \in Futures :
           InLine(g)' => (phase'[g] = "granted" <=> need'[g] <= avail')
  BY <1>3, <1>5, <1>6, GrantKeeps
<1>9. \A g \in Futures : InLine(g)' <=> InLine(g) /\ g # f
  BY <1>7, <1>8
<1>10. /\ ahead' \in [Futures -> SUBSET Futures]
       /\ demand' \in Nat
       /\ OrderInv' /\ SumInv'
  BY <1>9, LeaveKeeps DEF IInv
<1>11. TypeOK'
  BY <1>3, <1>5, <1>8, <1>10 DEF TypeOK
<1>12. AllCoveredGranted'
  BY <1>8 DEF Line, AllCoveredGranted
<1>13. (TypeOK /\ OrderInv /\ SumInv /\ AllCoveredGranted => IInv)'
  BY CoveredSuffices, PTL
<1> QED BY <1>10, <1>11, <1>12, <1>13

LEMMA TakeIInv ==
  ASSUME IInv, NEW f \in Futures, Take(f)
  PROVE  IInv'
<1> DEFINE ph == [phase EXCEPT ![f] = "holding"]
<1>1. f \in Line
  BY DEF Take, Line, InLine
<1>2. /\ ph \in [Futures -> Phases]
      /\ ph[f] = "holding"
      /\ \A g \in Futures \ {f} : ph[g] = phase[g]
  BY DEF IInv, TypeOK, Phases
<1>3. /\ Leave(f) /\ Grant(ph) /\ amount' = amount
      /\ phase[f] = "granted" /\ avail' = avail - amount[f]
  BY DEF Take
<1>4. amount' \in [Futures -> 0 .. MaxPermits]
  BY <1>3 DEF IInv, TypeOK
<1>5. PICK p : p = ph
  OBVIOUS
<1> HIDE DEF ph
<1> QED BY <1>1, <1>2, <1>3, <1>4, <1>5, LeaveGrantIInv

LEMMA CancelIInv ==
  ASSUME IInv, NEW f \in Futures, Cancel(f)
  PROVE  IInv'
<1> DEFINE ph == [phase EXCEPT ![f] = "idle"]
<1>1. f \in Line
  BY DEF Cancel, Line
<1>2. /\ ph \in [Futures -> Phases]
      /\ ph[f] = "idle"
      /\ \A g \in Futures \ {f} : ph[g] = phase[g]
  BY DEF IInv, TypeOK, Phases
<1>3. /\ Leave(f) /\ Grant(ph) /\ avail' = avail
      /\ amount' = [amount EXCEPT ![f] = 0]
  BY DEF Cancel
<1>4. /\ amount' \in [Futures -> 0 .. MaxPermits]
      /\ \A g \in Futures \ {f} : amount'[g] = amount[g]
  BY <1>3, FifoAssumption DEF IInv, TypeOK
<1>5. PICK p : p = ph
  OBVIOUS
<1> HIDE DEF ph
<1> QED BY <1>1, <1>2, <1>3, <1>4, <1>5, LeaveGrantIInv

\* The pool grows, while a holder outside the line may become idle.
LEMMA GrowGrantIInv ==
  ASSUME IInv, UNCHANGED <<ahead, need, demand>>,
         NEW ph \in [Futures -> Phases], Grant(ph),
         \A g \in Futures :
           \/ ph[g] = phase[g] /\ amount'[g] = amount[g]
           \/ ph[g] = "idle" /\ phase[g] = "holding",
         amount' \in [Futures -> 0 .. MaxPermits],
         avail' \in 0 .. MaxPermits, avail <= avail'
  PROVE  IInv'
<1>1. /\ avail \in Nat /\ avail' \in Nat
      /\ \A g \in Futures : need[g] \in Nat
      /\ need' \in [Futures -> Nat]
  BY FifoAssumption DEF IInv, TypeOK
<1>2. \A g \in Futures : ph[g] = "granted" => need'[g] <= avail'
  <2> SUFFICES ASSUME NEW g \in Futures, ph[g] = "granted"
               PROVE  need[g] <= avail'
    OBVIOUS
  <2>1. phase[g] = "granted"
    OBVIOUS
  <2>2. need[g] <= avail
    BY <2>1 DEF IInv, CoverInv
  <2> QED BY <1>1, <2>2
<1>3. /\ phase' \in [Futures -> Phases]
      /\ \A g \in Futures : InLine(g)' <=> ph[g] \in {"waiting", "granted"}
      /\ \A g \in Futures :
           InLine(g)' => (phase'[g] = "granted" <=> need'[g] <= avail')
  BY <1>1, <1>2, GrantKeeps
<1>4. ASSUME NEW g \in Futures
      PROVE  (InLine(g)' <=> InLine(g)) /\ (InLine(g) => amount'[g] = amount[g])
  <2>1. CASE ph[g] = phase[g] /\ amount'[g] = amount[g]
    BY <1>3, <2>1 DEF InLine
  <2>2. CASE ph[g] = "idle" /\ phase[g] = "holding"
    <3>1. ~InLine(g)
      BY <2>2 DEF InLine
    <3>2. ~InLine(g)'
      BY <1>3, <2>2
    <3> QED BY <3>1, <3>2
  <2> QED BY <2>1, <2>2
<1>5. Line' = Line /\ Line \subseteq Futures
  BY <1>4 DEF Line
<1>6. OrderInv'
  BY <1>4, <1>5 DEF IInv, OrderInv
<1>7. SumInv'
  <2>1. ASSUME NEW g \in Line PROVE amount'[g] = amount[g]
    BY <1>4 DEF Line
  <2>2. \A g \in Futures : \A h \in ahead[g] : g \in Line
    BY DEF IInv, OrderInv, Line
  <2> QED BY <1>5, <2>1, <2>2 DEF IInv, SumInv
<1>8. TypeOK'
  BY <1>3 DEF IInv, TypeOK
<1>9. AllCoveredGranted'
  BY <1>3 DEF Line, AllCoveredGranted
<1>10. (TypeOK /\ OrderInv /\ SumInv /\ AllCoveredGranted => IInv)'
  BY CoveredSuffices, PTL
<1> QED BY <1>6, <1>7, <1>8, <1>9, <1>10

LEMMA ReleaseIInv ==
  ASSUME IInv, NEW f \in Futures, Release(f)
  PROVE  IInv'
<1> DEFINE ph == [phase EXCEPT ![f] = "idle"]
<1>1. /\ ph \in [Futures -> Phases]
      /\ ph[f] = "idle" /\ phase[f] = "holding"
      /\ \A g \in Futures \ {f} : ph[g] = phase[g]
      /\ Grant(ph)
  BY DEF IInv, TypeOK, Phases, Release
<1>2. /\ amount' \in [Futures -> 0 .. MaxPermits]
      /\ \A g \in Futures \ {f} : amount'[g] = amount[g]
  BY FifoAssumption DEF IInv, TypeOK, Release
<1>3. avail' \in 0 .. MaxPermits /\ avail <= avail'
  <2>1. avail \in Nat /\ amount[f] \in Nat
    BY FifoAssumption DEF IInv, TypeOK
  <2> QED BY <2>1, FifoAssumption DEF Release
<1>4. UNCHANGED <<ahead, need, demand>>
  BY DEF Release
<1>5. PICK p : p = ph
  OBVIOUS
<1> HIDE DEF ph
<1> QED BY <1>1, <1>2, <1>3, <1>4, <1>5, GrowGrantIInv

LEMMA AddIInv ==
  ASSUME IInv, NEW n \in 1 .. MaxPermits, Add(n)
  PROVE  IInv'
<1>1. phase \in [Futures -> Phases] /\ Grant(phase)
  BY DEF IInv, TypeOK, Add
<1>2. amount' \in [Futures -> 0 .. MaxPermits] /\ amount' = amount
  BY DEF IInv, TypeOK, Add
<1>3. avail' \in 0 .. MaxPermits /\ avail <= avail'
  <2>1. avail \in Nat /\ n \in Nat
    BY FifoAssumption DEF IInv, TypeOK
  <2> QED BY <2>1, FifoAssumption DEF Add
<1>4. UNCHANGED <<ahead, need, demand>>
  BY DEF Add
<1>5. PICK p : p = phase
  OBVIOUS
<1> QED BY <1>1, <1>2, <1>3, <1>4, <1>5, GrowGrantIInv

LEMMA ForgetIInv ==
  ASSUME IInv, NEW f \in Futures, Forget(f)
  PROVE  IInv'
<1>1. /\ phase[f] = "holding" /\ phase'[f] = "idle"
      /\ \A g \in Futures \ {f} : phase'[g] = phase[g] /\ amount'[g] = amount[g]
      /\ UNCHANGED <<avail, ahead, need, demand>>
  BY DEF Forget, IInv, TypeOK
<1>2. f \notin Line /\ Line' = Line /\ Line \subseteq Futures
  BY <1>1 DEF Line, InLine
<1>3. TypeOK'
  BY FifoAssumption DEF Forget, IInv, TypeOK, Phases
<1>4. OrderInv'
  <2>1. \A g \in Futures : InLine(g)' <=> InLine(g)
    BY <1>1 DEF InLine
  <2> QED BY <1>1, <1>2, <2>1 DEF IInv, OrderInv
<1>5. SumInv'
  <2>1. \A g \in Line : amount'[g] = amount[g]
    BY <1>1, <1>2
  <2>2. \A g \in Futures : \A h \in ahead[g] : g \in Line
    BY DEF IInv, OrderInv, Line
  <2> QED BY <1>1, <1>2, <2>1, <2>2 DEF IInv, SumInv
<1>6. CoverInv' /\ FirstServed'
  BY <1>1 DEF IInv, CoverInv, FirstServed
<1>7. GrantedInOrder'
  <2> SUFFICES ASSUME NEW g \in Futures, NEW h \in ahead[g],
                      phase'[g] = "granted"
               PROVE  phase'[h] = "granted"
    BY <1>1 DEF GrantedInOrder
  <2>1. g # f /\ h # f /\ h \in Futures
    BY <1>1, <1>2 DEF IInv, OrderInv
  <2> QED BY <1>1, <2>1 DEF IInv, GrantedInOrder
<1> QED BY <1>3, <1>4, <1>5, <1>6, <1>7 DEF IInv

-----------------------------------------------------------------------------
(* Theorems                                                                *)

LEMMA NextIInv == IInv /\ [Next]_vars => IInv'
<1> SUFFICES ASSUME IInv, [Next]_vars PROVE IInv'
  OBVIOUS
<1>1. CASE Next
  BY <1>1, AcquireIInv, EnqueueIInv, TakeIInv, CancelIInv, ReleaseIInv,
     ForgetIInv, AddIInv DEF Next
<1>2. CASE UNCHANGED vars
  <2>1. Line' = Line
    BY <1>2 DEF vars, Line, InLine
  <2> QED
    BY <1>2, <2>1 DEF vars, IInv, TypeOK, OrderInv, SumInv, CoverInv,
                      GrantedInOrder, FirstServed, InLine
<1> QED BY <1>1, <1>2

\* IInv holds in every reachable state of the abstract semaphore.
THEOREM Invariance == Spec => []IInv
  BY InitIInv, NextIInv, PTL DEF Spec

\* The pool, the requests and the running sums never leave their ranges.
THEOREM TypeCorrect == Spec => []TypeOK
<1>1. IInv => TypeOK
  BY DEF IInv
<1> QED BY <1>1, Invariance, PTL

\* The assertion of poll_acquire never fails, whatever the number of waiters,
\* their requests and the order in which they are polled or cancelled.
THEOREM AssertionNeverFails == Spec => []GrantsCovered
<1>1. IInv => GrantsCovered
  <2> SUFFICES ASSUME IInv, NEW f \in Futures, phase[f] = "granted"
               PROVE  amount[f] <= avail
    BY DEF GrantsCovered
  <2>1. f \in Line /\ need[f] <= avail
    BY DEF IInv, CoverInv, Line, InLine
  <2>2. amount[f] <= need[f]
    BY <2>1 DEF IInv, SumInv
  <2> QED BY <2>1, <2>2, FifoAssumption DEF IInv, TypeOK
<1> QED BY <1>1, Invariance, PTL

\* Waiters are granted their permits in the order in which they came.
THEOREM FirstInFirstOut == Spec => []GrantedInOrder
<1>1. IInv => GrantedInOrder
  BY DEF IInv
<1> QED BY <1>1, Invariance, PTL

\* The first waiter is never left ungranted while the pool covers it.
THEOREM NoPermitForgotten == Spec => []FirstServed
<1>1. IInv => FirstServed
  BY DEF IInv
<1> QED BY <1>1, Invariance, PTL
=============================================================================
