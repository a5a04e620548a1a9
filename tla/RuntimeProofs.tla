--------------------------- MODULE RuntimeProofs ---------------------------
(***************************************************************************)
(* Proofs about Runtime, for any runtimes and tasks and any depth of       *)
(* nested calls: the inductive invariant IInv and what follows from it.    *)
(***************************************************************************)
EXTENDS Runtime, TLAPS

-----------------------------------------------------------------------------
(* Guards and frames, element by element                                   *)

\* A sequence without its i-th element.
LEMMA WithoutFacts ==
  ASSUME NEW S, NEW s \in Seq(S), NEW i \in 1 .. Len(s)
  PROVE  /\ Without(s, i) \in Seq(S)
         /\ Len(Without(s, i)) = Len(s) - 1
         /\ \A k \in 1 .. Len(s) - 1 :
              Without(s, i)[k] = IF k < i THEN s[k] ELSE s[k + 1]
  <1>1. /\ SubSeq(s, 1, i - 1) \in Seq(S)
        /\ SubSeq(s, i + 1, Len(s)) \in Seq(S)
        /\ Len(SubSeq(s, 1, i - 1)) = i - 1
        /\ Len(SubSeq(s, i + 1, Len(s))) = Len(s) - i
    OBVIOUS
  <1>2. \A k \in 1 .. i - 1 : SubSeq(s, 1, i - 1)[k] = s[k]
    OBVIOUS
  <1>3. \A k \in 1 .. Len(s) - i : SubSeq(s, i + 1, Len(s))[k] = s[k + i]
    OBVIOUS
  <1>4. PICK a \in Seq(S) : a = SubSeq(s, 1, i - 1)
    BY <1>1
  <1>5. PICK b \in Seq(S) : b = SubSeq(s, i + 1, Len(s))
    BY <1>1
  <1>6. Without(s, i) = a \o b
    BY <1>4, <1>5 DEF Without
  <1>7. /\ a \o b \in Seq(S)
        /\ Len(a \o b) = Len(a) + Len(b)
        /\ \A k \in 1 .. Len(a) + Len(b) :
             (a \o b)[k] = IF k <= Len(a) THEN a[k] ELSE b[k - Len(a)]
    OBVIOUS
  <1>8. Len(a) = i - 1 /\ Len(b) = Len(s) - i
    BY <1>1, <1>4, <1>5
  <1>9. ASSUME NEW k \in 1 .. Len(s) - 1
        PROVE  (a \o b)[k] = IF k < i THEN s[k] ELSE s[k + 1]
    <2>1. CASE k < i
      BY <1>2, <1>4, <1>7, <1>8, <2>1
    <2>2. CASE ~(k < i)
      <3>1. (a \o b)[k] = b[k - (i - 1)] /\ k - (i - 1) \in 1 .. Len(s) - i
        BY <1>7, <1>8, <2>2
      <3>2. PICK m \in 1 .. Len(s) - i : m = k - (i - 1)
        BY <3>1
      <3>3. b[m] = s[m + i] /\ m + i = k + 1
        BY <1>3, <1>5, <3>2
      <3> QED
        BY <2>2, <3>1, <3>2, <3>3
    <2> QED
      BY <2>1, <2>2
  <1> QED
    BY <1>6, <1>7, <1>8, <1>9

\* A sequence with another i-th element.
LEMMA SetElement ==
  ASSUME NEW S, NEW s \in Seq(S), NEW i \in 1 .. Len(s), NEW f \in S
  PROVE  /\ [s EXCEPT ![i] = f] \in Seq(S)
         /\ Len([s EXCEPT ![i] = f]) = Len(s)
         /\ \A k \in 1 .. Len(s) : [s EXCEPT ![i] = f][k] = IF k = i THEN f ELSE s[k]
  OBVIOUS

\* A sequence with one more element.
LEMMA PushElement ==
  ASSUME NEW S, NEW s \in Seq(S), NEW f \in S
  PROVE  /\ Append(s, f) \in Seq(S)
         /\ Len(Append(s, f)) = Len(s) + 1
         /\ \A k \in 1 .. Len(s) : Append(s, f)[k] = s[k]
         /\ Append(s, f)[Len(s) + 1] = f
  OBVIOUS

\* The innermost call.
LEMMA TopFacts ==
  ASSUME TypeOK, frames # <<>>
  PROVE  /\ Depth \in 1 .. Len(frames) /\ Depth = Len(frames)
         /\ Top = frames[Depth]
         /\ Top \in Frame
         /\ Top.rt \in Runtimes
         /\ Top.polling \in Tasks \union {Main, None}
  <1>1. frames \in Seq(Frame)
    BY DEF TypeOK
  <1>2. Depth \in 1 .. Len(frames) /\ Depth = Len(frames) /\ Top = frames[Depth]
    BY <1>1 DEF Depth, Top
  <1>3. Top \in Frame
    BY <1>1, <1>2
  <1> QED
    BY <1>2, <1>3 DEF Frame

\* A new guard is the last one.
LEMMA EnteredFacts ==
  ASSUME TypeOK, NEW r \in Runtimes, NEW d \in Nat, Entered(r, d)
  PROVE  /\ guards' \in Seq(Guard)
         /\ Len(guards') = Len(guards) + 1
         /\ \A k \in 1 .. Len(guards) : guards'[k] = guards[k]
         /\ guards'[Len(guards) + 1].depth = d
         /\ guards'[Len(guards) + 1].rt = r
         /\ guards'[Len(guards) + 1].saved = context
         /\ context' = r /\ lifo' = lifo
  <1>1. guards \in Seq(Guard) /\ context \in Runtimes \union {None}
    BY DEF TypeOK
  <1>2. [depth |-> d, rt |-> r, saved |-> context] \in Guard
    BY <1>1 DEF Guard
  <1> QED
    BY <1>1, <1>2 DEF Entered

\* A dropped guard leaves a gap that the later ones close.
LEMMA ExitedFacts ==
  ASSUME TypeOK, NEW i \in 1 .. Len(guards), Exited(i)
  PROVE  /\ guards' \in Seq(Guard)
         /\ Len(guards') = Len(guards) - 1
         /\ \A k \in 1 .. Len(guards) - 1 :
              guards'[k] = IF k < i THEN guards[k] ELSE guards[k + 1]
         /\ context' = guards[i].saved
         /\ context' \in Runtimes \union {None}
         /\ lifo' = (lifo /\ i = Len(guards))
  <1>1. guards \in Seq(Guard)
    BY DEF TypeOK
  <1>2. guards[i] \in Guard
    BY <1>1
  <1> QED
    BY <1>1, <1>2, WithoutFacts DEF Exited, Guard

\* What a call of block_on pushes.
LEMMA PushedFacts ==
  ASSUME TypeOK, NEW r \in Runtimes, BlockOn(r)
  PROVE  /\ frames' \in Seq(Frame)
         /\ Len(frames') = Len(frames) + 1
         /\ \A k \in 1 .. Len(frames) :
              /\ frames'[k].rt = frames[k].rt
              /\ frames'[k].entered = frames[k].entered
              /\ frames'[k].polling = frames[k].polling
              /\ frames'[k].owed = frames[k].owed
              /\ frames[k].shared => frames'[k].shared
              /\ frames[k].rt = r => frames'[k].shared
         /\ frames'[Len(frames) + 1].rt = r
         /\ ~frames'[Len(frames) + 1].entered
         /\ frames'[Len(frames) + 1].polling = None
         /\ ~frames'[Len(frames) + 1].owed
  <1>1. frames \in Seq(Frame) /\ Depth = Len(frames) /\ Len(frames) \in Nat
    BY DEF TypeOK, Depth
  <1>2. PICK old : old = [i \in 1 .. Depth |->
                [frames[i] EXCEPT !.shared = @ \/ frames[i].rt = r]]
    OBVIOUS
  <1>3. PICK new : new = [rt |-> r, entered |-> FALSE, polling |-> None,
                          owed |-> FALSE, shared |-> FALSE]
    OBVIOUS
  <1>4. new \in Frame
    BY <1>3 DEF Frame
  <1>5. \A k \in 1 .. Len(frames) : frames[k] \in Frame
    BY <1>1
  <1>6. \A k \in 1 .. Len(frames) :
          old[k] = [frames[k] EXCEPT !.shared = (frames[k].shared \/ frames[k].rt = r)]
    BY <1>1, <1>2
  <1>7. \A k \in 1 .. Len(frames) :
          /\ old[k] \in Frame
          /\ old[k].rt = frames[k].rt
          /\ old[k].entered = frames[k].entered
          /\ old[k].polling = frames[k].polling
          /\ old[k].owed = frames[k].owed
          /\ frames[k].shared => old[k].shared
          /\ frames[k].rt = r => old[k].shared
    BY <1>5, <1>6 DEF Frame
  <1>8. old \in Seq(Frame) /\ Len(old) = Len(frames)
    BY <1>1, <1>2, <1>7
  <1>9. frames' = Append(old, new)
    BY <1>2, <1>3 DEF BlockOn
  <1> QED
    <2>1. /\ frames' \in Seq(Frame)
          /\ Len(frames') = Len(frames) + 1
          /\ \A k \in 1 .. Len(frames) : frames'[k] = old[k]
          /\ frames'[Len(frames) + 1] = new
      BY <1>4, <1>8, <1>9, PushElement
    <2> QED
      BY <1>3, <1>7, <2>1

\* What stays when block_on is left.
LEMMA PoppedFacts ==
  ASSUME TypeOK, frames # <<>>, frames' = SubSeq(frames, 1, Depth - 1)
  PROVE  /\ frames' \in Seq(Frame)
         /\ Len(frames') = Len(frames) - 1
         /\ \A k \in 1 .. Len(frames) - 1 : frames'[k] = frames[k]
  <1>1. frames \in Seq(Frame) /\ Depth = Len(frames) /\ Len(frames) \in Nat \ {0}
    BY DEF TypeOK, Depth
  <1> QED
    BY <1>1

\* A poll begins or ends.
LEMMA PollingSet ==
  ASSUME TypeOK, frames # <<>>, NEW p \in Tasks \union {Main, None},
         frames' = [frames EXCEPT ![Depth].polling = p]
  PROVE  /\ frames' \in Seq(Frame)
         /\ Len(frames') = Len(frames)
         /\ \A k \in 1 .. Len(frames) :
              /\ frames'[k].rt = frames[k].rt
              /\ frames'[k].entered = frames[k].entered
              /\ frames'[k].polling = IF k = Depth THEN p ELSE frames[k].polling
              /\ frames'[k].owed = frames[k].owed
              /\ frames'[k].shared = frames[k].shared
  <1>1. frames \in Seq(Frame) /\ Depth \in 1 .. Len(frames)
    BY TopFacts DEF TypeOK
  <1>2. frames[Depth] \in Frame
    BY <1>1
  <1>3. PICK f : f = [frames[Depth] EXCEPT !.polling = p]
    OBVIOUS
  <1>4. /\ f \in Frame
        /\ f.rt = frames[Depth].rt /\ f.entered = frames[Depth].entered
        /\ f.polling = p /\ f.owed = frames[Depth].owed
        /\ f.shared = frames[Depth].shared
    BY <1>2, <1>3 DEF Frame
  <1>5. frames' = [frames EXCEPT ![Depth] = f]
    BY <1>1, <1>3
  <1>6. /\ frames' \in Seq(Frame) /\ Len(frames') = Len(frames)
        /\ \A k \in 1 .. Len(frames) : frames'[k] = IF k = Depth THEN f ELSE frames[k]
    BY <1>1, <1>4, <1>5, SetElement
  <1> QED
    BY <1>4, <1>6

\* The main future of the innermost call is polled.
LEMMA MainPolled ==
  ASSUME TypeOK, frames # <<>>
  PROVE  frames' = [frames EXCEPT ![Depth].polling = Main,
                                  ![Depth].entered = TRUE, ![Depth].owed = FALSE]
         => /\ frames' \in Seq(Frame)
            /\ Len(frames') = Len(frames)
            /\ frames'[Depth].rt = frames[Depth].rt
            /\ frames'[Depth].entered /\ ~frames'[Depth].owed
            /\ frames'[Depth].polling = Main
            /\ frames'[Depth].shared = frames[Depth].shared
            /\ \A k \in 1 .. Len(frames) : k # Depth => frames'[k] = frames[k]
  <1>1. frames \in Seq(Frame) /\ Depth \in 1 .. Len(frames)
    BY TopFacts DEF TypeOK
  <1>2. frames[Depth] \in Frame
    BY <1>1
  <1>3. PICK f : f = [frames[Depth] EXCEPT !.polling = Main, !.entered = TRUE,
                                           !.owed = FALSE]
    OBVIOUS
  <1>4. /\ f \in Frame
        /\ f.rt = frames[Depth].rt /\ f.entered /\ ~f.owed
        /\ f.polling = Main
        /\ f.shared = frames[Depth].shared
    BY <1>2, <1>3 DEF Frame
  <1>5. PICK g : g = [frames EXCEPT ![Depth] = f]
    OBVIOUS
  <1>6. /\ g \in Seq(Frame) /\ Len(g) = Len(frames)
        /\ \A k \in 1 .. Len(frames) : g[k] = IF k = Depth THEN f ELSE frames[k]
    BY <1>1, <1>4, <1>5, SetElement
  <1>7. g = [frames EXCEPT ![Depth].polling = Main,
                           ![Depth].entered = TRUE, ![Depth].owed = FALSE]
    BY <1>1, <1>3, <1>5
  <1>8. /\ g[Depth].rt = frames[Depth].rt
        /\ g[Depth].entered /\ ~g[Depth].owed
        /\ g[Depth].polling = Main
        /\ g[Depth].shared = frames[Depth].shared
        /\ \A k \in 1 .. Len(frames) : k # Depth => g[k] = frames[k]
    BY <1>1, <1>4, <1>6
  <1> QED
    BY <1>6, <1>7, <1>8, Zenon

\* The main future of the i-th call is woken.
LEMMA OwedSet ==
  ASSUME TypeOK, NEW i \in 1 .. Len(frames)
  PROVE  frames' = [frames EXCEPT ![i].owed = TRUE]
         => /\ frames' \in Seq(Frame)
            /\ Len(frames') = Len(frames)
            /\ frames'[i].rt = frames[i].rt
            /\ frames'[i].entered = frames[i].entered
            /\ frames'[i].polling = frames[i].polling
            /\ frames'[i].shared = frames[i].shared
            /\ \A k \in 1 .. Len(frames) : k # i => frames'[k] = frames[k]
  <1>1. frames \in Seq(Frame)
    BY DEF TypeOK
  <1>2. frames[i] \in Frame
    BY <1>1
  <1>3. PICK f : f = [frames[i] EXCEPT !.owed = TRUE]
    OBVIOUS
  <1>4. /\ f \in Frame
        /\ f.rt = frames[i].rt /\ f.entered = frames[i].entered
        /\ f.polling = frames[i].polling
        /\ f.shared = frames[i].shared
    BY <1>2, <1>3 DEF Frame
  <1>5. PICK g : g = [frames EXCEPT ![i] = f]
    OBVIOUS
  <1>6. /\ g \in Seq(Frame) /\ Len(g) = Len(frames)
        /\ \A k \in 1 .. Len(frames) : g[k] = IF k = i THEN f ELSE frames[k]
    BY <1>1, <1>4, <1>5, SetElement
  <1>7. g = [frames EXCEPT ![i].owed = TRUE]
    BY <1>1, <1>3, <1>5
  <1>8. /\ g[i].rt = frames[i].rt
        /\ g[i].entered = frames[i].entered
        /\ g[i].polling = frames[i].polling
        /\ g[i].shared = frames[i].shared
        /\ \A k \in 1 .. Len(frames) : k # i => g[k] = frames[k]
    BY <1>1, <1>4, <1>6
  <1> QED
    BY <1>6, <1>7, <1>8, Zenon

-----------------------------------------------------------------------------
(* Type correctness                                                        *)

\* What stays is part of what was there.
LEMMA ReclaimSubset ==
  ASSUME NEW A, Reclaim(A)
  PROVE  alive' \subseteq A
  BY DEF Reclaim

\* Guards that go with a call, or are left by it.
LEMMA UnwoundFacts ==
  ASSUME TypeOK, Unwound
  PROVE  \E i \in 1 .. Len(guards) : guards[i].depth = Depth /\ Exited(i)
  BY DEF Unwound

\* Every step keeps the types.
LEMMA TypeStep ==
  ASSUME TypeOK, [Next]_vars
  PROVE  TypeOK'
  <1>1. ASSUME NEW r \in Runtimes, Enter(r)
        PROVE  TypeOK'
    <2>1. Entered(r, 0)
      BY <1>1 DEF Enter
    <2>2. guards' \in Seq(Guard) /\ context' = r /\ lifo' = lifo
      BY <2>1, EnteredFacts
    <2> QED
      BY <1>1, <2>2 DEF TypeOK, Enter, taskVars
  <1>2. ASSUME NEW i \in 1 .. Len(guards), DropGuard(i)
        PROVE  TypeOK'
    <2>1. Exited(i) /\ alive' \subseteq alive
      BY <1>2, ReclaimSubset DEF DropGuard
    <2>2. /\ guards' \in Seq(Guard) /\ context' \in Runtimes \union {None}
          /\ lifo' \in BOOLEAN
      BY <2>1, ExitedFacts
    <2> QED
      BY <1>2, <2>1, <2>2 DEF TypeOK, DropGuard, taskVars
  <1>3. ASSUME NEW r \in Runtimes, New(r)
        PROVE  TypeOK'
    BY <1>3 DEF TypeOK, New, ctxVars, taskVars
  <1>4. CASE Current
    BY <1>4 DEF TypeOK, Current, HasContext, ctxVars, taskVars
  <1>5. ASSUME NEW r \in Runtimes, DropValue(r)
        PROVE  TypeOK'
    BY <1>5, ReclaimSubset DEF TypeOK, DropValue, ctxVars, taskVars
  <1>6. ASSUME NEW r \in Runtimes, BlockOn(r)
        PROVE  TypeOK'
    <2>1. frames' \in Seq(Frame)
      BY <1>6, PushedFacts
    <2>2. woke' \in [Runtimes -> BOOLEAN]
      BY <1>6 DEF TypeOK, BlockOn
    <2> QED
      BY <1>6, <2>1, <2>2 DEF TypeOK, BlockOn, ctxVars, taskVars
  <1>7. CASE PollMain
    <2>1. frames # <<>> /\ Depth \in Nat /\ Top.rt \in Runtimes
      BY <1>7, TopFacts DEF PollMain
    <2>2. frames' \in Seq(Frame)
      BY <1>7, <2>1, MainPolled DEF PollMain
    <2>3. woke' \in [Runtimes -> BOOLEAN]
      BY <1>7, <2>1 DEF TypeOK, PollMain, ClearWoke
    <2>4. /\ guards' \in Seq(Guard) /\ context' \in Runtimes \union {None}
          /\ lifo' \in BOOLEAN
      <3>1. CASE Entered(Top.rt, Depth)
        BY <2>1, <3>1, EnteredFacts DEF TypeOK
      <3> QED
        BY <1>7, <3>1 DEF TypeOK, PollMain, ctxVars
    <2> QED
      BY <1>7, <2>2, <2>3, <2>4 DEF TypeOK, PollMain, taskVars
  <1>8. ASSUME NEW t \in Tasks, RunTask(t)
        PROVE  TypeOK'
    <2>1. frames' \in Seq(Frame)
      BY <1>8, PollingSet DEF TypeOK, RunTask
    <2>2. alive' \subseteq alive
      BY <1>8, ReclaimSubset DEF RunTask
    <2> QED
      BY <1>8, <2>1, <2>2 DEF TypeOK, RunTask, ctxVars, partVars
  <1>9. CASE PollPending
    <2>1. frames' \in Seq(Frame)
      BY <1>9, PollingSet DEF PollPending, InPoll
    <2>2. alive' \subseteq alive
      BY <1>9, ReclaimSubset DEF PollPending
    <2> QED
      BY <1>9, <2>1, <2>2 DEF TypeOK, PollPending, ctxVars, taskVars
  <1>10. CASE TaskReady
    <2>1. frames' \in Seq(Frame)
      BY <1>10, PollingSet DEF TaskReady, InPoll
    <2>2. alive' \subseteq alive
      BY <1>10, ReclaimSubset DEF TaskReady
    <2>3. Top.polling \in Tasks
      BY <1>10, TopFacts DEF TaskReady, InPoll
    <2> QED
      BY <1>10, <2>1, <2>2, <2>3 DEF TypeOK, TaskReady, DropFuture, ctxVars
  <1>11. CASE Leave
    <2>1. frames' \in Seq(Frame)
      BY <1>11, PoppedFacts DEF Leave, InPoll
    <2>2. alive' \subseteq alive
      BY <1>11, ReclaimSubset DEF Leave
    <2>3. /\ guards' \in Seq(Guard) /\ context' \in Runtimes \union {None}
          /\ lifo' \in BOOLEAN
      BY <1>11, UnwoundFacts, ExitedFacts DEF Leave
    <2> QED
      BY <1>11, <2>1, <2>2, <2>3 DEF TypeOK, Leave, taskVars
  <1>12. ASSUME NEW t \in Tasks, RunPolled(t)
         PROVE  TypeOK'
    <2>1. frames' \in Seq(Frame)
      BY <1>12, PoppedFacts DEF RunPolled
    <2>2. alive' \subseteq alive
      BY <1>12, ReclaimSubset DEF RunPolled
    <2>3. /\ guards' \in Seq(Guard) /\ context' \in Runtimes \union {None}
          /\ lifo' \in BOOLEAN
      BY <1>12, UnwoundFacts, ExitedFacts DEF RunPolled
    <2> QED
      BY <1>12, <2>1, <2>2, <2>3 DEF TypeOK, RunPolled, partVars
  <1>13. ASSUME NEW t \in Tasks, NEW r \in Runtimes, Spawn(t, r)
         PROVE  TypeOK'
    BY <1>13 DEF TypeOK, Spawn, ctxVars, partVars
  <1>14. CASE KeepWaker
    BY <1>14 DEF TypeOK, KeepWaker, ctxVars, taskVars
  <1>15. CASE Hold
    <2>1. holds' \subseteq Runtimes \X Tasks
      BY <1>15 DEF TypeOK, Hold, HasContext
    <2> QED
      BY <1>15, <2>1 DEF TypeOK, Hold, ctxVars
  <1>16. ASSUME NEW t \in Tasks, DropHeld(t) \/ Cancel(t)
         PROVE  TypeOK'
    <2>1. alive' \subseteq alive
      BY <1>16, ReclaimSubset DEF DropHeld, Cancel
    <2> QED
      BY <1>16, <2>1 DEF TypeOK, DropHeld, Cancel, DropFuture, ctxVars, taskVars
  <1>17. ASSUME NEW t \in Tasks, WakeTask(t)
         PROVE  TypeOK'
    BY <1>17 DEF TypeOK, WakeTask, ctxVars, partVars
  <1>18. ASSUME NEW t \in Tasks, NEW r \in Runtimes, Fire(r, t)
         PROVE  TypeOK'
    <2>1. alive' \subseteq alive
      BY <1>18, ReclaimSubset DEF Fire
    <2> QED
      BY <1>18, <2>1 DEF TypeOK, Fire, ctxVars
  <1>21. ASSUME NEW r \in Runtimes, NEW timer \in BOOLEAN, Suspend(r, timer)
         PROVE  TypeOK'
    <2>1. <<r, Top.polling>> \in Runtimes \X Tasks
      BY <1>21 DEF TypeOK, Suspend
    <2>2. stored' \subseteq Runtimes \X Tasks /\ asleep' \subseteq Runtimes \X Tasks
      BY <1>21, <2>1 DEF TypeOK, Suspend
    <2> QED
      BY <1>21, <2>2 DEF TypeOK, Suspend, ctxVars
  <1>22. ASSUME NEW r \in Runtimes, Release(r)
         PROVE  TypeOK'
    <2>1. alive' \subseteq alive
      BY <1>22, ReclaimSubset DEF Release
    <2> QED
      BY <1>22, <2>1 DEF TypeOK, Release, ctxVars
  <1>23. ASSUME NEW lost \in SUBSET stored, ParkFails(lost)
         PROVE  TypeOK'
    <2>1. frames' \in Seq(Frame)
      BY <1>23, PoppedFacts DEF ParkFails
    <2>2. alive' \subseteq alive
      BY <1>23, ReclaimSubset DEF ParkFails
    <2>3. /\ guards' \in Seq(Guard) /\ context' \in Runtimes \union {None}
          /\ lifo' \in BOOLEAN
      BY <1>23, UnwoundFacts, ExitedFacts DEF ParkFails
    <2> QED
      BY <1>23, <2>1, <2>2, <2>3 DEF TypeOK, ParkFails
  <1>19. ASSUME NEW i \in 1 .. Len(frames), WakeMain(i)
         PROVE  TypeOK'
    <2>1. frames' \in Seq(Frame)
      BY <1>19, OwedSet DEF WakeMain
    <2>2. woke' \in [Runtimes -> BOOLEAN]
      BY <1>19 DEF TypeOK, WakeMain
    <2> QED
      BY <1>19, <2>1, <2>2 DEF TypeOK, WakeMain, ctxVars, taskVars
  <1>20. CASE UNCHANGED vars
    BY <1>20 DEF TypeOK, vars
  <1> QED
    BY <1>1, <1>2, <1>3, <1>4, <1>5, <1>6, <1>7, <1>8, <1>9, <1>10, <1>11,
       <1>12, <1>13, <1>14, <1>15, <1>16, <1>17, <1>18, <1>19, <1>20, <1>21,
       <1>22, <1>23 DEF Next

-----------------------------------------------------------------------------
(* The context                                                             *)

\* The context changes with the guards, and in no other way.
LEMMA ContextMoves ==
  ASSUME TypeOK, [Next]_vars
  PROVE  \/ UNCHANGED ctxVars
         \/ \E r \in Runtimes, d \in Nat : Entered(r, d)
         \/ \E i \in 1 .. Len(guards) : Exited(i)
  <1>1. ASSUME NEW r \in Runtimes, Enter(r)
        PROVE  \E d \in Nat : Entered(r, d)
    BY <1>1 DEF Enter
  <1>2. ASSUME NEW i \in 1 .. Len(guards), DropGuard(i)
        PROVE  Exited(i)
    BY <1>2 DEF DropGuard
  <1>3. CASE PollMain
    <2>1. Depth \in Nat /\ Top.rt \in Runtimes
      BY <1>3, TopFacts DEF PollMain
    <2> QED
      BY <1>3, <2>1 DEF PollMain
  <1>4. CASE Leave
    BY <1>4, UnwoundFacts DEF Leave
  <1>5. ASSUME NEW t \in Tasks, RunPolled(t)
        PROVE  \E i \in 1 .. Len(guards) : Exited(i)
    BY <1>5, UnwoundFacts DEF RunPolled
  <1>6. ASSUME NEW r \in Runtimes, New(r) \/ DropValue(r) \/ BlockOn(r)
        PROVE  UNCHANGED ctxVars
    BY <1>6 DEF New, DropValue, BlockOn
  <1>7. CASE Current \/ PollPending \/ TaskReady \/ KeepWaker \/ Hold
    BY <1>7 DEF Current, PollPending, TaskReady, KeepWaker, Hold
  <1>8. ASSUME NEW t \in Tasks, RunTask(t) \/ DropHeld(t) \/ Cancel(t) \/ WakeTask(t)
        PROVE  UNCHANGED ctxVars
    BY <1>8 DEF RunTask, DropHeld, Cancel, WakeTask
  <1>9. ASSUME NEW t \in Tasks, NEW r \in Runtimes, Spawn(t, r) \/ Fire(r, t)
        PROVE  UNCHANGED ctxVars
    BY <1>9 DEF Spawn, Fire
  <1>10. ASSUME NEW i \in 1 .. Len(frames), WakeMain(i)
         PROVE  UNCHANGED ctxVars
    BY <1>10 DEF WakeMain
  <1>11. ASSUME NEW r \in Runtimes, NEW timer \in BOOLEAN,
                Suspend(r, timer) \/ Release(r)
         PROVE  UNCHANGED ctxVars
    BY <1>11 DEF Suspend, Release
  <1>12. ASSUME NEW lost \in SUBSET stored, ParkFails(lost)
         PROVE  \E i \in 1 .. Len(guards) : Exited(i)
    BY <1>12, UnwoundFacts DEF ParkFails
  <1>13. CASE UNCHANGED vars
    BY <1>13 DEF vars, ctxVars
  <1> QED
    BY <1>1, <1>2, <1>3, <1>4, <1>5, <1>6, <1>7, <1>8, <1>9, <1>10, <1>11,
       <1>12, <1>13 DEF Next

\* Each guard remembers the context that it replaced, so that dropping them
\* newest first goes back through the contexts.
LEMMA ContextStep ==
  ASSUME TypeOK, ContextIsInnermost, ChainInv, [Next]_vars
  PROVE  ContextIsInnermost' /\ ChainInv'
  <1> guards \in Seq(Guard) /\ Len(guards) \in Nat
    BY DEF TypeOK
  <1>1. CASE UNCHANGED ctxVars
    BY <1>1 DEF ctxVars, ContextIsInnermost, ChainInv
  <1>2. ASSUME NEW r \in Runtimes, NEW d \in Nat, Entered(r, d)
        PROVE  ContextIsInnermost' /\ ChainInv'
    <2>1. /\ guards' \in Seq(Guard)
          /\ Len(guards') = Len(guards) + 1
          /\ \A k \in 1 .. Len(guards) : guards'[k] = guards[k]
          /\ guards'[Len(guards) + 1].rt = r
          /\ guards'[Len(guards) + 1].saved = context
          /\ context' = r /\ lifo' = lifo
      BY <1>2, EnteredFacts
    <2>2. ContextIsInnermost'
      BY <2>1 DEF ContextIsInnermost
    <2>3. ASSUME lifo', NEW i \in 1 .. Len(guards')
          PROVE  guards'[i].saved = IF i = 1 THEN None ELSE guards'[i - 1].rt
      <3>1. CASE i <= Len(guards)
        BY <2>1, <2>3, <3>1 DEF ChainInv
      <3>2. CASE i = Len(guards) + 1
        BY <2>1, <2>3, <3>2 DEF ContextIsInnermost
      <3> QED
        BY <2>1, <2>3, <3>1, <3>2
    <2> QED
      BY <2>2, <2>3 DEF ChainInv
  <1>3. ASSUME NEW i \in 1 .. Len(guards), Exited(i), lifo'
        PROVE  ContextIsInnermost' /\ ChainInv'
    <2>1. /\ guards' \in Seq(Guard)
          /\ Len(guards') = Len(guards) - 1
          /\ \A k \in 1 .. Len(guards) - 1 : guards'[k] = guards[k]
          /\ context' = guards[Len(guards)].saved
          /\ lifo /\ i = Len(guards)
      <3>1. lifo' = (lifo /\ i = Len(guards))
        BY <1>3, ExitedFacts
      <3>2. lifo /\ i = Len(guards)
        BY <1>3, <3>1, Zenon
      <3>3. /\ guards' \in Seq(Guard)
            /\ Len(guards') = Len(guards) - 1
            /\ \A k \in 1 .. Len(guards) - 1 :
                 guards'[k] = IF k < i THEN guards[k] ELSE guards[k + 1]
            /\ context' = guards[i].saved
        BY <1>3, ExitedFacts
      <3>4. \A k \in 1 .. Len(guards) - 1 : guards'[k] = guards[k]
        BY <3>2, <3>3
      <3>5. context' = guards[Len(guards)].saved
        BY <3>2, <3>3
      <3> QED
        BY <3>2, <3>3, <3>4, <3>5, Zenon
    <2>2. ContextIsInnermost'
      <3>1. CASE Len(guards) = 1
        <4>1. guards' = <<>> /\ context' = None
          BY <2>1, <3>1 DEF ChainInv
        <4> QED
          BY <4>1 DEF ContextIsInnermost
      <3>2. CASE Len(guards) > 1
        <4>1. guards' # <<>> /\ context' = guards[Len(guards) - 1].rt
          BY <2>1, <3>2 DEF ChainInv
        <4>2. guards'[Len(guards')] = guards[Len(guards) - 1]
          BY <2>1, <3>2
        <4> QED
          BY <4>1, <4>2 DEF ContextIsInnermost
      <3> QED
        BY <1>3, <3>1, <3>2
    <2>3. ASSUME NEW k \in 1 .. Len(guards')
          PROVE  guards'[k].saved = IF k = 1 THEN None ELSE guards'[k - 1].rt
      <3>1. k \in 1 .. Len(guards) /\ guards'[k] = guards[k]
        BY <2>1
      <3>2. k # 1 => guards'[k - 1] = guards[k - 1]
        BY <2>1
      <3>3. guards[k].saved = IF k = 1 THEN None ELSE guards[k - 1].rt
        BY <2>1, <3>1 DEF ChainInv
      <3> QED
        BY <3>1, <3>2, <3>3
    <2> QED
      BY <2>2, <2>3 DEF ChainInv
  <1>4. CASE ~lifo'
    BY <1>4 DEF ContextIsInnermost, ChainInv
  <1> QED
    BY <1>1, <1>2, <1>3, <1>4, ContextMoves

-----------------------------------------------------------------------------
(* Nested calls                                                            *)

\* The guards that are left after the i-th one is dropped.
LEMMA GuardsLeft ==
  ASSUME TypeOK, NEW i \in 1 .. Len(guards), Exited(i)
  PROVE  /\ \A j \in (1 .. Len(guards)) \ {i} :
              \E k \in 1 .. Len(guards') : guards'[k] = guards[j]
         /\ \A k, l \in 1 .. Len(guards') :
              \E a, b \in (1 .. Len(guards)) \ {i} :
                /\ guards'[k] = guards[a] /\ guards'[l] = guards[b]
                /\ a = b => k = l
  <1>1. Len(guards) \in Nat
    BY DEF TypeOK
  <1>2. /\ Len(guards') = Len(guards) - 1
        /\ \A k \in 1 .. Len(guards) - 1 :
             guards'[k] = IF k < i THEN guards[k] ELSE guards[k + 1]
    BY ExitedFacts
  <1>3. ASSUME NEW j \in (1 .. Len(guards)) \ {i}
        PROVE  \E k \in 1 .. Len(guards') : guards'[k] = guards[j]
    <2>1. CASE j < i
      <3>1. j \in 1 .. Len(guards') /\ guards'[j] = guards[j]
        BY <1>1, <1>2, <2>1
      <3> QED
        BY <3>1
    <2>2. CASE j > i
      <3>1. PICK k \in 1 .. Len(guards) - 1 : k + 1 = j /\ ~(k < i)
        <4>1. j - 1 \in 1 .. Len(guards) - 1 /\ (j - 1) + 1 = j /\ ~(j - 1 < i)
          BY <1>1, <2>2
        <4> QED
          BY <4>1
      <3>2. k \in 1 .. Len(guards') /\ guards'[k] = guards[j]
        BY <1>2, <3>1
      <3> QED
        BY <3>2
    <2> QED
      BY <1>1, <2>1, <2>2
  <1>4. ASSUME NEW k \in 1 .. Len(guards'), NEW l \in 1 .. Len(guards')
        PROVE  \E a, b \in (1 .. Len(guards)) \ {i} :
                 /\ guards'[k] = guards[a] /\ guards'[l] = guards[b]
                 /\ a = b => k = l
    <2> DEFINE Old(m) == IF m < i THEN m ELSE m + 1
    <2>0. ASSUME NEW m \in 1 .. Len(guards')
          PROVE  Old(m) \in (1 .. Len(guards)) \ {i} /\ guards'[m] = guards[Old(m)]
      <3>1. m \in 1 .. Len(guards) - 1 /\ i \in 1 .. Len(guards)
        BY <1>2
      <3>2. CASE m < i
        BY <1>1, <1>2, <3>1, <3>2
      <3>3. CASE ~(m < i)
        BY <1>1, <1>2, <3>1, <3>3
      <3> QED
        BY <3>2, <3>3
    <2>1. PICK a \in (1 .. Len(guards)) \ {i} : a = Old(k) /\ guards'[k] = guards[a]
      BY <2>0
    <2>2. PICK b \in (1 .. Len(guards)) \ {i} : b = Old(l) /\ guards'[l] = guards[b]
      BY <2>0
    <2>3. a = b => k = l
      BY <1>1, <1>2, <2>1, <2>2
    <2> QED
      BY <2>1, <2>2, <2>3
  <1> QED
    BY <1>3, <1>4

\* The calls are as before, but for what they poll.
SameCalls ==
  /\ Len(frames') = Len(frames)
  /\ \A k \in 1 .. Len(frames) :
       /\ frames'[k].rt = frames[k].rt
       /\ frames'[k].entered = frames[k].entered
       /\ frames'[k].owed = frames[k].owed
       /\ frames'[k].shared = frames[k].shared

\* The guards of the calls are as before: the user's may come and go.
SameGuards ==
  \/ guards' = guards
  \/ \E r \in Runtimes : Entered(r, 0)
  \/ \E i \in 1 .. Len(guards) : guards[i].depth = 0 /\ Exited(i)

\* A call is left together with its guard.
Left ==
  /\ frames # <<>>
  /\ frames' = SubSeq(frames, 1, Depth - 1)
  /\ Unwound
  /\ woke' = woke

\* The ways in which calls change.
LEMMA CallMoves ==
  ASSUME TypeOK, [Next]_vars
  PROVE  \/ SameCalls /\ SameGuards /\ woke' = woke
         \/ \E r \in Runtimes : BlockOn(r)
         \/ PollMain
         \/ Left
         \/ \E i \in 1 .. Len(frames) : WakeMain(i)
  <1>1. frames' = frames => SameCalls
    BY DEF SameCalls
  <1>2. ASSUME NEW r \in Runtimes, Enter(r)
        PROVE  SameCalls /\ SameGuards /\ woke' = woke
    BY <1>1, <1>2 DEF Enter, SameGuards
  <1>3. ASSUME NEW i \in 1 .. Len(guards), DropGuard(i)
        PROVE  SameCalls /\ SameGuards /\ woke' = woke
    BY <1>1, <1>3 DEF DropGuard, SameGuards
  <1>4. ASSUME NEW r \in Runtimes, New(r) \/ DropValue(r)
        PROVE  SameCalls /\ SameGuards /\ woke' = woke
    BY <1>1, <1>4 DEF New, DropValue, SameGuards, ctxVars
  <1>5. CASE Current \/ KeepWaker \/ Hold
    BY <1>1, <1>5 DEF Current, KeepWaker, Hold, SameGuards, ctxVars
  <1>6. CASE PollPending \/ TaskReady
    <2>1. SameCalls
      BY <1>6, PollingSet DEF PollPending, TaskReady, InPoll, SameCalls
    <2> QED
      BY <1>6, <2>1 DEF PollPending, TaskReady, SameGuards, ctxVars
  <1>7. ASSUME NEW t \in Tasks, RunTask(t)
        PROVE  SameCalls /\ SameGuards /\ woke' = woke
    <2>1. SameCalls
      BY <1>1, <1>7, PollingSet DEF RunTask, SameCalls
    <2> QED
      BY <1>7, <2>1 DEF RunTask, SameGuards, ctxVars
  <1>8. ASSUME NEW t \in Tasks, DropHeld(t) \/ Cancel(t) \/ WakeTask(t)
        PROVE  SameCalls /\ SameGuards /\ woke' = woke
    BY <1>1, <1>8 DEF DropHeld, Cancel, WakeTask, SameGuards, ctxVars
  <1>9. ASSUME NEW t \in Tasks, NEW r \in Runtimes, Spawn(t, r) \/ Fire(r, t)
        PROVE  SameCalls /\ SameGuards /\ woke' = woke
    BY <1>1, <1>9 DEF Spawn, Fire, SameGuards, ctxVars
  <1>10. CASE Leave
    BY <1>10 DEF Leave, Left, InPoll
  <1>11. ASSUME NEW t \in Tasks, RunPolled(t)
         PROVE  Left
    BY <1>11 DEF RunPolled, Left
  <1>12. ASSUME NEW lost \in SUBSET stored, ParkFails(lost)
         PROVE  Left
    BY <1>12 DEF ParkFails, Left
  <1>13. ASSUME NEW r \in Runtimes, NEW timer \in BOOLEAN,
                Suspend(r, timer) \/ Release(r)
         PROVE  SameCalls /\ SameGuards /\ woke' = woke
    BY <1>1, <1>13 DEF Suspend, Release, SameGuards, ctxVars
  <1>14. CASE UNCHANGED vars
    BY <1>1, <1>14 DEF vars, SameGuards
  <1> QED
    BY <1>2, <1>3, <1>4, <1>5, <1>6, <1>7, <1>8, <1>9, <1>10, <1>11, <1>12,
       <1>13, <1>14 DEF Next

\* Only the guards of the calls matter: those with a depth other than 0.
LEMMA NestingKept ==
  ASSUME TypeOK, GuardPerCall, NestingInv, SameCalls,
         \A k, l \in 1 .. Len(guards') :
           guards'[k].depth # 0 /\ guards'[l].depth # 0 =>
             \E a, b \in 1 .. Len(guards) :
               /\ guards'[k] = guards[a] /\ guards'[l] = guards[b]
               /\ a = b => k = l,
         \A j \in 1 .. Len(guards) :
           guards[j].depth = 0 \/ \E k \in 1 .. Len(guards') : guards'[k] = guards[j]
  PROVE  GuardPerCall' /\ NestingInv'
  <1>1. /\ Len(frames) \in Nat
        /\ \A m \in 1 .. Len(frames) : m # 0 /\ m \in Nat
        /\ 0 <= Len(frames)
    BY DEF TypeOK
  <1>2. ASSUME NEW j \in 1 .. Len(guards')
        PROVE  guards'[j].depth <= Len(frames')
    <2>1. CASE guards'[j].depth = 0
      BY <1>1, <2>1 DEF SameCalls
    <2>2. CASE guards'[j].depth # 0
      BY <2>2 DEF SameCalls, GuardPerCall
    <2> QED
      BY <2>1, <2>2
  <1>3. ASSUME NEW m \in 1 .. Len(frames)
        PROVE  frames'[m].entered <=> \E j \in 1 .. Len(guards') : guards'[j].depth = m
    <2>1. frames[m].entered <=> \E j \in 1 .. Len(guards) : guards[j].depth = m
      BY DEF GuardPerCall
    <2>2. ASSUME NEW j \in 1 .. Len(guards), guards[j].depth = m
          PROVE  \E k \in 1 .. Len(guards') : guards'[k].depth = m
      BY <1>1, <2>2
    <2>3. ASSUME NEW k \in 1 .. Len(guards'), guards'[k].depth = m
          PROVE  \E j \in 1 .. Len(guards) : guards[j].depth = m
      BY <1>1, <2>3
    <2>4. frames'[m].entered = frames[m].entered
      BY DEF SameCalls
    <2> QED
      BY <2>1, <2>2, <2>3, <2>4, Zenon
  <1>4. GuardPerCall'
    BY <1>2, <1>3 DEF GuardPerCall, SameCalls
  <1>5. \A k, l \in 1 .. Len(guards') :
          guards'[k].depth = guards'[l].depth /\ guards'[k].depth # 0 => k = l
    BY DEF NestingInv
  <1>6. \A k, l \in 1 .. Len(frames') :
          k < l /\ frames'[k].rt = frames'[l].rt => frames'[k].shared
    BY DEF NestingInv, SameCalls
  <1> QED
    BY <1>4, <1>5, <1>6 DEF NestingInv

\* Guards and calls of block_on keep matching one to one.
LEMMA NestingStep ==
  ASSUME TypeOK, GuardPerCall, NestingInv, [Next]_vars
  PROVE  GuardPerCall' /\ NestingInv'
  <1>0. /\ Len(guards) \in Nat
        /\ Len(frames) \in Nat
        /\ \A k \in 1 .. Len(guards) : guards[k].depth \in Nat
    <2>1. guards \in Seq(Guard) /\ frames \in Seq(Frame)
      BY DEF TypeOK
    <2>2. \A k \in 1 .. Len(guards) : guards[k] \in Guard
      BY <2>1
    <2> QED
      BY <2>1, <2>2 DEF Guard
  <1>1. CASE SameCalls /\ SameGuards
    <2>1. CASE guards' = guards
      BY <1>1, <2>1, NestingKept
    <2>2. ASSUME NEW r \in Runtimes, Entered(r, 0)
          PROVE  GuardPerCall' /\ NestingInv'
      <3>1. /\ Len(guards') = Len(guards) + 1
            /\ \A k \in 1 .. Len(guards) : guards'[k] = guards[k]
            /\ guards'[Len(guards) + 1].depth = 0
        BY <2>2, EnteredFacts
      <3>2. /\ \A k \in 1 .. Len(guards') :
                 k \in 1 .. Len(guards) \/ guards'[k].depth = 0
            /\ \A k \in 1 .. Len(guards) : k \in 1 .. Len(guards')
        BY <1>0, <3>1
      <3> QED
        BY <1>1, <3>1, <3>2, NestingKept
    <2>3. ASSUME NEW i \in 1 .. Len(guards), guards[i].depth = 0, Exited(i)
          PROVE  GuardPerCall' /\ NestingInv'
      <3>1. /\ \A j \in (1 .. Len(guards)) \ {i} :
                 \E k \in 1 .. Len(guards') : guards'[k] = guards[j]
            /\ \A k, l \in 1 .. Len(guards') :
                 \E a, b \in (1 .. Len(guards)) \ {i} :
                   /\ guards'[k] = guards[a] /\ guards'[l] = guards[b]
                   /\ a = b => k = l
        BY <2>3, GuardsLeft
      <3>2. ASSUME NEW k \in 1 .. Len(guards'), NEW l \in 1 .. Len(guards')
            PROVE  \E a, b \in 1 .. Len(guards) :
                     /\ guards'[k] = guards[a] /\ guards'[l] = guards[b]
                     /\ a = b => k = l
        <4>1. PICK a, b \in (1 .. Len(guards)) \ {i} :
                /\ guards'[k] = guards[a] /\ guards'[l] = guards[b]
                /\ a = b => k = l
          BY <3>1, Zenon
        <4>2. a \in 1 .. Len(guards) /\ b \in 1 .. Len(guards)
          OBVIOUS
        <4> QED
          BY <4>1, <4>2, Zenon
      <3>3. \A j \in 1 .. Len(guards) :
              guards[j].depth = 0 \/ \E k \in 1 .. Len(guards') : guards'[k] = guards[j]
        BY <2>3, <3>1, Zenon
      <3> QED
        BY <1>1, <3>2, <3>3, NestingKept
    <2> QED
      BY <1>1, <2>1, <2>2, <2>3 DEF SameGuards
  <1>2. ASSUME NEW r \in Runtimes, BlockOn(r)
        PROVE  GuardPerCall' /\ NestingInv'
    <2>1. guards' = guards
      BY <1>2 DEF BlockOn, ctxVars
    <2>2. /\ Len(frames') = Len(frames) + 1
          /\ \A k \in 1 .. Len(frames) :
               /\ frames'[k].rt = frames[k].rt
               /\ frames'[k].entered = frames[k].entered
               /\ frames[k].shared => frames'[k].shared
               /\ frames[k].rt = r => frames'[k].shared
          /\ frames'[Len(frames) + 1].rt = r
          /\ ~frames'[Len(frames) + 1].entered
      BY <1>2, PushedFacts
    <2>3. \A k \in 1 .. Len(frames') : k \in 1 .. Len(frames) \/ k = Len(frames) + 1
      BY <1>0, <2>2
    <2>4. \A j \in 1 .. Len(guards) :
            guards[j].depth <= Len(frames') /\ guards[j].depth # Len(frames) + 1
      BY <1>0, <2>2 DEF GuardPerCall
    <2>5. ASSUME NEW m \in 1 .. Len(frames')
          PROVE  frames'[m].entered <=> \E j \in 1 .. Len(guards) : guards[j].depth = m
      <3>1. CASE m \in 1 .. Len(frames)
        BY <2>2, <3>1 DEF GuardPerCall
      <3>2. CASE m = Len(frames) + 1
        BY <2>2, <2>4, <3>2
      <3> QED
        BY <2>3, <3>1, <3>2
    <2>6. ASSUME NEW k \in 1 .. Len(frames'), NEW l \in 1 .. Len(frames'),
                 k < l, frames'[k].rt = frames'[l].rt
          PROVE  frames'[k].shared
      <3>1. k \in 1 .. Len(frames)
        BY <1>0, <2>2, <2>6
      <3>2. CASE l \in 1 .. Len(frames)
        BY <2>2, <2>6, <3>1, <3>2 DEF NestingInv
      <3>3. CASE l = Len(frames) + 1
        BY <2>2, <2>6, <3>1, <3>3
      <3> QED
        BY <2>3, <3>2, <3>3
    <2> QED
      BY <2>1, <2>4, <2>5, <2>6 DEF GuardPerCall, NestingInv
  <1>3. CASE PollMain
    <2>1. /\ frames # <<>> /\ Depth = Len(frames) /\ Depth \in 1 .. Len(frames)
          /\ Top = frames[Depth] /\ Top.rt \in Runtimes
      BY <1>3, TopFacts DEF PollMain
    <2>2. /\ Len(frames') = Len(frames)
          /\ frames'[Depth].rt = frames[Depth].rt
          /\ frames'[Depth].entered
          /\ frames'[Depth].shared = frames[Depth].shared
          /\ \A k \in 1 .. Len(frames) : k # Depth => frames'[k] = frames[k]
      BY <1>3, <2>1, MainPolled DEF PollMain
    <2>3. \A k, l \in 1 .. Len(frames') :
            k < l /\ frames'[k].rt = frames'[l].rt => frames'[k].shared
      BY <2>1, <2>2 DEF NestingInv
    <2>4. CASE Top.entered
      <3>1. guards' = guards
        BY <1>3, <2>4 DEF PollMain, ctxVars
      <3>2. GuardPerCall'
        BY <2>1, <2>2, <2>4, <3>1 DEF GuardPerCall
      <3> QED
        BY <2>3, <3>1, <3>2 DEF NestingInv
    <2>5. CASE ~Top.entered
      <3>1. Entered(Top.rt, Depth)
        BY <1>3, <2>5 DEF PollMain
      <3>2. /\ Len(guards') = Len(guards) + 1
            /\ \A k \in 1 .. Len(guards) : guards'[k] = guards[k]
            /\ guards'[Len(guards) + 1].depth = Depth
        <4>1. Depth \in Nat
          BY <2>1
        <4> QED
          BY <2>1, <3>1, <4>1, EnteredFacts
      <3>3. \A k \in 1 .. Len(guards) : guards[k].depth # Depth
        BY <2>1, <2>5 DEF GuardPerCall
      <3>4. /\ \A k \in 1 .. Len(guards') :
                 k \in 1 .. Len(guards) \/ k = Len(guards) + 1
            /\ Len(guards) + 1 \in 1 .. Len(guards')
            /\ \A k \in 1 .. Len(guards) : k \in 1 .. Len(guards')
        BY <1>0, <3>2
      <3>5. \A j \in 1 .. Len(guards') : guards'[j].depth <= Len(frames')
        BY <1>0, <2>1, <2>2, <3>2, <3>4 DEF GuardPerCall
      <3>6. ASSUME NEW m \in 1 .. Len(frames)
            PROVE  frames'[m].entered <=>
                     \E j \in 1 .. Len(guards') : guards'[j].depth = m
        <4>1. CASE m = Depth
          BY <2>2, <3>2, <3>4, <4>1
        <4>2. CASE m # Depth
          <5>1. frames'[m] = frames[m]
            BY <2>2, <4>2
          <5>2. frames[m].entered <=> \E j \in 1 .. Len(guards) : guards[j].depth = m
            BY DEF GuardPerCall
          <5>3. (\E j \in 1 .. Len(guards) : guards[j].depth = m)
                  <=> \E j \in 1 .. Len(guards') : guards'[j].depth = m
            BY <3>2, <3>4, <4>2
          <5> QED
            BY <5>1, <5>2, <5>3
        <4> QED
          BY <4>1, <4>2
      <3>7. GuardPerCall'
        BY <2>2, <3>5, <3>6 DEF GuardPerCall
      <3>8. \A k, l \in 1 .. Len(guards') :
              guards'[k].depth = guards'[l].depth /\ guards'[k].depth # 0 => k = l
        BY <3>2, <3>3, <3>4 DEF NestingInv
      <3> QED
        BY <2>3, <3>7, <3>8 DEF NestingInv
    <2> QED
      BY <2>4, <2>5
  <1>4. CASE Left
    <2>1. /\ frames # <<>> /\ Depth = Len(frames) /\ Depth \in 1 .. Len(frames)
      BY <1>4, TopFacts DEF Left
    <2>2. /\ Len(frames') = Len(frames) - 1
          /\ \A k \in 1 .. Len(frames) - 1 : frames'[k] = frames[k]
      BY <1>4, PoppedFacts DEF Left
    <2>3. PICK i \in 1 .. Len(guards) : guards[i].depth = Depth /\ Exited(i)
      BY <1>4, UnwoundFacts DEF Left
    <2>4. /\ \A j \in (1 .. Len(guards)) \ {i} :
               \E k \in 1 .. Len(guards') : guards'[k] = guards[j]
          /\ \A k, l \in 1 .. Len(guards') :
               \E a, b \in (1 .. Len(guards)) \ {i} :
                 /\ guards'[k] = guards[a] /\ guards'[l] = guards[b]
                 /\ a = b => k = l
      BY <2>3, GuardsLeft
    <2>5. \A j \in (1 .. Len(guards)) \ {i} : guards[j].depth <= Len(frames) - 1
      <3>1. \A j \in (1 .. Len(guards)) \ {i} : guards[j].depth # Depth
        BY <1>0, <2>1, <2>3 DEF NestingInv
      <3> QED
        BY <1>0, <2>1, <3>1 DEF GuardPerCall
    <2>6. ASSUME NEW j \in 1 .. Len(guards')
          PROVE  guards'[j].depth <= Len(frames')
      <3>1. PICK a \in (1 .. Len(guards)) \ {i} : guards'[j] = guards[a]
        BY <2>4, Zenon
      <3> QED
        BY <2>2, <2>5, <3>1
    <2>7. ASSUME NEW m \in 1 .. Len(frames) - 1
          PROVE  frames'[m].entered <=>
                   \E j \in 1 .. Len(guards') : guards'[j].depth = m
      <3>1. m \in 1 .. Len(frames) /\ m # Depth /\ frames'[m] = frames[m]
        BY <1>0, <2>1, <2>2
      <3>2. frames[m].entered <=> \E j \in 1 .. Len(guards) : guards[j].depth = m
        BY <3>1 DEF GuardPerCall
      <3>3. ASSUME NEW j \in 1 .. Len(guards), guards[j].depth = m
            PROVE  \E k \in 1 .. Len(guards') : guards'[k].depth = m
        BY <2>3, <2>4, <3>1, <3>3
      <3>4. ASSUME NEW k \in 1 .. Len(guards'), guards'[k].depth = m
            PROVE  \E j \in 1 .. Len(guards) : guards[j].depth = m
        BY <2>4, <3>4
      <3> QED
        BY <3>1, <3>2, <3>3, <3>4
    <2>8. GuardPerCall'
      BY <2>2, <2>6, <2>7 DEF GuardPerCall
    <2>9. ASSUME NEW k \in 1 .. Len(guards'), NEW l \in 1 .. Len(guards'),
                 guards'[k].depth = guards'[l].depth, guards'[k].depth # 0
          PROVE  k = l
      <3>1. PICK a, b \in (1 .. Len(guards)) \ {i} :
              /\ guards'[k] = guards[a] /\ guards'[l] = guards[b]
              /\ a = b => k = l
        BY <2>4, Zenon
      <3> QED
        BY <2>9, <3>1 DEF NestingInv
    <2>10. \A k, l \in 1 .. Len(frames') :
             k < l /\ frames'[k].rt = frames'[l].rt => frames'[k].shared
      <3>1. \A k \in 1 .. Len(frames') :
              k \in 1 .. Len(frames) /\ frames'[k] = frames[k]
        BY <1>0, <2>2
      <3> QED
        BY <3>1 DEF NestingInv
    <2> QED
      BY <2>8, <2>9, <2>10 DEF NestingInv
  <1>5. ASSUME NEW i \in 1 .. Len(frames), WakeMain(i)
        PROVE  GuardPerCall' /\ NestingInv'
    <2>1. guards' = guards
      BY <1>5 DEF WakeMain, ctxVars
    <2>2. /\ Len(frames') = Len(frames)
          /\ frames'[i].rt = frames[i].rt
          /\ frames'[i].entered = frames[i].entered
          /\ frames'[i].shared = frames[i].shared
          /\ \A k \in 1 .. Len(frames) : k # i => frames'[k] = frames[k]
      BY <1>5, OwedSet DEF WakeMain
    <2>3. \A k \in 1 .. Len(frames) :
            /\ frames'[k].rt = frames[k].rt
            /\ frames'[k].entered = frames[k].entered
            /\ frames'[k].shared = frames[k].shared
      BY <2>2
    <2>4. GuardPerCall'
      BY <2>1, <2>2, <2>3 DEF GuardPerCall
    <2>5. NestingInv'
      BY <2>1, <2>2, <2>3 DEF NestingInv
    <2> QED
      BY <2>4, <2>5
  <1> QED
    BY <1>1, <1>2, <1>3, <1>4, <1>5, CallMoves

\* Only a poll clears the flag, of the innermost executor: a call further out
\* that has the same one is known to share it.
LEMMA OuterWakeStep ==
  ASSUME TypeOK, NestingInv, OuterWakeKept, [Next]_vars
  PROVE  OuterWakeKept'
  <1>0. /\ frames \in Seq(Frame) /\ Len(frames) \in Nat
        /\ woke \in [Runtimes -> BOOLEAN]
        /\ \A k \in 1 .. Len(frames) : frames[k].rt \in Runtimes
    <2>1. frames \in Seq(Frame) /\ woke \in [Runtimes -> BOOLEAN]
      BY DEF TypeOK
    <2>2. \A k \in 1 .. Len(frames) : frames[k] \in Frame
      BY <2>1
    <2> QED
      BY <2>1, <2>2 DEF Frame
  <1>1. CASE SameCalls /\ woke' = woke
    BY <1>1 DEF OuterWakeKept, SameCalls
  <1>2. ASSUME NEW r \in Runtimes, BlockOn(r)
        PROVE  OuterWakeKept'
    <2>1. woke' = [woke EXCEPT ![r] = TRUE]
      BY <1>2 DEF BlockOn
    <2>2. /\ Len(frames') = Len(frames) + 1
          /\ \A k \in 1 .. Len(frames) :
               /\ frames'[k].rt = frames[k].rt
               /\ frames'[k].owed = frames[k].owed
               /\ frames[k].shared => frames'[k].shared
          /\ ~frames'[Len(frames) + 1].owed
      BY <1>2, PushedFacts
    <2>3. \A k \in 1 .. Len(frames') : k \in 1 .. Len(frames) \/ k = Len(frames) + 1
      BY <1>0, <2>2
    <2>4. \A k \in 1 .. Len(frames) : woke[frames[k].rt] => woke'[frames[k].rt]
      BY <1>0, <2>1
    <2>5. ASSUME NEW k \in 1 .. Len(frames'), frames'[k].owed, ~frames'[k].shared
          PROVE  woke'[frames'[k].rt]
      <3>1. k \in 1 .. Len(frames)
        BY <2>2, <2>3, <2>5
      <3>2. woke[frames[k].rt]
        BY <2>2, <2>5, <3>1 DEF OuterWakeKept
      <3> QED
        BY <2>2, <2>4, <3>1, <3>2
    <2> QED
      BY <2>5 DEF OuterWakeKept
  <1>3. CASE PollMain
    <2>1. /\ frames # <<>> /\ Depth = Len(frames) /\ Depth \in 1 .. Len(frames)
          /\ Top = frames[Depth] /\ Top.rt \in Runtimes
      BY <1>3, TopFacts DEF PollMain
    <2>2. /\ Len(frames') = Len(frames)
          /\ ~frames'[Depth].owed
          /\ \A k \in 1 .. Len(frames) : k # Depth => frames'[k] = frames[k]
      BY <1>3, <2>1, MainPolled DEF PollMain
    <2>3. woke' = [woke EXCEPT ![Top.rt] = FALSE]
      BY <1>3 DEF PollMain, ClearWoke
    <2>4. ASSUME NEW k \in 1 .. Len(frames'), frames'[k].owed, ~frames'[k].shared
          PROVE  woke'[frames'[k].rt]
      <3>1. k \in 1 .. Len(frames) /\ k # Depth /\ k < Depth
        BY <1>0, <2>1, <2>2, <2>4
      <3>2. frames'[k] = frames[k]
        BY <2>2, <3>1
      <3>3. woke[frames[k].rt]
        BY <2>4, <3>1, <3>2 DEF OuterWakeKept
      <3>4. frames[k].rt # Top.rt
        BY <2>1, <2>4, <3>1, <3>2 DEF NestingInv
      <3>5. woke'[frames[k].rt] = woke[frames[k].rt]
        BY <1>0, <2>1, <2>3, <3>1, <3>4
      <3> QED
        BY <3>2, <3>3, <3>5
    <2> QED
      BY <2>4 DEF OuterWakeKept
  <1>4. CASE Left
    <2>1. /\ Len(frames') = Len(frames) - 1
          /\ \A k \in 1 .. Len(frames) - 1 : frames'[k] = frames[k]
      BY <1>4, PoppedFacts DEF Left
    <2>2. \A k \in 1 .. Len(frames') : k \in 1 .. Len(frames) /\ frames'[k] = frames[k]
      BY <1>0, <2>1
    <2> QED
      BY <1>4, <2>2 DEF OuterWakeKept, Left
  <1>5. ASSUME NEW i \in 1 .. Len(frames), WakeMain(i)
        PROVE  OuterWakeKept'
    <2>1. /\ Len(frames') = Len(frames)
          /\ frames'[i].rt = frames[i].rt
          /\ \A k \in 1 .. Len(frames) : k # i => frames'[k] = frames[k]
      BY <1>5, OwedSet DEF WakeMain
    <2>2. /\ woke'[frames[i].rt]
          /\ \A k \in 1 .. Len(frames) : woke[frames[k].rt] => woke'[frames[k].rt]
      BY <1>0, <1>5 DEF WakeMain
    <2>3. ASSUME NEW k \in 1 .. Len(frames'), frames'[k].owed, ~frames'[k].shared
          PROVE  woke'[frames'[k].rt]
      <3>1. k \in 1 .. Len(frames)
        BY <2>1
      <3>2. CASE k = i
        BY <2>1, <2>2, <3>2
      <3>3. CASE k # i
        BY <2>1, <2>2, <2>3, <3>1, <3>3 DEF OuterWakeKept
      <3> QED
        BY <3>2, <3>3
    <2> QED
      BY <2>3 DEF OuterWakeKept
  <1> QED
    BY <1>1, <1>2, <1>3, <1>4, <1>5, CallMoves

-----------------------------------------------------------------------------
(* Polls and futures                                                       *)

\* The polls of the calls and the futures that are left determine PollingInv.
LEMMA PollsKept ==
  ASSUME PollingInv,
         \A k \in 1 .. Len(frames') :
           frames'[k].polling \in Tasks =>
             /\ k \in 1 .. Len(frames)
             /\ frames'[k].polling = frames[k].polling
             /\ frames[k].polling \in future => frames[k].polling \in future'
  PROVE  PollingInv'
  BY DEF PollingInv

\* No timer, socket or waker of one is added.
PartsKept ==
  /\ holds' \subseteq holds
  /\ asleep' \subseteq asleep
  /\ stored' \subseteq stored

\* A task is polled by one call at most, and its future is not dropped under
\* the poll; alarms and sources go with the future.
LEMMA PollingStep ==
  ASSUME TypeOK, PollingInv, StoredInv, [Next]_vars
  PROVE  PollingInv' /\ StoredInv'
  <1>0. /\ None \notin Tasks /\ Main \notin Tasks
        /\ Len(frames) \in Nat
    BY RuntimeAssumption DEF TypeOK
  <1>19. ASSUME future \subseteq future', PartsKept
         PROVE  StoredInv'
    BY <1>19 DEF StoredInv, PartsKept
  <1>1. ASSUME frames' = frames, future \subseteq future', PartsKept
        PROVE  PollingInv' /\ StoredInv'
    BY <1>1, <1>19, PollsKept
  <1>2. ASSUME NEW r \in Runtimes, Enter(r) \/ New(r) \/ DropValue(r)
        PROVE  PollingInv' /\ StoredInv'
    BY <1>1, <1>2 DEF Enter, New, DropValue, taskVars, PartsKept
  <1>3. ASSUME NEW i \in 1 .. Len(guards), DropGuard(i)
        PROVE  PollingInv' /\ StoredInv'
    BY <1>1, <1>3 DEF DropGuard, taskVars, PartsKept
  <1>4. CASE Current \/ KeepWaker
    BY <1>1, <1>4 DEF Current, KeepWaker, taskVars, PartsKept
  <1>5. ASSUME NEW t \in Tasks, DropHeld(t) \/ WakeTask(t)
        PROVE  PollingInv' /\ StoredInv'
    BY <1>1, <1>5 DEF DropHeld, WakeTask, taskVars, partVars,
                         PartsKept
  <1>6. ASSUME NEW t \in Tasks, NEW r \in Runtimes, Spawn(t, r) \/ Fire(r, t)
        PROVE  PollingInv' /\ StoredInv'
    BY <1>1, <1>6 DEF Spawn, Fire, partVars, PartsKept
  <1>7. CASE UNCHANGED vars
    BY <1>1, <1>7 DEF vars, PartsKept
  <1>8. ASSUME NEW r \in Runtimes, BlockOn(r)
        PROVE  PollingInv' /\ StoredInv'
    <2>1. future' = future /\ PartsKept
      BY <1>8 DEF BlockOn, taskVars, PartsKept
    <2>2. /\ Len(frames') = Len(frames) + 1
          /\ \A k \in 1 .. Len(frames) : frames'[k].polling = frames[k].polling
          /\ frames'[Len(frames) + 1].polling = None
      BY <1>8, PushedFacts
    <2>3. \A k \in 1 .. Len(frames') : k \in 1 .. Len(frames) \/ k = Len(frames) + 1
      BY <1>0, <2>2
    <2> QED
      BY <1>0, <2>1, <2>2, <2>3, <1>19, PollsKept
  <1>9. CASE PollMain
    <2>1. future' = future /\ PartsKept
      BY <1>9 DEF PollMain, taskVars, PartsKept
    <2>2. /\ Len(frames') = Len(frames)
          /\ frames'[Depth].polling = Main
          /\ \A k \in 1 .. Len(frames) : k # Depth => frames'[k] = frames[k]
      BY <1>9, MainPolled DEF PollMain
    <2> QED
      BY <1>0, <2>1, <2>2, <1>19, PollsKept
  <1>10. ASSUME NEW i \in 1 .. Len(frames), WakeMain(i)
         PROVE  PollingInv' /\ StoredInv'
    <2>1. future' = future /\ PartsKept
      BY <1>10 DEF WakeMain, taskVars, PartsKept
    <2>2. /\ Len(frames') = Len(frames)
          /\ frames'[i].polling = frames[i].polling
          /\ \A k \in 1 .. Len(frames) : k # i => frames'[k] = frames[k]
      BY <1>10, OwedSet DEF WakeMain
    <2> QED
      BY <2>1, <2>2, <1>19, PollsKept
  <1>11. ASSUME NEW t \in Tasks, RunTask(t)
         PROVE  PollingInv' /\ StoredInv'
    <2>1. future' = future /\ PartsKept
      BY <1>11 DEF RunTask, partVars, PartsKept
    <2>2. CASE t \notin future
      BY <1>1, <1>11, <2>1, <2>2 DEF RunTask
    <2>3. CASE t \in future
      <3>1. frames # <<>> /\ frames' = [frames EXCEPT ![Depth].polling = t]
        BY <1>11, <2>3 DEF RunTask
      <3>2. /\ Len(frames') = Len(frames)
            /\ \A k \in 1 .. Len(frames) :
                 frames'[k].polling = IF k = Depth THEN t ELSE frames[k].polling
        BY <3>1, PollingSet
      <3>3. \A k \in 1 .. Len(frames) : frames[k].polling # t
        BY <1>11 DEF RunTask, Polled, Depth
      <3>4. PollingInv'
        BY <2>1, <2>3, <3>2, <3>3 DEF PollingInv
      <3> QED
        BY <1>19, <2>1, <3>4
    <2> QED
      BY <2>2, <2>3
  <1>12. CASE PollPending
    <2>1. future' = future /\ PartsKept
      BY <1>12 DEF PollPending, taskVars, PartsKept
    <2>2. frames # <<>> /\ frames' = [frames EXCEPT ![Depth].polling = None]
      BY <1>12 DEF PollPending, InPoll
    <2>3. /\ Len(frames') = Len(frames)
          /\ \A k \in 1 .. Len(frames) :
               frames'[k].polling = IF k = Depth THEN None ELSE frames[k].polling
      BY <2>2, PollingSet
    <2> QED
      BY <1>0, <2>1, <2>3, <1>19, PollsKept
  <1>13. CASE TaskReady
    <2>1. frames # <<>> /\ frames' = [frames EXCEPT ![Depth].polling = None]
      BY <1>13 DEF TaskReady, InPoll
    <2>2. /\ Len(frames') = Len(frames)
          /\ \A k \in 1 .. Len(frames) :
               frames'[k].polling = IF k = Depth THEN None ELSE frames[k].polling
      BY <2>1, PollingSet
    <2>3. /\ Top.polling \in Tasks
          /\ Depth \in 1 .. Len(frames)
          /\ Top = frames[Depth]
      BY <1>13, <2>1, TopFacts DEF TaskReady, InPoll
    <2>4. /\ future' = future \ {Top.polling}
          /\ DropFuture(Top.polling)
      BY <1>13 DEF TaskReady, DropFuture
    <2>5. PollingInv'
      BY <1>0, <2>2, <2>3, <2>4 DEF PollingInv
    <2>6. StoredInv'
      BY <2>4 DEF StoredInv, DropFuture
    <2> QED
      BY <2>5, <2>6
  <1>14. CASE Left /\ future' = future /\ PartsKept
    <2>1. /\ Len(frames') = Len(frames) - 1
          /\ \A k \in 1 .. Len(frames) - 1 : frames'[k] = frames[k]
      BY <1>14, PoppedFacts DEF Left
    <2>2. \A k \in 1 .. Len(frames') : k \in 1 .. Len(frames) /\ frames'[k] = frames[k]
      BY <1>0, <2>1
    <2> QED
      BY <1>14, <2>2, <1>19, PollsKept
  <1>15. CASE Leave
    BY <1>14, <1>15 DEF Leave, Left, InPoll, taskVars, PartsKept
  <1>16. ASSUME NEW t \in Tasks, RunPolled(t)
         PROVE  PollingInv' /\ StoredInv'
    BY <1>14, <1>16 DEF RunPolled, Left, partVars, PartsKept
  <1>17. CASE Hold
    <2>1. frames' = frames /\ future' = future
      BY <1>17 DEF Hold
    <2>2. Top.polling \in future
      BY <1>17, TopFacts DEF Hold, InPoll, PollingInv
    <2>3. /\ holds' = holds \union {<<context, Top.polling>>}
          /\ asleep' = asleep /\ stored' = stored
      BY <1>17 DEF Hold
    <2>4. StoredInv'
      BY <2>1, <2>2, <2>3 DEF StoredInv
    <2> QED
      BY <2>1, <2>4, PollsKept
  <1>20. ASSUME NEW r \in Runtimes, NEW timer \in BOOLEAN, Suspend(r, timer)
         PROVE  PollingInv' /\ StoredInv'
    <2>1. /\ frames' = frames /\ future' = future /\ holds' = holds
          /\ <<r, Top.polling>> \in holds
          /\ stored' = stored \union {<<r, Top.polling>>}
          /\ asleep' \subseteq asleep \union {<<r, Top.polling>>}
      BY <1>20 DEF Suspend
    <2>2. StoredInv'
      BY <2>1 DEF StoredInv
    <2> QED
      BY <2>1, <2>2, PollsKept
  <1>21. ASSUME NEW r \in Runtimes, Release(r)
         PROVE  PollingInv' /\ StoredInv'
    BY <1>1, <1>21 DEF Release, PartsKept
  <1>22. ASSUME NEW lost \in SUBSET stored, ParkFails(lost)
         PROVE  PollingInv' /\ StoredInv'
    BY <1>14, <1>22 DEF ParkFails, Left, PartsKept
  <1>18. ASSUME NEW t \in Tasks, Cancel(t)
         PROVE  PollingInv' /\ StoredInv'
    <2>1. /\ frames' = frames /\ future' = future \ {t}
          /\ DropFuture(t)
      BY <1>18 DEF Cancel, DropFuture
    <2>2. \A k \in 1 .. Len(frames) : frames[k].polling # t
      BY <1>18 DEF Cancel, Polled, Depth
    <2>3. PollingInv'
      BY <2>1, <2>2, PollsKept
    <2> QED
      BY <2>1, <2>3 DEF StoredInv, DropFuture
  <1> QED
    BY <1>2, <1>3, <1>4, <1>5, <1>6, <1>7, <1>8, <1>9, <1>10, <1>11, <1>12,
       <1>13, <1>15, <1>16, <1>17, <1>18, <1>20, <1>21, <1>22 DEF Next

-----------------------------------------------------------------------------
(* Ownership                                                               *)

\* What reference counting leaves is referenced.
LEMMA ReclaimReferenced ==
  ASSUME NEW A, Reclaim(A)
  PROVE  Referenced(alive)'
  <1>1. alive' = UNION {S \in SUBSET A : Referenced(S)'}
    BY DEF Reclaim
  <1>2. ASSUME NEW o \in alive'
        PROVE  Root(o)' \/ \E p \in alive' : Owns(p, o)'
    <2>1. PICK S \in SUBSET A : Referenced(S)' /\ o \in S
      BY <1>1, <1>2
    <2>2. S \subseteq alive'
      BY <1>1, <2>1
    <2>3. Root(o)' \/ \E p \in S : Owns(p, o)'
      BY <2>1 DEF Referenced
    <2> QED
      BY <2>2, <2>3
  <1> QED
    BY <1>2 DEF Referenced

\* References are added, none is dropped.
LEMMA ReferencesGrow ==
  ASSUME Referenced(alive), alive \subseteq alive',
         \A o \in alive : Root(o) => Root(o)',
         \A o, p \in alive : Owns(o, p) => Owns(o, p)',
         \A o \in alive' \ alive : Root(o)'
  PROVE  Referenced(alive)'
  <1>1. ASSUME NEW o \in alive'
        PROVE  Root(o)' \/ \E p \in alive' : Owns(p, o)'
    <2>1. CASE o \notin alive
      BY <2>1
    <2>2. CASE o \in alive
      <3>1. Root(o) \/ \E p \in alive : Owns(p, o)
        BY <2>2 DEF Referenced
      <3> QED
        BY <2>2, <3>1
    <2> QED
      BY <2>1, <2>2
  <1> QED
    BY <1>1 DEF Referenced

\* The thread's references, as the guards and the calls grow.
LEMMA RootsKept ==
  ASSUME TypeOK, NEW o \in Runtimes \union Tasks, Root(o),
         o \in values \union held => o \in values' \union held',
         o = context => Root(o)',
         \A k \in 1 .. Len(guards) :
           /\ k \in 1 .. Len(guards')
           /\ guards'[k] = guards[k],
         \A k \in 1 .. Len(frames) :
           /\ k \in 1 .. Len(frames')
           /\ frames'[k].rt = frames[k].rt
           /\ frames[k].polling \in Tasks => frames'[k].polling = frames[k].polling
  PROVE  Root(o)'
  <1>1. CASE o \in values \union held
    BY <1>1 DEF Root
  <1>2. CASE o = context
    BY <1>2
  <1>3. CASE \E i \in 1 .. Len(guards) : guards[i].saved = o
    BY <1>3 DEF Root
  <1>4. ASSUME NEW i \in 1 .. Len(frames), frames[i].rt = o
        PROVE  Root(o)'
    BY <1>4 DEF Root
  <1>5. ASSUME NEW i \in 1 .. Len(frames), frames[i].polling = o, o \in Tasks
        PROVE  Root(o)'
    BY <1>5 DEF Root
  <1>6. ASSUME NEW i \in 1 .. Len(frames), frames[i].polling = o, o \in Runtimes
        PROVE  FALSE
    <2>1. frames[i] \in Frame
      BY DEF TypeOK
    <2> QED
      BY <1>6, <2>1, RuntimeAssumption DEF Frame
  <1> QED
    BY <1>1, <1>2, <1>3, <1>4, <1>5, <1>6, RuntimeAssumption DEF Root

\* Every object that is allocated is referenced.
LEMMA AliveStep ==
  ASSUME TypeOK, Referenced(alive), [Next]_vars
  PROVE  Referenced(alive)'
  <1>0. /\ alive \subseteq Runtimes \union Tasks
        /\ None \notin Runtimes \union Tasks
        /\ Runtimes \intersect Tasks = {}
        /\ Len(guards) \in Nat /\ Len(frames) \in Nat
    BY RuntimeAssumption DEF TypeOK
  <1>1. CASE Reclaim(alive)
    BY <1>1, ReclaimReferenced
  <1>2. ASSUME UNCHANGED ctxVars, UNCHANGED frames, UNCHANGED home,
               values \subseteq values', held \subseteq held',
               queue \subseteq queue', stored \subseteq stored',
               holds \subseteq holds', asleep \subseteq asleep',
               alive \subseteq alive',
               alive' \ alive \subseteq values' \union held'
        PROVE  Referenced(alive)'
    <2>1. \A o \in alive : Root(o) => Root(o)'
      BY <1>2 DEF Root, ctxVars
    <2>2. \A o, p \in alive : Owns(o, p) => Owns(o, p)'
      BY <1>2 DEF Owns
    <2>3. \A o \in alive' \ alive : Root(o)'
      BY <1>2 DEF Root
    <2> QED
      BY <1>2, <2>1, <2>2, <2>3, ReferencesGrow
  <1>3. ASSUME NEW r \in Runtimes, New(r)
        PROVE  Referenced(alive)'
    BY <1>2, <1>3 DEF New, taskVars
  <1>4. CASE Current \/ KeepWaker
    BY <1>2, <1>4 DEF Current, KeepWaker, taskVars
  <1>5. CASE Hold
    BY <1>2, <1>5 DEF Hold
  <1>16. ASSUME NEW r \in Runtimes, NEW timer \in BOOLEAN, Suspend(r, timer)
         PROVE  Referenced(alive)'
    <2>1. asleep \subseteq asleep' /\ stored \subseteq stored' /\ holds' = holds
      BY <1>16 DEF Suspend
    <2> QED
      BY <1>2, <1>16, <2>1 DEF Suspend
  <1>6. ASSUME NEW t \in Tasks, WakeTask(t)
        PROVE  Referenced(alive)'
    BY <1>2, <1>6 DEF WakeTask, partVars
  <1>7. CASE UNCHANGED vars
    BY <1>2, <1>7 DEF vars, ctxVars
  <1>8. ASSUME NEW t \in Tasks, NEW r \in Runtimes, Spawn(t, r)
        PROVE  Referenced(alive)'
    <2>1. /\ home[t] = None
          /\ home' = [home EXCEPT ![t] = r]
          /\ home \in [Tasks -> Runtimes \union {None}]
          /\ queue' = queue \union {t}
          /\ held' = held \union {t}
          /\ alive' = alive \union {t}
          /\ UNCHANGED <<ctxVars, frames, values, holds, asleep, stored>>
          /\ queue \subseteq Tasks
      BY <1>8 DEF Spawn, TypeOK, partVars
    <2>2. \A o \in alive : Root(o) => Root(o)'
      BY <2>1 DEF Root, ctxVars
    <2>3. ASSUME NEW o \in alive, NEW p \in alive, Owns(o, p)
          PROVE  Owns(o, p)'
      <3>1. \A u \in Tasks : home[u] # None => home'[u] = home[u]
        BY <2>1
      <3>2. CASE o \in Tasks /\ p = home[o]
        BY <1>0, <3>1, <3>2 DEF Owns
      <3>3. CASE o \in Runtimes /\ p \in queue /\ home[p] = o
        BY <1>0, <2>1, <3>1, <3>3 DEF Owns
      <3>4. CASE \/ <<o, p>> \in stored \/ <<p, o>> \in holds
                 \/ p = o /\ \E q \in Runtimes : <<q, o>> \in asleep
        BY <2>1, <3>4 DEF Owns
      <3> QED
        BY <2>3, <3>2, <3>3, <3>4 DEF Owns
    <2>4. \A o \in alive' \ alive : Root(o)'
      BY <2>1 DEF Root
    <2> QED
      BY <2>1, <2>2, <2>3, <2>4, ReferencesGrow
  <1>9. ASSUME NEW r \in Runtimes, NEW d \in Nat, Entered(r, d),
               UNCHANGED <<values, held, taskVars, alive>>,
               Len(frames') = Len(frames),
               \A k \in 1 .. Len(frames) :
                 /\ frames'[k].rt = frames[k].rt
                 /\ frames[k].polling \in Tasks =>
                      frames'[k].polling = frames[k].polling
        PROVE  Referenced(alive)'
    <2>1. /\ Len(guards') = Len(guards) + 1
          /\ \A k \in 1 .. Len(guards) : guards'[k] = guards[k]
          /\ guards'[Len(guards) + 1].saved = context
      BY <1>9, EnteredFacts
    <2>2. /\ \A k \in 1 .. Len(guards) : k \in 1 .. Len(guards')
          /\ Len(guards) + 1 \in 1 .. Len(guards')
      BY <1>0, <2>1
    <2>3. ASSUME NEW o \in alive, Root(o)
          PROVE  Root(o)'
      <3>1. o = context => Root(o)'
        BY <2>1, <2>2 DEF Root
      <3>2. o \in Runtimes \union Tasks
        BY <1>0
      <3>3. o \in values \union held => o \in values' \union held'
        BY <1>9
      <3> QED
        BY <1>9, <2>1, <2>2, <2>3, <3>1, <3>2, <3>3, RootsKept
    <2>4. \A o, p \in alive : Owns(o, p) => Owns(o, p)'
      BY <1>9 DEF Owns, taskVars
    <2> QED
      BY <1>9, <2>3, <2>4, ReferencesGrow
  <1>10. ASSUME UNCHANGED ctxVars,
                UNCHANGED <<values, held, taskVars, alive>>,
                Len(frames) <= Len(frames'),
                \A k \in 1 .. Len(frames) :
                  /\ k \in 1 .. Len(frames')
                  /\ frames'[k].rt = frames[k].rt
                  /\ frames[k].polling \in Tasks =>
                       frames'[k].polling = frames[k].polling
         PROVE  Referenced(alive)'
    <2>1. ASSUME NEW o \in alive, Root(o)
          PROVE  Root(o)'
      <3>1. o = context => Root(o)'
        BY <1>10 DEF Root, ctxVars
      <3>2. o \in Runtimes \union Tasks
        BY <1>0
      <3> QED
        BY <1>10, <2>1, <3>1, <3>2, RootsKept DEF ctxVars
    <2>2. \A o, p \in alive : Owns(o, p) => Owns(o, p)'
      BY <1>10 DEF Owns, taskVars
    <2> QED
      BY <1>10, <2>1, <2>2, ReferencesGrow
  <1>11. ASSUME NEW r \in Runtimes, Enter(r)
         PROVE  Referenced(alive)'
    BY <1>9, <1>11 DEF Enter
  <1>12. ASSUME NEW r \in Runtimes, BlockOn(r)
         PROVE  Referenced(alive)'
    <2>1. /\ Len(frames') = Len(frames) + 1
          /\ \A k \in 1 .. Len(frames) :
               /\ frames'[k].rt = frames[k].rt
               /\ frames'[k].polling = frames[k].polling
      BY <1>12, PushedFacts
    <2>2. \A k \in 1 .. Len(frames) : k \in 1 .. Len(frames')
      BY <1>0, <2>1
    <2>3. UNCHANGED ctxVars /\ UNCHANGED <<values, held, taskVars, alive>>
      BY <1>12 DEF BlockOn
    <2> QED
      BY <1>0, <1>10, <2>1, <2>2, <2>3
  <1>13. CASE PollMain
    <2>1. /\ frames # <<>> /\ Depth \in 1 .. Len(frames) /\ Depth \in Nat
          /\ Top = frames[Depth] /\ Top.rt \in Runtimes
      BY <1>0, <1>13, TopFacts DEF PollMain
    <2>2. /\ Len(frames') = Len(frames)
          /\ frames'[Depth].rt = frames[Depth].rt
          /\ \A k \in 1 .. Len(frames) : k # Depth => frames'[k] = frames[k]
      BY <1>13, <2>1, MainPolled DEF PollMain
    <2>3. frames[Depth].polling \notin Tasks
      BY <1>0, <1>13, <2>1 DEF PollMain
    <2>4. \A k \in 1 .. Len(frames) :
            /\ k \in 1 .. Len(frames')
            /\ frames'[k].rt = frames[k].rt
            /\ frames[k].polling \in Tasks =>
                 frames'[k].polling = frames[k].polling
      BY <2>2, <2>3
    <2>5. UNCHANGED <<values, held, taskVars, alive>>
      BY <1>13 DEF PollMain
    <2>6. UNCHANGED ctxVars \/ Entered(Top.rt, Depth)
      BY <1>13 DEF PollMain
    <2> QED
      BY <1>0, <1>9, <1>10, <2>1, <2>2, <2>4, <2>5, <2>6
  <1>14. ASSUME NEW i \in 1 .. Len(frames), WakeMain(i)
         PROVE  Referenced(alive)'
    <2>1. /\ Len(frames') = Len(frames)
          /\ frames'[i].rt = frames[i].rt
          /\ frames'[i].polling = frames[i].polling
          /\ \A k \in 1 .. Len(frames) : k # i => frames'[k] = frames[k]
      BY <1>14, OwedSet DEF WakeMain
    <2>2. \A k \in 1 .. Len(frames) :
            /\ k \in 1 .. Len(frames')
            /\ frames'[k].rt = frames[k].rt
            /\ frames'[k].polling = frames[k].polling
      BY <2>1
    <2>3. UNCHANGED ctxVars /\ UNCHANGED <<values, held, taskVars, alive>>
      BY <1>14 DEF WakeMain
    <2> QED
      BY <1>0, <1>10, <2>1, <2>2, <2>3
  <1>15. \/ Reclaim(alive)
         \/ \E r \in Runtimes : Enter(r) \/ New(r) \/ BlockOn(r)
         \/ \E i \in 1 .. Len(frames) : WakeMain(i)
         \/ Current \/ PollMain \/ KeepWaker \/ Hold
         \/ \E r \in Runtimes, timer \in BOOLEAN : Suspend(r, timer)
         \/ \E t \in Tasks : WakeTask(t)
         \/ \E t \in Tasks, r \in Runtimes : Spawn(t, r)
         \/ UNCHANGED vars
    BY DEF Next, DropValue, DropGuard, PollPending, TaskReady, Leave, RunTask,
           RunPolled, DropHeld, Cancel, Fire, Release, ParkFails
  <1> QED
    BY <1>1, <1>3, <1>4, <1>5, <1>6, <1>7, <1>8, <1>11, <1>12, <1>13, <1>14,
       <1>15, <1>16

-----------------------------------------------------------------------------
(* The theorems                                                            *)

\* No runtime, guard or call at first.
LEMMA InitInv ==
  ASSUME Init
  PROVE  IInv
  <1>1. TypeOK
    BY DEF Init, TypeOK
  <1>2. ContextIsInnermost /\ ChainInv
    BY DEF Init, ContextIsInnermost, ChainInv
  <1>3. GuardPerCall /\ NestingInv /\ OuterWakeKept
    BY DEF Init, GuardPerCall, NestingInv, OuterWakeKept
  <1>4. PollingInv /\ StoredInv /\ Referenced(alive)
    BY DEF Init, PollingInv, StoredInv, Referenced
  <1> QED
    BY <1>1, <1>2, <1>3, <1>4 DEF IInv

\* IInv holds in every state of every behaviour: it is inductive.
THEOREM Invariance == Spec => []IInv
  <1>1. Init => IInv
    BY InitInv
  <1>2. IInv /\ [Next]_vars => IInv'
    BY TypeStep, ContextStep, NestingStep, OuterWakeStep, PollingStep, AliveStep
       DEF IInv
  <1> QED
    BY <1>1, <1>2, PTL DEF Spec

\* The context, the guards, the calls and the owners have their types,
\* whatever the order in which enter, block_on and the drops are called.
THEOREM TypeCorrect == Spec => []TypeOK
  <1>1. IInv => TypeOK
    BY DEF IInv
  <1> QED
    BY <1>1, Invariance, PTL

\* Guards that are dropped newest first lead back through the contexts: after
\* nested calls of block_on and panics, the context is the one before.
THEOREM ContextRestored == Spec => []ContextIsInnermost
  <1>1. IInv => ContextIsInnermost
    BY DEF IInv
  <1> QED
    BY <1>1, Invariance, PTL

\* A call of block_on is in the context exactly from its first poll until it
\* is left, also when it is left by a panic in an inner call.
THEOREM GuardsMatchCalls == Spec => []GuardPerCall
  <1>1. IInv => GuardPerCall
    BY DEF IInv
  <1> QED
    BY <1>1, Invariance, PTL

\* An inner block_on consumes the wake-up of an outer one only if both are on
\* one runtime.
THEOREM OuterWakesKept == Spec => []OuterWakeKept
  <1>1. IInv => OuterWakeKept
    BY DEF IInv
  <1> QED
    BY <1>1, Invariance, PTL

\* Reference counting frees runtimes and tasks once nothing outside holds
\* them and no queue or future does.
LEMMA NothingSurvivesInv ==
  ASSUME IInv
  PROVE  NothingSurvives
  <1> SUFFICES ASSUME values = {}, held = {}, guards = <<>>, frames = <<>>,
                      future \intersect alive = {}, queue = {}, lifo
               PROVE  alive = {}
    BY DEF NothingSurvives
  <1>1. /\ alive \subseteq Runtimes \union Tasks
        /\ stored \subseteq Runtimes \X Tasks
        /\ holds \subseteq Runtimes \X Tasks
        /\ asleep \subseteq Runtimes \X Tasks
        /\ home \in [Tasks -> Runtimes \union {None}]
        /\ None \notin Runtimes \union Tasks
        /\ Runtimes \intersect Tasks = {}
    BY RuntimeAssumption DEF IInv, TypeOK
  <1>2. context = None
    BY DEF IInv, ContextIsInnermost
  <1>3. \A o \in alive : ~Root(o)
    BY <1>1, <1>2 DEF Root
  <1>4. \A o \in alive : \E p \in alive : Owns(p, o)
    BY <1>3 DEF IInv, Referenced
  <1>5. ASSUME NEW o \in alive, o \in Tasks
        PROVE  FALSE
    <2>1. PICK p \in alive : Owns(p, o)
      BY <1>4
    <2>2. o \notin future
      OBVIOUS
    <2>3. <<p, o>> \notin stored
      <3>1. <<p, o>>[2] = o
        OBVIOUS
      <3> QED
        BY <2>2, <3>1 DEF IInv, StoredInv
    <2>4. <<o, p>> \notin holds
      BY <1>1, <1>5
    <2>6. \A r \in Runtimes : <<r, o>> \notin asleep
      <3>1. \A r \in Runtimes : <<r, o>>[2] = o
        OBVIOUS
      <3> QED
        BY <2>2, <3>1 DEF IInv, StoredInv
    <2>5. ~(p \in Tasks /\ o = home[p])
      BY <1>1, <1>5
    <2> QED
      BY <2>1, <2>3, <2>4, <2>5, <2>6 DEF Owns
  <1>6. ASSUME NEW o \in alive
        PROVE  FALSE
    <2>1. PICK p \in alive : Owns(p, o)
      BY <1>4
    <2>2. o \notin Tasks /\ p \notin Tasks
      BY <1>5
    <2> QED
      BY <1>1, <2>1, <2>2 DEF Owns
  <1> QED
    BY <1>6

\* Nothing leaks once the tasks are complete or cancelled and not queued:
\* neither an alarm or a source nor a cycle of references keeps anything.
THEOREM NothingLeft == Spec => []NothingSurvives
  BY Invariance, NothingSurvivesInv, PTL
=============================================================================
