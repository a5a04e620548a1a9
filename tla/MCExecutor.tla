----------------------------- MODULE MCExecutor -----------------------------
(* Instances of Executor for TLC.                                          *)
EXTENDS Executor, TLC

CONSTANTS t1, t2

\* Two tasks may be swapped: nothing in the executor orders them by name.
TaskSymmetry == Permutations(Tasks)

\* The liveness runs leave out the join handles and the ways out of block_on
\* by panic: what a handle does to the schedule is to wake its awaiter, which
\* WakeByRef does too, and after a panic nothing is promised until block_on
\* is called again.
SchedulingStep ==
  \/ BlockOn \/ Loop \/ ParkSome \/ EndPoll
  \/ \E a \in Actors : WakeByRef(a) \/ EventReady(a)
  \/ \E t \in Tasks : Spawn(t)

SchedulingSpec == Init /\ [][SchedulingStep]_vars /\ Fairness
=============================================================================
