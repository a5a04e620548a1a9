---------------------------- MODULE MCSemaphore -----------------------------
(* Instances of Semaphore for TLC.                                         *)
EXTENDS Semaphore, TLC

CONSTANTS f1, f2, f3, a, b, k1, k2, k3

\* Callers, tasks and keys are interchangeable.
Symmetry ==
  Permutations(Futures) \union Permutations(Tasks) \union Permutations(Keys)
=============================================================================
