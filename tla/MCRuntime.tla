----------------------------- MODULE MCRuntime -----------------------------
(* Instances of Runtime for TLC.                                           *)
EXTENDS Runtime, TLC

CONSTANTS r1, r2, t1

\* Two runtimes may be swapped: nothing orders them by name.
RuntimeSymmetry == Permutations(Runtimes)
=============================================================================
