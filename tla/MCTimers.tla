------------------------------ MODULE MCTimers ------------------------------
(* Instances of Timers for TLC.                                            *)
EXTENDS Timers

CONSTANTS s1, s2, a, b

FairSpec == Spec /\ Fairness
=============================================================================
