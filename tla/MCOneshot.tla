----------------------------- MODULE MCOneshot ------------------------------
(* Instances of Oneshot for TLC.                                           *)
EXTENDS Oneshot

CONSTANTS a, b, c, d
=============================================================================
