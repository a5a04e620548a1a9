------------------------------ MODULE MCRwLock ------------------------------
(* An instance of RwLock for TLC.                                          *)
EXTENDS RwLock

CONSTANTS f1, f2, f3, f4
=============================================================================
