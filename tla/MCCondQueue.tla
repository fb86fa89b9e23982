---------------------------- MODULE MCCondQueue ----------------------------
(***************************************************************************)
(* Instances of CondQueue for TLC: with three threads, two can be blocked  *)
(* while the third pushes, and one can be woken for an element that        *)
(* another takes while the last is still blocked.                          *)
(***************************************************************************)
EXTENDS CondQueue, TLC

CONSTANTS t1, t2, t3, v1, v2

ThreeThreads == {t1, t2, t3}
Values       == {v1, v2}

=============================================================================
