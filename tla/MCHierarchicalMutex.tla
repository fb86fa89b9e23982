------------------------ MODULE MCHierarchicalMutex ------------------------
(***************************************************************************)
(* Two mutexes of one level between a lower and a higher one, as many      *)
(* threads as a circle of waiting threads needs.                           *)
(***************************************************************************)
EXTENDS HierarchicalMutex, TLC

CONSTANTS t1, t2, t3, m1, m2, m3, m4

Threads == {t1, t2, t3}
Mutexes == {m1, m2, m3, m4}
Levels  == (m1 :> 0) @@ (m2 :> 1) @@ (m3 :> 1) @@ (m4 :> 2)

Symmetry == Permutations(Threads) \cup Permutations({m2, m3})
=============================================================================
