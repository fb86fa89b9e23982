-------------------------- MODULE MCLockFreeStack --------------------------
(***************************************************************************)
(* LockFreeStack with two threads, one value and three nodes, for the      *)
(* disagreement about the empty stack.  The other instance is in MCStacks. *)
(***************************************************************************)
EXTENDS LockFreeStack, TLC

CONSTANTS t1, t2, n1, n2, n3

TwoThreads == {t1, t2}
ThreeNodes == {n1, n2, n3}

Symmetry == Permutations(Thread) \cup Permutations(Node)
=============================================================================
