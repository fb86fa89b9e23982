------------------------------ MODULE MCStacks ------------------------------
(***************************************************************************)
(* The four stacks for TLC: three threads, two values, and a memory of two *)
(* nodes, reused, for the stack with hazard pointers, of three for those   *)
(* with lists.  NewElement is v1, a value that is pushed, too: the values  *)
(* are not symmetric.                                                      *)
(***************************************************************************)
EXTENDS Stacks, TLC

CONSTANTS t1, t2, t3, a1, a2, n1, n2, n3, v1, v2

ThreeThreads == {t1, t2, t3}
TwoAddresses == {a1, a2}
ThreeNodes   == {n1, n2, n3}
TwoValues    == {v1, v2}

Symmetry == Permutations(Thread) \cup Permutations(Address)
            \cup Permutations(ListNode)
=============================================================================
