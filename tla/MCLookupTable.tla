--------------------------- MODULE MCLookupTable ---------------------------
(***************************************************************************)
(* An instance of LookupTable for TLC: three keys in two buckets, so that  *)
(* one bucket can hold a list of two pairs.                                *)
(***************************************************************************)
EXTENDS LookupTable

CONSTANTS t1, t2, k1, k2, k3, v1, v2

TwoThreads == {t1, t2}
ThreeKeys  == {k1, k2, k3}
TwoValues  == {v1, v2}
Hash       == [k \in Key |-> IF k = k2 THEN 3 ELSE 2]

Symmetry == Permutations(Thread) \cup Permutations({k1, k3}) \cup Permutations(Value)
=============================================================================
