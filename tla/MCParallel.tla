----------------------------- MODULE MCParallel -----------------------------
(***************************************************************************)
(* Instances of Sorter and ParallelAlgorithms for TLC.  The lists to be    *)
(* sorted have four elements, different ones or each value twice; the      *)
(* ranges have none, one or five, of which up to three match               *)
(* (parallel_find only) or throw.  Five elements are halved into short     *)
(* ranges of one and of two, and cut into blocks of one, one and three.    *)
(***************************************************************************)
EXTENDS Parallel

FourElements == 1..4
NoInteger == 0
SomeKeys == {[e \in FourElements |-> e], [e \in FourElements |-> (e + 1) \div 2]}

VectorsOf(a) ==
    {v \in UNION {[1..n -> IF a = "find" THEN {"match", "other", "throw"} ELSE {"other", "throw"}] :
                     n \in {0, 1, 5}} :
        Cardinality({i \in DOMAIN v : v[i] # "other"}) <= 3}
SomeVectors == [a \in {"find", "for_each", "accumulate_using_async", "accumulate_using_task",
                       "accumulate"} |-> VectorsOf(a)]
=============================================================================
