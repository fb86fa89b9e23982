------------------------- MODULE MCThreadsafeQueue -------------------------
(***************************************************************************)
(* Instances of ThreadsafeQueue for TLC.  The size of Node bounds the      *)
(* nodes that are allocated at a time: a push that finds none free waits,  *)
(* where the program would throw std::bad_alloc.  Every producer pushes a  *)
(* value of its own.                                                       *)
(***************************************************************************)
EXTENDS ThreadsafeQueue

CONSTANTS p1, p2, c1, c2, n1, n2, n3, v1, v2

OneProducer  == {p1}
TwoProducers == {p1, p2}
TwoConsumers == {c1, c2}
ThreeNodes   == {n1, n2, n3}
TwoValues    == {v1, v2}
OwnValue     == [t \in Producer |-> {IF t = p1 THEN v1 ELSE v2}]
BothPops     == {"try_pop", "wait_and_pop"}
WaitOnly     == {"wait_and_pop"}
=============================================================================
