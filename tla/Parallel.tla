------------------------------ MODULE Parallel ------------------------------
(***************************************************************************)
(* Sorter and ParallelAlgorithms, each in behaviours of its own: the       *)
(* variable algorithm says which.                                          *)
(***************************************************************************)
EXTENDS Sorter

CONSTANTS Vectors, max_batch_size, default_size, min_per_thread, hardware_threads

VARIABLES algorithm, vector, task, applied, done_flag

rangeVars == <<algorithm, vector, task, applied, done_flag>>

Ranges == INSTANCE ParallelAlgorithms

\* With a batch of less than two elements parallel_find and parallel_for_each halve a
\* range of one into nothing and itself, for ever.
ASSUME RangesAssumption ==
    /\ \A a \in Ranges!Halving \cup Ranges!InBlocks :
          Vectors[a] \subseteq Seq({"match", "other", "throw"})
    /\ max_batch_size \in Nat \ {0, 1} /\ default_size \in Nat \ {0, 1}
    /\ min_per_thread \in Nat \ {0} /\ hardware_threads \in Nat

\* One of the sorter's initial states, in which it stays.
SorterIdle == /\ Init
              /\ key = CHOOSE k \in Keys : TRUE
              /\ max_thread_count = ((CHOOSE c \in hardware_concurrency : TRUE) - 1) % (UINT_MAX + 1)

AllInit == \/ /\ Init /\ algorithm = "quick_sort"
              /\ vector = <<>> /\ task = <<>> /\ applied = <<>> /\ done_flag = FALSE
           \/ Ranges!Init /\ SorterIdle

OnSorter(t) == algorithm = "quick_sort" /\ ~raced /\ Step(t) /\ UNCHANGED rangeVars
OnRanges == algorithm # "quick_sort" /\ Ranges!Next /\ UNCHANGED vars
HasEnded == IF algorithm = "quick_sort" THEN raced \/ Main \in ended ELSE Ranges!Ended(Ranges!Root)

AllNext == \/ \E t \in Thread : OnSorter(t)
           \/ OnRanges
           \/ HasEnded /\ UNCHANGED <<vars, rangeVars>>

\* Every thread of the sorter runs, and some task of the other algorithms.
AllSpec == /\ AllInit /\ [][AllNext]_<<vars, rangeVars>>
           /\ \A t \in Thread : WF_<<vars, rangeVars>>(OnSorter(t))
           /\ WF_<<vars, rangeVars>>(OnRanges)
-----------------------------------------------------------------------------
(***************************************************************************)
(* The algorithms return what they should, and fail if an element throws   *)
(* (Answers of ParallelAlgorithms: parallel_find.h:10-25,                  *)
(* parallel_accumulate_using_task.h:38-60).                                *)
(***************************************************************************)
RightAnswers == algorithm # "quick_sort" => Ranges!Answers

(***************************************************************************)
(* No task outlives the call of an algorithm, also when a part throws      *)
(* while others run (NoTaskLeft of ParallelAlgorithms: parallel_find.h:39, *)
(* parallel_accumulate_using_task.h:19-22).                                *)
(***************************************************************************)
NoTaskLeft == algorithm # "quick_sort" => Ranges!NoTaskLeft

(***************************************************************************)
(* Every call of one of the algorithms returns, or throws: no task waits   *)
(* for good (sorter.cpp:93-97, parallel_find.h:23-25).                     *)
(***************************************************************************)
AllReturn == <>HasEnded
=============================================================================
