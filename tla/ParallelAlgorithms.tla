------------------------- MODULE ParallelAlgorithms -------------------------
(***************************************************************************)
(* The algorithms of Design that cut a range into parts, and               *)
(* ManageThreads/parallel_accumulate.cpp.  parallel_find, parallel_for_each*)
(* and parallel_accumulate_using_async halve a range until it is short;    *)
(* parallel_accumulate_using_task and parallel_accumulate cut it into one  *)
(* block per thread.  Each leaves all parts but one to other tasks, works  *)
(* on that part itself and then gets the results of the others.            *)
(*                                                                         *)
(* A range is <<first, last>>, last excluded, and a task goes by its       *)
(* range.  A sum is the sequence of what is added, init being 0.           *)
(***************************************************************************)
EXTENDS Integers, SequencesExt

CONSTANTS Vectors,         \* for each algorithm: the elements are "match", "other" or "throw"
          max_batch_size,  \* max_chunk_size where there is no flag
          default_size,    \* 1000000
          min_per_thread,  \* 25
          hardware_threads

VARIABLES algorithm,
          vector,
          task,       \* the tasks that have been made
          applied,    \* how often f has been called for each element
          done_flag

Root == <<1, Len(vector) + 1>>
Length(r) == r[2] - r[1]
Halving == {"find", "for_each", "accumulate_using_async"}
InBlocks == {"accumulate_using_task", "accumulate"}

\* got is the number of results that have been got, sum is init and what they add.
New(step, r, size) == [step |-> step, at |-> r[1], size |-> size, got |-> 0,
                       sum |-> IF algorithm \in InBlocks THEN <<0>> ELSE <<>>,
                       result |-> <<>>]

Init == /\ algorithm \in Halving \cup InBlocks
        /\ vector \in Vectors[algorithm]
        /\ task = [r \in {Root} |-> New("begin", r, max_batch_size)]
        /\ applied = [i \in DOMAIN vector |-> 0]
        /\ done_flag = FALSE
-----------------------------------------------------------------------------
(***************************************************************************)
(* The parts of a range.                                                   *)
(***************************************************************************)
num_threads == Min({IF hardware_threads # 0 THEN hardware_threads ELSE 2,
                    (Len(vector) + min_per_thread - 1) \div min_per_thread})

\* Mutant of Blocks: the last block is as long as the others.
Blocks_AllEqual == LET block_size == Len(vector) \div num_threads IN
                   [k \in 1..num_threads |-> <<1 + (k - 1) * block_size, 1 + k * block_size>>]

Blocks == LET block_size == Len(vector) \div num_threads IN
          [k \in 1..num_threads |->
              <<1 + (k - 1) * block_size,
                IF k = num_threads THEN Len(vector) + 1 ELSE 1 + k * block_size>>]

Halves(r) == LET mid_point == r[1] + Length(r) \div 2 IN <<<<r[1], mid_point>>, <<mid_point, r[2]>>>>

IsShort(r) == CASE algorithm \in {"find", "for_each"} -> Length(r) < task[r].size \/ Length(r) = 0
                [] algorithm = "accumulate_using_async" -> Length(r) <= task[r].size
                [] algorithm \in InBlocks -> r # Root \/ num_threads <= 1

\* parallel_find works on the first half itself, the others on the last part.
Parts(r) == IF algorithm \in InBlocks THEN Blocks ELSE Halves(r)
Direct(r) == IF algorithm = "find" THEN Head(Parts(r)) ELSE Parts(r)[Len(Parts(r))]
Others(r) == IF algorithm = "find" THEN Tail(Parts(r)) ELSE Front(Parts(r))

\* Where the size is not passed on, the part that a task works on has the default one.
DirectSize(r) == IF algorithm = "find" THEN task[r].size ELSE default_size
-----------------------------------------------------------------------------
Exists(r) == r \in DOMAIN task
Ended(r) == Exists(r) /\ task[r].step = "ended"
At(r, step) == Exists(r) /\ task[r].step = step
Becomes(r, step, result) ==
    task' = [task EXCEPT ![r] = [@ EXCEPT !.step = step, !.result = result]]

\* A task of parallel_find returns <<position>>.
Thrown == <<-1>>
Terminated == <<-2>>
Initial(r) == IF \/ algorithm = "accumulate_using_async" /\ r[1] = 1
                 \/ algorithm \in InBlocks /\ r = Root
              THEN <<0>> ELSE <<>>

\* A task begins: it works through a short range, or has others made for the parts.
\* std::async may defer one until its result is got; a std::thread runs.
Begin(r) ==
    /\ At(r, "begin")
    /\ IF IsShort(r) THEN Becomes(r, "work", Initial(r)) ELSE
       \E step \in {"begin"} \cup (IF algorithm \in InBlocks THEN {} ELSE {"deferred"}) :
          task' = [p \in DOMAIN task \cup ToSet(Parts(r)) |->
                     CASE p = r           -> [task[r] EXCEPT !.step = "direct"]
                       [] p \in DOMAIN task \ {r} -> task[p]
                       [] p = Direct(r)   -> New("begin", p, DirectSize(r))
                       [] OTHER           -> New(step, p, task[r].size)]
    /\ UNCHANGED <<applied, done_flag>>

\* No handler is left for a thread of parallel_accumulate, or its vector of threads
\* is destroyed while they can be joined: the process ends.
Throw(r) ==
    IF algorithm = "accumulate" /\ num_threads > 1
    THEN task' = [q \in {Root} |-> [task[q] EXCEPT !.step = "ended", !.result = Terminated]]
    ELSE Becomes(r, "ended", Thrown)

\* The element at which the task is has been dealt with.
Passes(r) == task' = [task EXCEPT ![r] = [@ EXCEPT !.step = "work", !.at = task[r].at + 1,
                                                   !.result = Append(task[r].result, task[r].at)]]

\* One turn of the loop over a short range, where there is no flag.
LoopTurn(r) ==
    LET i == task[r].at IN
    /\ algorithm # "find" /\ At(r, "work") /\ i < r[2]
    /\ applied' = [applied EXCEPT ![i] = @ + 1]
    /\ IF vector[i] = "throw" THEN Throw(r) ELSE Passes(r)
    /\ UNCHANGED done_flag

\* Mutant of Load: one return for both ends of the loop, return begin.
Load_Begin(r) ==
    /\ algorithm = "find" /\ At(r, "work") /\ task[r].at < r[2]
    /\ IF done_flag THEN Becomes(r, "ended", <<task[r].at>>) ELSE Becomes(r, "compare", task[r].result)
    /\ UNCHANGED <<applied, done_flag>>

\* parallel_find in three steps: others may set the flag between any two of them.  A
\* load that misses a store (it only acquires) is one that was made before it.
Load(r) ==
    /\ algorithm = "find" /\ At(r, "work") /\ task[r].at < r[2]
    /\ IF done_flag THEN Becomes(r, "ended", <<r[2]>>) ELSE Becomes(r, "compare", task[r].result)
    /\ UNCHANGED <<applied, done_flag>>

Compare(r) ==
    LET i == task[r].at IN
    /\ At(r, "compare")
    /\ applied' = [applied EXCEPT ![i] = @ + 1]
    /\ CASE vector[i] = "match" -> Becomes(r, "store", <<i>>)
         [] vector[i] = "throw" -> Becomes(r, "store", Thrown)
         [] OTHER -> Passes(r)
    /\ UNCHANGED done_flag

\* done_flag.store, or the store in catch (...).
Store(r) ==
    /\ At(r, "store")
    /\ done_flag' = TRUE
    /\ Becomes(r, "ended", task[r].result)
    /\ UNCHANGED applied

WorkEnds(r) ==
    /\ At(r, "work") /\ task[r].at = r[2]
    /\ Becomes(r, "ended", IF algorithm = "find" THEN <<r[2]>> ELSE task[r].result)
    /\ UNCHANGED <<applied, done_flag>>

\* The part of the task itself is done.  If it throws, or finds, the task leaves.
DirectEnds(r) ==
    LET result == task[Direct(r)].result IN
    /\ At(r, "direct") /\ Ended(Direct(r))
    /\ IF result = Thrown \/ (algorithm = "find" /\ result # <<Direct(r)[2]>>)
       THEN Becomes(r, "leave", result) ELSE Becomes(r, "get", result)
    /\ UNCHANGED <<applied, done_flag>>

\* get() of one future after the other; it runs a task that has been deferred.  The
\* result of the task itself comes last.
Get(r) ==
    LET next == Others(r)[task[r].got + 1]
        result == task[next].result
        sum == task[r].sum \o result IN
    /\ At(r, "get")
    /\ \/ At(next, "deferred") /\ task' = [task EXCEPT ![next].step = "begin"]
       \/ Ended(next) /\ result = Thrown /\ Becomes(r, "leave", Thrown)
       \/ Ended(next) /\ result # Thrown /\
             IF task[r].got + 1 < Len(Others(r))
             THEN task' = [task EXCEPT ![r] = [@ EXCEPT !.got = task[r].got + 1, !.sum = sum]]
             ELSE Becomes(r, "leave",
                          IF algorithm = "find" THEN result ELSE sum \o task[r].result)
    /\ UNCHANGED <<applied, done_flag>>

\* Mutant of Waited: the futures are dropped.
Waited_Dropped(r) == TRUE

\* The destructor of a future of std::async waits for its task, unless it is
\* deferred; join_threads joins.
Waited(r) == \A p \in ToSet(Others(r)) : Ended(p) \/ At(p, "deferred")

\* catch (...) sets the flag of parallel_find again.
Leave(r) ==
    /\ At(r, "leave") /\ Waited(r)
    /\ Becomes(r, "ended", task[r].result)
    /\ done_flag' = (done_flag \/ (algorithm = "find" /\ task[r].result = Thrown))
    /\ UNCHANGED applied

Next == /\ \E r \in DOMAIN task : \/ Begin(r) \/ LoopTurn(r) \/ WorkEnds(r)
                                  \/ Load(r) \/ Compare(r) \/ Store(r)
                                  \/ DirectEnds(r) \/ Get(r) \/ Leave(r)
        /\ UNCHANGED <<algorithm, vector>>
-----------------------------------------------------------------------------
Positions(what) == {i \in DOMAIN vector : vector[i] = what}
Result == task[Root].result

(***************************************************************************)
(* What the caller gets.  The tasks of parallel_find that stop because of  *)
(* the flag return the end of their range, and that must not be taken for  *)
(* an answer (parallel_find.h:10-25), also when several tasks match, or    *)
(* throw, before one of them has set the flag: the end is returned only if *)
(* nothing matches and nothing throws.  The others deal with every element *)
(* once, in the order of the blocks, add init once, and fail if one throws.*)
(***************************************************************************)
Answers ==
    /\ \A i \in DOMAIN vector : applied[i] <= 1
    /\ Ended(Root) =>
          IF Result \in {Thrown, Terminated} THEN Positions("throw") # {}
          ELSE IF algorithm = "find"
          THEN IF Result = <<Root[2]>> THEN Positions("other") = DOMAIN vector
               ELSE \E i \in Positions("match") : Result = <<i>>
          ELSE /\ Positions("throw") = {}
               /\ \A i \in DOMAIN vector : applied[i] = 1
               /\ algorithm # "for_each" => Result = [i \in 1..Len(vector) + 1 |-> i - 1]

(***************************************************************************)
(* No task outlives the call: the flag of parallel_find, and the elements, *)
(* are the caller's (parallel_find.h:39, parallel_accumulate_using_task.h  *)
(* :19-22), also when a part throws while others run.                      *)
(***************************************************************************)
NoTaskLeft == Ended(Root) => \A r \in DOMAIN task : Ended(r) \/ At(r, "deferred")
=============================================================================
