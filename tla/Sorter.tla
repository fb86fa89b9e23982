------------------------------- MODULE Sorter -------------------------------
(***************************************************************************)
(* Design/sorter.cpp: parallel quick sort.  do_sort puts the lower part    *)
(* of its list as a chunk on a stack, may start a worker thread, sorts the *)
(* higher part itself and then waits for the chunk, sorting other chunks   *)
(* meanwhile.                                                              *)
(*                                                                         *)
(* A list to be sorted is the set of its elements: the first one, the      *)
(* pivot, may be any, as the order of the list is arbitrary at first and   *)
(* std::partition leaves it open later.  A chunk goes by its pivot.  The   *)
(* vector threads is used without a lock; what comes of a data race on it  *)
(* is undefined, and the model stops there.                                *)
(***************************************************************************)
EXTENDS Integers, Sequences, FiniteSets

CONSTANTS Element,
          Whole,                  \* stands for the pivot of the whole list
          Keys,                   \* the values that the elements may have
          hardware_concurrency,   \* what the library may say; 0 is: unknown
          UINT_MAX                \* the largest unsigned number

ASSUME SorterAssumption ==
    /\ IsFiniteSet(Element) /\ Whole \notin Element
    /\ Keys \subseteq [Element -> Int]
    /\ UINT_MAX \in Nat /\ hardware_concurrency \subseteq 0..UINT_MAX

Main == 0
Worker == 1..Cardinality(Element)    \* a pivot starts one worker at most
Thread == {Main} \cup Worker

VARIABLES key,           \* the value of each element
          max_thread_count,
          chunks,        \* the stack, the newest chunk first
          lower,         \* the data of each chunk
          promise,       \* <<list>> when the value is set, <<>> before
          stack,         \* the calls of do_sort in each thread, the inmost last
          started,       \* how many workers have been
          threads,       \* the vector
          overtaken,     \* a thread has looked at its size before another has stored
          raced,         \* two threads have used it at once
          end_of_data,
          ended          \* the threads that have left sort_thread, parallel_quick_sort

given == <<key, max_thread_count>>
vectorVars == <<started, threads, overtaken, raced>>
endVars == <<end_of_data, ended>>
vars == <<given, chunks, lower, promise, stack, vectorVars, endVars>>

\* A call of do_sort, and where its list is to go when nobody below waits for it.
Call(list, to) == [data |-> list, to |-> to, step |-> "sort", pivot |-> Whole,
                   worker |-> 0, higher |-> <<>>]

Init == /\ key \in Keys
        /\ \E cores \in hardware_concurrency :
              max_thread_count = (cores - 1) % (UINT_MAX + 1)
        /\ chunks = <<>>
        /\ lower = [e \in Element |-> {}]
        /\ promise = [e \in Element \cup {Whole} |-> <<>>]
        /\ stack = [t \in Thread |-> IF t = Main THEN <<Call(Element, Whole)>> ELSE <<>>]
        /\ started = 0 /\ threads = <<>> /\ overtaken = FALSE /\ raced = FALSE
        /\ end_of_data = FALSE /\ ended = {}

Top(t) == stack[t][Len(stack[t])]
Below(t) == SubSeq(stack[t], 1, Len(stack[t]) - 1)
At(t, step) == stack[t] # <<>> /\ Top(t).step = step
Becomes(t, call) == stack' = [stack EXCEPT ![t][Len(stack[t])] = call]
Goto(t, step) == Becomes(t, [Top(t) EXCEPT !.step = step])
-----------------------------------------------------------------------------
(***************************************************************************)
(* do_sort                                                                 *)
(***************************************************************************)
\* The list goes to the call that sorts its higher part, or to a promise.
Return(t, list) ==
    LET rest == Below(t)
        inner == rest # <<>> /\ rest[Len(rest)].step = "higher"
    IN  /\ stack' = [stack EXCEPT ![t] = IF ~inner THEN rest ELSE
               [rest EXCEPT ![Len(rest)] = [@ EXCEPT !.step = "wait", !.higher = list]]]
        /\ promise' = IF inner THEN promise
                      ELSE [promise EXCEPT ![Top(t).to] = <<list>>]
        /\ UNCHANGED <<chunks, lower, vectorVars, endVars>>

ReturnShort(t) == At(t, "sort") /\ \/ Top(t).data = {} /\ Return(t, <<>>)
                                   \/ \E e \in Element : Top(t).data = {e} /\ Return(t, <<e>>)

\* The chunk of the smaller elements is pushed; the others stay in chunk_data.
Split(t) ==
    /\ At(t, "sort")
    /\ Cardinality(Top(t).data) > 1
    /\ \E p \in Top(t).data :
          LET less == {e \in Top(t).data : key[e] < key[p]} IN
          /\ chunks' = <<p>> \o chunks
          /\ lower' = [lower EXCEPT ![p] = less]
          /\ Becomes(t, [Top(t) EXCEPT !.step = "test", !.pivot = p,
                                       !.data = @ \ (less \cup {p})])
    /\ UNCHANGED <<promise, vectorVars, endVars>>

\* Another thread is changing the vector, or has seen that it may start one.
Steps(t) == {Top(u).step : u \in {v \in Thread \ {t} : stack[v] # <<>>}}
UsesVector(t) == raced' = (raced \/ "push_back" \in Steps(t))

\* new_higher = do_sort(chunk_data)
SortHigher(t) ==
    stack' = [stack EXCEPT ![t] = Below(t) \o
                 <<[Top(t) EXCEPT !.step = "higher"], Call(Top(t).data, Whole)>>]

\* Mutant of MayStart: one worker too many.
MayStart_OneMore == Len(threads) <= max_thread_count

MayStart == Len(threads) < max_thread_count

TestThreads(t) ==
    /\ At(t, "test")
    /\ IF MayStart THEN Goto(t, "start") ELSE SortHigher(t)
    /\ UsesVector(t)
    /\ overtaken' = (overtaken \/ Steps(t) \cap {"start", "started", "push_back"} # {})
    /\ UNCHANGED <<chunks, lower, promise, started, threads, endVars>>

\* std::thread(&sorter::sort_thread, this): the worker runs before it is stored.
StartThread(t) ==
    /\ At(t, "start")
    /\ started' = started + 1
    /\ Becomes(t, [Top(t) EXCEPT !.step = "started", !.worker = started + 1])
    /\ UNCHANGED <<chunks, lower, promise, threads, overtaken, raced, endVars>>

\* push_back begins, and ends.
PushBegin(t) ==
    /\ At(t, "started") /\ Goto(t, "push_back")
    /\ UsesVector(t)
    /\ UNCHANGED <<chunks, lower, promise, started, threads, overtaken, endVars>>

PushBack(t) ==
    /\ At(t, "push_back")
    /\ threads' = Append(threads, Top(t).worker)
    /\ SortHigher(t)
    /\ UNCHANGED <<chunks, lower, promise, started, overtaken, raced, endVars>>

Ready(t) == promise[Top(t).pivot] # <<>>

\* Mutant of Result: the lower part comes last.
Result_Swapped(call, new_lower) == <<call.pivot>> \o call.higher \o new_lower

Result(call, new_lower) == new_lower \o <<call.pivot>> \o call.higher

FinishWait(t) == /\ At(t, "wait") /\ Ready(t)
                 /\ Return(t, Result(Top(t), promise[Top(t).pivot][1]))

\* Mutant of NotReady: a thread that waits does not help.
NotReady_Idle(t) == At(t, "wait") /\ ~Ready(t) /\ UNCHANGED vars

\* Before the next look, try_sort_chunk.
NotReady(t) == /\ At(t, "wait") /\ ~Ready(t) /\ Goto(t, "help")
               /\ UNCHANGED <<chunks, lower, promise, vectorVars, endVars>>

\* Mutant of Popped: what was pushed meanwhile is popped, too.
Popped_All == <<>>

Popped == Tail(chunks)

\* chunks.pop succeeds, and sort_chunk is called on top of these calls.
TrySortChunk(t, calls) ==
    /\ chunks # <<>>
    /\ chunks' = Popped
    /\ stack' = [stack EXCEPT ![t] = Append(calls, Call(lower[Head(chunks)], Head(chunks)))]

Help(t) ==
    /\ At(t, "help")
    /\ \/ TrySortChunk(t, Append(Below(t), [Top(t) EXCEPT !.step = "wait"]))
       \/ chunks = <<>> /\ Goto(t, "wait") /\ UNCHANGED chunks
    /\ UNCHANGED <<lower, promise, vectorVars, endVars>>
-----------------------------------------------------------------------------
(***************************************************************************)
(* sort_thread, and parallel_quick_sort with the destructor of sorter      *)
(***************************************************************************)
Idle(t) == t \in 1..started /\ t \notin ended /\ stack[t] = <<>>

\* A turn of the loop of sort_thread that finds a chunk; others change nothing.
WorkerTakes(t) == /\ Idle(t) /\ ~end_of_data /\ TrySortChunk(t, <<>>)
                  /\ UNCHANGED <<lower, promise, vectorVars, endVars>>

WorkerEnds(t) == /\ Idle(t) /\ end_of_data /\ ended' = ended \cup {t}
                 /\ UNCHANGED <<chunks, lower, promise, stack, vectorVars, end_of_data>>

EndOfData == /\ promise[Whole] # <<>> /\ ~end_of_data /\ end_of_data' = TRUE
             /\ UNCHANGED <<chunks, lower, promise, stack, vectorVars, ended>>

\* Mutant of Joined: the workers that are more than planned are not joined.
Joined_Planned ==
    {threads[i] : i \in {j \in DOMAIN threads : j <= max_thread_count}} \subseteq ended

\* Each worker in the vector has ended.
Joined == {threads[i] : i \in DOMAIN threads} \subseteq ended

Join == /\ end_of_data /\ Main \notin ended /\ Joined /\ ended' = ended \cup {Main}
        /\ UNCHANGED <<chunks, lower, promise, stack, vectorVars, end_of_data>>

Step(t) == /\ \/ ReturnShort(t) \/ Split(t) \/ TestThreads(t) \/ StartThread(t)
              \/ PushBegin(t) \/ PushBack(t) \/ FinishWait(t) \/ NotReady(t) \/ Help(t)
              \/ WorkerTakes(t) \/ WorkerEnds(t)
              \/ t = Main /\ (EndOfData \/ Join)
           /\ UNCHANGED given

Next == \/ ~raced /\ \E t \in Thread : Step(t)
        \/ (raced \/ Main \in ended) /\ UNCHANGED vars

Spec == Init /\ [][Next]_vars
-----------------------------------------------------------------------------
\* A list is that of these elements, each once, in the order of their values.
Sorts(list, elements) ==
    /\ Len(list) = Cardinality(elements)
    /\ {list[i] : i \in DOMAIN list} = elements
    /\ \A i \in 1..Len(list) - 1 : key[list[i]] <= key[list[i + 1]]

(***************************************************************************)
(* A promise is set to its own chunk, sorted; the higher part comes back   *)
(* sorted to the call that waits for the lower one; the result is the      *)
(* whole list, sorted (sorter.cpp:88-98 and :102).                         *)
(***************************************************************************)
ListsSorted ==
    /\ \A p \in Element : promise[p] # <<>> => Sorts(promise[p][1], lower[p])
    /\ \A t \in Thread : \A i \in DOMAIN stack[t] :
           stack[t][i].step \in {"wait", "help"} => Sorts(stack[t][i].higher, stack[t][i].data)
    /\ promise[Whole] # <<>> => Sorts(promise[Whole][1], Element)

(***************************************************************************)
(* The threads that wait do not all wait for each other: while the list    *)
(* is not sorted there is a chunk to be taken, or a thread that has        *)
(* something to do (sorter.cpp:93-96, each helps while it waits).          *)
(***************************************************************************)
Waits(t) == stack[t] = <<>> \/ (Top(t).step \in {"wait", "help"} /\ ~Ready(t))
SomebodyWorks == promise[Whole] = <<>> => (chunks # <<>> \/ \E t \in Thread : ~Waits(t))

(***************************************************************************)
(* size() is tested before push_back (sorter.cpp:86-89), and a worker that *)
(* is not stored yet may itself start another.  There are more workers     *)
(* than max_thread_count only if a thread has looked between another       *)
(* thread's look and the end of its push_back.                             *)
(***************************************************************************)
LimitKept == overtaken \/ started <= max_thread_count

\* The destructor stops and reclaims all threads, those above the limit included
\* (sorter.cpp:52-60): nobody uses the sorter after it.
Reclaimed == Main \in ended /\ ~raced => 1..started \subseteq ended
=============================================================================
