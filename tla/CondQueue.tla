----------------------------- MODULE CondQueue -----------------------------
(***************************************************************************)
(* Synchronizing/threadsafe_queue.h: a std::queue behind one mutex and a   *)
(* condition variable.  Everything an operation does, it does with the     *)
(* mutex held, notify_one included, so an operation is one action, and     *)
(* wait_and_pop is two when it blocks: the predicate is evaluated and the  *)
(* thread blocked without giving up the mutex in between, and a woken      *)
(* thread evaluates the predicate again when it has the mutex.             *)
(*                                                                         *)
(* Copying an element may throw (make_shared, the copy of T): the pop then *)
(* ends with the element still in the queue.                               *)
(***************************************************************************)
EXTENDS Naturals, Sequences, FiniteSets

CONSTANTS Thread, Value, Nothing,
          MaxLen,    \* bound on the elements in the queue
          MaxFaults  \* bound on the pops that throw

ASSUME CondQueueAssumption ==
    /\ Nothing \notin Value
    /\ IsFiniteSet(Thread)
    /\ MaxLen \in Nat
    /\ MaxFaults \in Nat

VARIABLES data_queue,
          waiters,  \* threads blocked in data_cond
          woken,    \* threads that were woken and wait for the mutex
          result,   \* thread, operation and answer of the last pop
          lost      \* how many woken threads left by an exception

vars == <<data_queue, waiters, woken, result, lost>>

Init == /\ data_queue = <<>>
        /\ waiters = {}
        /\ woken = {}
        /\ result = <<>>
        /\ lost = 0

Running(t) == t \notin waiters \cup woken

Wake(w) == /\ waiters' = waiters \ {w}
           /\ woken' = woken \cup {w}

\* Mutant of Push: only the push into an empty queue notifies.
Push_NotifyIfEmpty(t, v) ==
    /\ Running(t)
    /\ Len(data_queue) < MaxLen
    /\ data_queue' = Append(data_queue, v)
    /\ \/ (waiters = {} \/ data_queue # <<>>) /\ UNCHANGED <<waiters, woken>>
       \/ data_queue = <<>> /\ \E w \in waiters : Wake(w)
    /\ UNCHANGED <<result, lost>>

Push(t, v) ==
    /\ Running(t)
    /\ Len(data_queue) < MaxLen
    /\ data_queue' = Append(data_queue, v)
    /\ \/ waiters = {} /\ UNCHANGED <<waiters, woken>>
       \/ \E w \in waiters : Wake(w)
    /\ UNCHANGED <<result, lost>>

TakeFront(t, o) ==
    /\ result' = <<t, o, Head(data_queue)>>
    /\ data_queue' = Tail(data_queue)

TryPop(t) ==
    /\ Running(t)
    /\ \/ data_queue = <<>> /\ result' = <<t, "try_pop", Nothing>>
                            /\ UNCHANGED data_queue
       \/ data_queue # <<>> /\ TakeFront(t, "try_pop")
    /\ UNCHANGED <<waiters, woken, lost>>

\* The first evaluation of the predicate.
WaitAndPop(t) ==
    /\ Running(t)
    /\ \/ data_queue = <<>> /\ waiters' = waiters \cup {t}
                            /\ UNCHANGED <<data_queue, result>>
       \/ data_queue # <<>> /\ TakeFront(t, "wait_and_pop") /\ UNCHANGED waiters
    /\ UNCHANGED <<woken, lost>>

\* Mutant of Rewait: the woken thread does not evaluate the predicate again.
Rewait_IfNotWhile(t) ==
    /\ t \in woken
    /\ data_queue = <<>>
    /\ woken' = woken \ {t}
    /\ result' = <<t, "wait_and_pop", Nothing>>
    /\ UNCHANGED <<data_queue, waiters, lost>>

\* Mutant of Rewait: the thread blocks again but still counts as woken.
Rewait_StillWoken(t) ==
    /\ t \in woken
    /\ data_queue = <<>>
    /\ waiters' = waiters \cup {t}
    /\ UNCHANGED <<data_queue, woken, result, lost>>

\* A woken thread finds that the element is gone, or that there was none.
Rewait(t) ==
    /\ t \in woken
    /\ data_queue = <<>>
    /\ woken' = woken \ {t}
    /\ waiters' = waiters \cup {t}
    /\ UNCHANGED <<data_queue, result, lost>>

WokenPop(t) ==
    /\ t \in woken
    /\ data_queue # <<>>
    /\ TakeFront(t, "wait_and_pop")
    /\ woken' = woken \ {t}
    /\ UNCHANGED <<waiters, lost>>

\* The copy of the element throws in a thread that had been woken for it.
WokenThrow(t) ==
    /\ t \in woken
    /\ data_queue # <<>>
    /\ lost < MaxFaults
    /\ lost' = lost + 1
    /\ woken' = woken \ {t}
    /\ UNCHANGED <<data_queue, waiters, result>>

SpuriousWake(t) == /\ t \in waiters
                   /\ Wake(t)
                   /\ UNCHANGED <<data_queue, result, lost>>

WokenStep(t) == Rewait(t) \/ WokenPop(t)

Next == \E t \in Thread : \/ \E v \in Value : Push(t, v)
                          \/ TryPop(t) \/ WaitAndPop(t)
                          \/ WokenStep(t) \/ WokenThrow(t) \/ SpuriousWake(t)

Spec == Init /\ [][Next]_vars

\* The operating system lets every woken thread go on when it has the mutex.
FairSpec == Spec /\ \A t \in Thread : WF_vars(WokenStep(t))
-----------------------------------------------------------------------------
\* Variables hold values of their types; a thread is in one place.
TypeOK == /\ data_queue \in Seq(Value)
          /\ waiters \in SUBSET Thread
          /\ woken \in SUBSET Thread
          /\ waiters \cap woken = {}
          /\ result \in {<<>>} \cup (Thread \X {"try_pop", "wait_and_pop"}
                                            \X (Value \cup {Nothing}))
          /\ lost \in Nat

\* No wake-up is missing: while threads are blocked, as many have been woken as
\* there are elements to take, except for those that an exception took away.
EnoughWoken == waiters = {} \/ Len(data_queue) <= Cardinality(woken) + lost

Fifo == INSTANCE FifoQueue WITH queue <- data_queue

\* Every operation is one step of a first-in-first-out queue; in particular
\* wait_and_pop never returns without an element.
ImplementsFifo == Fifo!Init /\ [][Fifo!Next]_(Fifo!fifoVars)

\* Nobody stays blocked while there is an element, unless an exception has taken
\* a wake-up away.
Stranded(t) == t \in waiters /\ data_queue # <<>>
WaiterServed == \A t \in Thread : Stranded(t) ~> ~Stranded(t) \/ lost > 0
=============================================================================
