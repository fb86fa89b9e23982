----------------------------- MODULE FifoQueue -----------------------------
(***************************************************************************)
(* What a thread-safe queue of this repository promises its callers: every *)
(* operation takes effect at one instant between its call and its return,  *)
(* elements leave in the order in which they entered, try_pop reports an   *)
(* empty queue only when the queue is empty, and wait_and_pop never does.  *)
(* Lock_based/threadsafe_queue.h and Synchronizing/threadsafe_queue.h are  *)
(* both shown to implement this module.                                    *)
(***************************************************************************)
EXTENDS Sequences

CONSTANTS Thread,   \* the threads that call the queue
          Value,    \* the values that are pushed
          Nothing   \* what try_pop returns for an empty queue

VARIABLES queue,    \* the elements in the queue, oldest first
          result    \* the last pop: its thread, its operation and its answer

fifoVars == <<queue, result>>

PopKind == {"try_pop", "wait_and_pop"}
NoResult == <<>>

Init == /\ queue = <<>>
        /\ result = NoResult

Push(v) == /\ queue' = Append(queue, v)
           /\ UNCHANGED result

Pop(t, op) == /\ queue # <<>>
              /\ result' = <<t, op, Head(queue)>>
              /\ queue' = Tail(queue)

FindEmpty(t) == /\ queue = <<>>
                /\ result' = <<t, "try_pop", Nothing>>
                /\ UNCHANGED queue

Next == \/ \E v \in Value : Push(v)
        \/ \E t \in Thread, op \in PopKind : Pop(t, op)
        \/ \E t \in Thread : FindEmpty(t)

Spec == Init /\ [][Next]_fifoVars
=============================================================================
