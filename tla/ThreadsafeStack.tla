-------------------------- MODULE ThreadsafeStack --------------------------
(***************************************************************************)
(* Sharing_data/threadsafe_stack.h with the threads of                     *)
(* threadsafe_stack_test.cpp: a std::stack under one mutex, whose pops     *)
(* copy the top before they remove it, because the copy of an element may  *)
(* throw.                                                                  *)
(*                                                                         *)
(* The variables pc and result are those of the other stacks.              *)
(***************************************************************************)
EXTENDS Naturals, Sequences

CONSTANTS Thread, Value, Nothing,
          max_size,  \* bound: no push onto a stack of this size
          NoThread

VARIABLES contents,  \* data, the newest element first
          mutex,     \* the thread that holds it
          copied,    \* the copy in res or value, or the argument of push
          pc, result

vars == <<contents, mutex, copied, pc, result>>

Init == /\ contents = <<>> /\ mutex = NoThread
        /\ copied = [t \in Thread |-> Nothing]
        /\ pc = [t \in Thread |-> "idle"]
        /\ result = [t \in Thread |-> <<>>]

Goto(t, from, to) == pc[t] = from /\ pc' = [pc EXCEPT ![t] = to]

\* push, one of the three pops, or top is called, and takes the mutex.
Call(t) == /\ mutex = NoThread /\ mutex' = t
           /\ result' = [result EXCEPT ![t] = <<>>]
           /\ UNCHANGED contents
           /\ \/ /\ Len(contents) < max_size
                 /\ \E v \in Value : copied' = [copied EXCEPT ![t] = v]
                 /\ Goto(t, "idle", "push")
              \/ /\ Goto(t, "idle", "copy") \/ Goto(t, "idle", "top")
                 /\ UNCHANGED copied

\* The lock_guard goes out of scope.
Unlock(t, step) == /\ Goto(t, step, "idle")
                   /\ mutex' = NoThread
                   /\ copied' = [copied EXCEPT ![t] = Nothing]

\* data.push(new_value) copies it, too, and if that throws does nothing.
PushEnds(t) == /\ Unlock(t, "push")
               /\ \/ contents' = <<copied[t]>> \o contents
                  \/ UNCHANGED contents
               /\ UNCHANGED result

\* throw empty_stack()
Empty(t) == /\ contents = <<>>
            /\ \/ Unlock(t, "copy") /\ result' = [result EXCEPT ![t] = Nothing]
               \/ Unlock(t, "top") /\ UNCHANGED result
            /\ UNCHANGED contents

\* Mutant of CopyTop: the element is removed first.
CopyTop_Removed(t) == /\ contents # <<>>
                      /\ Goto(t, "copy", "remove")
                      /\ contents' = Tail(contents)
                      /\ copied' = [copied EXCEPT ![t] = Head(contents)]
                      /\ UNCHANGED <<mutex, result>>

\* make_shared<T>(data.top()), value = data.top(), T res = data.top(),
\* return data.top(); the copy may throw
CopyTop(t) == /\ contents # <<>>
              /\ \/ /\ Goto(t, "copy", "remove")
                    /\ copied' = [copied EXCEPT ![t] = Head(contents)]
                    /\ UNCHANGED mutex
                 \/ Unlock(t, "copy") \/ Unlock(t, "top")
              /\ UNCHANGED <<contents, result>>

\* data.pop(); safe_pop moves res out, and is refused if that may throw.
Remove(t) == /\ Unlock(t, "remove")
             /\ contents' = Tail(contents)
             /\ result' = [result EXCEPT ![t] = copied[t]]

Step(t) == Call(t) \/ PushEnds(t) \/ Empty(t) \/ CopyTop(t) \/ Remove(t)

Next == \E t \in Thread : Step(t)

Spec == Init /\ [][Next]_vars

\* What the mutex is there for: the operations are atomic.
Lifo == INSTANCE LifoStack WITH stack <- contents

ImplementsStack == Lifo!Init /\ [][Lifo!Next]_(Lifo!stackVars)
=============================================================================
