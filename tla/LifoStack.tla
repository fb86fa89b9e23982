----------------------------- MODULE LifoStack -----------------------------
(***************************************************************************)
(* What a stack of this repository promises: push and pop each take        *)
(* effect at one instant, the element pushed last is popped first, every   *)
(* element is popped once, and pop gives the answer of an empty stack only *)
(* when it is empty (or when that answer is the element on top).  All four *)
(* stacks are shown to implement it.                                       *)
(***************************************************************************)
EXTENDS Sequences

CONSTANTS Thread, Value,
          Nothing   \* the answer of an empty stack: mostly a null pointer

VARIABLES stack,    \* the elements, the newest first
          result    \* what a thread's pop returned, until its next call

stackVars == <<stack, result>>

NoResult == <<>>

Init == /\ stack = <<>>
        /\ result = [t \in Thread |-> NoResult]

Call(t) == /\ result' = [result EXCEPT ![t] = NoResult]
           /\ UNCHANGED stack

Push(v) == /\ stack' = <<v>> \o stack
           /\ UNCHANGED result

Pop(t) == /\ stack # <<>>
          /\ result' = [result EXCEPT ![t] = Head(stack)]
          /\ stack' = Tail(stack)

PopEmpty(t) == /\ stack = <<>>
               /\ result' = [result EXCEPT ![t] = Nothing]
               /\ UNCHANGED stack

Next == \/ \E v \in Value : Push(v)
        \/ \E t \in Thread : Call(t) \/ Pop(t) \/ PopEmpty(t)
=============================================================================
