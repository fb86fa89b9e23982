--------------------------- MODULE SharedPtrStack ---------------------------
(***************************************************************************)
(* Lock_free/lock_free_stack3.h: the stack without locks whose nodes are   *)
(* held by std::shared_ptr: a node is deleted with the last pointer to it. *)
(* The list and push are in LinkedStack; the pointers are head, next of a  *)
(* node, and the local ones of push and pop.                               *)
(***************************************************************************)
EXTENDS LinkedStack

CONSTANT NewElement   \* what make_shared<T>() points to; it may be pushed, too

VARIABLE old_next     \* the third argument of atomic_compare_exchange_weak

Init == ListInit /\ old_next = [t \in Thread |-> NoNode]

\* Mutant of Pointed: the local pointers of pop are plain ones.
Pointed_Plain == UNION {Listed(n) : n \in {head} \cup {node[t] : t \in {u \in Thread : pc[u] = "push_cas"}}}

\* The nodes to which a pointer leads; only they are left after a step.
Pointed == UNION {Listed(n) : n \in {head} \cup {node[t] : t \in Thread}
                                           \cup {old_next[t] : t \in Thread}}

Release == /\ live' = Pointed'
           /\ data' = [n \in Node |-> IF n \in live' THEN data[n] ELSE Nothing]

\* The comparison fails: new_node->next becomes another pointer.
Reload(t) == /\ Goto(t, "push_cas", "push_cas")
             /\ next' = [next EXCEPT ![node[t]] = head]
             /\ UNCHANGED <<head, node, result, old_next>>
             /\ Release

Push(t) == \/ \E v \in Value, n \in Node : PushNew(t, v, n) /\ UNCHANGED old_next
           \/ PushCas(t) /\ UNCHANGED old_next
           \/ Reload(t)

\* atomic_load, or the one in a comparison that fails; an empty stack gives a
\* new element.
LoadHead(t) ==
    /\ node' = [node EXCEPT ![t] = head]
    /\ old_next' = [old_next EXCEPT ![t] = NoNode]
    /\ pc' = [pc EXCEPT ![t] = IF head = NoNode THEN "idle" ELSE "pop_next"]
    /\ result' = [result EXCEPT ![t] = IF head = NoNode THEN NewElement ELSE <<>>]
    /\ UNCHANGED <<head, next>>
    /\ Release

PopLoad(t) == pc[t] = "idle" /\ LoadHead(t)
PopRetry(t) == pc[t] = "pop_cas" /\ LoadHead(t)

\* old_head->next
PopNext(t) == /\ Goto(t, "pop_next", "pop_cas")
              /\ old_next' = [old_next EXCEPT ![t] = next[node[t]]]
              /\ UNCHANGED <<head, data, next, live, node, result>>

\* old_head is off the stack, its data is returned, and the pointer is gone.
PopCas(t) == /\ Goto(t, "pop_cas", "idle")
             /\ head = node[t]
             /\ head' = old_next[t]
             /\ result' = [result EXCEPT ![t] = data[node[t]]]
             /\ node' = [node EXCEPT ![t] = NoNode]
             /\ old_next' = [old_next EXCEPT ![t] = NoNode]
             /\ UNCHANGED next
             /\ Release

Step(t) == Push(t) \/ PopLoad(t) \/ PopNext(t) \/ PopCas(t) \/ PopRetry(t)

Next == \E t \in Thread : Step(t)

Spec == Init /\ [][Next]_<<stackVars, old_next>>

\* An empty stack answers with an element, which may have been pushed before:
\* a caller cannot tell the two answers from each other.
Lifo == INSTANCE LifoStack WITH stack <- Contents, Nothing <- NewElement

ImplementsStack == Lifo!Init /\ [][Lifo!Next]_(Lifo!stackVars)
=============================================================================
