--------------------------- MODULE LockFreeStack ---------------------------
(***************************************************************************)
(* Lock_free/lock_free_stack1.h: a stack without locks that counts the     *)
(* threads inside pop and deletes nodes when there is only one.  Popped    *)
(* nodes that cannot be deleted yet wait in the list to_be_deleted.        *)
(*                                                                         *)
(* The list and push are in LinkedStack.  One action per access to         *)
(* something another thread may access: the three atomics, and the next    *)
(* field of a node that is or was on the stack.                            *)
(***************************************************************************)
EXTENDS LinkedStack

VARIABLES threads_in_pop, to_be_deleted,
          old_next,     \* old_head->next as a pop has read it
          first, last,  \* the arguments of chain_pending_nodes
          counted       \* the pop still counts in threads_in_pop

reclaimVars == <<threads_in_pop, to_be_deleted, first, last, counted>>
listVars == <<head, data, live>>
vars == <<stackVars, reclaimVars, old_next>>

Init == /\ ListInit
        /\ threads_in_pop = 0
        /\ to_be_deleted = NoNode
        /\ old_next = [t \in Thread |-> NoNode]
        /\ first = [t \in Thread |-> NoNode]
        /\ last = [t \in Thread |-> NoNode]
        /\ counted = [t \in Thread |-> FALSE]

Push(t) == PushStep(t) /\ UNCHANGED <<old_next, reclaimVars>>
-----------------------------------------------------------------------------
(***************************************************************************)
(* pop                                                                     *)
(***************************************************************************)
PopEnter(t) ==
    /\ Goto(t, "idle", "pop_load")
    /\ threads_in_pop' = threads_in_pop + 1
    /\ counted' = [counted EXCEPT ![t] = TRUE]
    /\ Called(t)
    /\ UNCHANGED <<listVars, to_be_deleted, next, node, old_next, first, last>>

\* old_head is set to head, by load or by a failed compare_exchange_weak, and
\* the loop goes on, or ends if the stack is empty.
LoadHead(t) ==
    /\ node' = [node EXCEPT ![t] = head]
    /\ pc' = [pc EXCEPT ![t] = IF head = NoNode THEN "reclaim" ELSE "pop_next"]
    /\ result' = IF head = NoNode THEN [result EXCEPT ![t] = Nothing] ELSE result

PopLoad(t) ==
    /\ pc[t] = "pop_load"
    /\ LoadHead(t)
    /\ UNCHANGED <<listVars, next, old_next, reclaimVars>>

\* old_head->next
PopNext(t) ==
    /\ Goto(t, "pop_next", "pop_cas")
    /\ old_next' = [old_next EXCEPT ![t] = next[node[t]]]
    /\ UNCHANGED <<listVars, next, node, reclaimVars, result>>

\* old_head is off the stack and its data goes to res.
PopCas(t) ==
    /\ Goto(t, "pop_cas", "reclaim")
    /\ head = node[t]
    /\ head' = old_next[t]
    /\ result' = [result EXCEPT ![t] = data[node[t]]]
    /\ data' = [data EXCEPT ![node[t]] = Nothing]
    /\ old_next' = [old_next EXCEPT ![t] = NoNode]
    /\ UNCHANGED <<next, live, node, reclaimVars>>

PopRetry(t) ==
    /\ pc[t] = "pop_cas"
    /\ LoadHead(t)
    /\ old_next' = [old_next EXCEPT ![t] = NoNode]
    /\ UNCHANGED <<listVars, next, reclaimVars>>
-----------------------------------------------------------------------------
(***************************************************************************)
(* try_reclaim                                                             *)
(***************************************************************************)
ReclaimAlone(t) ==
    /\ Goto(t, "reclaim", "exchange")
    /\ threads_in_pop = 1
    /\ UNCHANGED <<listVars, next, node, old_next, reclaimVars, result>>

\* chain_pending_node(old_head)
ReclaimNotAlone(t) ==
    /\ Goto(t, "reclaim", "chain_link")
    /\ threads_in_pop # 1
    /\ first' = [first EXCEPT ![t] = node[t]]
    /\ last' = [last EXCEPT ![t] = node[t]]
    /\ UNCHANGED <<listVars, threads_in_pop, to_be_deleted, next, node,
                   old_next, counted, result>>

Exchange(t) ==
    /\ Goto(t, "exchange", "recheck")
    /\ first' = [first EXCEPT ![t] = to_be_deleted]
    /\ to_be_deleted' = NoNode
    /\ UNCHANGED <<listVars, threads_in_pop, next, node, old_next, last,
                   counted, result>>

\* Mutant of RecheckAlone: the nodes are deleted whoever is in pop by now.
RecheckAlone_Unchecked(t) ==
    /\ Goto(t, "recheck", "idle")
    /\ threads_in_pop' = threads_in_pop - 1
    /\ counted' = [counted EXCEPT ![t] = FALSE]
    /\ Free(Listed(first[t]) \cup {node[t]})
    /\ first' = [first EXCEPT ![t] = NoNode]
    /\ node' = [node EXCEPT ![t] = NoNode]
    /\ UNCHANGED <<head, to_be_deleted, next, old_next, last, result>>

\* --threads_in_pop is 0: delete_nodes(nodes_to_deleted), delete old_head.
RecheckAlone(t) ==
    /\ Goto(t, "recheck", "idle")
    /\ threads_in_pop = 1
    /\ threads_in_pop' = 0
    /\ counted' = [counted EXCEPT ![t] = FALSE]
    /\ Free(Listed(first[t]) \cup {node[t]})
    /\ first' = [first EXCEPT ![t] = NoNode]
    /\ node' = [node EXCEPT ![t] = NoNode]
    /\ UNCHANGED <<head, to_be_deleted, next, old_next, last, result>>

\* Another pop has begun: the nodes go back to the list, if there are any, and
\* old_head is deleted, which no pop of now has seen.
RecheckNotAlone(t) ==
    /\ pc[t] = "recheck"
    /\ threads_in_pop # 1
    /\ threads_in_pop' = threads_in_pop - 1
    /\ counted' = [counted EXCEPT ![t] = FALSE]
    /\ IF first[t] = NoNode
       THEN /\ Free({node[t]})
            /\ node' = [node EXCEPT ![t] = NoNode]
            /\ pc' = [pc EXCEPT ![t] = "idle"]
            /\ UNCHANGED last
       ELSE /\ last' = [last EXCEPT ![t] =
                           CHOOSE n \in Listed(first[t]) : next[n] = NoNode]
            /\ pc' = [pc EXCEPT ![t] = "chain_link"]
            /\ UNCHANGED <<data, live, node>>
    /\ UNCHANGED <<head, to_be_deleted, next, old_next, first, result>>

\* last->next = to_be_deleted; last is null when nothing was popped.
ChainLink(t) ==
    /\ Goto(t, "chain_link", "chain_cas")
    /\ last[t] # NoNode
    /\ next' = [next EXCEPT ![last[t]] = to_be_deleted]
    /\ UNCHANGED <<listVars, node, old_next, reclaimVars, result>>

\* What is left of try_reclaim when the nodes are chained: leave pop, or, for a
\* thread that has left, delete old_head.
AfterChain(t) ==
    /\ first' = [first EXCEPT ![t] = NoNode]
    /\ last' = [last EXCEPT ![t] = NoNode]
    /\ IF counted[t]
       THEN /\ pc' = [pc EXCEPT ![t] = "leave"]
            /\ UNCHANGED <<data, live>>
       ELSE /\ pc' = [pc EXCEPT ![t] = "idle"]
            /\ Free({node[t]})
    /\ node' = [node EXCEPT ![t] = NoNode]

\* Mutant of ChainCas: the list is replaced without a comparison.
ChainCas_Store(t) ==
    /\ pc[t] = "chain_cas"
    /\ to_be_deleted' = first[t]
    /\ AfterChain(t)
    /\ UNCHANGED <<head, threads_in_pop, next, old_next, counted, result>>

ChainCas(t) ==
    /\ pc[t] = "chain_cas"
    /\ to_be_deleted = next[last[t]]
    /\ to_be_deleted' = first[t]
    /\ AfterChain(t)
    /\ UNCHANGED <<head, threads_in_pop, next, old_next, counted, result>>

ChainRetry(t) ==
    /\ Goto(t, "chain_cas", "chain_cas")
    /\ next' = [next EXCEPT ![last[t]] = to_be_deleted]
    /\ UNCHANGED <<listVars, node, old_next, reclaimVars, result>>

\* Mutant of Leave: the pop does not leave.
Leave_Stays(t) ==
    /\ Goto(t, "leave", "idle")
    /\ counted' = [counted EXCEPT ![t] = FALSE]
    /\ UNCHANGED <<listVars, threads_in_pop, to_be_deleted, next, node, old_next,
                   first, last, result>>

Leave(t) ==
    /\ Goto(t, "leave", "idle")
    /\ threads_in_pop' = threads_in_pop - 1
    /\ counted' = [counted EXCEPT ![t] = FALSE]
    /\ UNCHANGED <<listVars, to_be_deleted, next, node, old_next, first, last,
                   result>>
-----------------------------------------------------------------------------
\* Some thread is about to write through a null pointer: the process ends.
Crashing == \E t \in Thread : pc[t] = "chain_link" /\ last[t] = NoNode

Step(t) == \/ Push(t) \/ PopEnter(t)
           \/ PopLoad(t) \/ PopNext(t) \/ PopCas(t) \/ PopRetry(t)
           \/ ReclaimAlone(t) \/ ReclaimNotAlone(t) \/ Exchange(t)
           \/ RecheckAlone(t) \/ RecheckNotAlone(t)
           \/ ChainLink(t) \/ ChainCas(t) \/ ChainRetry(t) \/ Leave(t)

Next == \/ ~Crashing /\ \E t \in Thread : Step(t)
        \/ Crashing /\ UNCHANGED vars

Spec == Init /\ [][Next]_vars
-----------------------------------------------------------------------------
\* The counter counts the pops that have not left, and never wraps; the rest
\* holds values of its types.
TypeOK ==
    /\ {head, to_be_deleted} \subseteq Node \cup {NoNode}
    /\ next \in [Node -> Node \cup {NoNode}]
    /\ data \in [Node -> Value \cup {Nothing}]
    /\ live \subseteq Node
    /\ threads_in_pop = Cardinality({t \in Thread : counted[t]})
    /\ result \in [Thread -> Value \cup {Nothing, <<>>}]

(***************************************************************************)
(* A pop reads next of a node that it does not own and that another pop    *)
(* may have taken meanwhile; the node must still be allocated, and no node *)
(* may come back to the stack under a pop that has read its next.          *)
(***************************************************************************)
NoUseAfterFree ==
    /\ \A t \in Thread : pc[t] = "pop_next" => node[t] \in live
    /\ \A t \in Thread : pc[t] = "pop_cas" /\ head = node[t] =>
           old_next[t] = next[node[t]] /\ node[t] \in live
    /\ \A t \in Thread : pc[t] = "chain_cas" => last[t] \in live

\* The nodes a thread has taken for itself.
Taken(t) ==
    CASE pc[t] = "push_cas" -> {node[t]}
      [] pc[t] \in {"reclaim", "exchange"} -> {node[t]} \ {NoNode}
      [] pc[t] \in {"recheck", "chain_link", "chain_cas"} ->
             ({node[t]} \ {NoNode}) \cup Segment(first[t], last[t])
      [] OTHER -> {}

(***************************************************************************)
(* Every allocated node is in one place: on the stack, in the list of      *)
(* nodes to be deleted, or with one thread.  So none leaks and none is     *)
(* deleted twice.                                                          *)
(***************************************************************************)
NodesAccounted ==
    LET stack   == Listed(head)
        pending == Listed(to_be_deleted)
    IN  /\ live = stack \cup pending \cup UNION {Taken(t) : t \in Thread}
        /\ stack \cap pending = {}
        /\ \A t \in Thread : Taken(t) \cap (stack \cup pending) = {}
        /\ \A t, u \in Thread : t # u => Taken(t) \cap Taken(u) = {}

\* All that keeps the memory in order.
CountedNodesSafe == TypeOK /\ NoUseAfterFree /\ NodesAccounted

\* The operations of the stack are atomic; a pop takes effect at its
\* compare_exchange, or when it has loaded a null head.
Lifo == INSTANCE LifoStack WITH stack <- Contents

ImplementsStack == Lifo!Init /\ [][Lifo!Next]_(Lifo!stackVars)

\* A pop of an empty stack ends like any other.
PopOfEmptyIsSafe == ~Crashing
=============================================================================
