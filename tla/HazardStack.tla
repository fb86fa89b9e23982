---------------------------- MODULE HazardStack ----------------------------
(***************************************************************************)
(* Lock_free/lock_free_stack2.h with the hazard pointers and the reclaim   *)
(* list of hazard_pointer.cpp: before a pop reads a node it stores its     *)
(* address in the thread's hazard pointer, and a node is deleted only by a *)
(* thread that has looked through all hazard pointers without finding it.  *)
(*                                                                         *)
(* The list and push are in LinkedStack, the array of hazard pointers in   *)
(* HazardPointers.  The reclaim list is a sequence of nodes, newest first: *)
(* it is only ever pushed to and taken whole.                              *)
(***************************************************************************)
EXTENDS HazardPointers, Sequences

CONSTANTS Value, Nothing

VARIABLES head, data, next, live, pc, node, result,   \* of LinkedStack
          old_next,          \* old_head->next as a pop has read it
          nodes_to_reclaim,
          current,           \* the nodes that delete_nodes_with_no_hazards has
          look               \* the hazard pointer that is compared next

\* What the hazard pointers protect.
Node == Address
NoNode == NoAddress

ASSUME MemoryAssumption == IsFiniteSet(Node)

INSTANCE LinkedStack

reclaimVars == <<nodes_to_reclaim, current, look>>
listVars == <<head, data, next, live>>
vars == <<listVars, pc, node, result, hpVars, reclaimVars, old_next>>

Init == /\ ListInit /\ HpInit
        /\ old_next = [t \in Thread |-> NoNode]
        /\ nodes_to_reclaim = <<>>
        /\ current = [t \in Thread |-> <<>>]
        /\ look = [t \in Thread |-> 0]

Push(t) == PushStep(t) /\ UNCHANGED <<hpVars, reclaimVars, old_next>>
-----------------------------------------------------------------------------
(***************************************************************************)
(* pop                                                                     *)
(***************************************************************************)
\* get_hazard_pointer_for_current_thread
PopEnter(t) ==
    /\ t \notin leaving
    /\ \/ slot[t] # 0 /\ Goto(t, "idle", "load") /\ UNCHANGED hpVars
       \/ Goto(t, "idle", "construct") /\ Construct(t)
    /\ Called(t)
    /\ UNCHANGED <<listVars, node, reclaimVars, old_next>>

PopSearch(t) ==
    /\ \/ Goto(t, "construct", "construct") /\ Skip(t)
       \/ Goto(t, "construct", "load") /\ Claim(t)
       \/ Goto(t, "construct", "idle") /\ Throw(t)
    /\ UNCHANGED <<listVars, node, result, reclaimVars, old_next>>

PopLoad(t) ==
    /\ Goto(t, "load", "protect")
    /\ node' = [node EXCEPT ![t] = head]
    /\ UNCHANGED <<listVars, result, hpVars, reclaimVars, old_next>>

\* hp.store(old_head)
Protect(t) ==
    /\ Goto(t, "protect", "validate")
    /\ Store(t, node[t])
    /\ UNCHANGED <<listVars, node, result, reclaimVars, old_next>>

\* Mutant of Validate: head is not loaded again.
Validate_Once(t) ==
    /\ pc[t] = "validate"
    /\ pc' = [pc EXCEPT ![t] = IF node[t] = NoNode THEN "clear" ELSE "next"]
    /\ result' = IF node[t] = NoNode THEN [result EXCEPT ![t] = Nothing] ELSE result
    /\ UNCHANGED <<listVars, node, hpVars, reclaimVars, old_next>>

\* old_head = head.load(), until it is what the hazard pointer protects.  The
\* pop of an empty stack takes effect here.
Validate(t) ==
    /\ pc[t] = "validate"
    /\ node' = [node EXCEPT ![t] = head]
    /\ pc' = [pc EXCEPT ![t] = CASE head # node[t] -> "protect"
                                 [] head = node[t] /\ head = NoNode -> "clear"
                                 [] OTHER -> "next"]
    /\ result' = IF head = NoNode /\ node[t] = NoNode
                 THEN [result EXCEPT ![t] = Nothing] ELSE result
    /\ UNCHANGED <<listVars, hpVars, reclaimVars, old_next>>

\* old_head->next
PopNext(t) ==
    /\ Goto(t, "next", "pop_cas")
    /\ old_next' = [old_next EXCEPT ![t] = next[node[t]]]
    /\ UNCHANGED <<listVars, node, result, hpVars, reclaimVars>>

PopCas(t) ==
    /\ Goto(t, "pop_cas", "clear")
    /\ head = node[t]
    /\ head' = old_next[t]
    /\ old_next' = [old_next EXCEPT ![t] = NoNode]
    /\ UNCHANGED <<data, next, live, node, result, hpVars, reclaimVars>>

\* The comparison fails and loads head.
PopRetry(t) ==
    /\ pc[t] = "pop_cas"
    /\ head # node[t]
    /\ node' = [node EXCEPT ![t] = head]
    /\ old_next' = [old_next EXCEPT ![t] = NoNode]
    /\ pc' = [pc EXCEPT ![t] = "protect"]
    /\ UNCHANGED <<listVars, result, hpVars, reclaimVars>>

\* hp.store(nullptr), then res.swap(old_head->data) if there is a node.
PopClear(t) ==
    /\ Store(t, NoNode)
    /\ \/ /\ node[t] = NoNode
          /\ Goto(t, "clear", "idle")
          /\ UNCHANGED <<data, result, look>>
       \/ /\ node[t] # NoNode
          /\ Goto(t, "clear", "outstanding")
          /\ result' = [result EXCEPT ![t] = data[node[t]]]
          /\ data' = [data EXCEPT ![node[t]] = Nothing]
          /\ look' = [look EXCEPT ![t] = 1]
    /\ UNCHANGED <<head, next, live, node, nodes_to_reclaim, current, old_next>>
-----------------------------------------------------------------------------
(***************************************************************************)
(* Reclaiming: the popped node first, then the nodes of the list.          *)
(***************************************************************************)
\* The node outstanding_hazard_pointer_for is called with.
Suspect(t) == IF pc[t] = "outstanding" THEN node[t] ELSE Head(current[t])

\* One turn of the loop of outstanding_hazard_pointer_for, without success.
LookOn(t) ==
    /\ pc[t] \in {"outstanding", "list_outstanding"}
    /\ look[t] \in Slot
    /\ pointer[look[t]] # Suspect(t)
    /\ look' = [look EXCEPT ![t] = @ + 1]
    /\ UNCHANGED <<listVars, pc, node, result, hpVars, nodes_to_reclaim, current, old_next>>

Protected(t) == look[t] \in Slot /\ pointer[look[t]] = Suspect(t)

\* Mutant of Unprotected: the last slot is not looked at.
Unprotected_OffByOne(t) == look[t] = max_hazard_pointers

Unprotected(t) == look[t] = max_hazard_pointers + 1

\* reclaim_later(old_head), or delete old_head.
PopReclaim(t) ==
    /\ Goto(t, "outstanding", "exchange")
    /\ \/ /\ Protected(t)
          /\ nodes_to_reclaim' = <<node[t]>> \o nodes_to_reclaim
          /\ UNCHANGED <<data, live>>
       \/ Unprotected(t) /\ Free({node[t]}) /\ UNCHANGED nodes_to_reclaim
    /\ node' = [node EXCEPT ![t] = NoNode]
    /\ look' = [look EXCEPT ![t] = 0]
    /\ UNCHANGED <<head, next, result, hpVars, current, old_next>>

\* Where the loop over current goes on, or ends.
NextInList(t, nodes) ==
    /\ current' = [current EXCEPT ![t] = nodes]
    /\ look' = [look EXCEPT ![t] = IF nodes = <<>> THEN 0 ELSE 1]
    /\ pc' = [pc EXCEPT ![t] = IF nodes = <<>> THEN "idle" ELSE "list_outstanding"]

\* Mutant of Exchange: the list is read and cleared later, or never.
Exchange_Load(t) ==
    /\ pc[t] = "exchange"
    /\ NextInList(t, nodes_to_reclaim)
    /\ UNCHANGED <<listVars, node, result, hpVars, nodes_to_reclaim, old_next>>

\* delete_nodes_with_no_hazards
Exchange(t) ==
    /\ pc[t] = "exchange"
    /\ NextInList(t, nodes_to_reclaim)
    /\ nodes_to_reclaim' = <<>>
    /\ UNCHANGED <<listVars, node, result, hpVars, old_next>>

ListReclaim(t) ==
    /\ pc[t] = "list_outstanding"
    /\ \/ Unprotected(t) /\ Free({Suspect(t)}) /\ UNCHANGED nodes_to_reclaim
       \/ /\ Protected(t)
          /\ nodes_to_reclaim' = <<Suspect(t)>> \o nodes_to_reclaim
          /\ UNCHANGED <<data, live>>
    /\ NextInList(t, Tail(current[t]))
    /\ UNCHANGED <<head, next, node, result, hpVars, old_next>>
-----------------------------------------------------------------------------
\* The thread ends between two calls; one that starts later may get its id.
Exit(t) == /\ pc[t] = "idle"
           /\ ExitClear(t) \/ ExitFree(t)
           /\ UNCHANGED <<listVars, pc, node, result, reclaimVars, old_next>>

Step(t) == \/ t \notin leaving /\ Push(t)
           \/ PopEnter(t) \/ PopSearch(t) \/ PopLoad(t) \/ Protect(t)
           \/ Validate(t) \/ PopNext(t) \/ PopCas(t) \/ PopRetry(t) \/ PopClear(t)
           \/ LookOn(t) \/ PopReclaim(t) \/ Exchange(t) \/ ListReclaim(t)
           \/ Exit(t)

Next == \E t \in Thread : Step(t)

Spec == Init /\ [][Next]_vars
-----------------------------------------------------------------------------
PcSet == {"idle", "push_cas", "construct", "load", "protect", "validate", "next", "pop_cas",
          "clear", "outstanding", "exchange", "list_outstanding"}

TypeOK ==
    /\ HpTypeOK
    /\ head \in Node \cup {NoNode} /\ live \subseteq Node
    /\ next \in [Node -> Node \cup {NoNode}]
    /\ data \in [Node -> Value \cup {Nothing}]
    /\ pc \in [Thread -> PcSet]
    /\ node \in [Thread -> Node \cup {NoNode}]
    /\ old_next \in [Thread -> Node \cup {NoNode}]
    /\ result \in [Thread -> Value \cup {Nothing, <<>>}]
    /\ nodes_to_reclaim \in Seq(Node) /\ current \in [Thread -> Seq(Node)]
    /\ look \in [Thread -> 0..max_hazard_pointers + 1]

(***************************************************************************)
(* A node that a pop has validated stays allocated until the pop lets go   *)
(* of it, though other pops take it and try to delete it; and when the     *)
(* comparison with head succeeds, next is still what was read: the node    *)
(* has not been deleted, reused and pushed again in between.               *)
(***************************************************************************)
NoUseAfterFree ==
    /\ \A t \in Thread : pc[t] = "next" => node[t] \in live
    /\ \A t \in Thread : pc[t] = "pop_cas" =>
           node[t] \in live /\ old_next[t] = next[node[t]]

Elements(seq) == {seq[i] : i \in DOMAIN seq}
Distinct(seq) == \A i, j \in DOMAIN seq : seq[i] = seq[j] => i = j

\* The nodes a thread has taken for itself.
Taken(t) == IF pc[t] \in {"push_cas", "clear", "outstanding"} THEN {node[t]} \ {NoNode}
            ELSE Elements(current[t])

(***************************************************************************)
(* Every allocated node is on the stack, in the list of nodes to be        *)
(* reclaimed, or with one thread, and it is there once: none leaks, none   *)
(* is deleted twice.                                                       *)
(***************************************************************************)
NodesAccounted ==
    LET stack   == Listed(head)
        pending == Elements(nodes_to_reclaim)
    IN  /\ live = stack \cup pending \cup UNION {Taken(t) : t \in Thread}
        /\ stack \cap pending = {}
        /\ \A t \in Thread : Taken(t) \cap (stack \cup pending) = {}
        /\ \A t, u \in Thread : t # u => Taken(t) \cap Taken(u) = {}
        /\ Distinct(nodes_to_reclaim) /\ \A t \in Thread : Distinct(current[t])

\* What the callers see: a pop takes effect at its compare_exchange, before it
\* has moved the element to res.
Returned == [t \in Thread |-> IF pc[t] = "clear" /\ node[t] # NoNode
                              THEN data[node[t]] ELSE result[t]]

Lifo == INSTANCE LifoStack WITH stack <- Contents, result <- Returned

ImplementsStack == Lifo!Init /\ [][Lifo!Next]_(Lifo!stackVars)
=============================================================================
