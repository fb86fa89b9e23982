---------------------------- MODULE LinkedStack ----------------------------
(***************************************************************************)
(* What the three stacks without locks have in common: the linked list,    *)
(* the memory its nodes come from, and push, which is the same code in all.*)
(* They differ in how pop finds out when a node may be deleted.            *)
(*                                                                         *)
(* The memory is a pool of nodes that are reused as soon as they are       *)
(* deleted; one action per access to what another thread may access.       *)
(***************************************************************************)
EXTENDS Naturals, Sequences, FiniteSets

CONSTANTS Thread, Value, Nothing,
          Node,      \* the memory
          NoNode     \* a null pointer

VARIABLES head,
          data, next, live,  \* the nodes, and which of them are allocated
          pc,
          node,     \* new_node of a push, old_head of a pop
          result    \* what a thread's pop returned, until its next call

stackVars == <<head, data, next, live, pc, node, result>>

ListInit == /\ head = NoNode
            /\ data = [n \in Node |-> Nothing]
            /\ next = [n \in Node |-> NoNode]
            /\ live = {}
            /\ pc = [t \in Thread |-> "idle"]
            /\ node = [t \in Thread |-> NoNode]
            /\ result = [t \in Thread |-> <<>>]

\* What t's pop returned is of no interest any more.
Called(t) == result' = [result EXCEPT ![t] = <<>>]

Goto(t, from, to) == pc[t] = from /\ pc' = [pc EXCEPT ![t] = to]

\* The nodes of a list from n to stop, or to its end when stop is null.
Segment(n, stop) ==
    LET From[k \in 0..Cardinality(Node)] ==
            IF k = 0 THEN {n} \ {NoNode}
            ELSE From[k - 1] \cup ({next[m] : m \in From[k - 1] \ {stop}} \ {NoNode})
    IN  From[Cardinality(Node)]

Listed(n) == Segment(n, NoNode)

Free(nodes) == /\ live' = live \ nodes
               /\ data' = [n \in Node |-> IF n \in nodes THEN Nothing ELSE data[n]]

\* The elements of the stack, the newest first.
Contents == LET From[k \in 0..Cardinality(Node)] ==
                    [n \in Node \cup {NoNode} |->
                        IF k = 0 \/ n = NoNode THEN <<>>
                        ELSE <<data[n]>> \o From[k - 1][next[n]]]
            IN  From[Cardinality(Node)][head]
-----------------------------------------------------------------------------
PushNew(t, v, n) ==
    /\ Goto(t, "idle", "push_cas")
    /\ n \notin live
    /\ live' = live \cup {n}
    /\ data' = [data EXCEPT ![n] = v]
    /\ next' = [next EXCEPT ![n] = head]
    /\ node' = [node EXCEPT ![t] = n]
    /\ Called(t)
    /\ UNCHANGED head

PushCas(t) ==
    /\ Goto(t, "push_cas", "idle")
    /\ head = next[node[t]]
    /\ head' = node[t]
    /\ node' = [node EXCEPT ![t] = NoNode]
    /\ UNCHANGED <<data, next, live, result>>

\* The comparison fails, if only spuriously, and reloads new_node->next.
PushRetry(t) ==
    /\ Goto(t, "push_cas", "push_cas")
    /\ next' = [next EXCEPT ![node[t]] = head]
    /\ UNCHANGED <<head, data, live, node, result>>

PushStep(t) == \/ \E v \in Value, n \in Node : PushNew(t, v, n)
               \/ PushCas(t) \/ PushRetry(t)
=============================================================================
