------------------------------- MODULE Stacks -------------------------------
(***************************************************************************)
(* All four stacks, each in behaviours of its own: the variable class says *)
(* which.  The stack with hazard pointers has the variables of             *)
(* HazardStack, so that its properties are the ones of that module; the    *)
(* others share a second set.  What a class does not use stands still.     *)
(***************************************************************************)
EXTENDS HazardStack

CONSTANTS ListNode,    \* the memory of the two with lists
          NewElement,  \* of SharedPtrStack: T(), a value like any other
          max_size     \* of ThreadsafeStack

ASSUME StacksAssumption == IsFiniteSet(ListNode) /\ NoAddress \notin ListNode

VARIABLES class,
          other_pc, other_result,                 \* of the other three
          other_head, other_data, other_next,     \* of the two with lists
          other_live, other_node, other_old_next,
          threads_in_pop, to_be_deleted, first, last, counted,   \* of LockFreeStack
          contents, mutex, copied                                \* of ThreadsafeStack

Counting  == INSTANCE LockFreeStack WITH
                 Node <- ListNode, NoNode <- NoAddress, pc <- other_pc,
                 result <- other_result, head <- other_head, data <- other_data,
                 next <- other_next, live <- other_live, node <- other_node,
                 old_next <- other_old_next
SharedPtr == INSTANCE SharedPtrStack WITH
                 Node <- ListNode, NoNode <- NoAddress, pc <- other_pc,
                 result <- other_result, head <- other_head, data <- other_data,
                 next <- other_next, live <- other_live, node <- other_node,
                 old_next <- other_old_next
Locking   == INSTANCE ThreadsafeStack WITH
                 pc <- other_pc, result <- other_result

countingVars == <<threads_in_pop, to_be_deleted, first, last, counted>>
lockingVars  == <<contents, mutex, copied>>
linkedVars   == <<other_head, other_data, other_next, other_live, other_node, other_old_next>>
otherVars    == <<other_pc, other_result, linkedVars, countingVars, lockingVars>>

CountingIdle == /\ threads_in_pop = 0 /\ to_be_deleted = NoAddress
                /\ first = <<>> /\ last = <<>> /\ counted = <<>>
LockingIdle == contents = <<>> /\ mutex = NoThread /\ copied = <<>>
LinkedIdle == /\ other_head = NoAddress /\ other_data = <<>> /\ other_next = <<>>
              /\ other_live = {} /\ other_node = <<>> /\ other_old_next = <<>>
OthersIdle == /\ other_pc = <<>> /\ other_result = [t \in Thread |-> <<>>]
              /\ LinkedIdle /\ CountingIdle /\ LockingIdle

StacksInit ==
    /\ Init
    /\ \/ class = "hazard"     /\ OthersIdle
       \/ class = "counting"   /\ Counting!Init  /\ LockingIdle
       \/ class = "shared_ptr" /\ SharedPtr!Init /\ LockingIdle /\ CountingIdle
       \/ class = "locking"    /\ Locking!Init   /\ LinkedIdle  /\ CountingIdle

StacksNext ==
    /\ UNCHANGED class
    /\ \/ /\ class = "hazard" /\ Next
          /\ UNCHANGED otherVars
       \/ /\ class = "counting" /\ Counting!Next
          /\ UNCHANGED <<vars, lockingVars>>
       \/ /\ class = "shared_ptr" /\ SharedPtr!Next
          /\ UNCHANGED <<vars, lockingVars, countingVars>>
       \/ /\ class = "locking" /\ Locking!Next
          /\ UNCHANGED <<vars, linkedVars, countingVars>>

StacksSpec == StacksInit /\ [][StacksNext]_<<class, vars, otherVars>>
-----------------------------------------------------------------------------
(***************************************************************************)
(* The stack that counts the threads in pop (lock_free_stack1.h:37-96): no *)
(* pop reads a node that is deleted, or is fooled by one that came back;   *)
(* no node leaks, and none is deleted twice; and the counter is right.     *)
(***************************************************************************)
CountedNodesSafe == class = "counting" => Counting!CountedNodesSafe

(***************************************************************************)
(* The other three are stacks whose operations are atomic, like the one    *)
(* with hazard pointers: although nodes come back at addresses that pops   *)
(* still hold (lock_free_stack1.h:83-96, lock_free_stack3.h:32-38), and    *)
(* although the copy of an element that is popped may throw                *)
(* (threadsafe_stack.h:50-69).  With an empty stack two of them answer     *)
(* with a null pointer, the one with shared pointers with an element       *)
(* (lock_free_stack3.h:37).                                                *)
(***************************************************************************)
OthersImplementStack ==
    /\ class = "counting"   => Counting!Lifo!Init
    /\ class = "shared_ptr" => SharedPtr!Lifo!Init
    /\ class = "locking"    => Locking!Lifo!Init
    /\ [][/\ class = "counting"   => [Counting!Lifo!Next]_(Counting!Lifo!stackVars)
          /\ class = "shared_ptr" => [SharedPtr!Lifo!Next]_(SharedPtr!Lifo!stackVars)
          /\ class = "locking"    => [Locking!Lifo!Next]_(Locking!Lifo!stackVars)]_otherVars
=============================================================================
