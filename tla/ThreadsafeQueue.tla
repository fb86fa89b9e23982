-------------------------- MODULE ThreadsafeQueue --------------------------
(***************************************************************************)
(* Lock_based/threadsafe_queue.h: a singly linked queue with a dummy node, *)
(* a mutex for each end and a condition variable.  push works at the tail  *)
(* under tail_mutex, the pops at the head under head_mutex, and only       *)
(* get_tail, called with head_mutex held, takes both.                      *)
(*                                                                         *)
(* One action per stretch of code between two accesses to data that        *)
(* another thread may be using.  get_tail locks, reads one pointer and     *)
(* unlocks: it is one step that needs tail_mutex to be free.  A node that  *)
(* leaves the list belongs to its popper alone, so what the popper does    *)
(* with it after unlocking (read data, delete) is part of the unlinking    *)
(* step.  The two overloads of each pop differ in how the value is handed  *)
(* over and share their actions here.                                      *)
(***************************************************************************)
EXTENDS Naturals, Sequences, FiniteSets

CONSTANTS Producer,  \* threads that call push
          Consumer,  \* threads that call try_pop and wait_and_pop
          Node,      \* the memory: nodes that can be allocated at a time
          Value,
          Pushes,    \* the values that each producer pushes
          PopOp,     \* the pops the consumers use
          NoNode,    \* a null pointer
          NoThread,  \* the owner of a free mutex
          Nothing    \* an empty shared_ptr

Thread == Producer \cup Consumer

ASSUME QueueAssumption ==
    /\ NoNode \notin Node
    /\ Pushes \in [Producer -> SUBSET Value]
    /\ NoThread \notin Thread
    /\ Nothing \notin Value
    /\ PopOp \subseteq {"try_pop", "wait_and_pop"}
    /\ Node # {} /\ IsFiniteSet(Node)

VARIABLES head, tail,              \* the ends of the list
          data, next,              \* the fields of every node
          live,                    \* the nodes that are allocated
          head_mutex, tail_mutex,  \* the owner of each mutex
          waiters,                 \* threads blocked in data_cond
          pc, op,                  \* where a thread is, and in which pop
          p,                       \* the node a push has not yet handed over
          new_data,                \* the value a push carries
          result                   \* thread, operation and answer of the last pop

vars == <<head, tail, data, next, live, head_mutex, tail_mutex, waiters,
          pc, op, p, new_data, result>>

listVars == <<head, tail, data, next, live>>
-----------------------------------------------------------------------------
Init ==
    /\ \E n \in Node : head = n /\ tail = n /\ live = {n}
    /\ data = [n \in Node |-> Nothing]
    /\ next = [n \in Node |-> NoNode]
    /\ head_mutex = NoThread
    /\ tail_mutex = NoThread
    /\ waiters = {}
    /\ pc = [t \in Thread |-> "idle"]
    /\ op = [t \in Thread |-> "none"]
    /\ p = [t \in Thread |-> NoNode]
    /\ new_data = [t \in Thread |-> Nothing]
    /\ result = <<>>

Goto(t, from, to) == pc[t] = from /\ pc' = [pc EXCEPT ![t] = to]

(***************************************************************************)
(* push: allocate outside the lock, fill the dummy node and append a new   *)
(* dummy under tail_mutex, notify after unlocking.                         *)
(***************************************************************************)
PushAlloc(t, v, n) ==
    /\ Goto(t, "idle", "push_lock")
    /\ n \notin live
    /\ live' = live \cup {n}
    /\ data' = [data EXCEPT ![n] = Nothing]
    /\ next' = [next EXCEPT ![n] = NoNode]
    /\ p' = [p EXCEPT ![t] = n]
    /\ new_data' = [new_data EXCEPT ![t] = v]
    /\ UNCHANGED <<head, tail, head_mutex, tail_mutex, waiters, op, result>>

\* Mutant of PushLock: push takes both mutexes.
PushLock_BothLocks(t) ==
    /\ Goto(t, "push_lock", "push_data")
    /\ tail_mutex = NoThread /\ head_mutex = NoThread
    /\ tail_mutex' = t
    /\ UNCHANGED <<listVars, head_mutex, waiters, op, p, new_data, result>>

PushLock(t) ==
    /\ Goto(t, "push_lock", "push_data")
    /\ tail_mutex = NoThread
    /\ tail_mutex' = t
    /\ UNCHANGED <<listVars, head_mutex, waiters, op, p, new_data, result>>

\* Mutant of PushData: the value goes to the new node, not to the dummy.
PushData_NewNode(t) ==
    /\ Goto(t, "push_data", "push_link")
    /\ data' = [data EXCEPT ![p[t]] = new_data[t]]
    /\ UNCHANGED <<head, tail, next, live, head_mutex, tail_mutex, waiters,
                   op, p, new_data, result>>

PushData(t) ==
    /\ Goto(t, "push_data", "push_link")
    /\ data' = [data EXCEPT ![tail] = new_data[t]]
    /\ UNCHANGED <<head, tail, next, live, head_mutex, tail_mutex, waiters,
                   op, p, new_data, result>>

PushLink(t) ==
    /\ Goto(t, "push_link", "push_tail")
    /\ next' = [next EXCEPT ![tail] = p[t]]
    /\ UNCHANGED <<head, tail, data, live, head_mutex, tail_mutex, waiters,
                   op, p, new_data, result>>

PushTail(t) ==
    /\ Goto(t, "push_tail", "push_notify")
    /\ tail' = p[t]
    /\ p' = [p EXCEPT ![t] = NoNode]
    /\ new_data' = [new_data EXCEPT ![t] = Nothing]
    /\ tail_mutex' = NoThread
    /\ UNCHANGED <<head, data, next, live, head_mutex, waiters, op, result>>

\* Mutant of PushNotify: the notification is forgotten.
PushNotify_Forgotten(t) ==
    /\ Goto(t, "push_notify", "idle")
    /\ UNCHANGED <<listVars, head_mutex, tail_mutex, waiters, op, p, new_data,
                   result>>

\* data_cond.notify_one: some waiter, if there is one.
PushNotify(t) ==
    /\ Goto(t, "push_notify", "idle")
    /\ \/ waiters = {} /\ UNCHANGED waiters
       \/ \E w \in waiters : waiters' = waiters \ {w}
    /\ UNCHANGED <<listVars, head_mutex, tail_mutex, op, p, new_data, result>>
-----------------------------------------------------------------------------
(***************************************************************************)
(* try_pop and wait_and_pop.                                               *)
(***************************************************************************)
PopBegin(t, o) ==
    /\ Goto(t, "idle", "pop_lock")
    /\ op' = [op EXCEPT ![t] = o]
    /\ UNCHANGED <<listVars, head_mutex, tail_mutex, waiters, p, new_data,
                   result>>

PopLock(t) ==
    /\ Goto(t, "pop_lock", "pop_check")
    /\ head_mutex = NoThread
    /\ head_mutex' = t
    /\ UNCHANGED <<listVars, tail_mutex, waiters, op, p, new_data, result>>

\* Mutant of PopFound: the head is not compared with the tail.
PopFound_Unchecked(t) ==
    /\ Goto(t, "pop_check", "pop_take")
    /\ tail_mutex = NoThread
    /\ UNCHANGED <<listVars, head_mutex, tail_mutex, waiters, op, p, new_data,
                   result>>

\* head.get() != get_tail(): there is an element to take.
PopFound(t) ==
    /\ Goto(t, "pop_check", "pop_take")
    /\ tail_mutex = NoThread
    /\ head # tail
    /\ UNCHANGED <<listVars, head_mutex, tail_mutex, waiters, op, p, new_data,
                   result>>

TryPopEmpty(t) ==
    /\ op[t] = "try_pop"
    /\ Goto(t, "pop_check", "idle")
    /\ tail_mutex = NoThread
    /\ head = tail
    /\ result' = <<t, "try_pop", Nothing>>
    /\ op' = [op EXCEPT ![t] = "none"]
    /\ head_mutex' = NoThread
    /\ UNCHANGED <<listVars, tail_mutex, waiters, p, new_data>>

\* The predicate of data_cond.wait is false; the thread is not yet blocked.
WaitPopEmpty(t) ==
    /\ op[t] = "wait_and_pop"
    /\ Goto(t, "pop_check", "pop_sleep")
    /\ tail_mutex = NoThread
    /\ head = tail
    /\ UNCHANGED <<listVars, head_mutex, tail_mutex, waiters, op, p, new_data,
                   result>>

\* data_cond.wait releases head_mutex and blocks in one step.
WaitBlock(t) ==
    /\ Goto(t, "pop_sleep", "pop_waiting")
    /\ waiters' = waiters \cup {t}
    /\ head_mutex' = NoThread
    /\ UNCHANGED <<listVars, tail_mutex, op, p, new_data, result>>

\* The condition variable may also wake a thread that nobody notified.
SpuriousWake(t) ==
    /\ t \in waiters
    /\ waiters' = waiters \ {t}
    /\ UNCHANGED <<listVars, head_mutex, tail_mutex, pc, op, p, new_data,
                   result>>

WaitRelock(t) ==
    /\ t \notin waiters
    /\ Goto(t, "pop_waiting", "pop_check")
    /\ head_mutex = NoThread
    /\ head_mutex' = t
    /\ UNCHANGED <<listVars, tail_mutex, waiters, op, p, new_data, result>>

\* pop_head, the return of the value and the destruction of the old node.
PopHead(t) ==
    /\ Goto(t, "pop_take", "idle")
    /\ result' = <<t, op[t], data[head]>>
    /\ head' = next[head]
    /\ data' = [data EXCEPT ![head] = Nothing]
    /\ next' = [next EXCEPT ![head] = NoNode]
    /\ live' = live \ {head}
    /\ op' = [op EXCEPT ![t] = "none"]
    /\ head_mutex' = NoThread
    /\ UNCHANGED <<tail, tail_mutex, waiters, p, new_data>>
-----------------------------------------------------------------------------
PushStart(t) == \E v \in Pushes[t], n \in Node : PushAlloc(t, v, n)
PopStart(t)  == \E o \in PopOp : PopBegin(t, o)

\* The steps of an operation that has begun.
PushStep(t) == \/ PushLock(t) \/ PushData(t) \/ PushLink(t)
               \/ PushTail(t) \/ PushNotify(t)

PopStep(t) == \/ PopLock(t) \/ PopFound(t) \/ TryPopEmpty(t)
              \/ WaitPopEmpty(t) \/ WaitBlock(t) \/ WaitRelock(t)
              \/ PopHead(t)

Next == \/ \E t \in Producer : PushStart(t) \/ PushStep(t)
        \/ \E t \in Consumer : PopStart(t) \/ PopStep(t) \/ SpuriousWake(t)

Spec == Init /\ [][Next]_vars

(***************************************************************************)
(* The operating system runs every thread that can run, so an operation    *)
(* that has begun goes on whenever it can.  Nothing makes a thread begin   *)
(* one, and nothing makes a condition variable wake a thread spuriously.   *)
(***************************************************************************)
FairSpec == /\ Spec
            /\ \A t \in Producer : WF_vars(PushStep(t))
            /\ \A t \in Consumer : WF_vars(PopStep(t))
-----------------------------------------------------------------------------
PushPc == {"push_lock", "push_data", "push_link", "push_tail"}
TailPc == {"push_data", "push_link", "push_tail"}
HeadPc == {"pop_check", "pop_take", "pop_sleep"}
PcValue == {"idle", "push_lock", "push_data", "push_link", "push_tail",
            "push_notify", "pop_lock", "pop_check", "pop_take", "pop_sleep",
            "pop_waiting"}

\* Every variable holds a value of its C++ type; head and tail are never null.
TypeOK ==
    /\ head \in Node
    /\ tail \in Node
    /\ data \in [Node -> Value \cup {Nothing}]
    /\ next \in [Node -> Node \cup {NoNode}]
    /\ live \in SUBSET Node
    /\ head_mutex \in Thread \cup {NoThread}
    /\ tail_mutex \in Thread \cup {NoThread}
    /\ waiters \in SUBSET Thread
    /\ pc \in [Thread -> PcValue]
    /\ op \in [Thread -> {"none", "try_pop", "wait_and_pop"}]
    /\ p \in [Thread -> Node \cup {NoNode}]
    /\ new_data \in [Thread -> Value \cup {Nothing}]
    /\ result \in {<<>>} \cup (Thread \X {"none", "try_pop", "wait_and_pop"}
                                      \X (Value \cup {Nothing}))

(***************************************************************************)
(* Memory safety across the two locks.  The thread that unlinks the head   *)
(* node and the thread that fills the tail node hold different mutexes, so *)
(* nothing but head # tail, read earlier under get_tail and not re-read,   *)
(* keeps them apart: whenever a pop takes the head node, that node is      *)
(* allocated, is not the node a concurrent push writes to, and its         *)
(* successor is an allocated node; and the node a push writes to, and the  *)
(* new dummy it links, are allocated.                                      *)
(***************************************************************************)
MemorySafe ==
    /\ \A t \in Thread : pc[t] = "pop_take" =>
           /\ head \in live
           /\ head # tail
           /\ next[head] \in live
    /\ \A t \in Thread : pc[t] \in TailPc =>
           /\ tail \in live
           /\ p[t] \in live
           /\ p[t] # tail

(***************************************************************************)
(* Refinement.  The abstract queue is what is found on the way from head   *)
(* to tail, so a push takes effect when tail moves and a pop when head     *)
(* does, and an empty answer is decided when get_tail returns.             *)
(***************************************************************************)
\* seq is the way from head to tail, tail included.
Way(seq) ==
    /\ seq[1] = head /\ seq[Len(seq)] = tail
    /\ \A i \in 1..Len(seq) - 1 : seq[i] # tail /\ seq[i + 1] = next[seq[i]]

Contents ==
    LET way == CHOOSE seq \in UNION {[1..k -> live] : k \in 1..Cardinality(live)} : Way(seq)
    IN  [i \in 1..Len(way) - 1 |-> data[way[i]]]

Fifo == INSTANCE FifoQueue WITH queue <- Contents, result <- result

\* Every behaviour of the two-lock queue is one of a FIFO queue whose
\* operations are atomic.
ImplementsFifo == Fifo!Init /\ [][Fifo!Next]_(Fifo!fifoVars)

\* push holds up on nothing that a consumer does: while pushes are waiting for
\* their mutex, pushes get done, though consumers sleep or hold head_mutex.
PushesGoOn == (\E t \in Producer : pc[t] = "push_lock")
                  ~> (\E t \in Producer : pc[t] = "push_notify")

\* A thread that sleeps in wait_and_pop while there is an element to take is
\* woken, or somebody takes the element.
Stranded(t) == t \in waiters /\ head # tail
WaiterServed == \A t \in Consumer : Stranded(t) ~> ~Stranded(t)

\* The same while pushes keep being made, as in threadsafe_queue_test.cpp: a
\* notification that comes too early is made up for by a later one.
ServedByLaterPush ==
    []<>(\E t \in Producer : pc[t] = "push_notify") => WaiterServed
=============================================================================
