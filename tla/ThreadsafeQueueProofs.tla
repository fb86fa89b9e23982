----------------------- MODULE ThreadsafeQueueProofs -----------------------
(***************************************************************************)
(* The two-lock queue keeps to its types, touches no node that is gone or  *)
(* another thread's, and implements the queue whose operations are atomic; *)
(* for any threads and values and any finite memory.                       *)
(***************************************************************************)
EXTENDS ThreadsafeQueue, FiniteSetTheorems, SequenceTheorems, WellFoundedInduction, TLAPS

\* A mutex is owned by the thread that is inside its critical section.
LockInv ==
    \A t \in Thread : /\ tail_mutex = t <=> pc[t] \in TailPc
                      /\ head_mutex = t <=> pc[t] \in HeadPc

\* A node between new and the assignment to tail belongs to one push alone.
PrivateInv ==
    /\ \A t \in Thread : p[t] # NoNode <=> pc[t] \in PushPc
    /\ \A t \in Thread : p[t] # NoNode =>
           /\ p[t] \in live
           /\ p[t] # head
           /\ p[t] # tail
           /\ next[p[t]] = NoNode
    /\ \A s, t \in Thread : s # t /\ p[t] # NoNode => p[s] # p[t]

\* The allocated nodes that no push keeps to itself.
InList(n) == n \in live /\ \A t \in Thread : p[t] # n

\* These nodes are linked without branches, from head on, and only tail has
\* no successor among them.
ListInv ==
    /\ InList(head)
    /\ InList(tail)
    /\ \A n \in Node : InList(n) /\ n # tail => next[n] \in Node /\ InList(next[n])
    /\ \A n \in Node : InList(n) => next[n] # head
    /\ \A m, n \in Node : InList(m) /\ InList(n) /\ m # n /\ next[m] # NoNode
                              => next[m] # next[n]
    /\ \A t \in Thread : pc[t] = "push_tail" => next[tail] = p[t]
    /\ (\A t \in Thread : pc[t] # "push_tail") => next[tail] = NoNode

\* What a pop found out about the head still holds when it acts on it.
TakeInv == \A t \in Thread : pc[t] = "pop_take" => head # tail

IInv == TypeOK /\ LockInv /\ PrivateInv /\ ListInv /\ TakeInv
-----------------------------------------------------------------------------
\* Steps keep every variable in its type.
LEMMA TypeStep == IInv /\ [Next]_vars => TypeOK'
<1> SUFFICES ASSUME IInv, [Next]_vars PROVE TypeOK'
  OBVIOUS
<1> USE QueueAssumption DEF IInv, TypeOK, PcValue, Thread
<1>1. ASSUME NEW t \in Producer, NEW v \in Value, NEW n \in Node, PushAlloc(t, v, n) PROVE TypeOK'
  BY <1>1 DEF PushAlloc, Goto, listVars
<1>2. ASSUME NEW t \in Producer, PushLock(t) PROVE TypeOK'
  BY <1>2 DEF PushLock, Goto, listVars
<1>3. ASSUME NEW t \in Producer, PushData(t) PROVE TypeOK'
  BY <1>3 DEF PushData, Goto, listVars
<1>4. ASSUME NEW t \in Producer, PushLink(t) PROVE TypeOK'
  BY <1>4 DEF PushLink, Goto, listVars
<1>5. ASSUME NEW t \in Producer, PushTail(t) PROVE TypeOK'
  BY <1>5 DEF PushTail, Goto, listVars, PrivateInv, PushPc
<1>6. ASSUME NEW t \in Producer, PushNotify(t) PROVE TypeOK'
  BY <1>6 DEF PushNotify, Goto, listVars
<1>7. ASSUME NEW t \in Consumer, NEW o \in PopOp, PopBegin(t, o) PROVE TypeOK'
  BY <1>7 DEF PopBegin, Goto, listVars
<1>8. ASSUME NEW t \in Consumer, PopLock(t) PROVE TypeOK'
  BY <1>8 DEF PopLock, Goto, listVars
<1>9. ASSUME NEW t \in Consumer, PopFound(t) PROVE TypeOK'
  BY <1>9 DEF PopFound, Goto, listVars
<1>10. ASSUME NEW t \in Consumer, TryPopEmpty(t) PROVE TypeOK'
  BY <1>10 DEF TryPopEmpty, Goto, listVars
<1>11. ASSUME NEW t \in Consumer, WaitPopEmpty(t) PROVE TypeOK'
  BY <1>11 DEF WaitPopEmpty, Goto, listVars
<1>12. ASSUME NEW t \in Consumer, WaitBlock(t) PROVE TypeOK'
  BY <1>12 DEF WaitBlock, Goto, listVars
<1>13. ASSUME NEW t \in Consumer, SpuriousWake(t) PROVE TypeOK'
  BY <1>13 DEF SpuriousWake, Goto, listVars
<1>14. ASSUME NEW t \in Consumer, WaitRelock(t) PROVE TypeOK'
  BY <1>14 DEF WaitRelock, Goto, listVars
<1>15. ASSUME NEW t \in Consumer, PopHead(t) PROVE TypeOK'
  BY <1>15 DEF PopHead, Goto, listVars, TakeInv, ListInv, InList
<1>16. CASE UNCHANGED vars
  BY <1>16 DEF vars
<1>17. QED
  BY <1>1, <1>2, <1>3, <1>4, <1>5, <1>6, <1>7, <1>8, <1>9, <1>10, <1>11, <1>12, <1>13, <1>14, <1>15, <1>16 DEF Next, PushStart, PushStep, PopStart, PopStep

\* Steps keep mutex ownership and control state together.
LEMMA LockStep == IInv /\ [Next]_vars => LockInv'
<1> SUFFICES ASSUME IInv, [Next]_vars PROVE LockInv'
  OBVIOUS
<1> USE QueueAssumption DEF IInv, LockInv, TypeOK, PcValue, TailPc, HeadPc, Thread
<1>1. ASSUME NEW t \in Producer, NEW v \in Value, NEW n \in Node, PushAlloc(t, v, n) PROVE LockInv'
  BY <1>1 DEF PushAlloc, Goto, listVars
<1>2. ASSUME NEW t \in Producer, PushLock(t) PROVE LockInv'
  BY <1>2 DEF PushLock, Goto, listVars
<1>3. ASSUME NEW t \in Producer, PushData(t) PROVE LockInv'
  BY <1>3 DEF PushData, Goto, listVars
<1>4. ASSUME NEW t \in Producer, PushLink(t) PROVE LockInv'
  BY <1>4 DEF PushLink, Goto, listVars
<1>5. ASSUME NEW t \in Producer, PushTail(t) PROVE LockInv'
  BY <1>5 DEF PushTail, Goto, listVars
<1>6. ASSUME NEW t \in Producer, PushNotify(t) PROVE LockInv'
  BY <1>6 DEF PushNotify, Goto, listVars
<1>7. ASSUME NEW t \in Consumer, NEW o \in PopOp, PopBegin(t, o) PROVE LockInv'
  BY <1>7 DEF PopBegin, Goto, listVars
<1>8. ASSUME NEW t \in Consumer, PopLock(t) PROVE LockInv'
  BY <1>8 DEF PopLock, Goto, listVars
<1>9. ASSUME NEW t \in Consumer, PopFound(t) PROVE LockInv'
  BY <1>9 DEF PopFound, Goto, listVars
<1>10. ASSUME NEW t \in Consumer, TryPopEmpty(t) PROVE LockInv'
  BY <1>10 DEF TryPopEmpty, Goto, listVars
<1>11. ASSUME NEW t \in Consumer, WaitPopEmpty(t) PROVE LockInv'
  BY <1>11 DEF WaitPopEmpty, Goto, listVars
<1>12. ASSUME NEW t \in Consumer, WaitBlock(t) PROVE LockInv'
  BY <1>12 DEF WaitBlock, Goto, listVars
<1>13. ASSUME NEW t \in Consumer, SpuriousWake(t) PROVE LockInv'
  BY <1>13 DEF SpuriousWake, Goto, listVars
<1>14. ASSUME NEW t \in Consumer, WaitRelock(t) PROVE LockInv'
  BY <1>14 DEF WaitRelock, Goto, listVars
<1>15. ASSUME NEW t \in Consumer, PopHead(t) PROVE LockInv'
  BY <1>15 DEF PopHead, Goto, listVars
<1>16. CASE UNCHANGED vars
  BY <1>16 DEF vars
<1>17. QED
  BY <1>1, <1>2, <1>3, <1>4, <1>5, <1>6, <1>7, <1>8, <1>9, <1>10, <1>11, <1>12, <1>13, <1>14, <1>15, <1>16 DEF Next, PushStart, PushStep, PopStart, PopStep

\* Steps keep unfinished nodes private.
LEMMA PrivateStep == IInv /\ [Next]_vars => PrivateInv'
<1> SUFFICES ASSUME IInv, [Next]_vars PROVE PrivateInv'
  OBVIOUS
<1> USE QueueAssumption DEF IInv, LockInv, TypeOK, PrivateInv, TakeInv, ListInv, InList, PcValue, TailPc, HeadPc, PushPc, Thread
<1>1. ASSUME NEW t \in Producer, NEW v \in Value, NEW n \in Node, PushAlloc(t, v, n) PROVE PrivateInv'
  BY <1>1 DEF PushAlloc, Goto, listVars
<1>2. ASSUME NEW t \in Producer, PushLock(t) PROVE PrivateInv'
  BY <1>2 DEF PushLock, Goto, listVars
<1>3. ASSUME NEW t \in Producer, PushData(t) PROVE PrivateInv'
  BY <1>3 DEF PushData, Goto, listVars
<1>4. ASSUME NEW t \in Producer, PushLink(t) PROVE PrivateInv'
  BY <1>4 DEF PushLink, Goto, listVars
<1>5. ASSUME NEW t \in Producer, PushTail(t) PROVE PrivateInv'
  BY <1>5 DEF PushTail, Goto, listVars
<1>6. ASSUME NEW t \in Producer, PushNotify(t) PROVE PrivateInv'
  BY <1>6 DEF PushNotify, Goto, listVars
<1>7. ASSUME NEW t \in Consumer, NEW o \in PopOp, PopBegin(t, o) PROVE PrivateInv'
  BY <1>7 DEF PopBegin, Goto, listVars
<1>8. ASSUME NEW t \in Consumer, PopLock(t) PROVE PrivateInv'
  BY <1>8 DEF PopLock, Goto, listVars
<1>9. ASSUME NEW t \in Consumer, PopFound(t) PROVE PrivateInv'
  BY <1>9 DEF PopFound, Goto, listVars
<1>10. ASSUME NEW t \in Consumer, TryPopEmpty(t) PROVE PrivateInv'
  BY <1>10 DEF TryPopEmpty, Goto, listVars
<1>11. ASSUME NEW t \in Consumer, WaitPopEmpty(t) PROVE PrivateInv'
  BY <1>11 DEF WaitPopEmpty, Goto, listVars
<1>12. ASSUME NEW t \in Consumer, WaitBlock(t) PROVE PrivateInv'
  BY <1>12 DEF WaitBlock, Goto, listVars
<1>13. ASSUME NEW t \in Consumer, SpuriousWake(t) PROVE PrivateInv'
  BY <1>13 DEF SpuriousWake, Goto, listVars
<1>14. ASSUME NEW t \in Consumer, WaitRelock(t) PROVE PrivateInv'
  BY <1>14 DEF WaitRelock, Goto, listVars
<1>15. ASSUME NEW t \in Consumer, PopHead(t) PROVE PrivateInv'
  BY <1>15 DEF PopHead, Goto, listVars
<1>16. CASE UNCHANGED vars
  BY <1>16 DEF vars
<1>17. QED
  BY <1>1, <1>2, <1>3, <1>4, <1>5, <1>6, <1>7, <1>8, <1>9, <1>10, <1>11, <1>12, <1>13, <1>14, <1>15, <1>16 DEF Next, PushStart, PushStep, PopStart, PopStep

\* Steps keep the list in shape.
LEMMA ListStep == IInv /\ [Next]_vars => ListInv'
<1> SUFFICES ASSUME IInv, [Next]_vars PROVE ListInv'
  OBVIOUS
<1> USE QueueAssumption DEF IInv, LockInv, TypeOK, PrivateInv, TakeInv, ListInv, InList, PcValue, TailPc, HeadPc, PushPc, Thread
<1>1. ASSUME NEW t \in Producer, NEW v \in Value, NEW n \in Node, PushAlloc(t, v, n) PROVE ListInv'
  BY <1>1 DEF PushAlloc, Goto, listVars
<1>2. ASSUME NEW t \in Producer, PushLock(t) PROVE ListInv'
  BY <1>2 DEF PushLock, Goto, listVars
<1>3. ASSUME NEW t \in Producer, PushData(t) PROVE ListInv'
  BY <1>3 DEF PushData, Goto, listVars
<1>4. ASSUME NEW t \in Producer, PushLink(t) PROVE ListInv'
  BY <1>4 DEF PushLink, Goto, listVars
<1>5. ASSUME NEW t \in Producer, PushTail(t) PROVE ListInv'
  BY <1>5 DEF PushTail, Goto, listVars
<1>6. ASSUME NEW t \in Producer, PushNotify(t) PROVE ListInv'
  BY <1>6 DEF PushNotify, Goto, listVars
<1>7. ASSUME NEW t \in Consumer, NEW o \in PopOp, PopBegin(t, o) PROVE ListInv'
  BY <1>7 DEF PopBegin, Goto, listVars
<1>8. ASSUME NEW t \in Consumer, PopLock(t) PROVE ListInv'
  BY <1>8 DEF PopLock, Goto, listVars
<1>9. ASSUME NEW t \in Consumer, PopFound(t) PROVE ListInv'
  BY <1>9 DEF PopFound, Goto, listVars
<1>10. ASSUME NEW t \in Consumer, TryPopEmpty(t) PROVE ListInv'
  BY <1>10 DEF TryPopEmpty, Goto, listVars
<1>11. ASSUME NEW t \in Consumer, WaitPopEmpty(t) PROVE ListInv'
  BY <1>11 DEF WaitPopEmpty, Goto, listVars
<1>12. ASSUME NEW t \in Consumer, WaitBlock(t) PROVE ListInv'
  BY <1>12 DEF WaitBlock, Goto, listVars
<1>13. ASSUME NEW t \in Consumer, SpuriousWake(t) PROVE ListInv'
  BY <1>13 DEF SpuriousWake, Goto, listVars
<1>14. ASSUME NEW t \in Consumer, WaitRelock(t) PROVE ListInv'
  BY <1>14 DEF WaitRelock, Goto, listVars
<1>15. ASSUME NEW t \in Consumer, PopHead(t) PROVE ListInv'
  BY <1>15 DEF PopHead, Goto, listVars
<1>16. CASE UNCHANGED vars
  BY <1>16 DEF vars
<1>17. QED
  BY <1>1, <1>2, <1>3, <1>4, <1>5, <1>6, <1>7, <1>8, <1>9, <1>10, <1>11, <1>12, <1>13, <1>14, <1>15, <1>16 DEF Next, PushStart, PushStep, PopStart, PopStep

\* Steps of others do not invalidate what a pop has found.
LEMMA TakeStep == IInv /\ [Next]_vars => TakeInv'
<1> SUFFICES ASSUME IInv, [Next]_vars PROVE TakeInv'
  OBVIOUS
<1> USE QueueAssumption DEF IInv, LockInv, TypeOK, PrivateInv, ListInv, InList, TakeInv, PcValue, TailPc, HeadPc, PushPc, Thread
<1>1. ASSUME NEW t \in Producer, NEW v \in Value, NEW n \in Node, PushAlloc(t, v, n) PROVE TakeInv'
  BY <1>1 DEF PushAlloc, Goto, listVars
<1>2. ASSUME NEW t \in Producer, PushLock(t) PROVE TakeInv'
  BY <1>2 DEF PushLock, Goto, listVars
<1>3. ASSUME NEW t \in Producer, PushData(t) PROVE TakeInv'
  BY <1>3 DEF PushData, Goto, listVars
<1>4. ASSUME NEW t \in Producer, PushLink(t) PROVE TakeInv'
  BY <1>4 DEF PushLink, Goto, listVars
<1>5. ASSUME NEW t \in Producer, PushTail(t) PROVE TakeInv'
  BY <1>5 DEF PushTail, Goto, listVars
<1>6. ASSUME NEW t \in Producer, PushNotify(t) PROVE TakeInv'
  BY <1>6 DEF PushNotify, Goto, listVars
<1>7. ASSUME NEW t \in Consumer, NEW o \in PopOp, PopBegin(t, o) PROVE TakeInv'
  BY <1>7 DEF PopBegin, Goto, listVars
<1>8. ASSUME NEW t \in Consumer, PopLock(t) PROVE TakeInv'
  BY <1>8 DEF PopLock, Goto, listVars
<1>9. ASSUME NEW t \in Consumer, PopFound(t) PROVE TakeInv'
  BY <1>9 DEF PopFound, Goto, listVars
<1>10. ASSUME NEW t \in Consumer, TryPopEmpty(t) PROVE TakeInv'
  BY <1>10 DEF TryPopEmpty, Goto, listVars
<1>11. ASSUME NEW t \in Consumer, WaitPopEmpty(t) PROVE TakeInv'
  BY <1>11 DEF WaitPopEmpty, Goto, listVars
<1>12. ASSUME NEW t \in Consumer, WaitBlock(t) PROVE TakeInv'
  BY <1>12 DEF WaitBlock, Goto, listVars
<1>13. ASSUME NEW t \in Consumer, SpuriousWake(t) PROVE TakeInv'
  BY <1>13 DEF SpuriousWake, Goto, listVars
<1>14. ASSUME NEW t \in Consumer, WaitRelock(t) PROVE TakeInv'
  BY <1>14 DEF WaitRelock, Goto, listVars
<1>15. ASSUME NEW t \in Consumer, PopHead(t) PROVE TakeInv'
  BY <1>15 DEF PopHead, Goto, listVars
<1>16. CASE UNCHANGED vars
  BY <1>16 DEF vars
<1>17. QED
  BY <1>1, <1>2, <1>3, <1>4, <1>5, <1>6, <1>7, <1>8, <1>9, <1>10, <1>11, <1>12, <1>13, <1>14, <1>15, <1>16 DEF Next, PushStart, PushStep, PopStart, PopStep

\* The invariant holds initially and is kept by every step.
LEMMA Inductive == Spec => []IInv
<1>1. Init => IInv
  <2> SUFFICES ASSUME Init PROVE IInv
    OBVIOUS
  <2> USE QueueAssumption DEF Init
  <2>1. TypeOK
    BY DEF TypeOK, PcValue
  <2>2. LockInv
    BY DEF LockInv, TailPc, HeadPc
  <2>3. PrivateInv /\ TakeInv
    BY DEF PrivateInv, PushPc, TakeInv
  <2>4. ListInv
    BY DEF ListInv, InList
  <2>5. QED
    BY <2>1, <2>2, <2>3, <2>4 DEF IInv
<1>2. IInv /\ [Next]_vars => IInv'
  BY TypeStep, LockStep, PrivateStep, ListStep, TakeStep DEF IInv
<1>3. QED
  BY <1>1, <1>2, PTL DEF Spec

\* threadsafe_queue.h: in every reachable state each variable holds a value
\* of its type; in particular head and tail always point to a node.
THEOREM TypeCorrect == Spec => []TypeOK
<1>1. IInv => TypeOK
  BY DEF IInv
<1>2. QED
  BY <1>1, Inductive, PTL

\* threadsafe_queue.h: pops under head_mutex and pushes under tail_mutex
\* never touch the same node, a node that is gone, or a null pointer.
THEOREM MemorySafety == Spec => []MemorySafe
<1>1. IInv => MemorySafe
  <2> SUFFICES ASSUME IInv PROVE MemorySafe
    OBVIOUS
  <2> USE DEF IInv, TypeOK, Thread
  <2>1. ASSUME NEW t \in Thread, pc[t] = "pop_take"
        PROVE  head \in live /\ head # tail /\ next[head] \in live
    BY <2>1 DEF TakeInv, ListInv, InList
  <2>2. ASSUME NEW t \in Thread, pc[t] \in TailPc
        PROVE  tail \in live /\ p[t] \in live /\ p[t] # tail
    BY <2>2 DEF ListInv, InList, PrivateInv, TailPc, PushPc
  <2>3. QED
    BY <2>1, <2>2 DEF MemorySafe
<1>2. QED
  BY <1>1, Inductive, PTL
-----------------------------------------------------------------------------
(***************************************************************************)
(* Refinement.  seq is the way from head to tail, and its nodes are all    *)
(* different and in the list.                                              *)
(***************************************************************************)
Route(seq) ==
    /\ seq \in Seq(Node) /\ seq # <<>> /\ Way(seq)
    /\ \A i \in 1..Len(seq) : InList(seq[i])
    /\ \A i, j \in 1..Len(seq) : seq[i] = seq[j] => i = j

\* What the callers gave and asked for is not lost on the way.
CallInv ==
    \A t \in Thread :
        /\ pc[t] \in {"push_lock", "push_data"} => new_data[t] \in Value
        /\ pc[t] \in {"push_link", "push_tail"} => data[tail] \in Value
        /\ pc[t] \in {"pop_lock", "pop_check", "pop_take", "pop_sleep", "pop_waiting"}
               => op[t] \in PopOp

RouteInv == (\E seq : Route(seq)) /\ CallInv

\* The values on a route.
Values(seq) == [i \in 1..Len(seq) - 1 |-> data[seq[i]]]

\* A set of numbers has a least one.
LEMMA LeastNumber ==
    ASSUME NEW S \in SUBSET Nat, S # {}
    PROVE  \E low \in S : \A k \in S : ~(k < low)
<1>1. PICK low \in S : \A k \in S : <<k, low>> \notin OpToRel(<, Nat)
  BY NatLessThanWellFounded, WFMin
<1>2. QED
  BY <1>1 DEF OpToRel

\* What every route has.
LEMMA RouteFacts ==
    ASSUME NEW seq, Route(seq)
    PROVE  /\ Len(seq) \in Nat \ {0} /\ DOMAIN seq = 1..Len(seq)
           /\ \A i \in 1..Len(seq) : seq[i] \in Node /\ seq[i] \in live
           /\ seq[1] = head /\ seq[Len(seq)] = tail
           /\ \A i \in 1..Len(seq) - 1 : seq[i] # tail /\ seq[i + 1] = next[seq[i]]
<1>1. Len(seq) \in Nat \ {0} /\ DOMAIN seq = 1..Len(seq)
  BY LenProperties, EmptySeq DEF Route
<1>2. QED
  BY <1>1, ElementOfSeq DEF Route, Way, InList

\* There is one way from head to tail.
LEMMA WayIsUnique ==
    ASSUME NEW m \in Nat \ {0}, NEW k \in Nat \ {0},
           NEW a \in [1..m -> Node], NEW b \in [1..k -> Node],
           Len(a) = m, Len(b) = k, Way(a), Way(b)
    PROVE  a = b
<1>1. /\ a[1] = head /\ b[1] = head /\ a[m] = tail /\ b[k] = tail
      /\ \A i \in 1..m - 1 : a[i] # tail /\ a[i + 1] = next[a[i]]
      /\ \A i \in 1..k - 1 : b[i] # tail /\ b[i + 1] = next[b[i]]
  BY DEF Way
<1>2. \A i \in Nat : i \in 1..m /\ i \in 1..k => a[i] = b[i]
  <2> DEFINE bad == {i \in Nat : i \in 1..m /\ i \in 1..k /\ a[i] # b[i]}
  <2> SUFFICES ASSUME bad # {} PROVE FALSE
    OBVIOUS
  <2>1. PICK low \in bad : \A i \in bad : ~(i < low)
    BY LeastNumber
  <2>2. low # 1 /\ low \in 1..m /\ low \in 1..k /\ a[low] # b[low]
    BY <1>1, <2>1
  <2>3. low - 1 \in Nat /\ low - 1 \in 1..m - 1 /\ low - 1 \in 1..k - 1 /\ (low - 1) + 1 = low
    BY <2>2
  <2>4. low - 1 \notin bad
    BY <2>1, <2>3
  <2>5. a[low - 1] = b[low - 1]
    BY <2>3, <2>4
  <2>6. QED
    BY <1>1, <2>2, <2>3, <2>5
<1>3. m = k
  <2>1. ~(m < k)
    BY <1>1, <1>2
  <2>2. ~(k < m)
    BY <1>1, <1>2
  <2>3. QED
    BY <2>1, <2>2
<1>4. \A i \in 1..m : a[i] = b[i]
  BY <1>2, <1>3
<1>5. QED
  BY <1>3, <1>4

\* A route is no longer than the memory, so Contents finds it.
LEMMA ContentsAre ==
    ASSUME NEW seq, TypeOK, Route(seq)
    PROVE  Contents = Values(seq)
<1> DEFINE m == Len(seq)
           Ways == UNION {[1..k -> live] : k \in 1..Cardinality(live)}
           way == CHOOSE s \in Ways : Way(s)
<1>1. /\ m \in Nat \ {0} /\ DOMAIN seq = 1..m
      /\ \A i \in 1..m : seq[i] \in Node /\ seq[i] \in live
  BY RouteFacts
<1>2. seq \in [1..m -> Node] /\ seq \in [1..m -> live]
  BY <1>1, LenProperties DEF Route
<1>3. m \in 1..Cardinality(live)
  <2>1. IsFiniteSet(live) /\ Cardinality(live) \in Nat
    BY QueueAssumption, FS_Subset, FS_CardinalityType DEF TypeOK
  <2>2. seq \in Injection(1..m, live)
    BY <1>2 DEF Route, Injection, IsInjective
  <2>3. Cardinality(1..m) <= Cardinality(live)
    BY <2>1, <2>2, FS_Injection
  <2>4. Cardinality(1..m) = m
    BY <1>1, FS_Interval
  <2>5. QED
    BY <1>1, <2>1, <2>3, <2>4
<1>4. seq \in Ways /\ Way(seq)
  BY <1>2, <1>3 DEF Route
<1>5. way \in Ways /\ Way(way)
  BY <1>4
<1>6. PICK k \in 1..Cardinality(live) : way \in [1..k -> live]
  BY <1>5
<1> HIDE DEF way
<1>7. k \in Nat \ {0} /\ way \in [1..k -> Node] /\ way \in Seq(Node) /\ Len(way) = k
  <2>1. k \in Nat \ {0}
    BY <1>3
  <2>2. way \in [1..k -> Node]
    BY <1>6 DEF TypeOK
  <2>3. way \in Seq(Node)
    BY <2>1, <2>2, SeqDef
  <2>4. QED
    BY <2>1, <2>2, <2>3, LenProperties
<1>8. way = seq
  BY <1>1, <1>2, <1>4, <1>5, <1>7, WayIsUnique
<1>9. Contents = [i \in 1..Len(way) - 1 |-> data[way[i]]]
  BY DEF Contents, way
<1>10. QED
  BY <1>8, <1>9 DEF Values

\* The same after a step.
LEMMA ContentsWillBe == (\A seq : TypeOK /\ Route(seq) => Contents = Values(seq))'
<1>1. \A seq : TypeOK /\ Route(seq) => Contents = Values(seq)
  BY ContentsAre
<1>2. QED
  BY <1>1, PTL

\* Steps that leave the nodes before tail alone.
LEMMA ContentsSame ==
    ASSUME TypeOK, TypeOK', NEW seq, Route(seq), Route(seq)',
           \A i \in 1..Len(seq) - 1 : data'[seq[i]] = data[seq[i]]
    PROVE  Contents' = Contents
<1>1. Contents = Values(seq)
  BY ContentsAre
<1>2. Contents' = Values(seq)'
  BY ContentsWillBe
<1>3. QED
  BY <1>1, <1>2 DEF Values

\* Steps that neither push nor pop a node.
LEMMA RouteStays ==
    ASSUME NEW seq, Route(seq), head' = head, tail' = tail,
           \A n \in Node : InList(n) => InList(n)',
           \A n \in Node : InList(n) /\ n # tail => next'[n] = next[n]
    PROVE  Route(seq)'
<1>1. /\ Len(seq) \in Nat \ {0}
      /\ \A i \in 1..Len(seq) : seq[i] \in Node /\ InList(seq[i])
      /\ seq[1] = head /\ seq[Len(seq)] = tail
      /\ \A i \in 1..Len(seq) - 1 : seq[i] # tail /\ seq[i + 1] = next[seq[i]]
  BY RouteFacts DEF Route
<1>2. \A i \in 1..Len(seq) - 1 : next'[seq[i]] = next[seq[i]]
  <2>1. \A i \in 1..Len(seq) - 1 : i \in 1..Len(seq)
    BY <1>1
  <2>2. QED
    BY <1>1, <2>1
<1>3. Way(seq)'
  BY <1>1, <1>2 DEF Way
<1>4. \A i \in 1..Len(seq) : InList(seq[i])'
  BY <1>1
<1>5. QED
  BY <1>3, <1>4 DEF Route

\* PushTail: the route is longer by the new dummy.
LEMMA RouteLonger ==
    ASSUME IInv, NEW t \in Thread, PushTail(t), NEW n, n = p[t], NEW seq, Route(seq)
    PROVE  n \in Node /\ Route(Append(seq, n))'
<1> USE DEF IInv, TypeOK
<1> DEFINE more == Append(seq, n)
           m == Len(seq)
<1>1. /\ n \in Node /\ n \in live /\ ~InList(n) /\ next[tail] = n
      /\ p' = [p EXCEPT ![t] = NoNode] /\ tail' = n
      /\ head' = head /\ next' = next /\ live' = live
  <2>1. p[t] # NoNode /\ p[t] \in Node /\ next[tail] = p[t]
    BY DEF PushTail, Goto, PrivateInv, PushPc, ListInv
  <2>2. QED
    BY <2>1 DEF PushTail, PrivateInv, InList
<1>2. /\ m \in Nat \ {0} /\ DOMAIN seq = 1..m /\ seq \in Seq(Node)
      /\ \A i \in 1..m : seq[i] \in Node /\ InList(seq[i]) /\ seq[i] # n
      /\ seq[1] = head /\ seq[m] = tail
      /\ \A i \in 1..m - 1 : seq[i + 1] = next[seq[i]]
      /\ \A i, j \in 1..m : seq[i] = seq[j] => i = j
  <2>1. /\ seq \in Seq(Node) /\ \A i \in 1..m : InList(seq[i])
        /\ \A i, j \in 1..m : seq[i] = seq[j] => i = j
    BY DEF Route
  <2>2. /\ m \in Nat \ {0} /\ DOMAIN seq = 1..m /\ \A i \in 1..m : seq[i] \in Node
        /\ seq[1] = head /\ seq[m] = tail
        /\ \A i \in 1..m - 1 : seq[i + 1] = next[seq[i]]
    BY RouteFacts
  <2> HIDE DEF m
  <2>3. QED
    BY <1>1, <2>1, <2>2
<1>3. InList(n)' /\ \A i \in 1..m : InList(seq[i])'
  <2>1. InList(n)'
    <3>1. \A s \in Thread : p'[s] # n
      BY <1>1, QueueAssumption DEF PrivateInv
    <3>2. QED
      BY <1>1, <3>1 DEF InList
  <2>2. ASSUME NEW i \in 1..m PROVE InList(seq[i])'
    BY <1>1, <1>2, QueueAssumption DEF InList
  <2>3. QED
    BY <2>1, <2>2
<1>4. /\ more \in Seq(Node) /\ more # <<>> /\ Len(more) = m + 1
      /\ \A i \in 1..m : more[i] = seq[i]
      /\ more[m + 1] = n
  BY <1>1, <1>2, AppendProperties
<1> HIDE DEF more, m
<1>5. \A i \in 1..m + 1 : i \in 1..m \/ i = m + 1
  BY <1>2
<1>6. Way(more)'
  <2>1. ASSUME NEW i \in 1..m PROVE more[i] # n /\ more[i + 1] = next[more[i]]
    <3>1. CASE i = m
      BY <1>1, <1>2, <1>4, <3>1
    <3>2. CASE i # m
      <4>1. i \in 1..m - 1 /\ i + 1 \in 1..m
        BY <1>2, <3>2
      <4>2. QED
        BY <1>2, <1>4, <4>1
    <3>3. QED
      BY <3>1, <3>2
  <2>2. more[1] = head
    BY <1>2, <1>4
  <2>3. (m + 1) - 1 = m
    BY <1>2
  <2>4. QED
    BY <1>1, <1>4, <2>1, <2>2, <2>3 DEF Way
<1>7. \A i \in 1..m + 1 : InList(more[i])'
  BY <1>3, <1>4, <1>5
<1>8. \A i, j \in 1..m + 1 : more[i] = more[j] => i = j
  BY <1>2, <1>4, <1>5
<1>9. QED
  BY <1>1, <1>4, <1>6, <1>7, <1>8 DEF Route, more

\* PopHead: the route begins at its second node.
LEMMA RouteShorter ==
    ASSUME IInv, NEW t \in Thread, PopHead(t), NEW seq, Route(seq)
    PROVE  Len(seq) - 1 \in Nat \ {0} /\ Route(Tail(seq))'
<1> USE DEF IInv, TypeOK
<1> DEFINE rest == Tail(seq)
           m == Len(seq)
<1>1. /\ head # tail /\ head' = next[head] /\ tail' = tail /\ p' = p
      /\ live' = live \ {head}
      /\ \A n \in Node : n # head => next'[n] = next[n]
  BY DEF PopHead, Goto, TakeInv
<1>2. /\ m \in Nat \ {0} /\ DOMAIN seq = 1..m /\ seq \in Seq(Node) /\ seq # <<>>
      /\ \A i \in 1..m : seq[i] \in Node /\ InList(seq[i])
      /\ seq[1] = head /\ seq[m] = tail
      /\ \A i \in 1..m - 1 : seq[i] # tail /\ seq[i + 1] = next[seq[i]]
      /\ \A i, j \in 1..m : seq[i] = seq[j] => i = j
  BY RouteFacts DEF Route
<1>3. m # 1 /\ m - 1 \in Nat \ {0}
  <2>1. m \in Nat \ {0} /\ (m = 1 => head = tail)
    BY <1>2
  <2> HIDE DEF m
  <2>2. QED
    BY <1>1, <2>1
<1>4. /\ rest \in Seq(Node) /\ Len(rest) = m - 1
      /\ \A i \in 1..m - 1 : rest[i] = seq[i + 1]
  BY <1>2, HeadTailProperties
<1> HIDE DEF rest, m
<1>5. ASSUME NEW i \in 1..m - 1
      PROVE  i + 1 \in 1..m /\ rest[i] = seq[i + 1] /\ rest[i] \in Node /\ rest[i] # head
  <2>1. i + 1 \in 1..m /\ i + 1 # 1 /\ 1 \in 1..m
    BY <1>2
  <2>2. QED
    BY <1>2, <1>4, <2>1
<1>6. Way(rest)'
  <2>1. 1 \in 1..m - 1 /\ 1 + 1 = 2 /\ m - 1 \in 1..m - 1 /\ (m - 1) + 1 = m
    BY <1>3, <1>2
  <2>2. rest[1] = head' /\ rest[m - 1] = tail'
    <3>1. rest[1] = seq[1 + 1] /\ seq[1 + 1] = next[seq[1]]
      BY <1>2, <1>4, <2>1
    <3>2. rest[m - 1] = seq[(m - 1) + 1]
      BY <1>4, <2>1
    <3>3. QED
      BY <1>1, <1>2, <2>1, <3>1, <3>2
  <2>3. ASSUME NEW i \in 1..(m - 1) - 1
        PROVE  rest[i] # tail /\ rest[i + 1] = next'[rest[i]]
    <3>1. i \in 1..m - 1 /\ i + 1 \in 1..m - 1
      BY <1>2
    <3>2. seq[i + 1] # tail /\ seq[(i + 1) + 1] = next[seq[i + 1]]
      BY <1>2, <3>1
    <3>3. rest[i] = seq[i + 1] /\ rest[i + 1] = seq[(i + 1) + 1]
      BY <1>4, <3>1
    <3>4. next'[rest[i]] = next[rest[i]]
      BY <1>1, <1>5, <3>1
    <3>5. QED
      BY <3>2, <3>3, <3>4
  <2>4. QED
    BY <1>1, <1>4, <2>2, <2>3 DEF Way
<1>7. ASSUME NEW i \in 1..m - 1 PROVE InList(rest[i])'
  BY <1>1, <1>2, <1>5 DEF InList
<1>8. ASSUME NEW i \in 1..m - 1, NEW j \in 1..m - 1, rest[i] = rest[j] PROVE i = j
  <2>1. i + 1 = j + 1
    BY <1>2, <1>5, <1>8
  <2>2. QED
    BY <1>2, <2>1
<1>9. rest # <<>>
  BY <1>3, <1>4, EmptySeq
<1>10. QED
  BY <1>3, <1>4, <1>6, <1>7, <1>8, <1>9 DEF Route, rest, m

\* Steps keep the arguments of calls.
LEMMA CallStep == IInv /\ CallInv /\ [Next]_vars => CallInv'
<1> SUFFICES ASSUME IInv, CallInv, [Next]_vars PROVE CallInv'
  OBVIOUS
<1> USE QueueAssumption DEF IInv, LockInv, TypeOK, TakeInv, CallInv, PcValue, TailPc, Thread
<1>1. ASSUME NEW t \in Producer, NEW v \in Pushes[t], NEW n \in Node, PushAlloc(t, v, n)
      PROVE  CallInv'
  <2>1. v \in Value
    OBVIOUS
  <2>2. tail # n
    BY <1>1 DEF PushAlloc, ListInv, InList
  <2>3. QED
    BY <1>1, <2>1, <2>2 DEF PushAlloc, Goto
<1>2. ASSUME NEW t \in Producer, PushLock(t) PROVE CallInv'
  BY <1>2 DEF PushLock, Goto, listVars
<1>3. ASSUME NEW t \in Producer, PushData(t) PROVE CallInv'
  BY <1>3 DEF PushData, Goto
<1>4. ASSUME NEW t \in Producer, PushLink(t) PROVE CallInv'
  BY <1>4 DEF PushLink, Goto
<1>5. ASSUME NEW t \in Producer, PushTail(t) PROVE CallInv'
  <2>1. \A s \in Thread : pc[s] \in TailPc => s = t
    BY <1>5 DEF PushTail, Goto
  <2>2. QED
    BY <1>5, <2>1 DEF PushTail, Goto
<1>6. ASSUME NEW t \in Producer, PushNotify(t) PROVE CallInv'
  BY <1>6 DEF PushNotify, Goto, listVars
<1>7. ASSUME NEW t \in Consumer, NEW o \in PopOp, PopBegin(t, o) PROVE CallInv'
  BY <1>7 DEF PopBegin, Goto, listVars
<1>8. ASSUME NEW t \in Consumer, PopLock(t) PROVE CallInv'
  BY <1>8 DEF PopLock, Goto, listVars
<1>9. ASSUME NEW t \in Consumer, PopFound(t) PROVE CallInv'
  BY <1>9 DEF PopFound, Goto, listVars
<1>10. ASSUME NEW t \in Consumer, TryPopEmpty(t) PROVE CallInv'
  BY <1>10 DEF TryPopEmpty, Goto, listVars
<1>11. ASSUME NEW t \in Consumer, WaitPopEmpty(t) PROVE CallInv'
  BY <1>11 DEF WaitPopEmpty, Goto, listVars
<1>12. ASSUME NEW t \in Consumer, WaitBlock(t) PROVE CallInv'
  BY <1>12 DEF WaitBlock, Goto, listVars
<1>13. ASSUME NEW t \in Consumer, SpuriousWake(t) PROVE CallInv'
  BY <1>13 DEF SpuriousWake, listVars
<1>14. ASSUME NEW t \in Consumer, WaitRelock(t) PROVE CallInv'
  BY <1>14 DEF WaitRelock, Goto, listVars
<1>15. ASSUME NEW t \in Consumer, PopHead(t) PROVE CallInv'
  BY <1>15 DEF PopHead, Goto
<1>16. CASE UNCHANGED vars
  BY <1>16 DEF vars
<1>17. QED
  BY <1>1, <1>2, <1>3, <1>4, <1>5, <1>6, <1>7, <1>8, <1>9, <1>10, <1>11, <1>12, <1>13, <1>14, <1>15, <1>16 DEF Next, PushStart, PushStep, PopStart, PopStep

FifoStep == [Fifo!Next]_(Fifo!fifoVars)

\* A step that moves neither end.
LEMMA Unnoticed ==
    ASSUME IInv, TypeOK', NEW seq, Route(seq), head' = head, tail' = tail, result' = result,
           \A n \in Node : InList(n) => InList(n)',
           \A n \in Node : InList(n) /\ n # tail => next'[n] = next[n] /\ data'[n] = data[n]
    PROVE  Route(seq)' /\ FifoStep
<1>1. Route(seq)'
  BY RouteStays
<1>2. \A i \in 1..Len(seq) - 1 : data'[seq[i]] = data[seq[i]]
  <2>1. \A i \in 1..Len(seq) - 1 : i \in 1..Len(seq) /\ seq[i] # tail
    BY RouteFacts
  <2>2. QED
    BY <2>1, RouteFacts DEF Route
<1>3. Contents' = Contents
  BY <1>1, <1>2, ContentsSame DEF IInv
<1>4. QED
  BY <1>1, <1>3 DEF FifoStep, Fifo!fifoVars

\* A push takes effect when tail moves.
LEMMA PushesAtTail ==
    ASSUME IInv, CallInv, TypeOK', NEW t \in Thread, PushTail(t), NEW n, n = p[t],
           NEW seq, Route(seq)
    PROVE  FifoStep
<1> DEFINE more == Append(seq, n)
           m == Len(seq)
           D == Value \cup {Nothing}
           old == Values(seq)
           new == [i \in 1..m |-> data[more[i]]]
           v == data[tail]
           two == Append(old, v)
<1>1. n \in Node /\ Route(more)'
  BY RouteLonger
<1>2. /\ m \in Nat \ {0} /\ seq \in Seq(Node) /\ seq[m] = tail
      /\ \A i \in 1..m : seq[i] \in Node
  BY RouteFacts DEF Route
<1>3. /\ Len(more) = m + 1 /\ (m + 1) - 1 = m
      /\ \A i \in 1..m : more[i] = seq[i] /\ more[i] \in Node
  BY <1>1, <1>2, AppendProperties
<1>4. v \in Value /\ data' = data /\ result' = result /\ data \in [Node -> D]
  BY DEF PushTail, Goto, CallInv, IInv, TypeOK
<1>5. Contents = old
  BY ContentsAre DEF IInv
<1>6. Contents' = new
  <2>1. Contents' = Values(more)'
    BY <1>1, ContentsWillBe
  <2>2. Values(more)' = new
    BY <1>3, <1>4 DEF Values
  <2>3. QED
    BY <2>1, <2>2
<1>7. old \in Seq(D) /\ Len(old) = m - 1 /\ \A i \in 1..m - 1 : old[i] = data[seq[i]]
  <2>1. old \in [1..m - 1 -> D]
    BY <1>2, <1>4 DEF Values
  <2>2. m - 1 \in Nat
    BY <1>2
  <2>3. old \in Seq(D)
    BY <2>1, <2>2, SeqDef
  <2>4. QED
    BY <2>1, <2>2, <2>3, LenProperties DEF Values
<1> HIDE DEF more, old
<1>8. new \in Seq(D) /\ Len(new) = m /\ \A i \in 1..m : new[i] = data[more[i]]
  <2>1. new \in [1..m -> D]
    BY <1>3, <1>4
  <2>2. new \in Seq(D)
    BY <1>2, <2>1, SeqDef
  <2>3. QED
    BY <1>2, <2>1, <2>2, LenProperties
<1> HIDE DEF new, v, m, D
<1>9. /\ two \in Seq(D) /\ Len(two) = (m - 1) + 1 /\ two[(m - 1) + 1] = v
      /\ \A i \in 1..m - 1 : two[i] = old[i]
  BY <1>4, <1>7, AppendProperties DEF D
<1> HIDE DEF two
<1>10. (m - 1) + 1 = m
  BY <1>2
<1>11. ASSUME NEW i \in 1..m PROVE new[i] = two[i]
  <2>1. CASE i = m
    BY <1>2, <1>3, <1>8, <1>9, <1>10, <2>1 DEF v
  <2>2. CASE i # m
    <3>1. i \in 1..m - 1
      BY <1>2, <2>2
    <3>2. new[i] = data[seq[i]]
      BY <1>3, <1>8
    <3>3. two[i] = old[i]
      BY <1>9, <3>1
    <3>4. old[i] = data[seq[i]]
      BY <1>7, <3>1
    <3>5. QED
      BY <3>2, <3>3, <3>4
  <2>3. QED
    BY <2>1, <2>2
<1>12. new = two
  BY <1>8, <1>9, <1>10, <1>11, SeqEqual
<1>13. Contents' = Append(Contents, v)
  BY <1>5, <1>6, <1>12 DEF two
<1>14. Fifo!Push(v)
  BY <1>4, <1>13 DEF Fifo!Push
<1>15. QED
  BY <1>4, <1>14 DEF FifoStep, Fifo!Next

\* A pop takes effect when head moves.
LEMMA PopsAtHead ==
    ASSUME IInv, CallInv, TypeOK', NEW t \in Consumer, PopHead(t), NEW seq, Route(seq)
    PROVE  FifoStep
<1> DEFINE rest == Tail(seq)
           m == Len(seq)
           D == Value \cup {Nothing}
           old == Values(seq)
           new == [i \in 1..(m - 1) - 1 |-> data[rest[i]]]
<1>1. m - 1 \in Nat \ {0} /\ Route(rest)'
  BY RouteShorter DEF Thread
<1>2. /\ m \in Nat \ {0} /\ seq \in Seq(Node) /\ seq[1] = head
      /\ \A i \in 1..m : seq[i] \in Node
      /\ \A i, j \in 1..m : seq[i] = seq[j] => i = j
  BY RouteFacts DEF Route
<1>3. /\ Len(rest) = m - 1
      /\ \A i \in 1..m - 1 : rest[i] = seq[i + 1] /\ rest[i] \in Node /\ rest[i] # head
  <2>1. /\ Len(rest) = m - 1
        /\ \A i \in 1..m - 1 : rest[i] = seq[i + 1]
    BY <1>2, HeadTailProperties DEF Route
  <2>2. \A i \in 1..m - 1 : i + 1 \in 1..m /\ i + 1 # 1 /\ 1 \in 1..m
    BY <1>2
  <2> HIDE DEF rest, m
  <2>3. QED
    BY <1>2, <2>1, <2>2
<1>4. /\ data' = [data EXCEPT ![head] = Nothing] /\ data \in [Node -> D] /\ head \in Node
      /\ result' = <<t, op[t], data[head]>>
      /\ op[t] \in Fifo!PopKind /\ t \in Thread
  BY QueueAssumption DEF PopHead, Goto, CallInv, IInv, TypeOK, Fifo!PopKind, Thread
<1>5. Contents = old
  BY ContentsAre DEF IInv
<1>6. Contents' = new
  <2>1. Contents' = Values(rest)'
    BY <1>1, ContentsWillBe
  <2>2. Values(rest)' = [i \in 1..Len(rest) - 1 |-> data'[rest[i]]]
    BY DEF Values
  <2>3. \A i \in 1..(m - 1) - 1 : i \in 1..m - 1
    BY <1>1
  <2> HIDE DEF rest, m
  <2>4. \A i \in 1..(m - 1) - 1 : data'[rest[i]] = data[rest[i]]
    BY <1>3, <1>4, <2>3
  <2>5. QED
    BY <1>3, <2>1, <2>2, <2>4
<1>7. old \in Seq(D) /\ Len(old) = m - 1 /\ \A i \in 1..m - 1 : old[i] = data[seq[i]]
  <2>1. old \in [1..m - 1 -> D]
    BY <1>2, <1>4 DEF Values
  <2>2. old \in Seq(D)
    BY <1>1, <2>1, SeqDef
  <2>3. QED
    BY <1>1, <2>1, <2>2, LenProperties DEF Values
<1> HIDE DEF rest, old
<1>8. /\ new \in Seq(D) /\ Len(new) = (m - 1) - 1
      /\ \A i \in 1..(m - 1) - 1 : new[i] = data[rest[i]]
  <2> HIDE DEF m, new, D
  <2>1. (m - 1) - 1 \in Nat /\ \A i \in 1..(m - 1) - 1 : i \in 1..m - 1
    BY <1>1, <1>2
  <2> USE DEF m, new, D
  <2>2. new \in [1..(m - 1) - 1 -> D]
    BY <1>3, <1>4, <2>1
  <2>3. \A i \in 1..(m - 1) - 1 : new[i] = data[rest[i]]
    OBVIOUS
  <2> HIDE DEF m, new, D
  <2>4. new \in Seq(D)
    BY <2>1, <2>2, SeqDef
  <2>5. QED
    BY <2>1, <2>2, <2>3, <2>4, LenProperties
<1> HIDE DEF new, m, D
<1>9. old # <<>> /\ 1 \in 1..m - 1
  <2>1. m - 1 # 0 /\ 1 \in 1..m - 1
    BY <1>1, <1>2
  <2>2. QED
    BY <1>7, <2>1, EmptySeq
<1>10. /\ Head(old) = old[1] /\ Tail(old) \in Seq(D) /\ Len(Tail(old)) = (m - 1) - 1
       /\ \A i \in 1..(m - 1) - 1 : Tail(old)[i] = old[i + 1]
  <2>1. old \in Seq(D) /\ old # <<>> /\ Len(old) = m - 1
    BY <1>7, <1>9
  <2>2. Head(old) = old[1]
    BY <2>1
  <2>3. /\ Tail(old) \in Seq(D) /\ Len(Tail(old)) = Len(old) - 1
        /\ \A i \in 1..Len(Tail(old)) : Tail(old)[i] = old[i + 1]
    BY <2>1, HeadTailProperties
  <2>4. QED
    BY <2>1, <2>2, <2>3
<1>11. ASSUME NEW i \in 1..(m - 1) - 1 PROVE new[i] = Tail(old)[i]
  <2>1. i \in 1..m - 1 /\ i + 1 \in 1..m - 1
    BY <1>1, <1>2
  <2>2. new[i] = data[seq[i + 1]]
    BY <1>3, <1>8, <2>1
  <2>3. Tail(old)[i] = old[i + 1]
    BY <1>10
  <2>4. old[i + 1] = data[seq[i + 1]]
    BY <1>7, <2>1
  <2>5. QED
    BY <2>2, <2>3, <2>4
<1>12. new = Tail(old)
  BY <1>8, <1>10, <1>11, SeqEqual
<1>13. Head(old) = data[head]
  BY <1>2, <1>7, <1>9, <1>10
<1>14. Fifo!Pop(t, op[t])
  BY <1>4, <1>5, <1>6, <1>9, <1>12, <1>13 DEF Fifo!Pop
<1>15. QED
  BY <1>4, <1>14 DEF FifoStep, Fifo!Next

\* Every step keeps a route and is a step of the queue or unseen.
LEMMA RouteStep ==
    ASSUME IInv, IInv', RouteInv, [Next]_vars
    PROVE  (\E seq : Route(seq))' /\ FifoStep
<1>1. PICK seq : Route(seq)
  BY DEF RouteInv
<1>2. TypeOK' /\ CallInv
  BY DEF IInv, RouteInv
<1> USE QueueAssumption DEF IInv, TypeOK, Thread
<1>3. ASSUME head' = head, tail' = tail, result' = result,
             \A n \in Node : InList(n) => InList(n)',
             \A n \in Node : InList(n) /\ n # tail => next'[n] = next[n] /\ data'[n] = data[n]
      PROVE  (\E s : Route(s))' /\ FifoStep
  BY <1>1, <1>2, <1>3, Unnoticed
<1>4. ASSUME UNCHANGED <<head, tail, data, next, live, p, result>>
      PROVE  (\E s : Route(s))' /\ FifoStep
  BY <1>3, <1>4 DEF InList
<1>5. ASSUME NEW t \in Producer, NEW v \in Value, NEW n \in Node, PushAlloc(t, v, n)
      PROVE  (\E s : Route(s))' /\ FifoStep
  <2>1. \A m \in Node : InList(m) => m # n
    BY <1>5 DEF PushAlloc, InList
  <2>2. \A m \in Node : InList(m) => InList(m)'
    BY <1>5, <2>1 DEF PushAlloc, InList
  <2>3. QED
    BY <1>3, <1>5, <2>1, <2>2 DEF PushAlloc
<1>6. ASSUME NEW t \in Producer, PushData(t) PROVE (\E s : Route(s))' /\ FifoStep
  <2>1. \A m \in Node : InList(m) => InList(m)'
    BY <1>6 DEF PushData, InList
  <2>2. QED
    BY <1>3, <1>6, <2>1 DEF PushData
<1>7. ASSUME NEW t \in Producer, PushLink(t) PROVE (\E s : Route(s))' /\ FifoStep
  <2>1. \A m \in Node : InList(m) => InList(m)'
    BY <1>7 DEF PushLink, InList
  <2>2. QED
    BY <1>3, <1>7, <2>1 DEF PushLink
<1>8. ASSUME NEW t \in Producer, PushTail(t) PROVE (\E s : Route(s))' /\ FifoStep
  <2>1. PICK n : n = p[t]
    OBVIOUS
  <2>2. Route(Append(seq, n))'
    BY <1>1, <1>8, <2>1, RouteLonger
  <2>3. QED
    BY <1>1, <1>2, <1>8, <2>1, <2>2, PushesAtTail
<1>9. ASSUME NEW t \in Consumer, PopHead(t) PROVE (\E s : Route(s))' /\ FifoStep
  <2>1. Route(Tail(seq))'
    BY <1>1, <1>9, RouteShorter
  <2>2. QED
    BY <1>1, <1>2, <1>9, <2>1, PopsAtHead
<1>10. ASSUME NEW t \in Consumer, TryPopEmpty(t) PROVE (\E s : Route(s))' /\ FifoStep
  <2>1. /\ head = tail /\ UNCHANGED <<head, tail, data, next, live, p>>
        /\ result' = <<t, "try_pop", Nothing>>
    BY <1>10 DEF TryPopEmpty, listVars
  <2>2. Route(seq)'
    BY <1>1, <2>1, RouteStays DEF InList
  <2>3. Contents' = Contents
    BY <1>1, <1>2, <2>1, <2>2, ContentsSame
  <2>4. Len(seq) = 1
    <3> DEFINE m == Len(seq)
    <3>1. /\ m \in Nat \ {0} /\ seq[1] = tail
          /\ \A i \in 1..m - 1 : seq[i] # tail
      BY <1>1, <2>1, RouteFacts
    <3> HIDE DEF m
    <3>2. m # 1 => 1 \in 1..m - 1
      BY <3>1
    <3>3. m = 1
      BY <3>1, <3>2
    <3>4. QED
      BY <3>3 DEF m
  <2>5. Contents = <<>>
    <3>1. Contents = Values(seq)
      BY <1>1, ContentsAre
    <3>2. Values(seq) = [i \in 1..0 |-> data[seq[i]]]
      BY <2>4 DEF Values
    <3>3. QED
      BY <3>1, <3>2
  <2>6. Fifo!FindEmpty(t)
    BY <2>1, <2>3, <2>5 DEF Fifo!FindEmpty
  <2>7. t \in Thread
    OBVIOUS
  <2>8. QED
    BY <2>2, <2>6, <2>7 DEF FifoStep, Fifo!Next
<1>11. ASSUME NEW t \in Producer, PushLock(t) \/ PushNotify(t)
       PROVE  (\E s : Route(s))' /\ FifoStep
  BY <1>4, <1>11 DEF PushLock, PushNotify, listVars
<1>12. ASSUME NEW t \in Consumer, NEW o \in PopOp, PopBegin(t, o)
       PROVE  (\E s : Route(s))' /\ FifoStep
  BY <1>4, <1>12 DEF PopBegin, listVars
<1>13. ASSUME NEW t \in Consumer,
              PopLock(t) \/ PopFound(t) \/ WaitPopEmpty(t) \/ WaitBlock(t)
                  \/ WaitRelock(t) \/ SpuriousWake(t)
       PROVE  (\E s : Route(s))' /\ FifoStep
  BY <1>4, <1>13 DEF PopLock, PopFound, WaitPopEmpty, WaitBlock, WaitRelock, SpuriousWake, listVars
<1>14. CASE UNCHANGED vars
  BY <1>4, <1>14 DEF vars
<1>15. QED
  BY <1>5, <1>6, <1>7, <1>8, <1>9, <1>10, <1>11, <1>12, <1>13, <1>14
     DEF Next, PushStart, PushStep, PopStart, PopStep

\* In the beginning the route is the dummy node.
LEMMA RouteBegins == Init => RouteInv /\ Fifo!Init
<1> SUFFICES ASSUME Init PROVE RouteInv /\ Fifo!Init
  OBVIOUS
<1>1. PICK n \in Node : head = n /\ tail = n /\ live = {n}
  BY DEF Init
<1> DEFINE seq == <<n>>
<1>2. seq \in Seq(Node) /\ Len(seq) = 1 /\ seq[1] = n /\ seq # <<>>
  OBVIOUS
<1>3. InList(n)
  BY <1>1, QueueAssumption DEF Init, InList
<1> HIDE DEF seq
<1>4. Route(seq)
  BY <1>1, <1>2, <1>3 DEF Route, Way
<1>5. CallInv
  BY DEF Init, CallInv
<1>6. Contents = <<>>
  <2>1. TypeOK
    BY <1>1, QueueAssumption DEF Init, TypeOK, PcValue
  <2>2. Contents = Values(seq)
    BY <1>4, <2>1, ContentsAre
  <2>3. Values(seq) = [i \in 1..0 |-> data[seq[i]]]
    BY <1>2 DEF Values
  <2>4. QED
    BY <2>2, <2>3
<1>7. QED
  BY <1>4, <1>5, <1>6 DEF RouteInv, Init, Fifo!Init, Fifo!NoResult

(***************************************************************************)
(* threadsafe_queue.h:20-109: the queue with two locks is a queue whose    *)
(* operations are atomic.  A push takes effect when tail moves, a pop when *)
(* head does, although each sees only its own end of the list.             *)
(***************************************************************************)
THEOREM Refinement == Spec => ImplementsFifo
<1>1. Init => RouteInv /\ Fifo!Init
  BY RouteBegins
<1>2. IInv /\ IInv' /\ RouteInv /\ [Next]_vars => RouteInv'
  BY RouteStep, CallStep DEF RouteInv
<1>3. IInv /\ IInv' /\ RouteInv /\ [Next]_vars => [Fifo!Next]_(Fifo!fifoVars)
  BY RouteStep DEF FifoStep
<1>4. QED
  BY <1>1, <1>2, <1>3, Inductive, PTL DEF Spec, ImplementsFifo
=============================================================================
