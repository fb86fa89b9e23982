-------------------------- MODULE CondQueueProofs --------------------------
(***************************************************************************)
(* The queue with one mutex wakes enough threads and implements a FIFO     *)
(* queue, for any threads, values and bounds.                              *)
(***************************************************************************)
EXTENDS CondQueue, FiniteSetTheorems, TLAPS

IInv == TypeOK /\ EnoughWoken

\* Counting the woken threads, of which there are finitely many.
LEMMA WokenCount ==
    ASSUME TypeOK, NEW t \in Thread
    PROVE  /\ Cardinality(woken) \in Nat
           /\ t \in woken => Cardinality(woken \ {t}) = Cardinality(woken) - 1
           /\ t \notin woken => Cardinality(woken \cup {t}) = Cardinality(woken) + 1
<1>1. IsFiniteSet(woken)
  BY FS_Subset, CondQueueAssumption DEF TypeOK
<1>2. QED
  BY <1>1, FS_CardinalityType, FS_AddElement, FS_RemoveElement

\* The first element is a value, and one element fewer is left.
LEMMA FrontFacts ==
    ASSUME TypeOK, data_queue # <<>>
    PROVE  /\ Head(data_queue) \in Value
           /\ Tail(data_queue) \in Seq(Value)
           /\ Len(Tail(data_queue)) = Len(data_queue) - 1
           /\ Len(data_queue) \in Nat \ {0}
  BY DEF TypeOK

LEMMA Inductive == Spec => []IInv
<1> USE CondQueueAssumption
<1>1. Init => IInv
  BY FS_EmptySet DEF Init, IInv, TypeOK, EnoughWoken
<1>2. IInv /\ [Next]_vars => IInv'
  <2> SUFFICES ASSUME IInv, [Next]_vars PROVE TypeOK' /\ EnoughWoken'
    BY DEF IInv
  <2> USE DEF IInv
  <2>1. ASSUME NEW t \in Thread, NEW v \in Value, Push(t, v)
        PROVE  TypeOK' /\ EnoughWoken'
    <3>1. /\ data_queue' \in Seq(Value)
          /\ Len(data_queue') = Len(data_queue) + 1 /\ Len(data_queue) \in Nat
      BY <2>1 DEF Push, TypeOK
    <3>2. CASE waiters = {} /\ UNCHANGED <<waiters, woken>>
      BY <2>1, <3>1, <3>2 DEF Push, TypeOK, EnoughWoken
    <3>3. CASE \E w \in waiters : Wake(w)
      <4>1. PICK w \in waiters : Wake(w)
        BY <3>3
      <4>2. w \in Thread /\ w \notin woken
        BY DEF TypeOK
      <4>3. Cardinality(woken') = Cardinality(woken) + 1 /\ Cardinality(woken) \in Nat
        BY <4>1, <4>2, WokenCount DEF Wake
      <4>4. QED
        BY <2>1, <3>1, <4>1, <4>2, <4>3 DEF Push, Wake, TypeOK, EnoughWoken
    <3>4. QED
      BY <2>1, <3>2, <3>3 DEF Push
  <2>2. ASSUME NEW t \in Thread, TryPop(t) PROVE TypeOK' /\ EnoughWoken'
    <3>1. Cardinality(woken) \in Nat
      BY WokenCount
    <3>2. CASE data_queue = <<>> /\ UNCHANGED data_queue
      BY <2>2, <3>2 DEF TryPop, TypeOK, EnoughWoken
    <3>3. CASE data_queue # <<>> /\ TakeFront(t, "try_pop")
      BY <2>2, <3>1, <3>3, FrontFacts DEF TryPop, TakeFront, TypeOK, EnoughWoken
    <3>4. QED
      BY <2>2, <3>2, <3>3 DEF TryPop
  <2>3. ASSUME NEW t \in Thread, WaitAndPop(t) PROVE TypeOK' /\ EnoughWoken'
    <3>1. CASE data_queue = <<>> /\ waiters' = waiters \cup {t}
      <4>1. data_queue' = <<>> /\ woken' = woken
        BY <2>3, <3>1 DEF WaitAndPop
      <4>2. Len(data_queue') = 0 /\ Cardinality(woken') \in Nat
        BY <4>1, WokenCount
      <4>3. TypeOK'
        BY <2>3, <3>1 DEF WaitAndPop, Running, TypeOK
      <4>4. QED
        BY <4>2, <4>3 DEF TypeOK, EnoughWoken
    <3>2. CASE data_queue # <<>> /\ TakeFront(t, "wait_and_pop") /\ UNCHANGED waiters
      <4>1. Cardinality(woken) \in Nat
        BY WokenCount
      <4>2. QED
        BY <2>3, <3>2, <4>1, FrontFacts DEF WaitAndPop, TakeFront, TypeOK, EnoughWoken
    <3>3. QED
      BY <2>3, <3>1, <3>2 DEF WaitAndPop
  <2>4. ASSUME NEW t \in Thread, Rewait(t) PROVE TypeOK' /\ EnoughWoken'
    <3>1. TypeOK' /\ data_queue' = <<>>
      BY <2>4 DEF Rewait, TypeOK
    <3>2. IsFiniteSet(woken')
      BY <3>1, FS_Subset DEF TypeOK
    <3>3. Len(data_queue') = 0 /\ Cardinality(woken') \in Nat
      BY <3>1, <3>2, FS_CardinalityType
    <3>4. QED
      BY <3>1, <3>3 DEF TypeOK, EnoughWoken
  <2>5. ASSUME NEW t \in Thread, WokenPop(t) PROVE TypeOK' /\ EnoughWoken'
    <3>1. /\ Cardinality(woken') = Cardinality(woken) - 1
          /\ Cardinality(woken) \in Nat /\ Cardinality(woken') \in Nat
      <4>1. t \in woken /\ woken' = woken \ {t} /\ IsFiniteSet(woken')
        BY <2>5, FS_Subset DEF WokenPop, TypeOK
      <4>2. QED
        BY <4>1, WokenCount, FS_CardinalityType
    <3>2. TypeOK'
      BY <2>5, FrontFacts DEF WokenPop, TakeFront, TypeOK
    <3>3. EnoughWoken'
      BY <2>5, <3>1, FrontFacts DEF WokenPop, TakeFront, TypeOK, EnoughWoken
    <3>4. QED
      BY <3>2, <3>3
  <2>6. ASSUME NEW t \in Thread, WokenThrow(t) PROVE TypeOK' /\ EnoughWoken'
    <3>1. /\ Cardinality(woken') = Cardinality(woken) - 1
          /\ Cardinality(woken) \in Nat /\ Cardinality(woken') \in Nat
      <4>1. t \in woken /\ woken' = woken \ {t} /\ IsFiniteSet(woken')
        BY <2>6, FS_Subset DEF WokenThrow, TypeOK
      <4>2. QED
        BY <4>1, WokenCount, FS_CardinalityType
    <3>2. TypeOK'
      BY <2>6, FrontFacts DEF WokenThrow, TypeOK
    <3>3. EnoughWoken'
      BY <2>6, <3>1, FrontFacts DEF WokenThrow, TypeOK, EnoughWoken
    <3>4. QED
      BY <3>2, <3>3
  <2>7. ASSUME NEW t \in Thread, SpuriousWake(t) PROVE TypeOK' /\ EnoughWoken'
    <3>1. t \notin woken
      BY <2>7 DEF SpuriousWake, TypeOK
    <3>2. Cardinality(woken') = Cardinality(woken) + 1 /\ Cardinality(woken) \in Nat
      BY <2>7, <3>1, WokenCount DEF SpuriousWake, Wake
    <3>3. QED
      BY <2>7, <3>1, <3>2 DEF SpuriousWake, Wake, TypeOK, EnoughWoken
  <2>8. ASSUME UNCHANGED vars PROVE TypeOK' /\ EnoughWoken'
    BY <2>8 DEF vars, TypeOK, EnoughWoken
  <2>9. QED
    BY <2>1, <2>2, <2>3, <2>4, <2>5, <2>6, <2>7, <2>8 DEF Next, WokenStep
<1>3. QED
  BY <1>1, <1>2, PTL DEF Spec

\* Synchronizing/threadsafe_queue.h: every variable keeps its type, and no
\* thread is blocked and woken at once.
THEOREM TypeCorrect == Spec => []TypeOK
<1>1. IInv => TypeOK
  BY DEF IInv
<1>2. QED
  BY <1>1, Inductive, PTL

\* Synchronizing/threadsafe_queue.h: the predicate is evaluated, and the
\* thread blocked or woken, under one mutex, so no wake-up is lost but by an
\* exception in a woken thread.
THEOREM NoLostWakeup == Spec => []EnoughWoken
<1>1. IInv => EnoughWoken
  BY DEF IInv
<1>2. QED
  BY <1>1, Inductive, PTL

\* Synchronizing/threadsafe_queue.h implements FifoQueue: each operation takes
\* effect as one step of the abstract queue, blocking and waking as none.
THEOREM Refinement == Spec => ImplementsFifo
<1>1. Init => Fifo!Init
  BY DEF Init, Fifo!Init, Fifo!NoResult
<1>2. TypeOK /\ [Next]_vars => [Fifo!Next]_(Fifo!fifoVars)
  <2> SUFFICES ASSUME TypeOK, [Next]_vars PROVE [Fifo!Next]_(Fifo!fifoVars)
    OBVIOUS
  <2> USE DEF Fifo!Next, Fifo!fifoVars, Fifo!PopKind
  <2>1. ASSUME NEW t \in Thread, NEW v \in Value, Push(t, v) PROVE Fifo!Next
    BY <2>1 DEF Push, Fifo!Push
  <2>2. ASSUME NEW t \in Thread, NEW o \in Fifo!PopKind, data_queue # <<>>,
               TakeFront(t, o)
        PROVE  Fifo!Next
    BY <2>2 DEF TakeFront, Fifo!Pop
  <2>3. ASSUME NEW t \in Thread, TryPop(t) PROVE Fifo!Next
    BY <2>2, <2>3 DEF TryPop, Fifo!FindEmpty
  <2>4. ASSUME NEW t \in Thread, WaitAndPop(t)
        PROVE  Fifo!Next \/ UNCHANGED Fifo!fifoVars
    BY <2>2, <2>4 DEF WaitAndPop
  <2>5. ASSUME NEW t \in Thread, WokenPop(t) PROVE Fifo!Next
    BY <2>2, <2>5 DEF WokenPop
  <2>6. ASSUME NEW t \in Thread, Rewait(t) \/ WokenThrow(t) \/ SpuriousWake(t)
        PROVE  UNCHANGED Fifo!fifoVars
    BY <2>6 DEF Rewait, WokenThrow, SpuriousWake
  <2>7. CASE UNCHANGED vars
    BY <2>7 DEF vars
  <2>8. QED
    BY <2>1, <2>3, <2>4, <2>5, <2>6, <2>7 DEF Next, WokenStep
<1>3. QED
  BY <1>1, <1>2, TypeCorrect, PTL DEF Spec, ImplementsFifo
=============================================================================
