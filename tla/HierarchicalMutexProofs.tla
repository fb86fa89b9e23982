---------------------- MODULE HierarchicalMutexProofs ----------------------
(***************************************************************************)
(* Threads that lock through hierarchical_mutex never wait for each other  *)
(* in a circle, for any threads, mutexes and levels.                       *)
(***************************************************************************)
EXTENDS HierarchicalMutex, SequenceTheorems, WellFoundedInduction, TLAPS

\* Each mutex a thread holds keeps what the value was before: the level of the
\* mutex held next to it, or the initial value.
PreviousInv ==
    \A t \in Thread : \A i \in 1..Len(guards[t]) :
        previous_hierarchy_value[guards[t][i]] =
            IF i = 1 THEN ULONG_MAX ELSE hierarchy_value[guards[t][i - 1]]

\* A thread that waits has passed the check, and its value has not changed.
WaitInv == \A t \in Thread : pc[t] = "locking" => ~Violates(t, wanted[t])

IInv == TypeOK /\ LevelsTracked /\ PreviousInv /\ GuardsOwn /\ WaitInv
-----------------------------------------------------------------------------
\* A new mutex goes to the end of a thread's guards.
LEMMA AppendFacts ==
    ASSUME NEW s \in Seq(Mutex), NEW m \in Mutex
    PROVE  /\ Append(s, m) \in Seq(Mutex)
           /\ Len(Append(s, m)) = Len(s) + 1
           /\ \A i \in 1..Len(s) : Append(s, m)[i] = s[i]
           /\ Append(s, m)[Len(s) + 1] = m
           /\ Append(s, m) # <<>>
  OBVIOUS

\* The newest guard goes first.
LEMMA DropLastFacts ==
    ASSUME NEW s \in Seq(Mutex), s # <<>>
    PROVE  /\ Len(s) \in Nat \ {0}
           /\ s[Len(s)] \in Mutex
           /\ SubSeq(s, 1, Len(s) - 1) \in Seq(Mutex)
           /\ Len(SubSeq(s, 1, Len(s) - 1)) = Len(s) - 1
           /\ \A i \in 1..(Len(s) - 1) : SubSeq(s, 1, Len(s) - 1)[i] = s[i]
           /\ SubSeq(s, 1, Len(s) - 1) = <<>> <=> Len(s) = 1
<1> DEFINE k == Len(s) - 1
           r == SubSeq(s, 1, k)
<1>1. Len(s) \in Nat \ {0} /\ \A i \in 1..Len(s) : s[i] \in Mutex
  BY EmptySeq, LenProperties
<1>2. k \in Nat /\ k < Len(s)
  BY <1>1
<1> HIDE DEF k
<1>3. r \in Seq(Mutex)
  BY <1>2
<1>4. Len(r) = k /\ \A i \in 1..k : r[i] = s[i]
  BY <1>2
<1>5. Len(r) = 0 <=> r = <<>>
  BY <1>3, EmptySeq, Zenon
<1> USE DEF k
<1>6. QED
  BY <1>1, <1>3, <1>4, <1>5

\* A mutex that is free is held by nobody, and taking one whose level is below
\* the thread's value keeps the books.
LEMMA AcquireStep ==
    ASSUME IInv, NEW t \in Thread, NEW m \in Mutex, ~Violates(t, m),
           Acquire(t, m)
    PROVE  /\ owner' \in [Mutex -> Thread \cup {NoThread}]
           /\ previous_hierarchy_value' \in [Mutex -> 0..ULONG_MAX]
           /\ this_thread_hierarchy_value' \in [Thread -> 0..ULONG_MAX]
           /\ guards' \in [Thread -> Seq(Mutex)]
           /\ LevelsTracked' /\ PreviousInv' /\ GuardsOwn'
<1> USE HierarchyAssumption DEF IInv
<1> DEFINE held == guards[t]
           n    == Len(held)
           now  == Append(held, m)
<1>1. /\ held \in Seq(Mutex) /\ n \in Nat
      /\ \A i \in 1..n : held[i] \in Mutex
      /\ held # <<>> <=> n # 0
  BY EmptySeq, LenProperties DEF TypeOK
<1>2. /\ guards' = [guards EXCEPT ![t] = now]
      /\ guards'[t] = now
      /\ \A u \in Thread \ {t} : guards'[u] = guards[u]
  BY DEF Acquire, TypeOK
<1>3. /\ now \in Seq(Mutex) /\ Len(now) = n + 1 /\ now # <<>>
      /\ \A i \in 1..n : now[i] = held[i]
      /\ now[n + 1] = m
  BY <1>1, AppendFacts
<1>4. \A u \in Thread : \A i \in 1..Len(guards[u]) : guards[u][i] \in Mutex /\ guards[u][i] # m
  <2>1. \A u \in Thread : \A i \in 1..Len(guards[u]) : guards[u][i] \in Mutex
    BY LenProperties DEF TypeOK
  <2>2. QED
    BY <2>1 DEF GuardsOwn, Acquire
<1>5. /\ owner' \in [Mutex -> Thread \cup {NoThread}]
      /\ previous_hierarchy_value' \in [Mutex -> 0..ULONG_MAX]
      /\ this_thread_hierarchy_value' \in [Thread -> 0..ULONG_MAX]
      /\ guards' \in [Thread -> Seq(Mutex)]
  BY <1>2, <1>3 DEF Acquire, TypeOK
<1>6. LevelsTracked'
  <2> SUFFICES ASSUME NEW u \in Thread
               PROVE  /\ this_thread_hierarchy_value'[u] =
                             IF guards'[u] = <<>> THEN ULONG_MAX
                             ELSE hierarchy_value[guards'[u][Len(guards'[u])]]
                      /\ \A i, j \in 1..Len(guards'[u]) : i < j =>
                             hierarchy_value[guards'[u][i]] > hierarchy_value[guards'[u][j]]
    BY DEF LevelsTracked
  <2>1. CASE u # t
    BY <1>2, <2>1 DEF LevelsTracked, Acquire, TypeOK
  <2>2. CASE u = t
    <3>1. this_thread_hierarchy_value'[t] = hierarchy_value[now[Len(now)]]
      BY <1>3 DEF Acquire, TypeOK
    <3>2. \A i \in 1..n : hierarchy_value[held[i]] > hierarchy_value[m]
      <4>1. CASE n = 0
        BY <4>1
      <4>2. CASE n # 0
        <5>1. hierarchy_value[held[n]] > hierarchy_value[m]
          BY <1>1, <4>2 DEF LevelsTracked, Violates, TypeOK
        <5>2. \A i \in 1..n : i # n => hierarchy_value[held[i]] > hierarchy_value[held[n]]
          BY <1>1, <4>2 DEF LevelsTracked
        <5>3. QED
          BY <1>1, <5>1, <5>2
      <4>3. QED
        BY <4>1, <4>2
    <3>3. ASSUME NEW i \in 1..Len(now), NEW j \in 1..Len(now), i < j
          PROVE  hierarchy_value[now[i]] > hierarchy_value[now[j]]
      <4>1. CASE j = n + 1
        BY <1>1, <1>3, <3>2, <3>3, <4>1
      <4>2. CASE j # n + 1
        BY <1>1, <1>3, <3>3, <4>2 DEF LevelsTracked
      <4>3. QED
        BY <4>1, <4>2
    <3>4. QED
      BY <1>2, <1>3, <2>2, <3>1, <3>3
  <2>3. QED
    BY <2>1, <2>2
<1>7. PreviousInv'
  <2> SUFFICES ASSUME NEW u \in Thread, NEW i \in 1..Len(guards'[u])
               PROVE  previous_hierarchy_value'[guards'[u][i]] =
                          IF i = 1 THEN ULONG_MAX
                          ELSE hierarchy_value[guards'[u][i - 1]]
    BY DEF PreviousInv
  <2>1. CASE u # t
    <3>1. guards'[u] = guards[u] /\ guards[u][i] \in Mutex /\ guards[u][i] # m
      BY <1>2, <1>4, <2>1
    <3>2. previous_hierarchy_value'[guards[u][i]] = previous_hierarchy_value[guards[u][i]]
      BY <3>1 DEF Acquire, TypeOK
    <3>3. QED
      BY <3>1, <3>2 DEF PreviousInv
  <2>2. CASE u = t /\ i # n + 1
    <3>1. i \in 1..n /\ now[i] = held[i] /\ (i # 1 => now[i - 1] = held[i - 1])
      BY <1>1, <1>2, <1>3, <2>2
    <3>2. previous_hierarchy_value'[held[i]] = previous_hierarchy_value[held[i]]
      BY <1>4, <3>1 DEF Acquire, TypeOK
    <3>3. QED
      BY <1>2, <2>2, <3>1, <3>2 DEF PreviousInv
  <2>3. CASE u = t /\ i = n + 1
    <3>1. previous_hierarchy_value'[m] = this_thread_hierarchy_value[t]
      BY DEF Acquire, TypeOK
    <3>2. this_thread_hierarchy_value[t] =
              IF n = 0 THEN ULONG_MAX ELSE hierarchy_value[held[n]]
      BY <1>1 DEF LevelsTracked
    <3>3. n # 0 => now[n] = held[n]
      BY <1>1, <1>3
    <3>4. QED
      BY <1>1, <1>2, <1>3, <2>3, <3>1, <3>2, <3>3
  <2>4. QED
    BY <2>1, <2>2, <2>3
<1>8. GuardsOwn'
  <2> SUFFICES ASSUME NEW k \in Mutex, NEW u \in Thread
               PROVE  owner'[k] = u <=> \E i \in 1..Len(guards'[u]) : guards'[u][i] = k
    BY DEF GuardsOwn
  <2>1. CASE u # t
    BY <1>2, <1>4, <2>1 DEF GuardsOwn, Acquire, TypeOK
  <2>2. CASE u = t /\ k = m
    BY <1>1, <1>2, <1>3, <2>2 DEF Acquire, TypeOK
  <2>3. CASE u = t /\ k # m
    <3>1. owner'[k] = owner[k]
      BY <2>3 DEF Acquire, TypeOK
    <3>2. (\E i \in 1..(n + 1) : now[i] = k) <=> \E i \in 1..n : held[i] = k
      BY <1>1, <1>3, <2>3
    <3>3. QED
      BY <1>2, <1>3, <2>3, <3>1, <3>2 DEF GuardsOwn
  <2>4. QED
    BY <2>1, <2>2, <2>3
<1>9. QED
  BY <1>5, <1>6, <1>7, <1>8

\* The newest guard's mutex is the thread's own and nobody else's, and giving
\* it back restores the value that goes with the guards that remain.
LEMMA UnlockStep ==
    ASSUME IInv, NEW t \in Thread, Unlock(t)
    PROVE  TypeOK' /\ LevelsTracked' /\ PreviousInv' /\ GuardsOwn'
<1> USE HierarchyAssumption DEF IInv
<1> DEFINE held == guards[t]
           n    == Len(held)
           m    == held[n]
           rest == SubSeq(held, 1, n - 1)
<1>1. /\ n \in Nat \ {0} /\ m \in Mutex
      /\ rest \in Seq(Mutex) /\ Len(rest) = n - 1
      /\ \A i \in 1..(n - 1) : rest[i] = held[i]
      /\ rest = <<>> <=> n = 1
  <2>1. held \in Seq(Mutex) /\ held # <<>>
    BY DEF TypeOK, Unlock
  <2>2. QED
    BY <2>1, DropLastFacts
<1>2. /\ this_thread_hierarchy_value' =
             [this_thread_hierarchy_value EXCEPT ![t] = previous_hierarchy_value[m]]
      /\ owner' = [owner EXCEPT ![m] = NoThread]
      /\ guards' = [guards EXCEPT ![t] = rest]
      /\ UNCHANGED <<previous_hierarchy_value, pc, wanted>>
  BY DEF Unlock
<1>3. guards'[t] = rest /\ \A u \in Thread \ {t} : guards'[u] = guards[u]
  BY <1>2 DEF TypeOK
<1>4. \A i \in 1..n : held[i] \in Mutex
  BY LenProperties DEF TypeOK
<1>5. TypeOK'
  BY <1>1, <1>2 DEF TypeOK
<1>6. LevelsTracked'
  <2> SUFFICES ASSUME NEW u \in Thread
               PROVE  /\ this_thread_hierarchy_value'[u] =
                             IF guards'[u] = <<>> THEN ULONG_MAX
                             ELSE hierarchy_value[guards'[u][Len(guards'[u])]]
                      /\ \A i, j \in 1..Len(guards'[u]) : i < j =>
                             hierarchy_value[guards'[u][i]] > hierarchy_value[guards'[u][j]]
    BY DEF LevelsTracked
  <2>1. CASE u # t
    BY <1>2, <1>3, <2>1 DEF LevelsTracked, TypeOK
  <2>2. CASE u = t
    <3>1. this_thread_hierarchy_value'[t] = previous_hierarchy_value[m]
      BY <1>2 DEF TypeOK
    <3>2. previous_hierarchy_value[m] =
              IF n = 1 THEN ULONG_MAX ELSE hierarchy_value[held[n - 1]]
      BY <1>1 DEF PreviousInv
    <3>3. n # 1 => rest[Len(rest)] = held[n - 1]
      BY <1>1
    <3>4. ASSUME NEW i \in 1..Len(rest), NEW j \in 1..Len(rest), i < j
          PROVE  hierarchy_value[rest[i]] > hierarchy_value[rest[j]]
      <4>1. i \in 1..n /\ j \in 1..n /\ rest[i] = held[i] /\ rest[j] = held[j]
        BY <1>1
      <4>2. QED
        BY <3>4, <4>1 DEF LevelsTracked
    <3>5. QED
      BY <1>1, <1>3, <2>2, <3>1, <3>2, <3>3, <3>4
  <2>3. QED
    BY <2>1, <2>2
<1>7. PreviousInv'
  <2> SUFFICES ASSUME NEW u \in Thread, NEW i \in 1..Len(guards'[u])
               PROVE  previous_hierarchy_value[guards'[u][i]] =
                          IF i = 1 THEN ULONG_MAX
                          ELSE hierarchy_value[guards'[u][i - 1]]
    BY <1>2 DEF PreviousInv
  <2>1. CASE u # t
    BY <1>3, <2>1 DEF PreviousInv
  <2>2. CASE u = t
    <3>1. /\ i \in 1..n /\ rest[i] = held[i]
          /\ i # 1 => rest[i - 1] = held[i - 1]
      BY <1>1, <1>3, <2>2
    <3>2. QED
      BY <1>3, <2>2, <3>1 DEF PreviousInv
  <2>3. QED
    BY <2>1, <2>2
<1>8. GuardsOwn'
  <2> SUFFICES ASSUME NEW k \in Mutex, NEW u \in Thread
               PROVE  owner'[k] = u <=> \E i \in 1..Len(guards'[u]) : guards'[u][i] = k
    BY DEF GuardsOwn
  <2>1. owner[m] = t
    BY <1>1 DEF GuardsOwn
  <2>2. CASE u # t
    <3>1. owner'[k] = u <=> owner[k] = u
      BY <1>1, <1>2, <2>1, <2>2 DEF TypeOK
    <3>2. QED
      BY <1>3, <2>2, <3>1 DEF GuardsOwn
  <2>3. CASE u = t /\ k = m
    <3>1. \A i \in 1..(n - 1) : rest[i] # m
      <4>1. ASSUME NEW i \in 1..(n - 1) PROVE held[i] # m
        <5>1. i \in 1..n /\ n \in 1..n /\ i < n
          BY <1>1
        <5>2. hierarchy_value[held[i]] > hierarchy_value[held[n]]
          BY <5>1 DEF LevelsTracked
        <5>3. QED
          BY <1>1, <1>4, <5>1, <5>2
      <4>2. QED
        BY <1>1, <4>1
    <3>2. QED
      BY <1>1, <1>2, <1>3, <2>3, <3>1 DEF TypeOK
  <2>4. CASE u = t /\ k # m
    <3>1. owner'[k] = owner[k]
      BY <1>1, <1>2, <2>4 DEF TypeOK
    <3>2. (\E i \in 1..(n - 1) : rest[i] = k) <=> \E i \in 1..n : held[i] = k
      BY <1>1, <2>4
    <3>3. QED
      <4>1. owner[k] = t <=> \E i \in 1..n : held[i] = k
        BY DEF GuardsOwn
      <4>2. QED
        BY <1>1, <1>3, <2>4, <3>1, <3>2, <4>1
  <2>5. QED
    BY <2>2, <2>3, <2>4
<1>9. QED
  BY <1>5, <1>6, <1>7, <1>8

LEMMA Inductive == Spec => []IInv
<1>1. Init => IInv
  <2> SUFFICES ASSUME Init PROVE IInv
    OBVIOUS
  <2> USE HierarchyAssumption DEF Init
  <2>1. TypeOK
    BY EmptySeq DEF TypeOK
  <2>2. \A t \in Thread : guards[t] = <<>> /\ Len(guards[t]) = 0
    BY EmptySeq
  <2>3. LevelsTracked /\ PreviousInv /\ GuardsOwn /\ WaitInv
    BY <2>2 DEF LevelsTracked, PreviousInv, GuardsOwn, WaitInv
  <2>4. QED
    BY <2>1, <2>3 DEF IInv
<1>2. IInv /\ [Next]_vars => IInv'
  <2> SUFFICES ASSUME IInv, [Next]_vars PROVE IInv'
    OBVIOUS
  <2> USE DEF IInv
  <2> DEFINE Books == LevelsTracked /\ PreviousInv /\ GuardsOwn
  <2>1. ASSUME NEW t \in Thread, LockAcquire(t) PROVE IInv'
    <3>1. wanted[t] \in Mutex /\ ~Violates(t, wanted[t])
      BY <2>1 DEF LockAcquire, TypeOK, WaitInv
    <3>2. TypeOK' /\ Books'
      BY <2>1, <3>1, AcquireStep DEF LockAcquire, TypeOK
    <3>3. WaitInv'
      BY <2>1 DEF LockAcquire, Acquire, WaitInv, Violates, TypeOK
    <3>4. QED
      BY <3>2, <3>3
  <2>2. ASSUME NEW t \in Thread, NEW m \in Mutex, TryLockAcquire(t, m) PROVE IInv'
    <3>1. TypeOK' /\ Books'
      BY <2>2, AcquireStep DEF TryLockAcquire, TypeOK
    <3>2. WaitInv'
      BY <2>2 DEF TryLockAcquire, Acquire, WaitInv, Violates, TypeOK
    <3>3. QED
      BY <3>1, <3>2
  <2>3. ASSUME NEW t \in Thread, Unlock(t) PROVE IInv'
    <3>1. TypeOK' /\ Books'
      BY <2>3, UnlockStep
    <3>2. WaitInv'
      BY <2>3 DEF Unlock, WaitInv, Violates, TypeOK
    <3>3. QED
      BY <3>1, <3>2
  <2>4. ASSUME NEW t \in Thread, NEW m \in Mutex, LockCheck(t, m) PROVE IInv'
    <3>1. Books'
      BY <2>4 DEF LockCheck, LevelsTracked, PreviousInv, GuardsOwn
    <3>2. TypeOK' /\ WaitInv'
      BY <2>4 DEF LockCheck, TypeOK, WaitInv, Violates
    <3>3. QED
      BY <3>1, <3>2
  <2>5. ASSUME NEW t \in Thread, NEW m \in Mutex, Throw(t, m) PROVE IInv'
    <3>1. Books'
      BY <2>5 DEF Throw, LevelsTracked, PreviousInv, GuardsOwn
    <3>2. TypeOK' /\ WaitInv'
      BY <2>5 DEF Throw, TypeOK, WaitInv, Violates
    <3>3. QED
      BY <3>1, <3>2
  <2>6. ASSUME NEW t \in Thread, Catch(t) PROVE IInv'
    <3>1. Books'
      BY <2>6 DEF Catch, LevelsTracked, PreviousInv, GuardsOwn
    <3>2. TypeOK' /\ WaitInv'
      BY <2>6 DEF Catch, TypeOK, WaitInv, Violates
    <3>3. QED
      BY <3>1, <3>2
  <2>7. ASSUME UNCHANGED vars PROVE IInv'
    BY <2>7 DEF vars, TypeOK, LevelsTracked, PreviousInv, GuardsOwn, WaitInv, Violates
  <2>8. QED
    BY <2>1, <2>2, <2>3, <2>4, <2>5, <2>6, <2>7 DEF Next, TryLockFails
<1>3. QED
  BY <1>1, <1>2, PTL DEF Spec

\* hierarchical_mutex.h: each variable always holds a value of its type.
THEOREM TypeCorrect == Spec => []TypeOK
<1>1. IInv => TypeOK
  BY DEF IInv
<1>2. QED
  BY <1>1, Inductive, PTL

\* hierarchical_mutex.h: the thread-local value is the level of the mutex the
\* thread locked last, and the levels it holds fall from guard to guard.
THEOREM LevelsAreTracked == Spec => []LevelsTracked
<1>1. IInv => LevelsTracked
  BY DEF IInv
<1>2. QED
  BY <1>1, Inductive, PTL

\* hierarchical_mutex.h: a mutex is locked exactly as long as a guard of its
\* owner will unlock it, whatever the check throws.
THEOREM NoMutexLeaks == Spec => []GuardsOwn
<1>1. IInv => GuardsOwn
  BY DEF IInv
<1>2. QED
  BY <1>1, Inductive, PTL

\* A waiting thread waits for a mutex that is lower than every one it holds.
LEMMA WaitsBelow ==
    ASSUME IInv, NEW t \in Thread, pc[t] = "locking",
           NEW m \in Mutex, owner[m] = t
    PROVE  hierarchy_value[wanted[t]] < hierarchy_value[m]
<1> USE HierarchyAssumption DEF IInv
<1>1. PICK i \in 1..Len(guards[t]) : guards[t][i] = m
  BY DEF GuardsOwn
<1> DEFINE n == Len(guards[t])
<1>2. /\ n \in Nat \ {0} /\ guards[t] # <<>>
      /\ \A k \in 1..n : guards[t][k] \in Mutex
  BY <1>1, EmptySeq, LenProperties DEF TypeOK
<1>3. hierarchy_value[wanted[t]] < hierarchy_value[guards[t][n]]
  BY <1>2 DEF LevelsTracked, WaitInv, Violates, TypeOK
<1>4. i # n => hierarchy_value[m] > hierarchy_value[guards[t][n]]
  BY <1>1, <1>2 DEF LevelsTracked
<1>5. wanted[t] \in Mutex /\ guards[t][n] \in Mutex
  BY <1>2 DEF TypeOK
<1>6. QED
  BY <1>1, <1>3, <1>4, <1>5

\* hierarchical_mutex.h: no threads wait for each other in a circle.  Among
\* them one would wait for the lowest mutex, but the thread that owns that
\* mutex waits for a lower one.
THEOREM DeadlockFreedom == Spec => []NoCircularWait
<1>1. IInv => NoCircularWait
  <2> SUFFICES ASSUME IInv, NEW S \in SUBSET Thread, S # {},
                      \A t \in S : WaitsFor(t, S)
               PROVE  FALSE
    BY DEF NoCircularWait
  <2> DEFINE levels == {hierarchy_value[wanted[t]] : t \in S}
  <2>1. levels # {} /\ levels \subseteq Nat
    BY HierarchyAssumption DEF IInv, TypeOK
  <2>2. PICK low \in levels : \A k \in levels : <<k, low>> \notin OpToRel(<, Nat)
    BY <2>1, NatLessThanWellFounded, WFMin
  <2>3. PICK t \in S : low = hierarchy_value[wanted[t]]
    BY <2>2
  <2>4. PICK u \in S : owner[wanted[t]] = u
    BY <2>3 DEF WaitsFor
  <2>5. hierarchy_value[wanted[u]] < low
    BY <2>3, <2>4, WaitsBelow DEF WaitsFor, IInv, TypeOK
  <2>6. QED
    BY <2>1, <2>2, <2>4, <2>5 DEF OpToRel
<1>2. QED
  BY <1>1, Inductive, PTL
=============================================================================
