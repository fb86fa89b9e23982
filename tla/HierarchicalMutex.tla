------------------------- MODULE HierarchicalMutex -------------------------
(***************************************************************************)
(* Sharing_data/hierarchical_mutex.h: mutexes with a level.  A thread-     *)
(* local value remembers the level of the mutex the thread locked last,    *)
(* each mutex remembers the value it replaced, and lock and try_lock throw *)
(* unless the new level is below that value.                               *)
(*                                                                         *)
(* The clients are those of hierarchical_mutex_example.cpp: they lock      *)
(* through std::lock_guard objects, so a thread unlocks the mutexes it     *)
(* holds in the opposite order, also when an exception unwinds its stack.  *)
(***************************************************************************)
EXTENDS Naturals, Sequences

CONSTANTS Thread, Mutex,
          hierarchy_value,  \* the level of every mutex
          ULONG_MAX,
          NoThread          \* the owner of a free mutex

ASSUME HierarchyAssumption ==
    /\ ULONG_MAX \in Nat
    /\ hierarchy_value \in [Mutex -> 0..ULONG_MAX]
    /\ NoThread \notin Thread

VARIABLES owner,                        \* internal_mutex of every mutex
          previous_hierarchy_value,     \* of every mutex
          this_thread_hierarchy_value,  \* of every thread
          guards,                       \* its lock_guards, the newest last
          pc,                           \* running, locking or unwinding
          wanted                        \* the mutex a thread is locking

vars == <<owner, previous_hierarchy_value, this_thread_hierarchy_value,
          guards, pc, wanted>>

Init == /\ owner = [m \in Mutex |-> NoThread]
        /\ previous_hierarchy_value = [m \in Mutex |-> 0]
        /\ this_thread_hierarchy_value = [t \in Thread |-> ULONG_MAX]
        /\ guards = [t \in Thread |-> <<>>]
        /\ pc = [t \in Thread |-> "running"]
        /\ wanted \in [Thread -> Mutex]

\* Mutant of Violates: a second mutex of the same level is let through.
Violates_EqualAllowed(t, m) ==
    this_thread_hierarchy_value[t] < hierarchy_value[m]

\* check_for_hierarchy_violation throws.
Violates(t, m) == this_thread_hierarchy_value[t] <= hierarchy_value[m]

\* Mutant of Acquire: the value becomes the bound of the next level instead of
\* the level, and wraps below zero.
Acquire_NextBound(t, m) ==
    /\ owner[m] = NoThread
    /\ owner' = [owner EXCEPT ![m] = t]
    /\ previous_hierarchy_value' =
           [previous_hierarchy_value EXCEPT ![m] = this_thread_hierarchy_value[t]]
    /\ this_thread_hierarchy_value' =
           [this_thread_hierarchy_value EXCEPT ![t] = hierarchy_value[m] - 1]
    /\ guards' = [guards EXCEPT ![t] = Append(@, m)]

\* internal_mutex is locked by t and update_hierarchy_value runs.
Acquire(t, m) ==
    /\ owner[m] = NoThread
    /\ owner' = [owner EXCEPT ![m] = t]
    /\ previous_hierarchy_value' =
           [previous_hierarchy_value EXCEPT ![m] = this_thread_hierarchy_value[t]]
    /\ this_thread_hierarchy_value' =
           [this_thread_hierarchy_value EXCEPT ![t] = hierarchy_value[m]]
    /\ guards' = [guards EXCEPT ![t] = Append(@, m)]

\* lock: the check, and then internal_mutex.lock(), which may block.
LockCheck(t, m) ==
    /\ pc[t] = "running"
    /\ ~Violates(t, m)
    /\ pc' = [pc EXCEPT ![t] = "locking"]
    /\ wanted' = [wanted EXCEPT ![t] = m]
    /\ UNCHANGED <<owner, previous_hierarchy_value,
                   this_thread_hierarchy_value, guards>>

LockAcquire(t) ==
    /\ pc[t] = "locking"
    /\ Acquire(t, wanted[t])
    /\ pc' = [pc EXCEPT ![t] = "running"]
    /\ UNCHANGED wanted

TryLockAcquire(t, m) ==
    /\ pc[t] = "running"
    /\ ~Violates(t, m)
    /\ Acquire(t, m)
    /\ UNCHANGED <<pc, wanted>>

\* try_lock may fail even if nobody holds the mutex.
TryLockFails(t, m) ==
    /\ pc[t] = "running"
    /\ ~Violates(t, m)
    /\ UNCHANGED vars

\* Mutant of Throw: the check comes after internal_mutex.lock().
Throw_AfterLocking(t, m) ==
    /\ pc[t] = "running"
    /\ Violates(t, m)
    /\ owner[m] = NoThread
    /\ owner' = [owner EXCEPT ![m] = t]
    /\ pc' = [pc EXCEPT ![t] = "unwinding"]
    /\ UNCHANGED <<previous_hierarchy_value, this_thread_hierarchy_value,
                   guards, wanted>>

\* lock and try_lock throw before they have changed anything.
Throw(t, m) ==
    /\ pc[t] = "running"
    /\ Violates(t, m)
    /\ pc' = [pc EXCEPT ![t] = "unwinding"]
    /\ UNCHANGED <<owner, previous_hierarchy_value,
                   this_thread_hierarchy_value, guards, wanted>>

\* The exception may be caught at any level of the stack.
Catch(t) ==
    /\ pc[t] = "unwinding"
    /\ pc' = [pc EXCEPT ![t] = "running"]
    /\ UNCHANGED <<owner, previous_hierarchy_value,
                   this_thread_hierarchy_value, guards, wanted>>

\* Mutant of Unlock: the thread's value is not put back.
Unlock_NotRestored(t) ==
    /\ pc[t] # "locking"
    /\ guards[t] # <<>>
    /\ LET n == Len(guards[t])
           m == guards[t][n]
       IN  /\ owner' = [owner EXCEPT ![m] = NoThread]
           /\ guards' = [guards EXCEPT ![t] = SubSeq(@, 1, n - 1)]
    /\ UNCHANGED <<previous_hierarchy_value, this_thread_hierarchy_value, pc,
                   wanted>>

\* The destructor of the newest lock_guard.
Unlock(t) ==
    /\ pc[t] # "locking"
    /\ guards[t] # <<>>
    /\ LET n == Len(guards[t])
           m == guards[t][n]
       IN  /\ this_thread_hierarchy_value' =
                  [this_thread_hierarchy_value EXCEPT
                      ![t] = previous_hierarchy_value[m]]
           /\ owner' = [owner EXCEPT ![m] = NoThread]
           /\ guards' = [guards EXCEPT ![t] = SubSeq(@, 1, n - 1)]
    /\ UNCHANGED <<previous_hierarchy_value, pc, wanted>>

Next == \E t \in Thread :
            \/ LockAcquire(t) \/ Catch(t) \/ Unlock(t)
            \/ \E m \in Mutex : \/ LockCheck(t, m) \/ TryLockAcquire(t, m)
                                \/ TryLockFails(t, m) \/ Throw(t, m)

Spec == Init /\ [][Next]_vars
-----------------------------------------------------------------------------
\* Every variable holds a value of its C++ type.
TypeOK ==
    /\ owner \in [Mutex -> Thread \cup {NoThread}]
    /\ previous_hierarchy_value \in [Mutex -> 0..ULONG_MAX]
    /\ this_thread_hierarchy_value \in [Thread -> 0..ULONG_MAX]
    /\ guards \in [Thread -> Seq(Mutex)]
    /\ pc \in [Thread -> {"running", "locking", "unwinding"}]
    /\ wanted \in [Thread -> Mutex]

(***************************************************************************)
(* The one number a thread keeps is enough to judge all the mutexes it     *)
(* holds: it is the level of the newest of them (or the initial value),    *)
(* although it is saved and restored through fields of the mutexes, and    *)
(* the levels of the mutexes a thread holds fall from guard to guard.      *)
(***************************************************************************)
LevelsTracked ==
    \A t \in Thread :
        LET held == guards[t] IN
        /\ this_thread_hierarchy_value[t] =
               IF held = <<>> THEN ULONG_MAX ELSE hierarchy_value[held[Len(held)]]
        /\ \A i, j \in 1..Len(held) :
               i < j => hierarchy_value[held[i]] > hierarchy_value[held[j]]

\* t is inside internal_mutex.lock() of a mutex that a thread of S owns.
WaitsFor(t, S) == pc[t] = "locking" /\ owner[wanted[t]] \in S

\* What the hierarchy is for: no threads wait for each other in a circle, and
\* none for itself.
NoCircularWait ==
    \A S \in SUBSET Thread : S # {} => \E t \in S : ~WaitsFor(t, S)

\* An exception thrown by the check cannot leave a mutex locked: what a thread
\* has locked is what its guards will unlock.
GuardsOwn ==
    \A m \in Mutex, t \in Thread :
        owner[m] = t <=> \E i \in 1..Len(guards[t]) : guards[t][i] = m
=============================================================================
