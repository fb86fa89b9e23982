--------------------------- MODULE HazardPointers ---------------------------
(***************************************************************************)
(* Lock_free/hazard_pointer.cpp, the array hazard_pointers: a thread that  *)
(* needs a hazard pointer looks for a free slot from the first on, keeps   *)
(* it as long as it lives, and frees it when it ends.  A thread that finds *)
(* no free slot gets an exception, and looks again the next time.          *)
(*                                                                         *)
(* One action per access to the array.                                     *)
(***************************************************************************)
EXTENDS Naturals, FiniteSets

CONSTANTS Thread,
          max_hazard_pointers,
          NoThread,     \* std::thread::id()
          Address,      \* what can be protected
          NoAddress     \* a null pointer

ASSUME HazardAssumption == /\ IsFiniteSet(Thread)
                           /\ max_hazard_pointers \in Nat
                           /\ NoThread \notin Thread
                           /\ NoAddress \notin Address

VARIABLES id, pointer,  \* hazard_pointers
          slot,         \* the slot of a thread's hp_owner, 0 if it has none
          scan,         \* the slot a constructor looks at, 0 outside of it
          leaving,      \* the threads inside the destructor
          crowded       \* history: slots have been short at some time

hpVars == <<id, pointer, slot, scan, leaving, crowded>>

Slot == 1..max_hazard_pointers

HpInit == /\ id = [i \in Slot |-> NoThread]
          /\ pointer = [i \in Slot |-> NoAddress]
          /\ slot = [t \in Thread |-> 0]
          /\ scan = [t \in Thread |-> 0]
          /\ leaving = {}
          /\ crowded = FALSE

\* More threads have a slot, or are looking for one, than there are slots.
Crowded == Cardinality({t \in Thread : slot[t] # 0 \/ scan[t] # 0}) > max_hazard_pointers
-----------------------------------------------------------------------------
\* The first use of the thread_local hazard constructs it.
Construct(t) == /\ slot[t] = 0 /\ scan[t] = 0
                /\ scan' = [scan EXCEPT ![t] = 1]
                /\ UNCHANGED <<id, pointer, slot, leaving>>
                /\ crowded' = (crowded \/ Crowded')

\* Mutant of Claim: the id is stored, whoever had the slot.
Claim_Store(t) == /\ scan[t] \in Slot
                  /\ id' = [id EXCEPT ![scan[t]] = t]
                  /\ slot' = [slot EXCEPT ![t] = scan[t]]
                  /\ scan' = [scan EXCEPT ![t] = 0]
                  /\ UNCHANGED <<pointer, leaving, crowded>>

Claim(t) == /\ scan[t] \in Slot
            /\ id[scan[t]] = NoThread
            /\ id' = [id EXCEPT ![scan[t]] = t]
            /\ slot' = [slot EXCEPT ![t] = scan[t]]
            /\ scan' = [scan EXCEPT ![t] = 0]
            /\ UNCHANGED <<pointer, leaving, crowded>>

\* Mutant of Skip: the comparison may fail on a free slot.
Skip_Spurious(t) == /\ scan[t] \in Slot
                    /\ scan' = [scan EXCEPT ![t] = @ + 1]
                    /\ UNCHANGED <<id, pointer, slot, leaving, crowded>>

Skip(t) == /\ scan[t] \in Slot
           /\ id[scan[t]] # NoThread
           /\ scan' = [scan EXCEPT ![t] = @ + 1]
           /\ UNCHANGED <<id, pointer, slot, leaving, crowded>>

\* "No hazard pointers available"
Throw(t) == /\ scan[t] = max_hazard_pointers + 1
            /\ scan' = [scan EXCEPT ![t] = 0]
            /\ UNCHANGED <<id, pointer, slot, leaving, crowded>>

\* hp.store(p) by the thread that holds hp.
Store(t, p) == /\ slot[t] # 0 /\ t \notin leaving
               /\ pointer' = [pointer EXCEPT ![slot[t]] = p]
               /\ UNCHANGED <<id, slot, scan, leaving, crowded>>

\* The thread ends: the destructor clears the pointer, then the id.
ExitClear(t) == /\ slot[t] # 0 /\ t \notin leaving
                /\ pointer' = [pointer EXCEPT ![slot[t]] = NoAddress]
                /\ leaving' = leaving \cup {t}
                /\ UNCHANGED <<id, slot, scan, crowded>>

ExitFree(t) == /\ t \in leaving
               /\ id' = [id EXCEPT ![slot[t]] = NoThread]
               /\ slot' = [slot EXCEPT ![t] = 0]
               /\ leaving' = leaving \ {t}
               /\ UNCHANGED <<pointer, scan, crowded>>

HpStep(t) == \/ Construct(t) \/ Claim(t) \/ Skip(t) \/ Throw(t)
             \/ \E p \in Address \cup {NoAddress} : Store(t, p)
             \/ ExitClear(t) \/ ExitFree(t)

HpNext == \E t \in Thread : HpStep(t)

HpSpec == HpInit /\ [][HpNext]_hpVars
-----------------------------------------------------------------------------
\* The array, and where each thread is in it.
HpTypeOK == /\ id \in [Slot -> Thread \cup {NoThread}]
            /\ pointer \in [Slot -> Address \cup {NoAddress}]
            /\ slot \in [Thread -> Slot \cup {0}]
            /\ scan \in [Thread -> 0..max_hazard_pointers + 1]
            /\ leaving \subseteq Thread
            /\ crowded \in BOOLEAN

(***************************************************************************)
(* A slot belongs to the thread whose hp_owner names it, and to no other,  *)
(* so that no thread's pointer is overwritten by another; and a free slot  *)
(* protects nothing, so that a dead thread holds up no deletion.           *)
(***************************************************************************)
SlotsOwned ==
    /\ \A t \in Thread, i \in Slot : slot[t] = i <=> id[i] = t
    /\ \A i \in Slot : id[i] = NoThread => pointer[i] = NoAddress
    /\ \A t \in Thread : slot[t] # 0 => scan[t] = 0
    /\ \A t \in leaving : slot[t] # 0 /\ pointer[slot[t]] = NoAddress

(***************************************************************************)
(* The exception means that at some time more threads than there are slots *)
(* had one or were looking for one.  A search does not see the array at    *)
(* one instant: slots it has passed become free, and it could miss them    *)
(* all; but it does not while the slots are enough.                        *)
(***************************************************************************)
ThrowsOnlyIfTooMany ==
    (\E t \in Thread : scan[t] > max_hazard_pointers) => crowded
=============================================================================
