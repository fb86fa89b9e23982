-------------------------- MODULE HazardStackProofs -------------------------
(***************************************************************************)
(* The array of hazard pointers gives every thread a slot of its own, and  *)
(* while there are enough slots no search for one fails.  The stack that   *)
(* relies on it reads no deleted node, deletes every node once and is a    *)
(* stack whose operations are atomic.  All this for any threads, memory    *)
(* and values and any size of the array.                                   *)
(***************************************************************************)
EXTENDS HazardStack, FiniteSetTheorems, SequenceTheorems, WellFoundedInduction, TLAPS

\* How far into the array a thread is, searching or settled.
Position(t) == IF scan[t] # 0 THEN scan[t] ELSE slot[t]
Ahead(i) == {t \in Thread : Position(t) > i}

(***************************************************************************)
(* Why a search does not fail although it never sees the whole array: a    *)
(* search that moves past slot i leaves its owner behind there, so there   *)
(* are never more threads beyond slot i than there are slots.              *)
(***************************************************************************)
RoomAhead == \A i \in 0..max_hazard_pointers :
                 Cardinality(Ahead(i)) + i <= max_hazard_pointers

\* A step on the array leaves every slot with one owner.
LEMMA OwnedStep ==
    ASSUME HpTypeOK, SlotsOwned, [HpNext]_hpVars
    PROVE  HpTypeOK' /\ SlotsOwned'
<1> USE HazardAssumption DEF Slot
<1> USE DEF HpTypeOK, SlotsOwned
<1>1. ASSUME NEW t \in Thread, Construct(t) PROVE HpTypeOK' /\ SlotsOwned'
  BY <1>1 DEF Construct
<1>2. ASSUME NEW t \in Thread, Claim(t) PROVE HpTypeOK' /\ SlotsOwned'
  <2>1. /\ scan[t] \in Slot /\ id[scan[t]] = NoThread
        /\ slot[t] = 0 /\ scan'[t] = 0 /\ slot'[t] = scan[t]
        /\ t \notin leaving /\ leaving' = leaving
        /\ \A u \in Thread \ {t} : slot'[u] = slot[u] /\ scan'[u] = scan[u]
        /\ \A i \in Slot : id'[i] = IF i = scan[t] THEN t ELSE id[i]
    BY <1>2 DEF Claim
  <2>2. HpTypeOK'
    BY <1>2 DEF Claim
  <2>3. \A u \in Thread, i \in Slot : slot'[u] = i <=> id'[i] = u
    BY <2>1
  <2>4. \A u \in leaving' : slot'[u] # 0 /\ pointer'[slot'[u]] = NoAddress
    BY <1>2, <2>1 DEF Claim
  <2>5. QED
    BY <1>2, <2>1, <2>2, <2>3, <2>4 DEF Claim
<1>3. ASSUME NEW t \in Thread, Skip(t) PROVE HpTypeOK' /\ SlotsOwned'
  BY <1>3 DEF Skip
<1>4. ASSUME NEW t \in Thread, Throw(t) PROVE HpTypeOK' /\ SlotsOwned'
  BY <1>4 DEF Throw
<1>5. ASSUME NEW t \in Thread, NEW p \in Address \cup {NoAddress}, Store(t, p)
      PROVE  HpTypeOK' /\ SlotsOwned'
  <2>1. \A u \in leaving : slot[u] # slot[t]
    BY <1>5 DEF Store
  <2>2. id[slot[t]] = t
    BY <1>5 DEF Store
  <2>3. QED
    BY <1>5, <2>1, <2>2 DEF Store
<1>6. ASSUME NEW t \in Thread, ExitClear(t) PROVE HpTypeOK' /\ SlotsOwned'
  BY <1>6 DEF ExitClear
<1>7. ASSUME NEW t \in Thread, ExitFree(t) PROVE HpTypeOK' /\ SlotsOwned'
  <2>1. slot[t] \in Slot /\ pointer[slot[t]] = NoAddress /\ id[slot[t]] = t
    BY <1>7 DEF ExitFree
  <2>2. \A u \in Thread \ {t} : slot[u] # slot[t]
    BY <2>1
  <2>3. QED
    BY <1>7, <2>1, <2>2 DEF ExitFree
<1>8. CASE UNCHANGED hpVars
  BY <1>8 DEF hpVars
<1>9. QED
  BY <1>1, <1>2, <1>3, <1>4, <1>5, <1>6, <1>7, <1>8 DEF HpNext, HpStep

\* So it is always.
LEMMA OwnedInductive == HpSpec => [](HpTypeOK /\ SlotsOwned)
<1> USE HazardAssumption DEF Slot
<1>1. HpInit => HpTypeOK /\ SlotsOwned
  <2>1. HpInit => crowded \in BOOLEAN
    BY Zenon DEF HpInit
  <2>2. QED
    BY <2>1 DEF HpInit, HpTypeOK, SlotsOwned
<1>2. HpTypeOK /\ SlotsOwned /\ [HpNext]_hpVars => (HpTypeOK /\ SlotsOwned)'
  BY OwnedStep
<1>3. QED
  BY <1>1, <1>2, PTL DEF HpSpec

\* Fewer threads beyond a slot leave no less room there.
LEMMA FewerAhead ==
    ASSUME NEW i \in 0..max_hazard_pointers, Ahead(i)' \subseteq Ahead(i),
           Cardinality(Ahead(i)) + i <= max_hazard_pointers
    PROVE  Cardinality(Ahead(i)') + i <= max_hazard_pointers
<1>1. IsFiniteSet(Ahead(i))
  BY HazardAssumption, FS_Subset DEF Ahead
<1>2. Cardinality(Ahead(i)') <= Cardinality(Ahead(i)) /\ IsFiniteSet(Ahead(i)')
  BY <1>1, FS_Subset
<1>3. Cardinality(Ahead(i)') \in Nat /\ Cardinality(Ahead(i)) \in Nat
  BY <1>1, <1>2, FS_CardinalityType
<1>4. QED
  BY <1>2, <1>3, HazardAssumption

\* Moving past an owned slot.
LEMMA SkipKeepsRoom ==
    ASSUME HpTypeOK, SlotsOwned, RoomAhead, NEW t \in Thread, Skip(t)
    PROVE  RoomAhead'
<1> USE HazardAssumption DEF Slot
<1>1. SUFFICES ASSUME NEW i \in 0..max_hazard_pointers
               PROVE  Cardinality(Ahead(i)') + i <= max_hazard_pointers
  BY DEF RoomAhead
<1>2. /\ Position(t)' = Position(t) + 1 /\ Position(t) = scan[t]
      /\ \A u \in Thread \ {t} : Position(u)' = Position(u)
  BY DEF Skip, Position, HpTypeOK
<1>3. CASE i # scan[t]
  <2>1. Ahead(i)' \subseteq Ahead(i)
    BY <1>2, <1>3 DEF Ahead, Skip
  <2>2. QED
    BY <2>1, FewerAhead DEF RoomAhead
<1>4. CASE i = scan[t]
  <2>1. PICK owner \in Thread : id[i] = owner
    BY <1>4 DEF Skip, HpTypeOK
  <2>2. slot[owner] = i /\ scan[owner] = 0 /\ owner # t /\ Position(owner) = i
    BY <2>1, <1>4 DEF Skip, SlotsOwned, Position
  <2>3. i - 1 \in 0..max_hazard_pointers /\ i \in Nat
    BY <1>4 DEF Skip
  <2> DEFINE Before == Ahead(i - 1)
  <2>4. Ahead(i)' \subseteq Before \ {owner} /\ owner \in Before
    <3>1. \A u \in Thread : Position(u) \in Nat
      BY DEF HpTypeOK, Position
    <3>2. QED
      BY <3>1, <1>2, <1>4, <2>2, <2>3 DEF Ahead
  <2>5. IsFiniteSet(Before) /\ Cardinality(Before) \in Nat
    BY FS_Subset, FS_CardinalityType DEF Ahead
  <2>6. /\ IsFiniteSet(Before \ {owner})
        /\ Cardinality(Before \ {owner}) = Cardinality(Before) - 1
    BY <2>4, <2>5, FS_RemoveElement
  <2>7. /\ Cardinality(Ahead(i)') <= Cardinality(Before \ {owner})
        /\ Cardinality(Ahead(i)') \in Nat
    BY <2>4, <2>6, FS_Subset, FS_CardinalityType
  <2>8. Cardinality(Before) + (i - 1) <= max_hazard_pointers
    BY <2>3 DEF RoomAhead
  <2>9. QED
    BY <2>3, <2>5, <2>6, <2>7, <2>8
<1>5. QED
  BY <1>3, <1>4

\* A thread begins to search: there are no more threads than slots then.
LEMMA ConstructKeepsRoom ==
    ASSUME ~crowded', HpTypeOK, HpTypeOK', RoomAhead, NEW t \in Thread, Construct(t)
    PROVE  RoomAhead'
<1> USE HazardAssumption DEF Slot
<1>1. SUFFICES ASSUME NEW i \in 0..max_hazard_pointers
               PROVE  Cardinality(Ahead(i)') + i <= max_hazard_pointers
  BY DEF RoomAhead
<1>2. CASE i = 0
  <2> DEFINE Using == {u \in Thread : slot[u] # 0 \/ scan[u] # 0}
  <2>1. Ahead(i)' = Using'
    BY <1>2 DEF Ahead, Position, HpTypeOK
  <2>2. Cardinality(Using') \in Nat
    BY FS_Subset, FS_CardinalityType
  <2>3. Cardinality(Using') <= max_hazard_pointers
    <3>1. ~Crowded'
      BY Zenon DEF Construct
    <3>2. QED
      BY <2>2, <3>1 DEF Crowded
  <2>4. QED
    BY <2>1, <2>2, <2>3, <1>2
<1>3. CASE i # 0
  <2>1. /\ Position(t)' = 1
        /\ \A u \in Thread \ {t} : Position(u)' = Position(u)
    BY DEF Construct, Position, HpTypeOK
  <2>2. Ahead(i)' \subseteq Ahead(i)
    BY <2>1, <1>3 DEF Ahead
  <2>3. QED
    BY <2>2, FewerAhead DEF RoomAhead
<1>4. QED
  BY <1>2, <1>3

\* The other steps move no thread forward.
LEMMA NoneForward ==
    ASSUME RoomAhead, \A u \in Thread : Position(u)' <= Position(u),
           \A u \in Thread : Position(u) \in Nat /\ Position(u)' \in Nat
    PROVE  RoomAhead'
<1>1. SUFFICES ASSUME NEW i \in 0..max_hazard_pointers
               PROVE  Cardinality(Ahead(i)') + i <= max_hazard_pointers
  BY DEF RoomAhead
<1>2. Ahead(i)' \subseteq Ahead(i)
  BY HazardAssumption DEF Ahead
<1>3. QED
  BY <1>2, FewerAhead DEF RoomAhead

\* There is room ahead until there have been too many threads.
LEMMA RoomInductive == HpSpec => [](crowded \/ RoomAhead)
<1> USE HazardAssumption DEF Slot
<1>1. HpInit => RoomAhead
  <2> SUFFICES ASSUME HpInit PROVE RoomAhead
    OBVIOUS
  <2>1. \A i \in 0..max_hazard_pointers : Ahead(i) = {}
    BY DEF HpInit, Ahead, Position
  <2>2. QED
    BY <2>1, FS_EmptySet DEF RoomAhead
<1>2. /\ HpTypeOK /\ HpTypeOK' /\ SlotsOwned /\ (crowded \/ RoomAhead)
      /\ [HpNext]_hpVars
      => (crowded \/ RoomAhead)'
  <2> SUFFICES ASSUME HpTypeOK, HpTypeOK', SlotsOwned, crowded \/ RoomAhead,
                      [HpNext]_hpVars, ~crowded'
               PROVE  RoomAhead'
    OBVIOUS
  <2>0. RoomAhead
    BY DEF HpNext, HpStep, Construct, Claim, Skip, Throw, Store, ExitClear,
           ExitFree, hpVars
  <2>1. \A u \in Thread : Position(u) \in Nat /\ Position(u)' \in Nat
    BY DEF HpTypeOK, Position
  <2>2. ASSUME NEW t \in Thread, Claim(t) PROVE RoomAhead'
    <3>1. \A u \in Thread : Position(u)' = Position(u)
      BY <2>2 DEF Claim, Position, HpTypeOK
    <3>2. QED
      BY <2>0, <2>1, <3>1, NoneForward
  <2>3. ASSUME NEW t \in Thread, Throw(t) \/ ExitFree(t) PROVE RoomAhead'
    <3>1. Position(t)' = 0
      BY <2>3 DEF Throw, ExitFree, Position, HpTypeOK, SlotsOwned
    <3>2. \A u \in Thread \ {t} : Position(u)' = Position(u)
      BY <2>3 DEF Throw, ExitFree, Position, HpTypeOK
    <3>3. QED
      BY <2>0, <2>1, <3>1, <3>2, NoneForward
  <2>4. CASE UNCHANGED <<slot, scan>>
    <3>1. \A u \in Thread : Position(u)' = Position(u)
      BY <2>4 DEF Position
    <3>2. QED
      BY <2>0, <2>1, <3>1, NoneForward
  <2>5. QED
    BY <2>0, <2>2, <2>3, <2>4, SkipKeepsRoom, ConstructKeepsRoom
    DEF HpNext, HpStep, Store, ExitClear, hpVars
<1>3. QED
  BY <1>1, <1>2, OwnedInductive, PTL DEF HpSpec

\* Every reachable array is well-typed (hazard_pointer.cpp:6-11).
THEOREM ArrayTypes == HpSpec => []HpTypeOK
  BY OwnedInductive, PTL

\* A slot has one owner, and a free one protects nothing (:22-50).
THEOREM ArraySlots == HpSpec => []SlotsOwned
  BY OwnedInductive, PTL

\* "No hazard pointers available" is thrown only when, at some time, there have
\* been more threads that had or wanted a slot than slots (:34-37).
THEOREM ArrayNoThrow == HpSpec => []ThrowsOnlyIfTooMany
<1>1. HpTypeOK /\ (crowded \/ RoomAhead) => ThrowsOnlyIfTooMany
  <2> SUFFICES ASSUME HpTypeOK, RoomAhead, NEW t \in Thread,
                      scan[t] > max_hazard_pointers
               PROVE  FALSE
    BY HazardAssumption DEF HpTypeOK, ThrowsOnlyIfTooMany
  <2> DEFINE Last == Ahead(max_hazard_pointers)
  <2>1. t \in Last /\ IsFiniteSet(Last)
    BY HazardAssumption, FS_Subset DEF Ahead, Position
  <2>2. Cardinality(Last) \in Nat /\ Cardinality(Last) # 0
    BY <2>1, FS_CardinalityType, FS_EmptySet
  <2>3. Cardinality(Last) + max_hazard_pointers <= max_hazard_pointers
    BY HazardAssumption DEF RoomAhead
  <2>4. QED
    BY <2>2, <2>3, HazardAssumption
<1>2. QED
  BY <1>1, OwnedInductive, RoomInductive, PTL
-----------------------------------------------------------------------------
(***************************************************************************)
(* The linked list                                                         *)
(***************************************************************************)
LEMMA LeastNumber ==
    ASSUME NEW S \in SUBSET Nat, S # {}
    PROVE  \E low \in S : \A k \in S : ~(k < low)
<1>1. PICK low \in S : \A k \in S : <<k, low>> \notin OpToRel(<, Nat)
  BY NatLessThanWellFounded, WFMin
<1>2. QED
  BY <1>1 DEF OpToRel

\* The nodes of seq are a list that begins with first.
Chain(seq, first) ==
    /\ seq \in Seq(Node)
    /\ \A i, j \in 1..Len(seq) : seq[i] = seq[j] => i = j
    /\ first = IF seq = <<>> THEN NoNode ELSE seq[1]
    /\ \A i \in 1..Len(seq) : next[seq[i]] = IF i = Len(seq) THEN NoNode ELSE seq[i + 1]

\* What is in a sequence.
LEMMA ElementsOf ==
    ASSUME NEW S, NEW seq \in Seq(S)
    PROVE  /\ Elements(seq) = {seq[i] : i \in 1..Len(seq)} /\ Elements(seq) \subseteq S
           /\ Len(seq) \in Nat
           /\ \A i \in 1..Len(seq) : seq[i] \in S /\ seq[i] \in Elements(seq)
           /\ seq = <<>> <=> Len(seq) = 0
<1>1. DOMAIN seq = 1..Len(seq) /\ Len(seq) \in Nat /\ \A i \in 1..Len(seq) : seq[i] \in S
  BY LenProperties, ElementOfSeq
<1>2. seq = <<>> <=> Len(seq) = 0
  BY EmptySeq
<1>3. QED
  BY <1>1, <1>2 DEF Elements

\* A list that begins with first and leads to stop, or else to its end.
Leads(seq, first, stop) ==
    /\ seq \in Seq(Node)
    /\ \A i, j \in 1..Len(seq) : seq[i] = seq[j] => i = j
    /\ first = IF seq = <<>> THEN NoNode ELSE seq[1]
    /\ \A i \in 1..Len(seq) : i # Len(seq) => seq[i] # stop /\ next[seq[i]] = seq[i + 1]
    /\ seq # <<>> /\ seq[Len(seq)] # stop => next[seq[Len(seq)]] = NoNode

LEMMA ChainLeads ==
    ASSUME NEW seq, NEW first, Chain(seq, first)
    PROVE  Leads(seq, first, NoNode)
<1>1. /\ \A i \in 1..Len(seq) : seq[i] \in Node
      /\ Len(seq) \in Nat /\ (seq = <<>> <=> Len(seq) = 0)
  BY ElementsOf DEF Chain
<1>2. NoNode \notin Node
  BY HazardAssumption DEF Node, NoNode
<1>3. QED
  BY <1>1, <1>2 DEF Chain, Leads

\* It is no longer than the memory.
LEMMA ListFits ==
    ASSUME NEW seq, NEW first, NEW stop, Leads(seq, first, stop)
    PROVE  Cardinality(Node) \in Nat /\ Len(seq) <= Cardinality(Node)
<1>1. Cardinality(Node) \in Nat
  BY MemoryAssumption, FS_CardinalityType
<1>2. seq \in Seq(Node) /\ Len(seq) \in Nat /\ DOMAIN seq = 1..Len(seq)
  BY LenProperties DEF Leads
<1>3. seq \in [1..Len(seq) -> Node]
  BY <1>2, LenProperties
<1>4. seq \in Injection(1..Len(seq), Node)
  BY <1>2, <1>3 DEF Leads, Injection, IsInjective
<1>5. Cardinality(1..Len(seq)) <= Cardinality(Node)
  BY <1>4, MemoryAssumption, FS_Injection
<1>6. Cardinality(1..Len(seq)) = Len(seq)
  BY <1>2, FS_Interval
<1>7. QED
  BY <1>1, <1>5, <1>6

\* The nodes that k steps along the list from n reach.
Reaches(F, n, stop, k) ==
    F[k] = IF k = 0 THEN {n} \ {NoNode}
           ELSE F[k - 1] \cup ({next[m] : m \in F[k - 1] \ {stop}} \ {NoNode})

\* The recursive function Segment chooses is the one that its definition describes.
LEMMA SegmentIs ==
    ASSUME NEW n, NEW stop, NEW F, Cardinality(Node) \in Nat,
           F = [k \in 0..Cardinality(Node) |-> IF k = 0 THEN {n} \ {NoNode} ELSE
                F[k - 1] \cup ({next[m] : m \in F[k - 1] \ {stop}} \ {NoNode})]
    PROVE  Segment(n, stop) = F[Cardinality(Node)]
<1> DEFINE N == Cardinality(Node)
           Def(g) == g = [k \in 0..N |-> IF k = 0 THEN {n} \ {NoNode} ELSE
                g[k - 1] \cup ({next[m] : m \in g[k - 1] \ {stop}} \ {NoNode})]
           From == CHOOSE g : Def(g)
           bad == {k \in 0..N : From[k] # F[k]}
<1>1. Segment(n, stop) = From[N]
  BY DEF Segment
<1>2. Def(F)
  OBVIOUS
<1>3. Def(From)
  <2> HIDE DEF Def
  <2>1. QED
    BY <1>2
<1>4. \A k \in 0..N : Reaches(From, n, stop, k) /\ Reaches(F, n, stop, k)
  <2> HIDE DEF From
  <2>1. QED
    BY <1>2, <1>3 DEF Reaches
<1> HIDE DEF From, Def
<1>5. ASSUME bad # {} PROVE FALSE
  <2>1. bad \in SUBSET Nat
    OBVIOUS
  <2>2. PICK low \in bad : \A k \in bad : ~(k < low)
    <3> HIDE DEF bad
    <3>1. QED
      BY <1>5, <2>1, LeastNumber
  <2>3. low \in 0..N /\ From[low] # F[low]
    OBVIOUS
  <2>4. low # 0
    BY <1>4, <2>3 DEF Reaches
  <2>5. low - 1 \in 0..N /\ low - 1 < low
    BY <2>3, <2>4
  <2>6. From[low - 1] = F[low - 1]
    BY <2>2, <2>5
  <2>7. From[low] = From[low - 1] \cup ({next[m] : m \in From[low - 1] \ {stop}} \ {NoNode})
    BY <1>4, <2>3, <2>4 DEF Reaches
  <2>8. F[low] = F[low - 1] \cup ({next[m] : m \in F[low - 1] \ {stop}} \ {NoNode})
    BY <1>4, <2>3, <2>4 DEF Reaches
  <2>9. QED
    BY <2>3, <2>6, <2>7, <2>8
<1>6. N \in 0..N
  OBVIOUS
<1>7. QED
  BY <1>1, <1>5, <1>6

\* Segment finds the nodes of a list.
LEMMA SegmentOf ==
    ASSUME NEW seq, NEW first, NEW stop, Leads(seq, first, stop)
    PROVE  Segment(first, stop) = Elements(seq)
<1> DEFINE N == Cardinality(Node)
           n == Len(seq)
           Upto(k) == {seq[i] : i \in {j \in 1..n : j <= k + 1}}
           F == [k \in 0..N |-> Upto(k)]
<1>1. /\ Elements(seq) = {seq[i] : i \in 1..n} /\ n \in Nat
      /\ \A i \in 1..n : seq[i] \in Node
      /\ seq = <<>> <=> n = 0
      /\ \A i, j \in 1..n : seq[i] = seq[j] => i = j
      /\ first = IF seq = <<>> THEN NoNode ELSE seq[1]
      /\ \A i \in 1..n : i # n => seq[i] # stop /\ next[seq[i]] = seq[i + 1]
      /\ n # 0 /\ seq[n] # stop => next[seq[n]] = NoNode
  BY ElementsOf DEF Leads
<1>2. N \in Nat /\ n <= N
  BY ListFits
<1>3. NoNode \notin Node
  BY HazardAssumption DEF Node, NoNode
<1> HIDE DEF n, N
<1>4. Upto(0) = {first} \ {NoNode}
  <2>1. CASE n = 0
    BY <1>1, <2>1
  <2>2. CASE n # 0
    <3>1. {j \in 1..n : j <= 0 + 1} = {1} /\ 1 \in 1..n
      BY <1>1, <2>2
    <3>2. first = seq[1] /\ seq[1] \in Node
      BY <1>1, <2>2, <3>1
    <3>3. QED
      BY <1>3, <3>1, <3>2
  <2>3. QED
    BY <2>1, <2>2
<1>5. ASSUME NEW k \in 1..N
      PROVE  Upto(k) = Upto(k - 1) \cup ({next[m] : m \in Upto(k - 1) \ {stop}} \ {NoNode})
  <2>1. k \in Nat /\ k - 1 \in Nat /\ (k - 1) + 1 = k
    BY <1>2
  <2>2. ASSUME NEW e \in Upto(k)
        PROVE  e \in Upto(k - 1) \/ \E m \in Upto(k - 1) \ {stop} : e = next[m] /\ e # NoNode
    <3>1. PICK i \in 1..n : i <= k + 1 /\ e = seq[i]
      OBVIOUS
    <3>2. CASE i <= k
      BY <2>1, <3>1, <3>2
    <3>3. CASE ~(i <= k)
      <4>1. i = k + 1 /\ k \in 1..n /\ k # n
        BY <1>1, <2>1, <3>1, <3>3
      <4>2. next[seq[k]] = e /\ seq[k] # stop /\ e \in Node
        BY <1>1, <3>1, <4>1
      <4>3. seq[k] \in Upto(k - 1)
        BY <2>1, <4>1
      <4>4. QED
        BY <1>3, <4>2, <4>3
    <3>4. QED
      BY <3>2, <3>3
  <2>3. ASSUME NEW e \in Upto(k - 1) PROVE e \in Upto(k)
    <3>1. PICK i \in 1..n : i <= k /\ e = seq[i]
      BY <2>1
    <3>2. i <= k + 1
      BY <2>1, <3>1
    <3>3. QED
      BY <3>1, <3>2
  <2>4. ASSUME NEW m \in Upto(k - 1) \ {stop}, next[m] # NoNode PROVE next[m] \in Upto(k)
    <3>1. PICK i \in 1..n : i <= k /\ m = seq[i]
      BY <2>1
    <3>2. i # n /\ next[m] = seq[i + 1]
      BY <1>1, <2>4, <3>1
    <3>3. i + 1 \in 1..n /\ i + 1 <= k + 1
      BY <1>1, <2>1, <3>1, <3>2
    <3>4. QED
      BY <3>2, <3>3
  <2> HIDE DEF Upto
  <2>5. QED
    BY <2>2, <2>3, <2>4
<1>6. Upto(N) = Elements(seq)
  <2>1. \A i \in 1..n : i <= N + 1
    BY <1>1, <1>2
  <2>2. QED
    BY <1>1, <2>1
<1>7. \A k \in 0..N : F[k] = Upto(k)
  OBVIOUS
<1> HIDE DEF Upto
<1>8. F = [k \in 0..N |-> IF k = 0 THEN {first} \ {NoNode} ELSE
           F[k - 1] \cup ({next[m] : m \in F[k - 1] \ {stop}} \ {NoNode})]
  <2>1. ASSUME NEW k \in 0..N
        PROVE  F[k] = IF k = 0 THEN {first} \ {NoNode} ELSE
                      F[k - 1] \cup ({next[m] : m \in F[k - 1] \ {stop}} \ {NoNode})
    <3>1. CASE k = 0
      BY <1>2, <1>4, <1>7, <3>1
    <3>2. CASE k # 0
      <4>1. k \in 1..N /\ k - 1 \in 0..N
        BY <1>2, <3>2
      <4>2. F[k] = Upto(k) /\ F[k - 1] = Upto(k - 1)
        BY <1>7, <4>1
      <4>3. QED
        BY <1>5, <3>2, <4>1, <4>2
    <3>3. QED
      BY <3>1, <3>2
  <2>2. F = [k \in 0..N |-> F[k]]
    OBVIOUS
  <2> HIDE DEF F
  <2>3. QED
    BY <2>1, <2>2
<1> HIDE DEF F
<1>9. Segment(first, stop) = F[N]
  BY <1>2, <1>8, SegmentIs DEF N
<1>10. N \in 0..N
  BY <1>2
<1>11. QED
  BY <1>6, <1>7, <1>9, <1>10

\* Listed finds the nodes of a chain.
LEMMA ListedIs ==
    ASSUME NEW seq, NEW first, Chain(seq, first)
    PROVE  Listed(first) = Elements(seq)
  BY ChainLeads, SegmentOf DEF Listed

\* The elements that k steps along the list from n find.
Walks(f, k) ==
    \A n \in Node \cup {NoNode} :
        f[k][n] = IF k = 0 \/ n = NoNode THEN <<>> ELSE <<data[n]>> \o f[k - 1][next[n]]

\* The function that Contents chooses exists, up to any number of nodes.
LEMMA WalkExists ==
    ASSUME NEW N \in Nat
    PROVE  \E f : \A k \in 0..N : Walks(f, k)
<1> DEFINE B == Node \cup {NoNode}
           bad == {m \in Nat : ~ \E f : \A k \in 0..m : Walks(f, k)}
<1> SUFFICES ASSUME bad # {} PROVE FALSE
  OBVIOUS
<1>1. PICK low \in bad : \A k \in bad : ~(k < low)
  <2>1. bad \in SUBSET Nat
    OBVIOUS
  <2> HIDE DEF bad
  <2>2. QED
    BY <2>1, LeastNumber
<1>2. low # 0
  <2> SUFFICES ASSUME low = 0 PROVE FALSE
    OBVIOUS
  <2> DEFINE f == [k \in {0} |-> [n \in B |-> <<>>]]
  <2>1. \A k \in 0..0 : Walks(f, k)
    BY DEF Walks
  <2> HIDE DEF f
  <2>2. QED
    BY <2>1
<1>3. low \in Nat /\ low - 1 \in Nat /\ low - 1 < low
  BY <1>2
<1>4. PICK f : \A k \in 0..low - 1 : Walks(f, k)
  BY <1>1, <1>3
<1> DEFINE on == [n \in B |-> IF n = NoNode THEN <<>> ELSE <<data[n]>> \o f[low - 1][next[n]]]
           g == [k \in 0..low |-> IF k = low THEN on ELSE f[k]]
<1>5. g[low] = on /\ \A k \in 0..low - 1 : g[k] = f[k]
  BY <1>3
<1>6. Walks(g, low)
  <2>1. g[low - 1] = f[low - 1]
    BY <1>3, <1>5
  <2>2. \A n \in B : on[n] = IF low = 0 \/ n = NoNode THEN <<>>
                             ELSE <<data[n]>> \o f[low - 1][next[n]]
    BY <1>2
  <2> HIDE DEF on, g
  <2>3. QED
    BY <1>5, <2>1, <2>2 DEF Walks
<1>7. ASSUME NEW k \in 0..low - 1 PROVE Walks(g, k)
  <2>1. Walks(f, k) /\ g[k] = f[k]
    BY <1>4, <1>5
  <2>2. k # 0 => g[k - 1] = f[k - 1]
    BY <1>3, <1>5
  <2> HIDE DEF g
  <2>3. QED
    BY <2>1, <2>2 DEF Walks
<1> HIDE DEF g
<1>8. \A k \in 0..low : Walks(g, k)
  <2>1. \A k \in 0..low : k = low \/ k \in 0..low - 1
    BY <1>3
  <2>2. QED
    BY <1>6, <1>7, <2>1
<1>9. QED
  BY <1>1, <1>8

\* A function on 1..k is a sequence.
LEMMA SeqOf ==
    ASSUME NEW S, NEW k \in Nat, NEW f \in [1..k -> S]
    PROVE  f \in Seq(S) /\ Len(f) = k
  BY LenProperties

\* Contents are the data of the nodes of the chain, in order.
LEMMA ContentsIs ==
    ASSUME NEW seq, Chain(seq, head), NEW D, data \in [Node -> D],
           next \in [Node -> Node \cup {NoNode}]
    PROVE  Contents = [i \in 1..Len(seq) |-> data[seq[i]]]
<1> DEFINE N == Cardinality(Node)
           B == Node \cup {NoNode}
           n == Len(seq)
           Def(g) == g = [k \in 0..N |-> [m \in B |->
                IF k = 0 \/ m = NoNode THEN <<>> ELSE <<data[m]>> \o g[k - 1][next[m]]]]
           From == CHOOSE g : Def(g)
           Rest(j) == [i \in 1..n - j + 1 |-> data[seq[i + j - 1]]]
           At(j) == IF j = n + 1 THEN NoNode ELSE seq[j]
<1>1. /\ n \in Nat /\ \A i \in 1..n : seq[i] \in Node
      /\ head = At(1)
      /\ \A i \in 1..n : next[seq[i]] = At(i + 1)
  <2>1. /\ n \in Nat /\ (\A i \in 1..n : seq[i] \in Node) /\ (seq = <<>> <=> n = 0)
        /\ head = IF seq = <<>> THEN NoNode ELSE seq[1]
        /\ \A i \in 1..n : next[seq[i]] = IF i = n THEN NoNode ELSE seq[i + 1]
    BY ElementsOf DEF Chain
  <2> HIDE DEF n
  <2>2. QED
    BY <2>1
<1>2. N \in Nat /\ n <= N
  BY ChainLeads, ListFits
<1>3. NoNode \notin Node
  BY HazardAssumption DEF Node, NoNode
<1>4. Contents = From[N][head]
  BY DEF Contents
<1>5. PICK f : \A k \in 0..N : Walks(f, k)
  BY <1>2, WalkExists
<1> DEFINE F == [k \in 0..N |-> [m \in B |-> f[k][m]]]
<1>51. Def(F) <=> F = [k \in 0..N |-> [m \in B |->
                IF k = 0 \/ m = NoNode THEN <<>> ELSE <<data[m]>> \o F[k - 1][next[m]]]]
  OBVIOUS
<1> HIDE DEF n, N, From, Def, At, Rest
<1>50. \A k \in 0..N, m \in B : F[k][m] = f[k][m]
  OBVIOUS
<1>6. Def(F)
  <2>1. ASSUME NEW k \in 0..N, NEW m \in B
        PROVE  f[k][m] = IF k = 0 \/ m = NoNode THEN <<>> ELSE <<data[m]>> \o F[k - 1][next[m]]
    <3> HIDE DEF F
    <3>1. CASE k = 0 \/ m = NoNode
      BY <1>5, <3>1 DEF Walks
    <3>2. CASE ~(k = 0 \/ m = NoNode)
      <4>1. k - 1 \in 0..N /\ next[m] \in B
        BY <1>2, <3>2
      <4>2. F[k - 1][next[m]] = f[k - 1][next[m]]
        BY <1>50, <4>1
      <4>3. QED
        BY <1>5, <3>2, <4>2 DEF Walks
    <3>3. QED
      BY <3>1, <3>2
  <2>2. F = [k \in 0..N |-> [m \in B |->
                IF k = 0 \/ m = NoNode THEN <<>> ELSE <<data[m]>> \o F[k - 1][next[m]]]]
    <3> DEFINE line(k) == [m \in B |->
                IF k = 0 \/ m = NoNode THEN <<>> ELSE <<data[m]>> \o F[k - 1][next[m]]]
    <3>1. ASSUME NEW k \in 0..N PROVE [m \in B |-> f[k][m]] = line(k)
      <4> HIDE DEF F
      <4>1. QED
        BY <2>1
    <3> HIDE DEF line
    <3>2. F = [k \in 0..N |-> line(k)]
      BY <3>1
    <3> HIDE DEF F
    <3>3. QED
      BY <3>2 DEF line
  <2> HIDE DEF F
  <2>3. QED
    BY <1>51, <2>2
<1> HIDE DEF F
<1>7. Def(From)
  BY <1>6 DEF From
<1>8. \A k \in 0..N, m \in B :
          From[k][m] = IF k = 0 \/ m = NoNode THEN <<>> ELSE <<data[m]>> \o From[k - 1][next[m]]
  <2>1. ASSUME NEW g, Def(g), NEW k \in 0..N, NEW m \in B
        PROVE  g[k][m] = IF k = 0 \/ m = NoNode THEN <<>> ELSE <<data[m]>> \o g[k - 1][next[m]]
    <3> DEFINE line == [x \in B |->
                IF k = 0 \/ x = NoNode THEN <<>> ELSE <<data[x]>> \o g[k - 1][next[x]]]
    <3>1. g[k] = line
      BY <2>1 DEF Def
    <3>2. line[m] = IF k = 0 \/ m = NoNode THEN <<>> ELSE <<data[m]>> \o g[k - 1][next[m]]
      OBVIOUS
    <3> HIDE DEF line
    <3>3. QED
      BY <3>1, <3>2
  <2>2. QED
    BY <1>7, <2>1
<1>9. ASSUME NEW j \in 1..n PROVE Rest(j) = <<data[seq[j]]>> \o Rest(j + 1)
  <2> DEFINE one == <<data[seq[j]]>>
             more == Rest(j + 1)
             m == n - j
  <2>1. m \in Nat /\ n - j + 1 = m + 1 /\ n - (j + 1) + 1 = m /\ j \in Nat
    BY <1>1
  <2>2. \A i \in 1..m + 1 : i + j - 1 \in 1..n /\ data[seq[i + j - 1]] \in D
    BY <1>1, <2>1
  <2>3. Rest(j) = [i \in 1..m + 1 |-> data[seq[i + j - 1]]]
    BY <2>1 DEF Rest
  <2>4. more = [i \in 1..m |-> data[seq[i + j]]]
    <3>1. \A i \in 1..m : i + (j + 1) - 1 = i + j
      BY <2>1
    <3>2. QED
      BY <2>1, <3>1 DEF Rest
  <2>5. \A i \in 1..m : i + 1 \in 1..m + 1 /\ i + j = (i + 1) + j - 1
    BY <2>1
  <2>6. one \in Seq(D) /\ Len(one) = 1 /\ one[1] = data[seq[j]]
    BY <1>1
  <2> HIDE DEF more, one, m
  <2>7. more \in Seq(D) /\ Len(more) = m
    <3>1. \A i \in 1..m : data[seq[i + j]] \in D
      BY <2>2, <2>5
    <3>2. QED
      BY <2>1, <2>4, <3>1, SeqOf
  <2>8. Rest(j) \in Seq(D) /\ Len(Rest(j)) = m + 1
    <3>1. m + 1 \in Nat
      BY <2>1
    <3>2. QED
      BY <2>2, <2>3, <3>1, SeqOf
  <2>9. /\ one \o more \in Seq(D) /\ Len(one \o more) = 1 + m
        /\ \A i \in 1..1 + m : (one \o more)[i] = IF i <= 1 THEN one[i] ELSE more[i - 1]
    <3>1. /\ one \o more \in Seq(D) /\ Len(one \o more) = Len(one) + Len(more)
          /\ \A i \in 1..Len(one) + Len(more) :
                 (one \o more)[i] = IF i <= Len(one) THEN one[i] ELSE more[i - Len(one)]
      BY <2>6, <2>7, ConcatProperties
    <3>2. QED
      BY <2>6, <2>7, <3>1
  <2>10. ASSUME NEW i \in 1..m + 1 PROVE Rest(j)[i] = (one \o more)[i]
    <3>1. CASE i = 1
      BY <2>1, <2>3, <2>6, <2>9, <3>1
    <3>2. CASE i # 1
      <4>1. i - 1 \in 1..m /\ (i - 1) + j = i + j - 1
        BY <2>1, <3>2
      <4>2. more[i - 1] = data[seq[i + j - 1]]
        BY <2>4, <4>1
      <4>3. (one \o more)[i] = more[i - 1]
        <5>1. i \in 1..1 + m /\ ~(i <= 1)
          BY <2>1, <3>2
        <5>2. QED
          BY <2>9, <5>1
      <4>4. QED
        BY <2>3, <4>2, <4>3
    <3>3. QED
      BY <3>1, <3>2
  <2>11. QED
    BY <2>1, <2>8, <2>9, <2>10, SeqEqual DEF one, more
<1>10. Rest(n + 1) = <<>>
  <2>1. n - (n + 1) + 1 = 0
    BY <1>1
  <2>2. QED
    BY <2>1 DEF Rest
<1>11. ASSUME NEW k \in 0..N, NEW j \in 1..n + 1, n - j + 1 <= k
       PROVE  From[k][At(j)] = Rest(j)
  <2> DEFINE bad == {m \in 0..N : \E i \in 1..n + 1 : n - i + 1 <= m /\ From[m][At(i)] # Rest(i)}
  <2> SUFFICES ASSUME bad # {} PROVE FALSE
    BY <1>11
  <2>1. PICK low \in bad : \A m \in bad : ~(m < low)
    <3>1. bad \in SUBSET Nat
      <4>1. 0..N \subseteq Nat
        BY <1>2
      <4>2. QED
        BY <4>1
    <3> HIDE DEF bad
    <3>2. QED
      BY <3>1, LeastNumber
  <2>2. PICK i \in 1..n + 1 : n - i + 1 <= low /\ From[low][At(i)] # Rest(i)
    OBVIOUS
  <2>3. At(i) \in B /\ low \in 0..N
    BY <1>1 DEF At
  <2>4. CASE i = n + 1
    BY <1>8, <1>10, <2>2, <2>3, <2>4 DEF At
  <2>5. CASE i # n + 1
    <3>1. i \in 1..n /\ i + 1 \in 1..n + 1
      BY <1>1, <2>5
    <3>2. low # 0 /\ low - 1 \in 0..N /\ low - 1 < low /\ n - (i + 1) + 1 <= low - 1
      BY <1>1, <1>2, <2>2, <2>3, <3>1
    <3>3. From[low - 1][At(i + 1)] = Rest(i + 1)
      BY <2>1, <2>3, <3>1, <3>2
    <3>4. At(i) = seq[i] /\ seq[i] \in Node /\ seq[i] # NoNode /\ next[seq[i]] = At(i + 1)
      BY <1>1, <1>3, <2>5, <3>1 DEF At
    <3> HIDE DEF bad
    <3>5. From[low][At(i)] = <<data[seq[i]]>> \o From[low - 1][At(i + 1)]
      <4>1. From[low][seq[i]] = <<data[seq[i]]>> \o From[low - 1][next[seq[i]]]
        <5>1. seq[i] \in B /\ ~(low = 0 \/ seq[i] = NoNode)
          BY <3>2, <3>4
        <5>2. QED
          BY <1>8, <2>3, <5>1
      <4>2. QED
        BY <3>4, <4>1
    <3>6. QED
      BY <1>9, <2>2, <3>1, <3>3, <3>5
  <2>6. QED
    BY <2>4, <2>5
<1>12. 1 \in 1..n + 1 /\ n - 1 + 1 = n /\ n - 1 + 1 <= N /\ N \in 0..N
  BY <1>1, <1>2
<1>13. From[N][At(1)] = Rest(1)
  BY <1>11, <1>12
<1>14. Rest(1) = [i \in 1..n |-> data[seq[i]]]
  BY <1>1, <1>12 DEF Rest
<1>15. QED
  BY <1>1, <1>4, <1>13, <1>14 DEF n

\* A node more in front, and one less.
LEMMA Prefixed ==
    ASSUME NEW S, NEW n \in S, NEW seq \in Seq(S)
    PROVE  /\ <<n>> \o seq \in Seq(S) /\ Len(<<n>> \o seq) = Len(seq) + 1
           /\ \A i \in 1..Len(seq) + 1 :
                  (<<n>> \o seq)[i] = IF i = 1 THEN n ELSE seq[i - 1]
           /\ Elements(<<n>> \o seq) = {n} \cup Elements(seq)
           /\ (Distinct(seq) /\ n \notin Elements(seq)) => Distinct(<<n>> \o seq)
<1> DEFINE one == <<n>>
           more == one \o seq
           m == Len(seq)
<1>1. one \in Seq(S) /\ Len(one) = 1 /\ one[1] = n
  OBVIOUS
<1>2. m \in Nat /\ DOMAIN seq = 1..m /\ \A i \in 1..m : seq[i] \in S
  BY LenProperties, ElementOfSeq
<1> HIDE DEF one
<1>3. /\ more \in Seq(S) /\ Len(more) = 1 + m
      /\ \A i \in 1..1 + m : more[i] = IF i <= 1 THEN one[i] ELSE seq[i - 1]
  <2>1. /\ more \in Seq(S) /\ Len(more) = Len(one) + Len(seq)
        /\ \A i \in 1..Len(one) + Len(seq) :
               more[i] = IF i <= Len(one) THEN one[i] ELSE seq[i - Len(one)]
    BY <1>1, ConcatProperties
  <2> HIDE DEF more
  <2>2. QED
    BY <1>1, <2>1
<1>4. DOMAIN more = 1..m + 1
  BY <1>2, <1>3, LenProperties
<1> HIDE DEF more, m
<1>5. \A i \in 1..m + 1 : more[i] = IF i = 1 THEN n ELSE seq[i - 1]
  <2> SUFFICES ASSUME NEW i \in 1..m + 1 PROVE more[i] = IF i = 1 THEN n ELSE seq[i - 1]
    OBVIOUS
  <2>1. i \in 1..1 + m /\ (i <= 1 <=> i = 1)
    BY <1>2
  <2>2. QED
    BY <1>1, <1>3, <2>1
<1>6. ASSUME NEW i \in 1..m PROVE i + 1 \in 1..m + 1 /\ more[i + 1] = seq[i]
  <2>1. i + 1 \in 1..m + 1 /\ i + 1 # 1 /\ (i + 1) - 1 = i
    BY <1>2
  <2>2. QED
    BY <1>5, <2>1
<1>7. ASSUME NEW i \in 1..m + 1, i # 1 PROVE i - 1 \in 1..m
  BY <1>2, <1>7
<1>8. 1 \in 1..m + 1
  BY <1>2
<1>9. Elements(more) = {n} \cup Elements(seq)
  <2>1. \A x \in Elements(seq) : x \in Elements(more)
    BY <1>2, <1>4, <1>6 DEF Elements
  <2>2. n \in Elements(more)
    BY <1>4, <1>5, <1>8 DEF Elements
  <2>3. ASSUME NEW x \in Elements(more) PROVE x = n \/ x \in Elements(seq)
    <3>1. PICK i \in 1..m + 1 : x = more[i]
      BY <1>4 DEF Elements
    <3>2. CASE i = 1
      BY <1>5, <3>1, <3>2
    <3>3. CASE i # 1
      BY <1>2, <1>5, <1>7, <3>1, <3>3 DEF Elements
    <3>4. QED
      BY <3>2, <3>3
  <2>4. QED
    BY <2>1, <2>2, <2>3
<1>10. ASSUME Distinct(seq), n \notin Elements(seq) PROVE Distinct(more)
  <2> SUFFICES ASSUME NEW i \in 1..m + 1, NEW j \in 1..m + 1, more[i] = more[j] PROVE i = j
    BY <1>4 DEF Distinct
  <2>1. \A k \in 1..m : seq[k] # n
    BY <1>2, <1>10 DEF Elements
  <2>2. CASE i = 1 \/ j = 1
    BY <1>5, <1>7, <2>1, <2>2
  <2>3. CASE i # 1 /\ j # 1
    <3>1. i - 1 = j - 1
      BY <1>2, <1>5, <1>7, <1>10, <2>3 DEF Distinct
    <3>2. QED
      BY <1>2, <3>1
  <2>4. QED
    BY <2>2, <2>3
<1>11. Len(more) = m + 1
  BY <1>2, <1>3
<1>12. QED
  BY <1>3, <1>5, <1>9, <1>10, <1>11 DEF more, one, m

\* What a sequence is without its head.
LEMMA WithoutHead ==
    ASSUME NEW S, NEW seq \in Seq(S), seq # <<>>
    PROVE  /\ Head(seq) = seq[1] /\ Head(seq) \in S
           /\ Tail(seq) \in Seq(S) /\ Len(Tail(seq)) = Len(seq) - 1
           /\ Len(seq) \in Nat \ {0}
           /\ \A i \in 1..Len(seq) - 1 : Tail(seq)[i] = seq[i + 1]
           /\ Elements(seq) = {Head(seq)} \cup Elements(Tail(seq))
           /\ Distinct(seq) => Distinct(Tail(seq)) /\ Head(seq) \notin Elements(Tail(seq))
<1> DEFINE m == Len(seq)
           rest == Tail(seq)
<1>1. m \in Nat \ {0} /\ DOMAIN seq = 1..m /\ \A i \in 1..m : seq[i] \in S
  BY LenProperties, ElementOfSeq, EmptySeq
<1>2. /\ Head(seq) = seq[1] /\ Head(seq) \in S /\ rest \in Seq(S) /\ Len(rest) = m - 1
      /\ \A i \in 1..m - 1 : rest[i] = seq[i + 1]
  BY HeadTailProperties
<1>3. DOMAIN rest = 1..m - 1
  BY <1>2, LenProperties
<1> HIDE DEF m, rest
<1>4. ASSUME NEW i \in 1..m, i # 1
      PROVE  i - 1 \in 1..m - 1 /\ rest[i - 1] = seq[i]
  <2>1. i - 1 \in 1..m - 1 /\ (i - 1) + 1 = i
    BY <1>1, <1>4
  <2>2. QED
    BY <1>2, <2>1
<1>5. ASSUME NEW i \in 1..m - 1 PROVE i + 1 \in 1..m /\ rest[i] = seq[i + 1] /\ i + 1 # 1
  BY <1>1, <1>2
<1>6. 1 \in 1..m
  BY <1>1
<1>7. Elements(seq) = {Head(seq)} \cup Elements(rest)
  <2>1. ASSUME NEW x \in Elements(seq) PROVE x = Head(seq) \/ x \in Elements(rest)
    <3>1. PICK i \in 1..m : x = seq[i]
      BY <1>1 DEF Elements
    <3>2. i # 1 => x \in Elements(rest)
      BY <1>3, <1>4, <3>1 DEF Elements
    <3>3. QED
      BY <1>2, <3>1, <3>2
  <2>2. Head(seq) \in Elements(seq)
    BY <1>1, <1>2, <1>6 DEF Elements
  <2>3. \A x \in Elements(rest) : x \in Elements(seq)
    BY <1>1, <1>3, <1>5 DEF Elements
  <2>4. QED
    BY <2>1, <2>2, <2>3
<1>8. ASSUME Distinct(seq) PROVE Distinct(rest) /\ Head(seq) \notin Elements(rest)
  <2>1. ASSUME NEW i \in 1..m - 1, NEW j \in 1..m - 1, rest[i] = rest[j] PROVE i = j
    <3>1. i + 1 = j + 1
      BY <1>1, <1>5, <1>8, <2>1 DEF Distinct
    <3>2. QED
      BY <1>1, <3>1
  <2>2. ASSUME NEW i \in 1..m - 1 PROVE rest[i] # seq[1]
    BY <1>1, <1>5, <1>6, <1>8 DEF Distinct
  <2>3. QED
    BY <1>2, <1>3, <2>1, <2>2 DEF Distinct, Elements
<1>9. QED
  BY <1>1, <1>2, <1>7, <1>8 DEF m, rest
-----------------------------------------------------------------------------
(***************************************************************************)
(* Where the threads are.                                                  *)
(***************************************************************************)
Popping == {"load", "protect", "validate", "next", "pop_cas", "clear", "outstanding",
            "exchange", "list_outstanding"}

\* A pop has a slot, a thread that ends is not in a call, and what a thread works on
\* is there.
Control(t) ==
    /\ pc[t] = "construct" <=> scan[t] # 0
    /\ pc[t] \in Popping => slot[t] # 0
    /\ t \in leaving => pc[t] = "idle"
    /\ pc[t] \in {"push_cas", "next", "pop_cas", "outstanding"} => node[t] # NoNode
    /\ pc[t] = "list_outstanding" <=> current[t] # <<>>
    /\ pc[t] \in {"outstanding", "list_outstanding"} => look[t] # 0

ControlInv == \A t \in Thread : Control(t)

\* The state of a thread that another one does not change.
Same(t) == /\ pc'[t] = pc[t] /\ node'[t] = node[t] /\ old_next'[t] = old_next[t]
           /\ result'[t] = result[t] /\ current'[t] = current[t] /\ look'[t] = look[t]
           /\ slot'[t] = slot[t] /\ scan'[t] = scan[t]
           /\ t \in leaving' <=> t \in leaving

\* A step of t changes nothing that belongs to another thread.
LEMMA OthersStay ==
    ASSUME TypeOK, NEW t \in Thread, Step(t)
    PROVE  \A u \in Thread : u # t => Same(u)
<1> SUFFICES ASSUME NEW u \in Thread, u # t PROVE Same(u)
  OBVIOUS
<1> USE DEF TypeOK, HpTypeOK, Same, Goto, Called, listVars, hpVars, reclaimVars
<1>1. ASSUME NEW v \in Value, NEW n \in Node, PushNew(t, v, n), UNCHANGED <<hpVars, reclaimVars, old_next>>
      PROVE  Same(u)
  BY <1>1 DEF PushNew
<1>2. ASSUME PushCas(t), UNCHANGED <<hpVars, reclaimVars, old_next>> PROVE Same(u)
  BY <1>2 DEF PushCas
<1>3. ASSUME PushRetry(t), UNCHANGED <<hpVars, reclaimVars, old_next>> PROVE Same(u)
  BY <1>3 DEF PushRetry
<1>4. CASE PopEnter(t)
  BY <1>4 DEF PopEnter, Construct
<1>5. CASE PopSearch(t)
  BY <1>5 DEF PopSearch, Skip, Claim, Throw
<1>6. CASE PopLoad(t)
  BY <1>6 DEF PopLoad
<1>7. CASE Protect(t)
  BY <1>7 DEF Protect, Store
<1>8. CASE Validate(t)
  BY <1>8 DEF Validate
<1>9. CASE PopNext(t)
  BY <1>9 DEF PopNext
<1>10. CASE PopCas(t)
  BY <1>10 DEF PopCas
<1>11. CASE PopRetry(t)
  BY <1>11 DEF PopRetry
<1>12. CASE PopClear(t)
  BY <1>12 DEF PopClear, Store
<1>13. CASE LookOn(t)
  BY <1>13 DEF LookOn
<1>14. CASE PopReclaim(t)
  BY <1>14 DEF PopReclaim, Free
<1>15. CASE Exchange(t)
  BY <1>15 DEF Exchange, NextInList
<1>16. CASE ListReclaim(t)
  BY <1>16 DEF ListReclaim, NextInList, Free
<1>17. CASE Exit(t)
  BY <1>17 DEF Exit, ExitClear, ExitFree
<1>18. QED
  BY <1>1, <1>2, <1>3, <1>4, <1>5, <1>6, <1>7, <1>8, <1>9, <1>10, <1>11, <1>12, <1>13,
     <1>14, <1>15, <1>16, <1>17 DEF Step, Push, PushStep

\* What the stack does to the array is what the array's clients may do.
LEMMA ArrayStep ==
    ASSUME TypeOK, [Next]_vars
    PROVE  [HpNext]_hpVars
<1>1. CASE UNCHANGED vars
  BY <1>1 DEF vars
<1>2. ASSUME NEW t \in Thread, Step(t) PROVE [HpNext]_hpVars
  <2>1. UNCHANGED hpVars \/ HpStep(t)
    <3>1. CASE PopEnter(t)
      BY <3>1 DEF PopEnter, HpStep
    <3>2. CASE PopSearch(t)
      BY <3>2 DEF PopSearch, HpStep
    <3>3. CASE Protect(t)
      <4>1. node[t] \in Address \cup {NoAddress}
        BY DEF TypeOK, Node, NoNode
      <4>2. QED
        BY <3>3, <4>1 DEF Protect, HpStep
    <3>4. CASE PopClear(t)
      BY <3>4 DEF PopClear, HpStep, NoNode
    <3>5. CASE Exit(t)
      BY <3>5 DEF Exit, HpStep
    <3>6. QED
      BY <1>2, <3>1, <3>2, <3>3, <3>4, <3>5 DEF Step, Push, PopLoad, Validate, PopNext, PopCas,
         PopRetry, LookOn, PopReclaim, Exchange, ListReclaim
  <2>2. QED
    BY <2>1 DEF HpNext
<1>3. QED
  BY <1>1, <1>2 DEF Next

\* Types, and where a thread is in its operation, after a step.
LEMMA Types ==
    ASSUME TypeOK, ControlInv, SlotsOwned, NEW t \in Thread, Step(t)
    PROVE  TypeOK' /\ Control(t)'
<1>1. HpTypeOK' /\ SlotsOwned'
  <2>1. [HpNext]_hpVars
    BY ArrayStep DEF Next
  <2>2. QED
    BY <2>1, OwnedStep DEF TypeOK
<1>2. /\ HpTypeOK /\ Control(t) /\ max_hazard_pointers \in Nat /\ NoNode \notin Node
      /\ slot \in [Thread -> Slot \cup {0}] /\ leaving \subseteq Thread
      /\ scan \in [Thread -> 0..max_hazard_pointers + 1]
  BY HazardAssumption DEF TypeOK, HpTypeOK, ControlInv, Node, NoNode
<1> USE <1>1, <1>2 DEF TypeOK, Goto, Called, listVars, reclaimVars, PcSet, Control, Popping, Slot
<1>3. ASSUME NEW v \in Value, NEW n \in Node, PushNew(t, v, n),
             UNCHANGED <<hpVars, reclaimVars, old_next>>, t \notin leaving
      PROVE  TypeOK' /\ Control(t)'
  BY <1>3 DEF PushNew, hpVars
<1>4. ASSUME PushCas(t), UNCHANGED <<hpVars, reclaimVars, old_next>>, t \notin leaving
      PROVE  TypeOK' /\ Control(t)'
  BY <1>4 DEF PushCas, hpVars
<1>5. ASSUME PushRetry(t), UNCHANGED <<hpVars, reclaimVars, old_next>>, t \notin leaving
      PROVE  TypeOK' /\ Control(t)'
  BY <1>5 DEF PushRetry, hpVars
<1>6. CASE PopEnter(t)
  <2>1. CASE slot[t] # 0 /\ Goto(t, "idle", "load") /\ UNCHANGED hpVars
    BY <1>6, <2>1 DEF PopEnter, hpVars
  <2>2. CASE Goto(t, "idle", "construct") /\ Construct(t)
    BY <1>6, <2>2 DEF PopEnter, Construct
  <2>3. QED
    BY <1>6, <2>1, <2>2 DEF PopEnter
<1>7. CASE PopSearch(t)
  <2>1. TypeOK'
    BY <1>7 DEF PopSearch
  <2>2. current'[t] = current[t] /\ pc[t] = "construct" /\ t \notin leaving
    BY <1>7 DEF PopSearch
  <2>3. CASE Goto(t, "construct", "construct") /\ Skip(t)
    BY <1>7, <2>1, <2>2, <2>3 DEF Skip
  <2>4. CASE Goto(t, "construct", "load") /\ Claim(t)
    BY <1>7, <2>1, <2>2, <2>4 DEF Claim
  <2>5. CASE Goto(t, "construct", "idle") /\ Throw(t)
    BY <1>7, <2>1, <2>2, <2>5 DEF Throw
  <2>6. QED
    BY <1>7, <2>3, <2>4, <2>5 DEF PopSearch
<1>8. CASE PopLoad(t)
  BY <1>8 DEF PopLoad, hpVars
<1>9. CASE Protect(t)
  BY <1>9 DEF Protect, Store
<1>10. CASE Validate(t)
  BY <1>10 DEF Validate, hpVars
<1>11. CASE PopNext(t)
  BY <1>11 DEF PopNext, hpVars
<1>12. CASE PopCas(t)
  BY <1>12 DEF PopCas, hpVars
<1>13. CASE PopRetry(t)
  BY <1>13 DEF PopRetry, hpVars
<1>14. CASE PopClear(t)
  <2>1. CASE node[t] = NoNode
    BY <1>14, <2>1 DEF PopClear, Store
  <2>2. CASE node[t] # NoNode
    <3>1. /\ Goto(t, "clear", "outstanding")
          /\ result' = [result EXCEPT ![t] = data[node[t]]]
          /\ data' = [data EXCEPT ![node[t]] = Nothing]
          /\ look' = [look EXCEPT ![t] = 1]
          /\ UNCHANGED <<head, next, live, node, nodes_to_reclaim, current, old_next>>
          /\ UNCHANGED <<slot, scan, leaving>> /\ slot[t] # 0 /\ t \notin leaving
      BY <1>14, <2>2 DEF PopClear, Store
    <3>2. /\ result' \in [Thread -> Value \cup {Nothing, <<>>}]
          /\ data' \in [Node -> Value \cup {Nothing}]
          /\ look' \in [Thread -> 0..max_hazard_pointers + 1] /\ look'[t] = 1
          /\ pc' \in [Thread -> PcSet] /\ pc[t] = "clear" /\ pc'[t] = "outstanding"
      BY <2>2, <3>1
    <3>3. QED
      BY <2>2, <3>1, <3>2
  <2>3. QED
    BY <2>1, <2>2
<1>15. CASE LookOn(t)
  BY <1>15 DEF LookOn, hpVars
<1>16. CASE PopReclaim(t)
  <2>1. node[t] \in Node /\ nodes_to_reclaim \in Seq(Node) /\ <<node[t]>> \o nodes_to_reclaim \in Seq(Node)
    BY <1>16, Prefixed DEF PopReclaim
  <2>2. nodes_to_reclaim' \in Seq(Node) /\ data' \in [Node -> Value \cup {Nothing}] /\ live' \subseteq Node
    BY <1>16, <2>1 DEF PopReclaim, Free
  <2>3. QED
    BY <1>16, <2>2 DEF PopReclaim, hpVars
<1>17. CASE Exchange(t)
  BY <1>17 DEF Exchange, NextInList, hpVars
<1>18. CASE ListReclaim(t)
  <2> DEFINE rest == Tail(current[t])
  <2>1. current[t] # <<>> /\ current[t] \in Seq(Node) /\ Suspect(t) = Head(current[t])
    BY <1>18 DEF ListReclaim, Suspect
  <2>2. Suspect(t) \in Node /\ rest \in Seq(Node)
    BY <2>1, WithoutHead
  <2>3. <<Suspect(t)>> \o nodes_to_reclaim \in Seq(Node)
    BY <2>2, Prefixed
  <2> HIDE DEF rest
  <2>4. nodes_to_reclaim' \in Seq(Node) /\ data' \in [Node -> Value \cup {Nothing}] /\ live' \subseteq Node
    BY <1>18, <2>2, <2>3 DEF ListReclaim, Free
  <2>5. NextInList(t, rest) /\ pc[t] = "list_outstanding"
    BY <1>18 DEF ListReclaim, rest
  <2>6. /\ current' \in [Thread -> Seq(Node)] /\ current'[t] = rest
        /\ pc' \in [Thread -> PcSet] /\ look' \in [Thread -> 0..max_hazard_pointers + 1]
        /\ (rest = <<>> => pc'[t] = "idle")
        /\ (rest # <<>> => pc'[t] = "list_outstanding" /\ look'[t] = 1)
    BY <2>2, <2>5 DEF NextInList
  <2>7. UNCHANGED <<head, next, node, result, hpVars, old_next>>
    BY <1>18 DEF ListReclaim
  <2>8. TypeOK'
    BY <2>4, <2>6, <2>7
  <2>9. Control(t)'
    BY <2>5, <2>6, <2>7 DEF hpVars
  <2>10. QED
    BY <2>8, <2>9
<1>19. CASE Exit(t)
  BY <1>19 DEF Exit, ExitClear, ExitFree
<1>20. QED
  BY <1>3, <1>4, <1>5, <1>6, <1>7, <1>8, <1>9, <1>10, <1>11, <1>12, <1>13, <1>14, <1>15,
     <1>16, <1>17, <1>18, <1>19 DEF Step, Push, PushStep
-----------------------------------------------------------------------------
(***************************************************************************)
(* Where the nodes are.                                                    *)
(***************************************************************************)
\* The live nodes are those of the stack, the pending ones and those that threads
\* have taken, none of them twice.
Apart(alive, stack, pending, taken) ==
    /\ \A n \in alive : n \in stack \/ n \in pending \/ \E t \in Thread : n \in taken[t]
    /\ stack \subseteq alive /\ pending \subseteq alive
    /\ \A t \in Thread : taken[t] \subseteq alive
    /\ \A n \in stack : n \notin pending /\ \A t \in Thread : n \notin taken[t]
    /\ \A n \in pending : \A t \in Thread : n \notin taken[t]
    /\ \A t, u \in Thread : \A n \in taken[t] : t # u => n \notin taken[u]

\* A thread moves nodes between the places it may touch.
LEMMA ApartLater ==
    ASSUME NEW alive, NEW stack, NEW pending, NEW taken, NEW alive2, NEW stack2, NEW pending2,
           NEW taken2, NEW t \in Thread,
           Apart(alive, stack, pending, taken),
           \A u \in Thread : u # t => taken2[u] = taken[u],
           stack2 \subseteq alive2, pending2 \subseteq alive2, taken2[t] \subseteq alive2,
           \A n \in stack2 : n \notin pending2 /\ n \notin taken2[t],
           \A n \in pending2 : n \notin taken2[t],
           \A n \in alive2 : n \in stack2 \/ n \in pending2 \/ n \in taken2[t]
                             \/ (n \in alive /\ n \notin stack /\ n \notin pending /\ n \notin taken[t]),
           \A n \in alive : n \in stack \/ n \in pending \/ n \in taken[t]
                             \/ (n \in alive2 /\ n \notin stack2 /\ n \notin pending2 /\ n \notin taken2[t])
    PROVE  Apart(alive2, stack2, pending2, taken2)
<1>1. \A n \in alive2 : n \in stack2 \/ n \in pending2 \/ \E u \in Thread : n \in taken2[u]
  BY DEF Apart
<1>2. \A u \in Thread : taken2[u] \subseteq alive2
  BY DEF Apart
<1>3. \A n \in stack2 : n \notin pending2 /\ \A u \in Thread : n \notin taken2[u]
  BY DEF Apart
<1>4. \A n \in pending2 : \A u \in Thread : n \notin taken2[u]
  BY DEF Apart
<1>5. \A u, w \in Thread : \A n \in taken2[u] : u # w => n \notin taken2[w]
  BY DEF Apart
<1>6. QED
  BY <1>1, <1>2, <1>3, <1>4, <1>5 DEF Apart

Takings == [t \in Thread |-> Taken(t)]
Placed(seq) == Chain(seq, head) /\ Apart(live, Elements(seq), Elements(nodes_to_reclaim), Takings)
Unrepeated == Distinct(nodes_to_reclaim) /\ \A t \in Thread : Distinct(current[t])

\* A thread outside the steps that own nodes has none.
LEMMA NothingTaken ==
    ASSUME NEW t \in Thread, Control(t),
           pc[t] \notin {"push_cas", "clear", "outstanding", "list_outstanding"}
    PROVE  Taken(t) = {} /\ current[t] = <<>>
  BY DEF Control, Taken, Elements

\* A chain whose nodes keep their next pointers stays as it is.
LEMMA ChainStays ==
    ASSUME NEW seq, Chain(seq, head), head' = head, \A n \in Elements(seq) : next'[n] = next[n]
    PROVE  Chain(seq, head)'
<1>1. \A i \in 1..Len(seq) : next'[seq[i]] = next[seq[i]]
  BY ElementsOf DEF Chain
<1>2. QED
  BY <1>1 DEF Chain

LEMMA ChainPush ==
    ASSUME NEW seq, Chain(seq, head), NEW n \in Node, n \notin Elements(seq), next[n] = head,
           next' = next, head' = n
    PROVE  Chain(<<n>> \o seq, head)'
<1> DEFINE more == <<n>> \o seq
           m == Len(seq)
<1>1. /\ seq \in Seq(Node) /\ m \in Nat /\ (seq = <<>> <=> m = 0)
      /\ \A i \in 1..m : seq[i] \in Elements(seq)
      /\ DOMAIN seq = 1..m
      /\ Distinct(seq)
      /\ head = IF m = 0 THEN NoNode ELSE seq[1]
      /\ \A i \in 1..m : next[seq[i]] = IF i = m THEN NoNode ELSE seq[i + 1]
  BY ElementsOf, LenProperties DEF Chain, Distinct
<1>2. /\ more \in Seq(Node) /\ Len(more) = m + 1 /\ Distinct(more)
      /\ \A i \in 1..m + 1 : more[i] = IF i = 1 THEN n ELSE seq[i - 1]
  <2>1. seq \in Seq(Node) /\ Distinct(seq)
    BY <1>1
  <2> HIDE DEF more, m
  <2>2. QED
    BY <2>1, Prefixed DEF more, m
<1> HIDE DEF more, m
<1>3. DOMAIN more = 1..m + 1 /\ more # <<>>
  <2>1. more \in Seq(Node) /\ Len(more) = m + 1 /\ m + 1 # 0
    BY <1>1, <1>2
  <2>2. QED
    BY <2>1, LenProperties, EmptySeq
<1>4. ASSUME NEW i \in 1..m + 1
      PROVE  next[more[i]] = IF i = m + 1 THEN NoNode ELSE more[i + 1]
  <2>1. CASE i = 1
    BY <1>1, <1>2, <2>1
  <2>2. CASE i # 1
    <3>1. i - 1 \in 1..m /\ more[i] = seq[i - 1] /\ (i - 1 = m <=> i = m + 1) /\ (i - 1) + 1 = i
      BY <1>1, <1>2, <2>2
    <3>2. i # m + 1 => i + 1 \in 1..m + 1 /\ i + 1 # 1 /\ (i + 1) - 1 = i
      BY <1>1
    <3>3. i # m + 1 => more[i + 1] = seq[i]
      BY <1>2, <3>2
    <3>4. QED
      BY <1>1, <3>1, <3>3
  <2>3. QED
    BY <2>1, <2>2
<1>5. more[1] = n
  BY <1>1, <1>2
<1>6. Chain(more, head)'
  BY <1>2, <1>3, <1>4, <1>5 DEF Chain, Distinct
<1>7. QED
  BY <1>6 DEF more

LEMMA ChainPop ==
    ASSUME NEW seq, Chain(seq, head), head # NoNode, head' = next[head], next' = next
    PROVE  seq # <<>> /\ head = Head(seq) /\ Chain(Tail(seq), head)'
<1> DEFINE rest == Tail(seq)
           m == Len(seq)
<1>1. /\ seq \in Seq(Node) /\ seq # <<>> /\ head = seq[1] /\ DOMAIN seq = 1..m
      /\ Distinct(seq)
      /\ \A i \in 1..m : next[seq[i]] = IF i = m THEN NoNode ELSE seq[i + 1]
  BY LenProperties DEF Chain, Distinct
<1>2. /\ Head(seq) = seq[1] /\ rest \in Seq(Node) /\ Len(rest) = m - 1
      /\ m \in Nat \ {0} /\ Distinct(rest)
      /\ \A i \in 1..m - 1 : rest[i] = seq[i + 1]
  BY <1>1, WithoutHead
<1>3. DOMAIN rest = 1..m - 1 /\ (rest = <<>> <=> m = 1)
  <2>1. DOMAIN rest = 1..m - 1
    BY <1>2, LenProperties
  <2>2. rest = <<>> <=> Len(rest) = 0
    BY <1>2, EmptySeq
  <2> HIDE DEF rest, m
  <2>3. QED
    BY <1>2, <2>1, <2>2
<1> HIDE DEF rest, m
<1>4. ASSUME NEW i \in 1..m - 1
      PROVE  next[rest[i]] = IF i = m - 1 THEN NoNode ELSE rest[i + 1]
  <2>1. i + 1 \in 1..m /\ rest[i] = seq[i + 1] /\ (i + 1 = m <=> i = m - 1)
    BY <1>2
  <2>2. i # m - 1 => i + 1 \in 1..m - 1
    BY <1>2
  <2>3. i # m - 1 => rest[i + 1] = seq[(i + 1) + 1]
    BY <1>2, <2>2
  <2>4. QED
    BY <1>1, <2>1, <2>3
<1>5. head' = IF m = 1 THEN NoNode ELSE rest[1]
  <2>1. 1 \in 1..m /\ (m # 1 => 1 \in 1..m - 1) /\ 1 + 1 = 2
    BY <1>2
  <2>2. next[seq[1]] = IF 1 = m THEN NoNode ELSE seq[1 + 1]
    BY <1>1, <2>1
  <2>3. m # 1 => rest[1] = seq[1 + 1]
    BY <1>2, <2>1
  <2>4. QED
    BY <1>1, <2>2, <2>3
<1>6. Chain(rest, head)'
  <2>1. \A i, j \in 1..Len(rest) : rest[i] = rest[j] => i = j
    BY <1>2, <1>3 DEF Distinct
  <2>2. head' = IF rest = <<>> THEN NoNode ELSE rest[1]
    BY <1>3, <1>5
  <2>3. \A i \in 1..Len(rest) : next'[rest[i]] = IF i = Len(rest) THEN NoNode ELSE rest[i + 1]
    BY <1>2, <1>4
  <2>4. QED
    BY <1>2, <2>1, <2>2, <2>3 DEF Chain
<1>7. QED
  BY <1>1, <1>2, <1>6 DEF rest

\* One step moves nodes only between the stack, the list and its own thread.
LEMMA PlacedLater ==
    ASSUME TypeOK, NEW t \in Thread, Step(t), NEW seq, Placed(seq), NEW seq2, Chain(seq2, head)',
           NEW S, S = Elements(seq), NEW P, P = Elements(nodes_to_reclaim), NEW T, T = Taken(t),
           NEW S2, S2 = Elements(seq2), NEW P2, P2 = Elements(nodes_to_reclaim'),
           NEW T2, T2 = Taken(t)',
           S2 \subseteq live', P2 \subseteq live', T2 \subseteq live',
           \A n \in S2 : n \notin P2 /\ n \notin T2,
           \A n \in P2 : n \notin T2,
           \A n \in live' : n \in S2 \/ n \in P2 \/ n \in T2
                            \/ (n \in live /\ n \notin S /\ n \notin P /\ n \notin T),
           \A n \in live : n \in S \/ n \in P \/ n \in T
                           \/ (n \in live' /\ n \notin S2 /\ n \notin P2 /\ n \notin T2)
    PROVE  Placed(seq2)'
<1>1. \A u \in Thread : u # t => Taken(u)' = Taken(u)
  BY OthersStay DEF Same, Taken
<1>2. Apart(live, S, P, Takings)
  BY DEF Placed
<1> DEFINE taken == [u \in Thread |-> Taken(u)]
           taken2 == [u \in Thread |-> Taken(u)']
<1>3. \A u \in Thread : u # t => taken2[u] = taken[u]
  BY <1>1
<1>4. taken[t] = T /\ taken2[t] = T2 /\ taken = Takings /\ taken2 = Takings'
  BY DEF Takings
<1> HIDE DEF taken, taken2
<1>5. Apart(live', S2, P2, taken2)
  BY <1>2, <1>3, <1>4, ApartLater
<1>6. Elements(seq2)' = S2 /\ Elements(nodes_to_reclaim)' = P2
  BY DEF Elements
<1>7. Apart(live, Elements(seq2), Elements(nodes_to_reclaim), Takings)'
  BY <1>4, <1>5, <1>6 DEF Apart
<1>8. QED
  BY <1>7 DEF Placed

\* What Placed says of one thread's nodes.
LEMMA PlacedFacts ==
    ASSUME TypeOK, NEW seq, Placed(seq), NEW t \in Thread
    PROVE  /\ Chain(seq, head)
           /\ Elements(seq) \subseteq live /\ Elements(nodes_to_reclaim) \subseteq live
           /\ Taken(t) \subseteq live
           /\ \A n \in Elements(seq) : n \notin Elements(nodes_to_reclaim) /\ n \notin Taken(t)
           /\ \A n \in Elements(nodes_to_reclaim) : n \notin Taken(t)
           /\ \A u \in Thread : u # t => \A n \in Taken(u) : n \notin Taken(t)
           /\ \A u \in Thread : Taken(u) \subseteq live
                                /\ \A n \in Elements(seq) : n \notin Taken(u)
<1>1. \A u \in Thread : Takings[u] = Taken(u)
  BY DEF Takings
<1>2. QED
  BY <1>1 DEF Placed, Apart

\* The lists of the others stay without repetition.
LEMMA UnrepeatedLater ==
    ASSUME TypeOK, NEW t \in Thread, Step(t), Unrepeated,
           Distinct(nodes_to_reclaim'), Distinct(current'[t])
    PROVE  Unrepeated'
<1>1. \A u \in Thread : u # t => current'[u] = current[u]
  BY OthersStay DEF Same
<1>2. QED
  BY <1>1 DEF Unrepeated, Distinct

\* Steps that move no node.
LEMMA Untouched ==
    ASSUME TypeOK, NEW t \in Thread, Step(t), NEW seq, Placed(seq), Unrepeated,
           UNCHANGED <<head, next, live, nodes_to_reclaim>>, Taken(t)' = Taken(t),
           current'[t] = current[t]
    PROVE  Placed(seq)' /\ Unrepeated'
<1>1. Chain(seq, head)'
  BY ChainStays DEF Placed
<1>2. Placed(seq)'
  BY <1>1, PlacedFacts, PlacedLater
<1>3. Unrepeated'
  BY UnrepeatedLater DEF Unrepeated
<1>4. QED
  BY <1>2, <1>3

\* The actions that move nodes, one by one.
LEMMA PushNewPlaces ==
    ASSUME TypeOK, ControlInv, NEW t \in Thread, Step(t), NEW seq, Placed(seq), Unrepeated,
           NEW v \in Value, NEW n \in Node, PushNew(t, v, n),
           UNCHANGED <<hpVars, reclaimVars, old_next>>
    PROVE  Placed(seq)' /\ Unrepeated'
<1>1. /\ pc[t] = "idle" /\ pc'[t] = "push_cas" /\ n \notin live /\ live' = live \cup {n}
      /\ head' = head /\ node'[t] = n /\ NoNode \notin Node
      /\ \A m \in Node : m # n => next'[m] = next[m]
      /\ nodes_to_reclaim' = nodes_to_reclaim /\ current' = current
  BY HazardAssumption DEF PushNew, Goto, TypeOK, reclaimVars, Node, NoNode
<1>2. Taken(t) = {}
  BY <1>1, NothingTaken DEF ControlInv
<1>3. Taken(t)' = {n}
  BY <1>1 DEF Taken
<1>4. n \notin Elements(seq) /\ Elements(seq) \subseteq Node
  BY <1>1, PlacedFacts DEF TypeOK
<1>5. Chain(seq, head)'
  BY <1>1, <1>4, ChainStays DEF Placed
<1>6. Placed(seq)'
  BY <1>1, <1>2, <1>3, <1>4, <1>5, PlacedFacts, PlacedLater
<1>7. QED
  BY <1>1, <1>6, UnrepeatedLater DEF Unrepeated

LEMMA PushCasPlaces ==
    ASSUME TypeOK, ControlInv, NEW t \in Thread, Step(t), NEW seq, Placed(seq), Unrepeated,
           NEW n, n = node[t], PushCas(t), UNCHANGED <<hpVars, reclaimVars, old_next>>
    PROVE  Placed(<<n>> \o seq)' /\ Unrepeated' /\ n \in Node /\ n \notin Elements(seq)
<1>1. /\ pc[t] = "push_cas" /\ pc'[t] = "idle" /\ live' = live /\ next' = next
      /\ head = next[n] /\ head' = n /\ n \in Node /\ n # NoNode
      /\ nodes_to_reclaim' = nodes_to_reclaim /\ current' = current
  BY DEF PushCas, Goto, TypeOK, reclaimVars, ControlInv, Control
<1>2. Taken(t) = {n}
  BY <1>1 DEF Taken
<1>3. Taken(t)' = {}
  <2>1. current[t] = <<>>
    BY <1>1 DEF ControlInv, Control
  <2>2. QED
    BY <1>1, <2>1 DEF Taken, Elements
<1>4. n \notin Elements(seq) /\ seq \in Seq(Node)
  BY <1>2, PlacedFacts DEF Chain
<1> DEFINE more == <<n>> \o seq
<1>5. Elements(more) = {n} \cup Elements(seq)
  BY <1>1, <1>4, Prefixed
<1>6. Chain(more, head)'
  BY <1>1, <1>4, ChainPush DEF Placed
<1> HIDE DEF more
<1>7. Placed(more)'
  BY <1>1, <1>2, <1>3, <1>4, <1>5, <1>6, PlacedFacts, PlacedLater
<1>8. Unrepeated'
  BY <1>1, UnrepeatedLater DEF Unrepeated
<1>9. QED
  BY <1>1, <1>4, <1>7, <1>8 DEF more

LEMMA PushRetryPlaces ==
    ASSUME TypeOK, ControlInv, NEW t \in Thread, Step(t), NEW seq, Placed(seq), Unrepeated,
           PushRetry(t), UNCHANGED <<hpVars, reclaimVars, old_next>>
    PROVE  Placed(seq)' /\ Unrepeated'
<1>1. /\ pc[t] = "push_cas" /\ pc'[t] = "push_cas" /\ live' = live /\ head' = head
      /\ node' = node /\ node[t] # NoNode
      /\ \A n \in Node : n # node[t] => next'[n] = next[n]
      /\ nodes_to_reclaim' = nodes_to_reclaim /\ current' = current
  BY DEF PushRetry, Goto, TypeOK, reclaimVars, ControlInv, Control
<1>2. Taken(t) = {node[t]} /\ Taken(t)' = {node[t]}
  BY <1>1 DEF Taken
<1>3. node[t] \notin Elements(seq) /\ Elements(seq) \subseteq Node
  BY <1>2, PlacedFacts DEF TypeOK
<1>4. Chain(seq, head)'
  BY <1>1, <1>3, ChainStays DEF Placed
<1>5. Placed(seq)'
  BY <1>1, <1>2, <1>4, PlacedFacts, PlacedLater
<1>6. QED
  BY <1>1, <1>5, UnrepeatedLater DEF Unrepeated

LEMMA PopCasPlaces ==
    ASSUME TypeOK, ControlInv, NEW t \in Thread, Step(t), NEW seq, Placed(seq), Unrepeated,
           PopCas(t), old_next[t] = next[node[t]]
    PROVE  /\ Placed(Tail(seq))' /\ Unrepeated'
           /\ seq # <<>> /\ node[t] = Head(seq) /\ node[t] # NoNode
<1>1. /\ pc[t] = "pop_cas" /\ pc'[t] = "clear" /\ live' = live /\ next' = next
      /\ head = node[t] /\ head' = next[head] /\ node' = node /\ node[t] \in Node
      /\ node[t] # NoNode
      /\ nodes_to_reclaim' = nodes_to_reclaim /\ current' = current
  BY DEF PopCas, Goto, TypeOK, reclaimVars, ControlInv, Control
<1>2. Taken(t) = {} /\ Taken(t)' = {head}
  BY <1>1, NothingTaken DEF ControlInv, Taken
<1>3. seq # <<>> /\ head = Head(seq) /\ Chain(Tail(seq), head)'
  BY <1>1, ChainPop DEF Placed
<1>4. seq \in Seq(Node) /\ Distinct(seq)
  <2>1. seq \in Seq(Node) /\ DOMAIN seq = 1..Len(seq)
    BY LenProperties DEF Placed, Chain
  <2>2. QED
    BY <2>1 DEF Placed, Chain, Distinct
<1> DEFINE rest == Tail(seq)
<1>5. Elements(seq) = {head} \cup Elements(rest) /\ head \notin Elements(rest)
  BY <1>3, <1>4, WithoutHead
<1>6. Chain(rest, head)'
  BY <1>3
<1> HIDE DEF rest
<1>7. Placed(rest)'
  BY <1>1, <1>2, <1>5, <1>6, PlacedFacts, PlacedLater
<1>8. Unrepeated'
  BY <1>1, UnrepeatedLater DEF Unrepeated
<1>9. QED
  BY <1>1, <1>3, <1>7, <1>8 DEF rest

LEMMA PopReclaimPlaces ==
    ASSUME TypeOK, ControlInv, NEW t \in Thread, Step(t), NEW seq, Placed(seq), Unrepeated,
           PopReclaim(t)
    PROVE  Placed(seq)' /\ Unrepeated'
<1>1. /\ pc[t] = "outstanding" /\ pc'[t] = "exchange" /\ head' = head /\ next' = next
      /\ node[t] \in Node /\ node[t] # NoNode /\ current' = current
  BY DEF PopReclaim, Goto, TypeOK, ControlInv, Control
<1>2. Taken(t) = {node[t]}
  BY <1>1 DEF Taken
<1>3. Taken(t)' = {}
  <2>1. current[t] = <<>>
    BY <1>1 DEF ControlInv, Control
  <2>2. QED
    BY <1>1, <2>1 DEF Taken, Elements
<1>4. Chain(seq, head)'
  BY <1>1, ChainStays DEF Placed
<1>5. nodes_to_reclaim \in Seq(Node) /\ node[t] \notin Elements(nodes_to_reclaim)
  BY <1>2, PlacedFacts DEF TypeOK
<1>6. CASE Protected(t) /\ nodes_to_reclaim' = <<node[t]>> \o nodes_to_reclaim /\ live' = live
  <2>1. /\ Elements(nodes_to_reclaim') = {node[t]} \cup Elements(nodes_to_reclaim)
        /\ Distinct(nodes_to_reclaim) => Distinct(nodes_to_reclaim')
    BY <1>1, <1>5, <1>6, Prefixed
  <2>2. Placed(seq)'
    BY <1>2, <1>3, <1>4, <1>6, <2>1, PlacedFacts, PlacedLater
  <2>3. QED
    BY <1>1, <2>1, <2>2, UnrepeatedLater DEF Unrepeated
<1>7. CASE nodes_to_reclaim' = nodes_to_reclaim /\ live' = live \ {node[t]}
  <2>1. Placed(seq)'
    BY <1>2, <1>3, <1>4, <1>7, PlacedFacts, PlacedLater
  <2>2. QED
    BY <1>1, <1>7, <2>1, UnrepeatedLater DEF Unrepeated
<1>8. QED
  BY <1>6, <1>7 DEF PopReclaim, Free

LEMMA ExchangePlaces ==
    ASSUME TypeOK, ControlInv, NEW t \in Thread, Step(t), NEW seq, Placed(seq), Unrepeated,
           Exchange(t)
    PROVE  Placed(seq)' /\ Unrepeated'
<1>1. /\ pc[t] = "exchange" /\ pc'[t] \in {"idle", "list_outstanding"}
      /\ head' = head /\ next' = next /\ live' = live /\ nodes_to_reclaim' = <<>>
      /\ current'[t] = nodes_to_reclaim
  BY DEF Exchange, NextInList, TypeOK, listVars
<1>2. Taken(t) = {}
  BY <1>1, NothingTaken DEF ControlInv
<1>3. Taken(t)' = Elements(nodes_to_reclaim) /\ Elements(nodes_to_reclaim') = {}
  BY <1>1 DEF Taken, Elements
<1>4. Chain(seq, head)'
  BY <1>1, ChainStays DEF Placed
<1>5. Placed(seq)'
  BY <1>1, <1>2, <1>3, <1>4, PlacedFacts, PlacedLater
<1>6. Distinct(nodes_to_reclaim')
  BY <1>1 DEF Distinct
<1>7. QED
  BY <1>1, <1>5, <1>6, UnrepeatedLater DEF Unrepeated

LEMMA ListReclaimPlaces ==
    ASSUME TypeOK, ControlInv, NEW t \in Thread, Step(t), NEW seq, Placed(seq), Unrepeated,
           ListReclaim(t)
    PROVE  Placed(seq)' /\ Unrepeated'
<1> DEFINE n == Head(current[t])
           rest == Tail(current[t])
<1>1. /\ pc[t] = "list_outstanding" /\ pc'[t] \in {"idle", "list_outstanding"}
      /\ head' = head /\ next' = next /\ Suspect(t) = n /\ current'[t] = rest
      /\ current[t] \in Seq(Node) /\ current[t] # <<>>
  BY DEF ListReclaim, NextInList, TypeOK, Suspect, ControlInv, Control
<1>2. Distinct(current[t])
  BY DEF Unrepeated
<1>3. /\ n \in Node /\ Elements(current[t]) = {n} \cup Elements(rest)
      /\ n \notin Elements(rest) /\ Distinct(rest)
  BY <1>1, <1>2, WithoutHead
<1>4. Taken(t) = {n} \cup Elements(rest)
  BY <1>1, <1>3 DEF Taken
<1> HIDE DEF n, rest
<1>5. Taken(t)' = Elements(rest)
  BY <1>1 DEF Taken, Elements
<1>6. Chain(seq, head)'
  BY <1>1, ChainStays DEF Placed
<1>7. nodes_to_reclaim \in Seq(Node) /\ n \notin Elements(nodes_to_reclaim)
  BY <1>4, PlacedFacts DEF TypeOK
<1>8. CASE nodes_to_reclaim' = <<n>> \o nodes_to_reclaim /\ live' = live
  <2>1. /\ Elements(nodes_to_reclaim') = {n} \cup Elements(nodes_to_reclaim)
        /\ Distinct(nodes_to_reclaim) => Distinct(nodes_to_reclaim')
    BY <1>3, <1>7, <1>8, Prefixed
  <2>2. Placed(seq)'
    BY <1>3, <1>4, <1>5, <1>6, <1>8, <2>1, PlacedFacts, PlacedLater
  <2>3. QED
    BY <1>1, <1>3, <2>1, <2>2, UnrepeatedLater DEF Unrepeated
<1>9. CASE nodes_to_reclaim' = nodes_to_reclaim /\ live' = live \ {n}
  <2>1. Placed(seq)'
    BY <1>3, <1>4, <1>5, <1>6, <1>9, PlacedFacts, PlacedLater
  <2>2. QED
    BY <1>1, <1>3, <1>9, <2>1, UnrepeatedLater DEF Unrepeated
<1>10. QED
  BY <1>1, <1>8, <1>9 DEF ListReclaim, Free
-----------------------------------------------------------------------------
(***************************************************************************)
(* What protects a node.                                                   *)
(***************************************************************************)
Looking(t) == pc[t] \in {"outstanding", "list_outstanding"}

\* A pop that goes on from Validate has its hazard pointer on a live node that no push
\* is about to link; a thread that would delete it has not come to that pointer yet.
Guarded(t) ==
    /\ pc[t] \in {"validate", "next", "pop_cas"} => pointer[slot[t]] = node[t]
    /\ pc[t] \in {"next", "pop_cas"} =>
           /\ node[t] \in live
           /\ \A u \in Thread : pc[u] = "push_cas" => node[u] # node[t]
           /\ \A u \in Thread : Looking(u) /\ Suspect(u) = node[t] => look[u] <= slot[t]
    /\ pc[t] = "pop_cas" => old_next[t] = next[node[t]]

GuardInv == \A t \in Thread : Guarded(t)

\* What a step of a thread may do to the nodes, slots and scans of the others.
Effect(t) ==
    /\ \A n \in live : n \in live' \/ /\ Looking(t) /\ Suspect(t) = n
                                      /\ look[t] = max_hazard_pointers + 1
    /\ \A n \in live : next'[n] = next[n] \/ (pc[t] = "push_cas" /\ node[t] = n)
    /\ \A i \in Slot : pointer'[i] = pointer[i] \/ slot[t] = i
    /\ pc'[t] = "push_cas" => node'[t] \notin live \/ (pc[t] = "push_cas" /\ node'[t] = node[t])
    /\ Looking(t)' => \/ look'[t] = 1
                      \/ /\ Looking(t) /\ Suspect(t)' = Suspect(t) /\ look'[t] = look[t] + 1
                         /\ look[t] \in Slot /\ pointer[look[t]] # Suspect(t)

LEMMA Effects ==
    ASSUME TypeOK, ControlInv, NEW t \in Thread, Step(t)
    PROVE  Effect(t)
<1> USE DEF TypeOK, HpTypeOK, Effect, Goto, Called, listVars, hpVars, reclaimVars, Looking
<1>1. ASSUME NEW v \in Value, NEW n \in Node, PushNew(t, v, n), UNCHANGED <<hpVars, reclaimVars, old_next>>
      PROVE  Effect(t)
  BY <1>1 DEF PushNew
<1>2. ASSUME PushCas(t), UNCHANGED <<hpVars, reclaimVars, old_next>> PROVE Effect(t)
  BY <1>2 DEF PushCas
<1>3. ASSUME PushRetry(t), UNCHANGED <<hpVars, reclaimVars, old_next>> PROVE Effect(t)
  BY <1>3 DEF PushRetry
<1>4. CASE PopEnter(t)
  BY <1>4 DEF PopEnter, Construct
<1>5. CASE PopSearch(t)
  BY <1>5 DEF PopSearch, Skip, Claim, Throw
<1>6. CASE PopLoad(t)
  BY <1>6 DEF PopLoad
<1>7. CASE Protect(t)
  BY <1>7 DEF Protect, Store
<1>8. CASE Validate(t)
  BY <1>8 DEF Validate
<1>9. CASE PopNext(t)
  BY <1>9 DEF PopNext
<1>10. CASE PopCas(t)
  BY <1>10 DEF PopCas
<1>11. CASE PopRetry(t)
  BY <1>11 DEF PopRetry
<1>12. CASE PopClear(t)
  BY <1>12 DEF PopClear, Store
<1>13. CASE LookOn(t)
  BY <1>13 DEF LookOn, Suspect
<1>14. CASE PopReclaim(t)
  BY <1>14 DEF PopReclaim, Free, Suspect, Unprotected
<1>15. CASE Exchange(t)
  BY <1>15 DEF Exchange, NextInList
<1>16. CASE ListReclaim(t)
  BY <1>16 DEF ListReclaim, NextInList, Free, Unprotected
<1>17. CASE Exit(t)
  BY <1>17 DEF Exit, ExitClear, ExitFree
<1>18. QED
  BY <1>1, <1>2, <1>3, <1>4, <1>5, <1>6, <1>7, <1>8, <1>9, <1>10, <1>11, <1>12, <1>13,
     <1>14, <1>15, <1>16, <1>17 DEF Step, Push, PushStep

\* What a thread wants to push or to delete is its own.
LEMMA SuspectsTaken ==
    ASSUME TypeOK, ControlInv, NEW t \in Thread
    PROVE  /\ pc[t] = "push_cas" => node[t] \in Taken(t)
           /\ Looking(t) => Suspect(t) \in Taken(t)
<1>1. Control(t)
  BY DEF ControlInv
<1>2. CASE pc[t] = "list_outstanding"
  <2>1. current[t] \in Seq(Node) /\ current[t] # <<>>
    BY <1>1, <1>2 DEF Control, TypeOK
  <2>2. Head(current[t]) \in Elements(current[t])
    BY <2>1, WithoutHead
  <2>3. QED
    BY <1>2, <2>2 DEF Suspect, Taken
<1>3. CASE pc[t] # "list_outstanding"
  BY <1>1, <1>3 DEF Control, Suspect, Taken, Looking
<1>4. QED
  BY <1>2, <1>3

\* A step of t leaves the nodes that other pops have validated as they were.
LEMMA OthersGuarded ==
    ASSUME TypeOK, ControlInv, SlotsOwned, NEW t \in Thread, Step(t),
           NEW u \in Thread, u # t, Guarded(u)
    PROVE  Guarded(u)'
<1>1. Same(u) /\ Effect(t) /\ max_hazard_pointers \in Nat
  BY OthersStay, Effects, HazardAssumption
<1>2. CASE pc[u] \notin {"validate", "next", "pop_cas"}
  BY <1>1, <1>2 DEF Guarded, Same
<1>3. CASE pc[u] \in {"validate", "next", "pop_cas"}
  <2>1. slot[u] \in Slot /\ slot[t] # slot[u]
    BY <1>3, HazardAssumption DEF ControlInv, Control, Popping, TypeOK, HpTypeOK, SlotsOwned
  <2>2. pointer'[slot'[u]] = node'[u] /\ pointer[slot[u]] = node[u]
    BY <1>1, <1>3, <2>1 DEF Guarded, Effect, Same
  <2>3. CASE pc[u] = "validate"
    BY <1>1, <2>2, <2>3 DEF Guarded, Same
  <2>4. CASE pc[u] \in {"next", "pop_cas"}
    <3>1. /\ node[u] \in live
          /\ \A w \in Thread : pc[w] = "push_cas" => node[w] # node[u]
          /\ \A w \in Thread : Looking(w) /\ Suspect(w) = node[u] => look[w] <= slot[u]
      BY <2>4 DEF Guarded
    <3>2. node[u] \in live'
      <4>1. slot[u] # max_hazard_pointers + 1 /\ ~(max_hazard_pointers + 1 <= slot[u])
        BY <1>1, <2>1 DEF Slot
      <4>2. QED
        BY <1>1, <3>1, <4>1 DEF Effect
    <3>3. next'[node[u]] = next[node[u]]
      BY <1>1, <3>1 DEF Effect
    <3>4. ASSUME NEW w \in Thread, pc'[w] = "push_cas" PROVE node'[w] # node[u]
      <4>1. CASE w = t
        BY <1>1, <3>1, <3>4, <4>1 DEF Effect
      <4>2. CASE w # t
        BY <3>1, <3>4, <4>2, OthersStay DEF Same
      <4>3. QED
        BY <4>1, <4>2
    <3>5. ASSUME NEW w \in Thread, Looking(w)', Suspect(w)' = node[u] PROVE look'[w] <= slot[u]
      <4>1. CASE w = t
        <5>1. CASE look'[t] = 1
          BY <1>1, <2>1, <4>1, <5>1 DEF Slot
        <5>2. CASE /\ Looking(t) /\ Suspect(t)' = Suspect(t) /\ look'[t] = look[t] + 1
                   /\ look[t] \in Slot /\ pointer[look[t]] # Suspect(t)
          <6>1. look[t] <= slot[u] /\ look[t] # slot[u]
            BY <2>2, <3>1, <3>5, <4>1, <5>2
          <6>2. QED
            BY <1>1, <2>1, <4>1, <5>2, <6>1 DEF Slot
        <5>3. QED
          BY <1>1, <3>5, <4>1, <5>1, <5>2 DEF Effect
      <4>2. CASE w # t
        <5>1. Looking(w) /\ Suspect(w) = node[u] /\ look'[w] = look[w]
          BY <3>5, <4>2, OthersStay DEF Same, Looking, Suspect
        <5>2. QED
          BY <3>1, <5>1
      <4>3. QED
        BY <4>1, <4>2
    <3>6. pc[u] = "pop_cas" => old_next'[u] = next'[node[u]]
      BY <1>1, <3>3 DEF Guarded, Same
    <3>7. QED
      BY <1>1, <2>2, <3>2, <3>4, <3>5, <3>6 DEF Guarded, Same
  <2>5. QED
    BY <1>3, <2>3, <2>4
<1>4. QED
  BY <1>2, <1>3

\* Validate and PopNext give the guarantee, the other steps of t keep it or end it.
LEMMA OwnGuarded ==
    ASSUME TypeOK, ControlInv, NEW t \in Thread, Step(t), Guarded(t),
           NEW seq, Placed(seq)
    PROVE  Guarded(t)'
<1>1. Control(t) /\ NoNode \notin Node
  BY HazardAssumption DEF ControlInv, Node, NoNode
<1>2. CASE pc'[t] \notin {"validate", "next", "pop_cas"}
  BY <1>2 DEF Guarded
<1>3. CASE Protect(t)
  BY <1>1, <1>3 DEF Protect, Store, Goto, Guarded, TypeOK, HpTypeOK
<1>4. CASE Validate(t) /\ pc'[t] = "next"
  <2>1. /\ pc[t] = "validate" /\ node'[t] = head /\ head = node[t] /\ head # NoNode
        /\ live' = live /\ UNCHANGED <<slot, pointer, look, current>>
        /\ \A u \in Thread : u # t => pc'[u] = pc[u] /\ node'[u] = node[u]
    BY <1>4 DEF Validate, TypeOK, listVars, hpVars, reclaimVars
  <2>2. head \in Elements(seq)
    <3>1. seq # <<>> /\ seq \in Seq(Node) /\ head = seq[1]
      BY <2>1 DEF Placed, Chain
    <3>2. QED
      BY <3>1, WithoutHead
  <2>3. head \in live /\ \A u \in Thread : head \notin Taken(u)
    BY <2>2, PlacedFacts
  <2>4. ASSUME NEW u \in Thread
        PROVE  (pc'[u] = "push_cas" => node'[u] # head) /\ ~(Looking(u)' /\ Suspect(u)' = head)
    <3>1. CASE u = t
      BY <1>4, <3>1 DEF Looking
    <3>2. CASE u # t
      <4>1. (Looking(u)' => Looking(u)) /\ Suspect(u)' = Suspect(u)
        BY <2>1, <3>2 DEF Looking, Suspect
      <4>2. QED
        BY <2>1, <2>3, <3>2, <4>1, SuspectsTaken
    <3>3. QED
      BY <3>1, <3>2
  <2>5. pointer'[slot'[t]] = node'[t]
    BY <2>1 DEF Guarded
  <2>6. QED
    BY <1>4, <2>1, <2>3, <2>4, <2>5 DEF Guarded
<1>5. CASE PopNext(t)
  <2>1. /\ pc[t] = "next" /\ pc'[t] = "pop_cas" /\ old_next'[t] = next[node[t]]
        /\ node' = node /\ live' = live /\ next' = next
        /\ UNCHANGED <<slot, pointer, look, current>>
        /\ \A u \in Thread : u # t => pc'[u] = pc[u]
    BY <1>5 DEF PopNext, Goto, TypeOK, listVars, hpVars, reclaimVars
  <2>2. ASSUME NEW u \in Thread
        PROVE  /\ pc'[u] = "push_cas" => node'[u] # node[t]
               /\ Looking(u)' /\ Suspect(u)' = node[t] => look'[u] <= slot[t]
    <3>1. CASE u = t
      BY <2>1, <3>1 DEF Looking
    <3>2. CASE u # t
      <4>1. (Looking(u)' => Looking(u)) /\ Suspect(u)' = Suspect(u)
        BY <2>1, <3>2 DEF Looking, Suspect
      <4>2. QED
        BY <2>1, <3>2, <4>1 DEF Guarded
    <3>3. QED
      BY <3>1, <3>2
  <2>3. QED
    BY <2>1, <2>2 DEF Guarded
<1>6. pc'[t] \in {"validate", "next", "pop_cas"} =>
          Protect(t) \/ PopNext(t) \/ (Validate(t) /\ pc'[t] = "next")
  <2> USE DEF TypeOK, Goto
  <2>1. Push(t) => pc'[t] \in {"idle", "push_cas"}
    BY DEF Push, PushStep, PushNew, PushCas, PushRetry
  <2>2. (PopEnter(t) \/ PopSearch(t)) => pc'[t] \in {"load", "construct", "idle"}
    BY DEF PopEnter, PopSearch
  <2>3. (PopLoad(t) \/ PopCas(t) \/ PopRetry(t)) => pc'[t] \in {"protect", "clear"}
    BY DEF PopLoad, PopCas, PopRetry
  <2>4. (PopClear(t) \/ LookOn(t) \/ PopReclaim(t) \/ Exchange(t) \/ ListReclaim(t) \/ Exit(t))
            => pc'[t] \notin {"validate", "next", "pop_cas"}
    BY DEF PopClear, LookOn, PopReclaim, Exchange, ListReclaim, NextInList, Exit
  <2>5. Validate(t) => pc'[t] \in {"protect", "clear", "next"}
    BY DEF Validate
  <2>6. QED
    BY <2>1, <2>2, <2>3, <2>4, <2>5 DEF Step
<1>7. QED
  BY <1>2, <1>3, <1>4, <1>5, <1>6
-----------------------------------------------------------------------------
(***************************************************************************)
(* The inductive invariant.                                                *)
(***************************************************************************)
QuietStep(t) == \/ PopEnter(t) \/ PopSearch(t) \/ PopLoad(t) \/ Protect(t) \/ Validate(t)
                \/ PopNext(t) \/ PopRetry(t) \/ PopClear(t) \/ LookOn(t) \/ Exit(t)

\* The actions that move no node.
LEMMA QuietPlaces ==
    ASSUME TypeOK, ControlInv, NEW t \in Thread, QuietStep(t)
    PROVE  UNCHANGED <<head, next, live, nodes_to_reclaim, current>> /\ Taken(t)' = Taken(t)
<1>1. Control(t)
  BY DEF ControlInv
<1>2. UNCHANGED <<head, next, live, nodes_to_reclaim, current>>
  BY DEF QuietStep, PopEnter, PopSearch, PopLoad, Protect, Validate, PopNext, PopRetry,
         PopClear, LookOn, Exit, listVars, reclaimVars
<1> USE DEF TypeOK, Goto, listVars, reclaimVars
<1>3. CASE pc'[t] = pc[t] /\ node'[t] = node[t]
  BY <1>2, <1>3 DEF Taken
<1>4. CASE /\ pc[t] \notin {"push_cas", "clear", "outstanding", "list_outstanding"}
           /\ pc'[t] \notin {"push_cas", "clear", "outstanding"} \/ node'[t] = NoNode
  <2>1. Taken(t) = {} /\ current[t] = <<>>
    BY <1>1, <1>4, NothingTaken
  <2>2. Taken(t)' = {}
    BY <1>2, <1>4, <2>1 DEF Taken, Elements
  <2>3. QED
    BY <1>2, <2>1, <2>2
<1>5. CASE PopClear(t)
  <2>1. pc[t] = "clear" /\ node' = node /\ current[t] = <<>>
    BY <1>1, <1>5 DEF PopClear, Control
  <2>2. CASE node[t] = NoNode
    <3>1. Taken(t) = {} /\ pc'[t] = "idle"
      BY <1>5, <2>1, <2>2 DEF Taken, PopClear
    <3>2. QED
      BY <1>2, <2>1, <3>1 DEF Taken, Elements
  <2>3. CASE node[t] # NoNode
    BY <1>5, <2>1, <2>3 DEF Taken, PopClear
  <2>4. QED
    BY <2>2, <2>3
<1>6. CASE PopEnter(t) \/ PopSearch(t) \/ PopLoad(t) \/ Protect(t)
  BY <1>4, <1>6 DEF PopEnter, PopSearch, PopLoad, Protect
<1>7. CASE Validate(t)
  BY <1>4, <1>7 DEF Validate
<1>8. CASE PopNext(t) \/ PopRetry(t)
  BY <1>4, <1>8 DEF PopNext, PopRetry
<1>9. CASE LookOn(t) \/ Exit(t)
  BY <1>3, <1>9 DEF LookOn, Exit
<1>10. QED
  BY <1>2, <1>5, <1>6, <1>7, <1>8, <1>9 DEF QuietStep

\* Every node is in one place after a step.
LEMMA PlacesLater ==
    ASSUME TypeOK, ControlInv, GuardInv, NEW t \in Thread, Step(t),
           NEW seq, Placed(seq), Unrepeated
    PROVE  (\E seq2 : Placed(seq2)') /\ Unrepeated'
<1>1. CASE QuietStep(t)
  BY <1>1, QuietPlaces, Untouched
<1>2. ASSUME NEW v \in Value, NEW n \in Node, PushNew(t, v, n),
             UNCHANGED <<hpVars, reclaimVars, old_next>>
      PROVE  Placed(seq)' /\ Unrepeated'
  BY <1>2, PushNewPlaces
<1>3. ASSUME PushCas(t), UNCHANGED <<hpVars, reclaimVars, old_next>>
      PROVE  (\E seq2 : Placed(seq2)') /\ Unrepeated'
  <2>1. PICK n : n = node[t]
    OBVIOUS
  <2> DEFINE more == <<n>> \o seq
  <2>2. Placed(more)' /\ Unrepeated'
    BY <1>3, <2>1, PushCasPlaces
  <2> HIDE DEF more
  <2>3. QED
    BY <2>2
<1>4. ASSUME PushRetry(t), UNCHANGED <<hpVars, reclaimVars, old_next>>
      PROVE  Placed(seq)' /\ Unrepeated'
  BY <1>4, PushRetryPlaces
<1>5. CASE PopCas(t)
  <2> DEFINE rest == Tail(seq)
  <2>1. old_next[t] = next[node[t]]
    BY <1>5 DEF PopCas, Goto, GuardInv, Guarded
  <2>2. Placed(rest)' /\ Unrepeated'
    BY <1>5, <2>1, PopCasPlaces
  <2> HIDE DEF rest
  <2>3. QED
    BY <2>2
<1>6. CASE PopReclaim(t)
  BY <1>6, PopReclaimPlaces
<1>7. CASE Exchange(t)
  BY <1>7, ExchangePlaces
<1>8. CASE ListReclaim(t)
  BY <1>8, ListReclaimPlaces
<1>9. CASE Push(t)
  BY <1>2, <1>3, <1>4, <1>9 DEF Push, PushStep
<1>10. QED
  BY <1>1, <1>5, <1>6, <1>7, <1>8, <1>9 DEF Step, QuietStep

PlacesInv == (\E seq : Placed(seq)) /\ Unrepeated

\* What is pushed is a value.
DataInv == \A t \in Thread : pc[t] = "push_cas" => data[node[t]] \in Value

\* A push keeps its element until it has stored it.
LEMMA DataLater ==
    ASSUME TypeOK, ControlInv, PlacesInv, DataInv, NEW t \in Thread, Step(t)
    PROVE  DataInv'
<1> SUFFICES ASSUME NEW u \in Thread, pc'[u] = "push_cas" PROVE data'[node'[u]] \in Value
  BY DEF DataInv
<1> USE DEF TypeOK, Goto
<1>1. PICK seq : Placed(seq)
  BY DEF PlacesInv
<1>2. CASE u = t
  <2>1. ASSUME NEW v \in Value, NEW n \in Node, PushNew(t, v, n) PROVE data'[node'[u]] \in Value
    BY <1>2, <2>1 DEF PushNew
  <2>2. CASE PushRetry(t)
    BY <1>2, <2>2 DEF PushRetry, DataInv
  <2>3. PushCas(t) => pc'[t] # "push_cas"
    BY DEF PushCas
  <2>4. (PopEnter(t) \/ PopSearch(t) \/ PopLoad(t) \/ Protect(t) \/ Validate(t))
            => pc'[t] # "push_cas"
    BY DEF PopEnter, PopSearch, PopLoad, Protect, Validate
  <2>5. (PopNext(t) \/ PopCas(t) \/ PopRetry(t) \/ PopClear(t) \/ LookOn(t))
            => pc'[t] # "push_cas"
    BY DEF PopNext, PopCas, PopRetry, PopClear, LookOn
  <2>6. (PopReclaim(t) \/ Exchange(t) \/ ListReclaim(t) \/ Exit(t)) => pc'[t] # "push_cas"
    BY DEF PopReclaim, Exchange, ListReclaim, NextInList, Exit
  <2>7. QED
    BY <1>2, <2>1, <2>2, <2>3, <2>4, <2>5, <2>6 DEF Step, Push, PushStep
<1>3. CASE u # t
  <2>1. pc[u] = "push_cas" /\ node'[u] = node[u]
    BY <1>3, OthersStay DEF Same
  <2>2. node[u] \in Taken(u) /\ Taken(u) \subseteq live /\ node[u] \notin Taken(t)
    BY <1>1, <1>3, <2>1, SuspectsTaken, PlacedFacts
  <2>3. data'[node[u]] = data[node[u]]
    <3>1. ASSUME NEW v \in Value, NEW n \in Node, PushNew(t, v, n) PROVE data'[node[u]] = data[node[u]]
      BY <2>2, <3>1 DEF PushNew
    <3>2. CASE PopClear(t)
      <4>1. node[t] # NoNode => node[t] \in Taken(t)
        BY <3>2 DEF PopClear, Taken
      <4>2. QED
        BY <2>2, <3>2, <4>1 DEF PopClear
    <3>3. CASE PopReclaim(t)
      <4>1. Suspect(t) = node[t] /\ Suspect(t) \in Taken(t)
        BY <3>3, SuspectsTaken DEF PopReclaim, Suspect, Looking
      <4>2. QED
        BY <2>2, <3>3, <4>1 DEF PopReclaim, Free
    <3>4. CASE ListReclaim(t)
      <4>1. Suspect(t) \in Taken(t)
        BY <3>4, SuspectsTaken DEF ListReclaim, Looking
      <4>2. QED
        BY <2>2, <3>4, <4>1 DEF ListReclaim, Free
    <3>5. QED
      BY <3>1, <3>2, <3>3, <3>4 DEF Step, Push, PushStep, PushCas, PushRetry, PopEnter, PopSearch,
         PopLoad, Protect, Validate, PopNext, PopCas, PopRetry, LookOn, Exchange, Exit, listVars
  <2>4. QED
    BY <2>1, <2>3 DEF DataInv
<1>4. QED
  BY <1>2, <1>3

IInv == TypeOK /\ SlotsOwned /\ ControlInv /\ PlacesInv /\ GuardInv /\ DataInv

\* The three facts about the inductive invariant.
LEMMA Initial == Init => IInv
<1> SUFFICES ASSUME Init PROVE IInv
  OBVIOUS
<1> USE HazardAssumption DEF Init, ListInit, HpInit, Slot, Node, NoNode
<1>1. HpTypeOK /\ SlotsOwned
  <2>1. crowded \in BOOLEAN
    BY Zenon
  <2>2. QED
    BY <2>1 DEF HpTypeOK, SlotsOwned
<1>2. TypeOK
  BY <1>1 DEF TypeOK, PcSet
<1>3. ControlInv /\ GuardInv /\ DataInv
  BY DEF ControlInv, Control, Popping, GuardInv, Guarded, DataInv
<1>4. Chain(<<>>, head)
  BY DEF Chain
<1>5. \A t \in Thread : Taken(t) = {}
  BY DEF Taken, Elements
<1>6. Placed(<<>>)
  BY <1>4, <1>5 DEF Placed, Apart, Takings, Elements
<1>7. Unrepeated
  BY DEF Unrepeated, Distinct
<1>8. QED
  BY <1>1, <1>2, <1>3, <1>6, <1>7 DEF IInv, PlacesInv

LEMMA Inductive == IInv /\ [Next]_vars => IInv'
<1> SUFFICES ASSUME IInv, [Next]_vars PROVE IInv'
  OBVIOUS
<1>1. CASE UNCHANGED vars
  <2>1. TypeOK' /\ SlotsOwned'
    BY <1>1 DEF IInv, TypeOK, HpTypeOK, SlotsOwned, vars, listVars, hpVars, reclaimVars
  <2>2. ControlInv' /\ DataInv'
    BY <1>1 DEF IInv, ControlInv, Control, DataInv, vars, listVars, hpVars, reclaimVars
  <2>3. GuardInv'
    BY <1>1 DEF IInv, GuardInv, Guarded, Looking, Suspect, vars, listVars, hpVars, reclaimVars
  <2>4. PlacesInv'
    <3>1. UNCHANGED <<head, next, live, nodes_to_reclaim, current, pc, node>>
      BY <1>1 DEF vars, listVars, reclaimVars
    <3>2. PICK seq : Placed(seq)
      BY DEF IInv, PlacesInv
    <3>3. Chain(seq, head)' /\ Takings' = Takings
      BY <3>1, <3>2, ChainStays DEF Placed, Takings, Taken, Elements
    <3>4. /\ Elements(seq)' = Elements(seq)
          /\ Elements(nodes_to_reclaim)' = Elements(nodes_to_reclaim)
      BY <3>1 DEF Elements
    <3>5. Placed(seq)'
      BY <3>1, <3>2, <3>3, <3>4 DEF Placed, Apart
    <3>6. Unrepeated'
      BY <3>1 DEF IInv, PlacesInv, Unrepeated, Distinct
    <3>7. QED
      BY <3>5, <3>6 DEF PlacesInv
  <2>5. QED
    BY <2>1, <2>2, <2>3, <2>4 DEF IInv
<1>2. ASSUME NEW t \in Thread, Step(t) PROVE IInv'
  <2> USE DEF IInv
  <2>1. TypeOK' /\ Control(t)'
    BY <1>2, Types
  <2>2. SlotsOwned'
    <3>1. [HpNext]_hpVars
      BY <1>2, ArrayStep DEF Next
    <3>2. QED
      BY <3>1, OwnedStep DEF TypeOK
  <2>3. ASSUME NEW u \in Thread, u # t PROVE Control(u)'
    <3>1. Same(u)
      BY <1>2, <2>3, OthersStay
    <3>2. Control(u)
      BY DEF ControlInv
    <3>3. QED
      BY <3>1, <3>2 DEF Same, Control
  <2>4. PICK seq : Placed(seq)
    BY DEF PlacesInv
  <2>5. PlacesInv'
    BY <1>2, <2>4, PlacesLater DEF PlacesInv
  <2>6. ASSUME NEW u \in Thread PROVE Guarded(u)'
    <3>1. Guarded(u)
      BY DEF GuardInv
    <3>2. CASE u = t
      BY <1>2, <2>4, <3>1, <3>2, OwnGuarded
    <3>3. CASE u # t
      BY <1>2, <3>1, <3>3, OthersGuarded
    <3>4. QED
      BY <3>2, <3>3
  <2>7. DataInv'
    BY <1>2, DataLater
  <2>8. ControlInv' /\ GuardInv'
    BY <2>1, <2>3, <2>6 DEF ControlInv, GuardInv
  <2>9. QED
    BY <2>1, <2>2, <2>5, <2>7, <2>8
<1>3. QED
  BY <1>1, <1>2 DEF Next

LEMMA Invariant == Spec => []IInv
  BY Initial, Inductive, PTL DEF Spec

-----------------------------------------------------------------------------
(***************************************************************************)
(* Every variable keeps to its type: no null pointer is followed and no    *)
(* list holds anything else (lock_free_stack2.h, hazard_pointer.cpp).      *)
(***************************************************************************)
THEOREM TypeCorrect == Spec => []TypeOK
<1>1. IInv => TypeOK
  BY DEF IInv
<1>2. QED
  BY <1>1, Invariant, PTL

\* The stack is a client of the array of hazard pointers as HpSpec has it.
LEMMA IsAClient == Spec => HpSpec
<1>1. Init => HpInit
  BY DEF Init
<1>2. IInv /\ [Next]_vars => [HpNext]_hpVars
  BY ArrayStep DEF IInv
<1>3. QED
  BY <1>1, <1>2, Invariant, PTL DEF Spec, HpSpec

(***************************************************************************)
(* hazard_pointer.cpp:22-50: each slot has one owner, so that no thread    *)
(* overwrites the pointer of another; and a free slot protects nothing.    *)
(***************************************************************************)
THEOREM SlotsHaveOneOwner == Spec => []SlotsOwned
  BY IsAClient, ArraySlots, PTL

(***************************************************************************)
(* hazard_pointer.cpp:34-37: a pop throws only when there have been more   *)
(* threads that had or wanted a slot than slots.                           *)
(***************************************************************************)
THEOREM NoThrow == Spec => []ThrowsOnlyIfTooMany
  BY IsAClient, ArrayNoThrow, PTL

(***************************************************************************)
(* lock_free_stack2.h:25-36: what a pop has validated is neither deleted   *)
(* nor linked anew before its comparison with head, whatever other threads *)
(* pop, delete and push meanwhile.                                         *)
(***************************************************************************)
THEOREM NodesSafe == Spec => []NoUseAfterFree
<1>1. IInv => NoUseAfterFree
  BY DEF IInv, GuardInv, Guarded, NoUseAfterFree
<1>2. QED
  BY <1>1, Invariant, PTL

(***************************************************************************)
(* hazard_pointer.cpp:72-104: each node is on the stack, to be reclaimed   *)
(* or with one thread, once: none is lost and none is deleted twice.       *)
(***************************************************************************)
THEOREM NodesKept == Spec => []NodesAccounted
<1>1. IInv => NodesAccounted
  <2> SUFFICES ASSUME IInv PROVE NodesAccounted
    OBVIOUS
  <2>1. PICK seq : Placed(seq)
    BY DEF IInv, PlacesInv
  <2>2. Listed(head) = Elements(seq)
    BY <2>1, ListedIs DEF Placed
  <2>3. \A t \in Thread : Takings[t] = Taken(t)
    BY DEF Takings
  <2> DEFINE stack == Listed(head)
             pending == Elements(nodes_to_reclaim)
  <2> HIDE DEF stack, pending
  <2>4. Apart(live, stack, pending, Takings)
    BY <2>1, <2>2 DEF Placed, stack, pending
  <2>5. live = stack \cup pending \cup UNION {Taken(t) : t \in Thread}
    <3>1. \A n : n \in UNION {Taken(t) : t \in Thread} <=> \E t \in Thread : n \in Taken(t)
      OBVIOUS
    <3>2. ASSUME NEW n \in live PROVE n \in stack \cup pending \cup UNION {Taken(t) : t \in Thread}
      BY <2>3, <2>4, <3>1, <3>2 DEF Apart
    <3>3. ASSUME NEW n, n \in stack \cup pending \cup UNION {Taken(t) : t \in Thread}
          PROVE  n \in live
      BY <2>3, <2>4, <3>1, <3>3 DEF Apart
    <3>4. QED
      BY <3>2, <3>3
  <2>6. /\ stack \cap pending = {}
        /\ \A t \in Thread : Taken(t) \cap (stack \cup pending) = {}
        /\ \A t, u \in Thread : t # u => Taken(t) \cap Taken(u) = {}
    BY <2>3, <2>4 DEF Apart
  <2>7. Distinct(nodes_to_reclaim) /\ \A t \in Thread : Distinct(current[t])
    BY DEF IInv, PlacesInv, Unrepeated
  <2>8. QED
    BY <2>5, <2>6, <2>7 DEF NodesAccounted, stack, pending
<1>2. QED
  BY <1>1, Invariant, PTL
-----------------------------------------------------------------------------
(***************************************************************************)
(* The refinement.                                                         *)
(***************************************************************************)
Values(seq) == [i \in 1..Len(seq) |-> data[seq[i]]]

ListTypes == data \in [Node -> Value \cup {Nothing}] /\ next \in [Node -> Node \cup {NoNode}]

LEMMA TypesOfList == (TypeOK => ListTypes) /\ (TypeOK' => ListTypes')
  BY DEF TypeOK, ListTypes

\* The contents of the stack, now and after a step.
LEMMA ContentsAre == \A seq : ListTypes /\ Chain(seq, head) => Contents = Values(seq)
  BY ContentsIs DEF Values, ListTypes

LEMMA ContentsWillBe == (\A seq : ListTypes /\ Chain(seq, head) => Contents = Values(seq))'
  BY ContentsAre, PTL

\* They are a sequence.
LEMMA ValuesSeq ==
    ASSUME ListTypes, NEW seq \in Seq(Node)
    PROVE  /\ Values(seq) \in Seq(Value \cup {Nothing}) /\ Len(Values(seq)) = Len(seq)
           /\ \A i \in 1..Len(seq) : Values(seq)[i] = data[seq[i]]
<1>1. Len(seq) \in Nat /\ \A i \in 1..Len(seq) : seq[i] \in Node
  BY LenProperties, ElementOfSeq
<1>2. Values(seq) \in [1..Len(seq) -> Value \cup {Nothing}]
  BY <1>1 DEF Values, ListTypes
<1>3. QED
  BY <1>1, <1>2, SeqOf DEF Values

\* Steps that leave the elements of the stack alone.
LEMMA ContentsSame ==
    ASSUME ListTypes, ListTypes', NEW seq, Chain(seq, head), Chain(seq, head)',
           \A n \in Elements(seq) : data'[n] = data[n]
    PROVE  Contents' = Contents
<1>1. Contents = Values(seq)
  BY ContentsAre
<1>2. Contents' = Values(seq)'
  BY ContentsWillBe
<1>3. \A i \in 1..Len(seq) : seq[i] \in Elements(seq)
  BY ElementsOf DEF Chain
<1>4. QED
  BY <1>1, <1>2, <1>3 DEF Values

\* What PushCas adds.
LEMMA ContentsPushed ==
    ASSUME ListTypes, ListTypes', NEW seq, Chain(seq, head), NEW n \in Node,
           Chain(<<n>> \o seq, head)', data' = data
    PROVE  Contents' = <<data[n]>> \o Contents
<1> DEFINE D == Value \cup {Nothing}
           more == <<n>> \o seq
           m == Len(seq)
           old == Values(seq)
           new == Values(more)
           d == data[n]
<1>1. Contents = old
  BY ContentsAre
<1>2. Contents' = new
  <2>1. Contents' = Values(more)'
    BY ContentsWillBe
  <2>2. Values(more)' = new
    BY DEF Values
  <2>3. QED
    BY <2>1, <2>2
<1>3. seq \in Seq(Node) /\ m \in Nat /\ d \in D
  BY LenProperties DEF Chain, ListTypes
<1>4. /\ more \in Seq(Node) /\ Len(more) = m + 1
      /\ \A i \in 1..m + 1 : more[i] = IF i = 1 THEN n ELSE seq[i - 1]
  <2>1. seq \in Seq(Node)
    BY <1>3
  <2> HIDE DEF more, m
  <2>2. QED
    BY <2>1, Prefixed DEF more, m
<1>5. old \in Seq(D) /\ Len(old) = m /\ \A i \in 1..m : old[i] = data[seq[i]]
  BY <1>3, ValuesSeq
<1> HIDE DEF more
<1>6. new \in Seq(D) /\ Len(new) = m + 1 /\ \A i \in 1..m + 1 : new[i] = data[more[i]]
  BY <1>4, ValuesSeq
<1> HIDE DEF m, old, new, D, d
<1> DEFINE two == <<d>> \o old
<1>7. /\ two \in Seq(D) /\ Len(two) = m + 1
      /\ \A i \in 1..m + 1 : two[i] = IF i = 1 THEN d ELSE old[i - 1]
  <2>1. /\ <<d>> \o old \in Seq(D) /\ Len(<<d>> \o old) = Len(old) + 1
        /\ \A i \in 1..Len(old) + 1 : (<<d>> \o old)[i] = IF i = 1 THEN d ELSE old[i - 1]
    BY <1>3, <1>5, Prefixed
  <2> HIDE DEF two
  <2>2. QED
    BY <1>5, <2>1 DEF two
<1> HIDE DEF two
<1>8. ASSUME NEW i \in 1..m + 1 PROVE new[i] = two[i]
  <2>1. CASE i = 1
    BY <1>4, <1>6, <1>7, <2>1 DEF d
  <2>2. CASE i # 1
    <3>1. i - 1 \in 1..m
      BY <1>3, <2>2
    <3>2. new[i] = data[seq[i - 1]]
      BY <1>4, <1>6, <2>2
    <3>3. two[i] = old[i - 1]
      BY <1>7, <2>2
    <3>4. old[i - 1] = data[seq[i - 1]]
      BY <1>5, <3>1
    <3>5. QED
      BY <3>2, <3>3, <3>4
  <2>3. QED
    BY <2>1, <2>2
<1>9. new = two
  BY <1>6, <1>7, <1>8, SeqEqual
<1>10. QED
  BY <1>1, <1>2, <1>9 DEF two, d

\* What PopCas removes.
LEMMA ContentsPopped ==
    ASSUME ListTypes, ListTypes', NEW seq, Chain(seq, head), seq # <<>>,
           Chain(Tail(seq), head)', \A n \in Elements(Tail(seq)) : data'[n] = data[n]
    PROVE  Contents # <<>> /\ Head(Contents) = data[Head(seq)] /\ Contents' = Tail(Contents)
<1> DEFINE D == Value \cup {Nothing}
           rest == Tail(seq)
           m == Len(seq)
           old == Values(seq)
           new == Values(rest)
<1>1. Contents = old
  BY ContentsAre
<1>2. Contents' = new
  <2>1. Contents' = Values(rest)'
    BY ContentsWillBe
  <2>2. Values(rest)' = new
    <3>1. rest \in Seq(Node)
      BY WithoutHead DEF Chain
    <3>2. \A i \in 1..Len(rest) : rest[i] \in Elements(rest)
      BY <3>1, ElementsOf
    <3>3. QED
      BY <3>2 DEF Values
  <2>3. QED
    BY <2>1, <2>2
<1>3. seq \in Seq(Node)
  BY DEF Chain
<1>4. /\ Head(seq) = seq[1] /\ rest \in Seq(Node) /\ Len(rest) = m - 1 /\ m \in Nat \ {0}
      /\ \A i \in 1..m - 1 : rest[i] = seq[i + 1]
  BY <1>3, WithoutHead
<1>5. old \in Seq(D) /\ Len(old) = m /\ \A i \in 1..m : old[i] = data[seq[i]]
  BY <1>3, ValuesSeq
<1> HIDE DEF rest
<1>6. new \in Seq(D) /\ Len(new) = m - 1 /\ \A i \in 1..m - 1 : new[i] = data[rest[i]]
  BY <1>4, ValuesSeq
<1> HIDE DEF m, old, new, D
<1>7. old # <<>>
  BY <1>4, <1>5, EmptySeq
<1>8. /\ Head(old) = old[1] /\ Tail(old) \in Seq(D) /\ Len(Tail(old)) = m - 1
      /\ \A i \in 1..m - 1 : Tail(old)[i] = old[i + 1]
  BY <1>5, <1>7, WithoutHead
<1>9. ASSUME NEW i \in 1..m - 1 PROVE new[i] = Tail(old)[i]
  <2>1. i + 1 \in 1..m
    BY <1>4
  <2>2. new[i] = data[seq[i + 1]]
    BY <1>4, <1>6
  <2>3. Tail(old)[i] = old[i + 1]
    BY <1>8
  <2>4. old[i + 1] = data[seq[i + 1]]
    BY <1>5, <2>1
  <2>5. QED
    BY <2>2, <2>3, <2>4
<1>10. new = Tail(old)
  BY <1>6, <1>8, <1>9, SeqEqual
<1>11. 1 \in 1..m
  BY <1>4
<1>12. QED
  BY <1>1, <1>2, <1>4, <1>5, <1>7, <1>8, <1>10, <1>11

\* What a step changes of the answers of the other threads: nothing.
LEMMA ReturnedLater ==
    ASSUME TypeOK, ControlInv, TypeOK', NEW t \in Thread, Step(t), NEW seq, Placed(seq),
           NEW r, r = Returned'[t],
           \A u \in Thread : \A n \in Taken(u) : u # t => data'[n] = data[n]
    PROVE  Returned' = [Returned EXCEPT ![t] = r]
<1>1. ASSUME NEW u \in Thread, u # t PROVE Returned'[u] = Returned[u]
  <2>1. pc'[u] = pc[u] /\ node'[u] = node[u] /\ result'[u] = result[u]
    BY <1>1, OthersStay DEF Same
  <2>2. CASE pc[u] = "clear" /\ node[u] # NoNode
    <3>1. node[u] \in Taken(u)
      BY <2>2 DEF Taken
    <3>2. QED
      BY <1>1, <2>1, <2>2, <3>1 DEF Returned
  <2>3. CASE ~(pc[u] = "clear" /\ node[u] # NoNode)
    BY <2>1, <2>3 DEF Returned
  <2>4. QED
    BY <2>2, <2>3
<1>2. \A u \in Thread : Returned'[u] = IF u = t THEN r ELSE Returned[u]
  BY <1>1
<1>3. /\ Returned' = [u \in Thread |-> Returned'[u]]
      /\ Returned = [u \in Thread |-> Returned[u]]
  BY DEF Returned
<1> DEFINE now == Returned
           later == Returned'
<1>4. /\ later = [u \in Thread |-> later[u]] /\ now = [u \in Thread |-> now[u]]
      /\ \A u \in Thread : later[u] = IF u = t THEN r ELSE now[u]
  BY <1>2, <1>3
<1> HIDE DEF now, later
<1>5. later = [now EXCEPT ![t] = r]
  BY <1>4
<1>6. QED
  BY <1>5 DEF now, later

\* The nodes of the stack and of the others, when a thread uses its own ones only.
LEMMA DataOfOthers ==
    ASSUME TypeOK, ControlInv, NEW t \in Thread, Step(t), NEW seq, Placed(seq)
    PROVE  /\ \A n \in Elements(seq) : data'[n] = data[n]
           /\ \A u \in Thread : \A n \in Taken(u) : u # t => data'[n] = data[n]
<1>1. \A n \in live : n \in Taken(t) \/ data'[n] = data[n]
  <2> SUFFICES ASSUME NEW n \in live, n \notin Taken(t) PROVE data'[n] = data[n]
    OBVIOUS
  <2>1. n \in Node
    BY DEF TypeOK
  <2>2. ASSUME NEW v \in Value, NEW m \in Node, PushNew(t, v, m) PROVE data'[n] = data[n]
    BY <2>1, <2>2 DEF PushNew, TypeOK
  <2>3. CASE PopClear(t)
    <3>1. node[t] # NoNode => node[t] \in Taken(t)
      BY <2>3 DEF PopClear, Goto, Taken
    <3>2. QED
      BY <2>1, <2>3, <3>1 DEF PopClear, TypeOK
  <2>4. CASE PopReclaim(t)
    <3>1. Suspect(t) = node[t] /\ Suspect(t) \in Taken(t)
      BY <2>4, SuspectsTaken DEF PopReclaim, Goto, Suspect, Looking
    <3>2. QED
      BY <2>1, <2>4, <3>1 DEF PopReclaim, Free
  <2>5. CASE ListReclaim(t)
    <3>1. Suspect(t) \in Taken(t)
      BY <2>5, SuspectsTaken DEF ListReclaim, Looking
    <3>2. QED
      BY <2>1, <2>5, <3>1 DEF ListReclaim, Free
  <2>6. QED
    BY <2>2, <2>3, <2>4, <2>5 DEF Step, Push, PushStep, PushCas, PushRetry, PopEnter, PopSearch,
       PopLoad, Protect, Validate, PopNext, PopCas, PopRetry, LookOn, Exchange, Exit, listVars
<1>2. QED
  BY <1>1, PlacedFacts

\* Steps that the callers do not notice.
LEMMA Unnoticed ==
    ASSUME TypeOK, ControlInv, TypeOK', NEW t \in Thread, Step(t), NEW seq, Placed(seq),
           Chain(seq, head)', Returned'[t] = Returned[t]
    PROVE  UNCHANGED <<Contents, Returned>>
<1>1. Contents' = Contents
  BY DataOfOthers, TypesOfList, ContentsSame DEF Placed
<1>2. PICK r : r = Returned[t]
  OBVIOUS
<1>3. Returned' = [Returned EXCEPT ![t] = r]
  BY <1>2, DataOfOthers, ReturnedLater
<1> DEFINE now == Returned
<1>4. now = [u \in Thread |-> now[u]]
  BY DEF Returned
<1>5. Returned' = [now EXCEPT ![t] = r] /\ r = now[t]
  BY <1>2, <1>3
<1> HIDE DEF now
<1>6. Returned' = now
  BY <1>4, <1>5
<1>7. QED
  BY <1>1, <1>6 DEF now

LifoStep == [Lifo!Next]_(Lifo!stackVars)

\* A pop is called.
LEMMA Calls ==
    ASSUME TypeOK, ControlInv, TypeOK', NEW t \in Thread, Step(t), NEW seq, Placed(seq),
           Chain(seq, head)', Returned'[t] = <<>>
    PROVE  LifoStep
<1>1. Contents' = Contents
  BY DataOfOthers, TypesOfList, ContentsSame DEF Placed
<1>2. PICK r : r = <<>>
  OBVIOUS
<1>3. Returned' = [Returned EXCEPT ![t] = <<>>]
  BY <1>2, DataOfOthers, ReturnedLater
<1>4. Lifo!Call(t)
  BY <1>1, <1>3 DEF Lifo!Call, Lifo!NoResult
<1>5. QED
  BY <1>4 DEF LifoStep, Lifo!Next

\* A pop takes effect when it takes its node, or finds that there is none.
LEMMA Refines ==
    ASSUME IInv, TypeOK', NEW t \in Thread, Step(t)
    PROVE  LifoStep
<1>1. TypeOK /\ ControlInv /\ GuardInv /\ DataInv /\ Unrepeated
  BY DEF IInv, PlacesInv
<1>2. PICK seq : Placed(seq)
  BY DEF IInv, PlacesInv
<1>3. Chain(seq, head)' /\ Returned'[t] = Returned[t] => LifoStep
  BY <1>1, <1>2, Unnoticed DEF LifoStep, Lifo!stackVars
<1> USE DEF TypeOK, Goto
<1>4. CASE QuietStep(t)
  <2>1. Chain(seq, head)'
    BY <1>1, <1>2, <1>4, QuietPlaces, Untouched DEF Placed
  <2>2. CASE PopEnter(t)
    <3>1. Returned'[t] = <<>>
      BY <2>2 DEF PopEnter, Called, Returned
    <3>2. QED
      BY <1>1, <1>2, <2>1, <3>1, Calls
  <2>3. CASE Validate(t) /\ head = NoNode /\ node[t] = NoNode
    <3>1. Contents' = Contents
      BY <1>1, <1>2, <2>1, DataOfOthers, TypesOfList, ContentsSame DEF Placed
    <3>2. Contents = <<>>
      <4>1. seq = <<>>
        <5>1. seq # <<>> => seq[1] \in Node
          BY <1>2, WithoutHead DEF Placed, Chain
        <5>2. QED
          BY <1>2, <2>3, <5>1, HazardAssumption DEF Placed, Chain, Node, NoNode
      <4>2. Contents = Values(seq)
        BY <1>1, <1>2, TypesOfList, ContentsAre DEF Placed
      <4>3. QED
        BY <4>1, <4>2 DEF Values
    <3>3. Returned'[t] = Nothing
      BY <2>3 DEF Validate, Returned
    <3>4. PICK r : r = Nothing
      OBVIOUS
    <3>5. Returned' = [Returned EXCEPT ![t] = Nothing]
      BY <1>1, <1>2, <3>3, <3>4, DataOfOthers, ReturnedLater
    <3>6. Lifo!PopEmpty(t)
      BY <3>1, <3>2, <3>5 DEF Lifo!PopEmpty
    <3>7. QED
      BY <3>6 DEF LifoStep, Lifo!Next
  <2>4. CASE Validate(t) /\ ~(head = NoNode /\ node[t] = NoNode)
    <3>1. Returned'[t] = Returned[t]
      BY <2>4 DEF Validate, Returned
    <3>2. QED
      BY <1>3, <2>1, <3>1
  <2>5. CASE PopClear(t)
    <3>1. Returned'[t] = Returned[t]
      <4>1. CASE node[t] = NoNode
        BY <2>5, <4>1 DEF PopClear, Returned
      <4>2. CASE node[t] # NoNode
        BY <2>5, <4>2 DEF PopClear, Returned
      <4>3. QED
        BY <4>1, <4>2
    <3>2. QED
      BY <1>3, <2>1, <3>1
  <2>6. CASE PopSearch(t) \/ PopLoad(t) \/ Protect(t) \/ PopNext(t) \/ PopRetry(t)
    <3>1. result'[t] = result[t] /\ pc[t] # "clear" /\ pc'[t] # "clear"
      BY <2>6 DEF PopSearch, PopLoad, Protect, PopNext, PopRetry
    <3>2. Returned'[t] = Returned[t]
      BY <3>1 DEF Returned
    <3>3. QED
      BY <1>3, <2>1, <3>2
  <2>7. CASE LookOn(t) \/ Exit(t)
    <3>1. result'[t] = result[t] /\ pc[t] # "clear" /\ pc'[t] # "clear"
      BY <2>7 DEF LookOn, Exit
    <3>2. Returned'[t] = Returned[t]
      BY <3>1 DEF Returned
    <3>3. QED
      BY <1>3, <2>1, <3>2
  <2>8. QED
    BY <1>4, <2>2, <2>3, <2>4, <2>5, <2>6, <2>7 DEF QuietStep
<1>5. ASSUME NEW v \in Value, NEW n \in Node, PushNew(t, v, n),
             UNCHANGED <<hpVars, reclaimVars, old_next>>
      PROVE  LifoStep
  <2>1. Chain(seq, head)'
    BY <1>1, <1>2, <1>5, PushNewPlaces DEF Placed
  <2>2. Returned'[t] = <<>>
    BY <1>5 DEF PushNew, Called, Returned
  <2>3. QED
    BY <1>1, <1>2, <2>1, <2>2, Calls
<1>6. ASSUME PushCas(t), UNCHANGED <<hpVars, reclaimVars, old_next>> PROVE LifoStep
  <2>1. PICK n : n = node[t]
    OBVIOUS
  <2>2. n \in Node /\ Chain(<<n>> \o seq, head)'
    BY <1>1, <1>2, <1>6, <2>1, PushCasPlaces DEF Placed
  <2>3. data' = data /\ pc[t] = "push_cas" /\ pc'[t] = "idle" /\ result' = result
    BY <1>6 DEF PushCas
  <2>4. Contents' = <<data[n]>> \o Contents
    BY <1>1, <1>2, <2>2, <2>3, TypesOfList, ContentsPushed DEF Placed
  <2>5. data[n] \in Value
    BY <1>1, <2>1, <2>3 DEF DataInv
  <2>6. Returned' = Returned
    <3>1. PICK r : r = Returned[t]
      OBVIOUS
    <3>2. Returned'[t] = r
      BY <2>3, <3>1 DEF Returned
    <3>3. Returned' = [Returned EXCEPT ![t] = r]
      BY <1>1, <1>2, <2>3, <3>2, ReturnedLater
    <3> DEFINE now == Returned
    <3>4. now = [u \in Thread |-> now[u]]
      BY DEF Returned
    <3>5. Returned' = [now EXCEPT ![t] = r] /\ r = now[t]
      BY <3>1, <3>3
    <3> HIDE DEF now
    <3>6. Returned' = now
      BY <3>4, <3>5
    <3>7. QED
      BY <3>6 DEF now
  <2>7. Lifo!Push(data[n])
    BY <2>4, <2>6 DEF Lifo!Push
  <2>8. QED
    BY <2>5, <2>7 DEF LifoStep, Lifo!Next
<1>7. ASSUME PushRetry(t), UNCHANGED <<hpVars, reclaimVars, old_next>> PROVE LifoStep
  <2>1. Chain(seq, head)'
    BY <1>1, <1>2, <1>7, PushRetryPlaces DEF Placed
  <2>2. Returned'[t] = Returned[t]
    BY <1>7 DEF PushRetry, Returned
  <2>3. QED
    BY <1>3, <2>1, <2>2
<1>8. CASE PopCas(t)
  <2>1. old_next[t] = next[node[t]]
    BY <1>1, <1>8 DEF PopCas, GuardInv, Guarded
  <2>2. /\ seq # <<>> /\ node[t] = Head(seq) /\ node[t] # NoNode
        /\ Chain(Tail(seq), head)'
    BY <1>1, <1>2, <1>8, <2>1, PopCasPlaces DEF Placed
  <2>3. data' = data /\ pc'[t] = "clear" /\ node' = node
    BY <1>8 DEF PopCas
  <2>4. Contents # <<>> /\ Head(Contents) = data[node[t]] /\ Contents' = Tail(Contents)
    BY <1>1, <1>2, <2>2, <2>3, TypesOfList, ContentsPopped DEF Placed
  <2>5. PICK r : r = Head(Contents)
    OBVIOUS
  <2>6. Returned'[t] = r
    BY <2>2, <2>3, <2>4, <2>5 DEF Returned
  <2>7. Returned' = [Returned EXCEPT ![t] = Head(Contents)]
    BY <1>1, <1>2, <2>3, <2>5, <2>6, ReturnedLater
  <2>8. Lifo!Pop(t)
    BY <2>4, <2>7 DEF Lifo!Pop
  <2>9. QED
    BY <2>8 DEF LifoStep, Lifo!Next
<1>9. CASE PopReclaim(t) \/ Exchange(t) \/ ListReclaim(t)
  <2>1. Chain(seq, head)'
    BY <1>1, <1>2, <1>9, PopReclaimPlaces, ExchangePlaces, ListReclaimPlaces DEF Placed
  <2>2. result'[t] = result[t] /\ pc[t] # "clear" /\ pc'[t] # "clear"
    BY <1>9 DEF PopReclaim, Exchange, ListReclaim, NextInList
  <2>3. Returned'[t] = Returned[t]
    BY <2>2 DEF Returned
  <2>4. QED
    BY <1>3, <2>1, <2>3
<1>10. CASE Push(t)
  BY <1>5, <1>6, <1>7, <1>10 DEF Push, PushStep
<1>11. QED
  BY <1>4, <1>8, <1>9, <1>10 DEF Step, QuietStep

(***************************************************************************)
(* lock_free_stack2.h:18-49: the stack implements the abstract one.  Push  *)
(* and pop each take effect at one instant, though nodes come back at      *)
(* addresses that other pops still hold.                                   *)
(***************************************************************************)
THEOREM Refinement == Spec => ImplementsStack
<1>1. Init => Lifo!Init
  <2> SUFFICES ASSUME Init PROVE Lifo!Init
    OBVIOUS
  <2>1. TypeOK
    BY Initial DEF IInv
  <2>2. Chain(<<>>, head)
    BY DEF Init, ListInit, Chain
  <2>3. Contents = Values(<<>>)
    BY <2>1, <2>2, TypesOfList, ContentsAre
  <2>4. Contents = <<>>
    BY <2>3 DEF Values
  <2>5. Returned = [t \in Thread |-> <<>>]
    BY DEF Init, ListInit, Returned
  <2>6. QED
    BY <2>4, <2>5 DEF Lifo!Init, Lifo!NoResult
<1>2. IInv /\ IInv' /\ [Next]_vars => [Lifo!Next]_(Lifo!stackVars)
  <2> SUFFICES ASSUME IInv, IInv', [Next]_vars PROVE LifoStep
    BY DEF LifoStep
  <2>1. CASE UNCHANGED vars
    <3>1. PICK seq : Placed(seq)
      BY DEF IInv, PlacesInv
    <3>2. UNCHANGED <<head, next, data, pc, node, result>>
      BY <2>1 DEF vars, listVars
    <3>3. Chain(seq, head)'
      BY <3>1, <3>2, ChainStays DEF Placed
    <3>4. Contents' = Contents
      BY <3>1, <3>2, <3>3, TypesOfList, ContentsSame DEF Placed, IInv
    <3>5. Returned' = Returned
      BY <3>2 DEF Returned
    <3>6. QED
      BY <3>4, <3>5 DEF LifoStep, Lifo!stackVars
  <2>2. ASSUME NEW t \in Thread, Step(t) PROVE LifoStep
    BY <2>2, Refines DEF IInv
  <2>3. QED
    BY <2>1, <2>2 DEF Next
<1>3. QED
  BY <1>1, <1>2, Invariant, PTL DEF Spec, ImplementsStack
=============================================================================
