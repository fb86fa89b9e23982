------------------------- MODULE OtherStacksProofs -------------------------
(***************************************************************************)
(* The stack that counts the threads in pop reads no deleted node and      *)
(* loses none, and it, the one with shared pointers and the one with a     *)
(* mutex are stacks whose operations are atomic; for any threads, memory   *)
(* and values.                                                             *)
(*                                                                         *)
(* What HazardStackProofs says of lists holds for theirs: List is that     *)
(* module with the variables of the two stacks that have lists.            *)
(***************************************************************************)
EXTENDS Stacks, FiniteSetTheorems, SequenceTheorems, WellFoundedInduction, TLAPS

List == INSTANCE HazardStackProofs WITH
            Address <- ListNode, pc <- other_pc, result <- other_result,
            head <- other_head, data <- other_data, next <- other_next,
            live <- other_live, node <- other_node, old_next <- other_old_next

LEMMA ListAssumption ==
    /\ IsFiniteSet(Thread) /\ max_hazard_pointers \in Nat /\ NoThread \notin Thread
    /\ NoAddress \notin ListNode /\ IsFiniteSet(ListNode)
    /\ List!IsFiniteSet(Thread) /\ List!IsFiniteSet(ListNode)
  BY HazardAssumption, StacksAssumption DEF List!IsFiniteSet, IsFiniteSet

USE ListAssumption DEF List!Node, List!NoNode
-----------------------------------------------------------------------------
(***************************************************************************)
(* The stack with one mutex.                                               *)
(***************************************************************************)
\* Who has begun and not ended holds the mutex, and what a pop has copied is still
\* the top when it removes it.
HeldInv ==
    /\ other_pc = [t \in Thread |-> other_pc[t]] /\ copied = [t \in Thread |-> copied[t]]
    /\ \A t \in Thread : other_pc[t] # "idle" <=> mutex = t
    /\ \A t \in Thread : other_pc[t] = "push" => copied[t] \in Value
    /\ \A t \in Thread : other_pc[t] = "remove" => contents # <<>> /\ copied[t] = Head(contents)

LEMMA HeldStep ==
    ASSUME HeldInv, NEW t \in Thread, Locking!Step(t)
    PROVE  HeldInv'
<1> USE DEF HeldInv, Locking!Goto, Locking!Unlock
<1>1. CASE Locking!Call(t)
  BY <1>1 DEF Locking!Call
<1>2. CASE Locking!PushEnds(t)
  BY <1>2 DEF Locking!PushEnds
<1>3. CASE Locking!Empty(t)
  BY <1>3 DEF Locking!Empty
<1>4. CASE Locking!CopyTop(t)
  BY <1>4 DEF Locking!CopyTop
<1>5. CASE Locking!Remove(t)
  BY <1>5 DEF Locking!Remove
<1>6. QED
  BY <1>1, <1>2, <1>3, <1>4, <1>5 DEF Locking!Step

\* A push takes effect when it ends, a pop when it removes the element.
LEMMA LockingRefines ==
    ASSUME HeldInv, NEW t \in Thread, Locking!Step(t)
    PROVE  [Locking!Lifo!Next]_(Locking!Lifo!stackVars)
<1> USE DEF HeldInv, Locking!Goto, Locking!Unlock, Locking!Lifo!Next, Locking!Lifo!stackVars
<1>1. CASE Locking!Call(t)
  BY <1>1 DEF Locking!Call, Locking!Lifo!Call, Locking!Lifo!NoResult
<1>2. CASE Locking!PushEnds(t)
  BY <1>2 DEF Locking!PushEnds, Locking!Lifo!Push
<1>3. CASE Locking!Empty(t)
  BY <1>3 DEF Locking!Empty, Locking!Lifo!PopEmpty
<1>4. CASE Locking!CopyTop(t)
  BY <1>4 DEF Locking!CopyTop
<1>5. CASE Locking!Remove(t)
  BY <1>5 DEF Locking!Remove, Locking!Lifo!Pop
<1>6. QED
  BY <1>1, <1>2, <1>3, <1>4, <1>5 DEF Locking!Step

LEMMA LockingBegins == Locking!Init => HeldInv /\ Locking!Lifo!Init
  BY DEF Locking!Init, HeldInv, Locking!Lifo!Init, Locking!Lifo!NoResult

LEMMA LockingSteps == HeldInv /\ [Locking!Next]_(Locking!vars)
                      => HeldInv' /\ [Locking!Lifo!Next]_(Locking!Lifo!stackVars)
<1> SUFFICES ASSUME HeldInv, [Locking!Next]_(Locking!vars)
             PROVE  HeldInv' /\ [Locking!Lifo!Next]_(Locking!Lifo!stackVars)
  OBVIOUS
<1>1. CASE UNCHANGED Locking!vars
  BY <1>1 DEF Locking!vars, HeldInv, Locking!Lifo!stackVars
<1>2. CASE Locking!Next
  BY <1>2, HeldStep, LockingRefines DEF Locking!Next
<1>3. QED
  BY <1>1, <1>2

(***************************************************************************)
(* threadsafe_stack.h:36-81: every operation is atomic, also when the copy *)
(* of an element throws, in push or in a pop.                              *)
(***************************************************************************)
THEOREM LockingRefinement == Locking!Spec => Locking!ImplementsStack
  BY LockingBegins, LockingSteps, PTL DEF Locking!Spec, Locking!ImplementsStack
-----------------------------------------------------------------------------
(***************************************************************************)
(* Lists, and pieces of lists, of which only the first and the last node   *)
(* are known.                                                              *)
(***************************************************************************)
\* The instances have the lists of HazardStack.
LEMMA SameLists ==
    /\ \A S : /\ Counting!Cardinality(S) = Cardinality(S) /\ SharedPtr!Cardinality(S) = Cardinality(S)
             /\ List!Cardinality(S) = Cardinality(S)
    /\ \A n, stop : Counting!Segment(n, stop) = List!Segment(n, stop)
    /\ \A n : Counting!Listed(n) = List!Listed(n) /\ SharedPtr!Listed(n) = List!Listed(n)
    /\ Counting!Contents = List!Contents /\ SharedPtr!Contents = List!Contents
<1>1. \A S : /\ Counting!Cardinality(S) = Cardinality(S) /\ SharedPtr!Cardinality(S) = Cardinality(S)
              /\ List!Cardinality(S) = Cardinality(S)
  BY DEF Counting!Cardinality, SharedPtr!Cardinality, List!Cardinality, Cardinality
<1>2. \A n, stop : Counting!Segment(n, stop) = List!Segment(n, stop)
  BY <1>1 DEF Counting!Segment, List!Segment
<1>3. \A n, stop : SharedPtr!Segment(n, stop) = List!Segment(n, stop)
  BY <1>1 DEF SharedPtr!Segment, List!Segment
<1>4. Counting!Contents = List!Contents /\ SharedPtr!Contents = List!Contents
  BY <1>1 DEF Counting!Contents, SharedPtr!Contents, List!Contents
<1>5. QED
  BY <1>1, <1>2, <1>3, <1>4 DEF Counting!Listed, SharedPtr!Listed, List!Listed

LEMMA SameContentsLater == (Counting!Contents = List!Contents /\ SharedPtr!Contents = List!Contents)'
<1>1. Counting!Contents = List!Contents /\ SharedPtr!Contents = List!Contents
  BY SameLists
<1>2. QED
  BY <1>1, PTL

\* The nodes of seq are linked, from one to the other.
Strand(seq, from, to) ==
    /\ seq \in Seq(ListNode)
    /\ \A i, j \in 1..Len(seq) : seq[i] = seq[j] => i = j
    /\ from = IF seq = <<>> THEN NoAddress ELSE seq[1]
    /\ to = IF seq = <<>> THEN NoAddress ELSE seq[Len(seq)]
    /\ \A i \in 1..Len(seq) : i # Len(seq) => other_next[seq[i]] = seq[i + 1]

LEMMA StrandIs ==
    ASSUME NEW seq, NEW from, NEW to, Strand(seq, from, to)
    PROVE  /\ List!Segment(from, to) = List!Elements(seq)
           /\ from # NoAddress => to \in List!Elements(seq)
           /\ to \in ListNode => to \in List!Elements(seq)
<1>1. /\ Len(seq) \in Nat /\ (seq = <<>> <=> Len(seq) = 0)
      /\ \A i \in 1..Len(seq) : seq[i] \in ListNode /\ seq[i] \in List!Elements(seq)
  BY List!ElementsOf DEF Strand
<1>2. NoAddress \notin ListNode
  OBVIOUS
<1>3. seq # <<>> => Len(seq) \in 1..Len(seq)
  BY <1>1
<1>4. List!Leads(seq, from, to)
  BY <1>1, <1>2, <1>3 DEF Strand, List!Leads
<1>5. QED
  BY <1>1, <1>2, <1>3, <1>4, List!SegmentOf DEF Strand

\* Only the next pointers before the last one matter.
LEMMA StrandStays ==
    ASSUME NEW seq, NEW from, NEW to, Strand(seq, from, to),
           \A n \in List!Elements(seq) : n # to => other_next'[n] = other_next[n]
    PROVE  Strand(seq, from, to)'
<1>1. /\ Len(seq) \in Nat
      /\ \A i \in 1..Len(seq) : seq[i] \in List!Elements(seq)
  BY List!ElementsOf DEF Strand
<1>2. ASSUME NEW i \in 1..Len(seq), i # Len(seq) PROVE other_next'[seq[i]] = seq[i + 1]
  <2>1. seq # <<>> /\ Len(seq) \in 1..Len(seq) /\ seq[i] # seq[Len(seq)]
    BY <1>1, <1>2, List!ElementsOf DEF Strand
  <2>2. QED
    BY <1>1, <1>2, <2>1 DEF Strand
<1>3. QED
  BY <1>2 DEF Strand

LEMMA ChainHead ==
    ASSUME NEW seq, NEW f, List!Chain(seq, f)
    PROVE  IF f = NoAddress THEN seq = <<>> ELSE seq # <<>> /\ f \in List!Elements(seq)
<1>1. NoAddress \notin ListNode
  OBVIOUS
<1>2. seq \in Seq(ListNode) /\ f = IF seq = <<>> THEN NoAddress ELSE seq[1]
  BY DEF List!Chain
<1>3. seq # <<>> => 1 \in 1..Len(seq)
  <2>1. seq # <<>> => Len(seq) \in Nat /\ Len(seq) # 0
    BY <1>2, List!ElementsOf
  <2>2. QED
    BY <2>1
<1>4. QED
  BY <1>1, <1>2, <1>3, List!ElementsOf

LEMMA AnyChainStays ==
    ASSUME NEW seq, NEW f, List!Chain(seq, f),
           \A n \in List!Elements(seq) : other_next'[n] = other_next[n]
    PROVE  List!Chain(seq, f)'
<1>1. \A i \in 1..Len(seq) : seq[i] \in List!Elements(seq)
  BY List!ElementsOf DEF List!Chain
<1>2. QED
  BY <1>1 DEF List!Chain

\* The last node of a chain is the one without a successor.
LEMMA LastOfChain ==
    ASSUME NEW seq, NEW f, List!Chain(seq, f), f # NoAddress, NEW l,
           l = CHOOSE n \in List!Listed(f) : other_next[n] = NoAddress
    PROVE  Strand(seq, f, l) /\ l \in List!Elements(seq) /\ l \in ListNode
<1>1. /\ Len(seq) \in Nat /\ (seq = <<>> <=> Len(seq) = 0)
      /\ \A i \in 1..Len(seq) : seq[i] \in ListNode /\ seq[i] \in List!Elements(seq)
      /\ List!Elements(seq) = {seq[i] : i \in 1..Len(seq)}
  BY List!ElementsOf DEF List!Chain
<1>2. NoAddress \notin ListNode
  OBVIOUS
<1>3. seq # <<>> /\ Len(seq) \in 1..Len(seq)
  BY <1>1 DEF List!Chain
<1>4. ASSUME NEW i \in 1..Len(seq), other_next[seq[i]] = NoAddress PROVE i = Len(seq)
  <2>1. i # Len(seq) => i + 1 \in 1..Len(seq)
    BY <1>1
  <2>2. QED
    BY <1>1, <1>2, <1>4, <2>1 DEF List!Chain
<1>5. other_next[seq[Len(seq)]] = NoAddress
  BY <1>3 DEF List!Chain
<1>6. List!Listed(f) = List!Elements(seq)
  BY List!ListedIs
<1>7. l \in List!Elements(seq) /\ other_next[l] = NoAddress
  BY <1>1, <1>3, <1>5, <1>6
<1>8. l = seq[Len(seq)]
  BY <1>1, <1>4, <1>7
<1>9. QED
  BY <1>1, <1>3, <1>8 DEF List!Chain, Strand

\* Two lists one after the other.
LEMMA Joined ==
    ASSUME NEW S, NEW a \in Seq(S), NEW b \in Seq(S)
    PROVE  /\ a \o b \in Seq(S) /\ Len(a \o b) = Len(a) + Len(b)
           /\ \A i \in 1..Len(a) : (a \o b)[i] = a[i]
           /\ \A i \in 1..Len(b) : (a \o b)[Len(a) + i] = b[i]
           /\ List!Elements(a \o b) = List!Elements(a) \cup List!Elements(b)
<1> DEFINE ab == a \o b
           m == Len(a)
           n == Len(b)
<1>1. /\ m \in Nat /\ n \in Nat
      /\ List!Elements(a) = {a[i] : i \in 1..m} /\ List!Elements(b) = {b[i] : i \in 1..n}
  BY List!ElementsOf
<1>2. /\ ab \in Seq(S) /\ Len(ab) = m + n
      /\ \A i \in 1..m + n : ab[i] = IF i <= m THEN a[i] ELSE b[i - m]
  BY ConcatProperties
<1>3. List!Elements(ab) = {ab[i] : i \in 1..m + n}
  <2>1. ab \in Seq(S) /\ Len(ab) = m + n
    BY <1>2
  <2> HIDE DEF ab, m, n
  <2>2. QED
    BY <2>1, List!ElementsOf
<1> HIDE DEF ab, m, n
<1>4. \A i \in 1..m : i \in 1..m + n /\ ab[i] = a[i]
  BY <1>1, <1>2
<1>5. ASSUME NEW i \in 1..n PROVE m + i \in 1..m + n /\ ab[m + i] = b[i]
  <2>1. m + i \in 1..m + n /\ ~(m + i <= m) /\ (m + i) - m = i
    BY <1>1
  <2>2. QED
    BY <1>2, <2>1
<1>6. ASSUME NEW i \in 1..m + n PROVE ab[i] \in List!Elements(a) \cup List!Elements(b)
  <2>1. CASE i \in 1..m
    BY <1>1, <1>4, <2>1
  <2>2. CASE i \notin 1..m
    <3>1. ~(i <= m) /\ i - m \in 1..n
      BY <1>1, <2>2
    <3>2. ab[i] = b[i - m]
      BY <1>2, <3>1
    <3>3. QED
      BY <1>1, <3>1, <3>2
  <2>3. QED
    BY <2>1, <2>2
<1>7. List!Elements(ab) = List!Elements(a) \cup List!Elements(b)
  BY <1>1, <1>3, <1>4, <1>5, <1>6
<1>8. QED
  BY <1>2, <1>4, <1>5, <1>7 DEF ab, m, n

\* A strand whose last node points to a chain.
LEMMA StrandJoins ==
    ASSUME NEW a, NEW f, NEW l, Strand(a, f, l), a # <<>>, NEW b, List!Chain(b, other_next[l]),
           \A n \in List!Elements(a) : n \notin List!Elements(b)
    PROVE  List!Chain(a \o b, f)
<1> DEFINE ab == a \o b
           m == Len(a)
           n == Len(b)
<1>1. /\ m \in Nat /\ n \in Nat /\ m # 0 /\ (b = <<>> <=> n = 0)
      /\ \A i \in 1..m : a[i] \in List!Elements(a)
      /\ \A i \in 1..n : b[i] \in List!Elements(b)
      /\ a \in Seq(ListNode) /\ b \in Seq(ListNode)
  BY List!ElementsOf DEF Strand, List!Chain
<1>2. /\ ab \in Seq(ListNode) /\ Len(ab) = m + n
      /\ \A i \in 1..m : ab[i] = a[i]
      /\ \A i \in 1..n : ab[m + i] = b[i]
  BY <1>1, Joined
<1>3. ab # <<>>
  <2>1. ab \in Seq(ListNode) /\ Len(ab) # 0
    BY <1>1, <1>2
  <2> HIDE DEF ab
  <2>2. QED
    BY <2>1, EmptySeq
<1>4. /\ f = a[1] /\ l = a[m]
      /\ \A i, j \in 1..m : a[i] = a[j] => i = j
      /\ \A i \in 1..m : i # m => other_next[a[i]] = a[i + 1]
      /\ \A i, j \in 1..n : b[i] = b[j] => i = j
      /\ other_next[l] = IF n = 0 THEN NoAddress ELSE b[1]
      /\ \A i \in 1..n : other_next[b[i]] = IF i = n THEN NoAddress ELSE b[i + 1]
  BY <1>1 DEF Strand, List!Chain
<1> HIDE DEF ab, m, n
<1>5. ASSUME NEW i \in 1..m + n
      PROVE  \/ i \in 1..m /\ ab[i] = a[i]
             \/ \E k \in 1..n : i = m + k /\ ab[i] = b[k]
  <2>1. CASE i \in 1..m
    BY <1>2, <2>1
  <2>2. CASE i \notin 1..m
    <3>1. i - m \in 1..n /\ i = m + (i - m)
      BY <1>1, <2>2
    <3>2. ab[m + (i - m)] = b[i - m]
      BY <1>2, <3>1
    <3>3. QED
      BY <3>1, <3>2
  <2>3. QED
    BY <2>1, <2>2
<1>6. \A i, j \in 1..m + n : ab[i] = ab[j] => i = j
  <2> SUFFICES ASSUME NEW i \in 1..m + n, NEW j \in 1..m + n, ab[i] = ab[j] PROVE i = j
    OBVIOUS
  <2>1. CASE i \in 1..m /\ j \in 1..m
    BY <1>2, <1>4, <2>1
  <2>2. CASE i \notin 1..m /\ j \notin 1..m
    <3>1. PICK k \in 1..n : i = m + k /\ ab[i] = b[k]
      BY <1>5, <2>2
    <3>2. PICK h \in 1..n : j = m + h /\ ab[j] = b[h]
      BY <1>5, <2>2
    <3>3. k = h
      BY <1>4, <3>1, <3>2
    <3>4. QED
      BY <3>1, <3>2, <3>3
  <2>3. CASE ~(i \in 1..m <=> j \in 1..m)
    BY <1>1, <1>5, <2>3
  <2>4. QED
    BY <2>1, <2>2, <2>3
<1>7. f = ab[1]
  BY <1>1, <1>2, <1>4
<1>8. ASSUME NEW i \in 1..m + n
      PROVE  other_next[ab[i]] = IF i = m + n THEN NoAddress ELSE ab[i + 1]
  <2>1. CASE i \in 1..m /\ i # m
    <3>1. i + 1 \in 1..m /\ i # m + n
      BY <1>1, <2>1
    <3>2. QED
      BY <1>2, <1>4, <2>1, <3>1
  <2>2. CASE i = m
    <3>1. m \in 1..m /\ (n # 0 => 1 \in 1..n)
      BY <1>1
    <3>2. QED
      BY <1>1, <1>2, <1>4, <2>2, <3>1
  <2>3. CASE \E k \in 1..n : i = m + k /\ ab[i] = b[k]
    <3>1. PICK k \in 1..n : i = m + k /\ ab[i] = b[k]
      BY <2>3
    <3>2. (k = n <=> i = m + n) /\ (k # n => k + 1 \in 1..n /\ i + 1 = m + (k + 1))
      BY <1>1, <3>1
    <3>3. k # n => ab[i + 1] = b[k + 1]
      BY <1>2, <3>2
    <3>4. QED
      BY <1>4, <3>1, <3>2, <3>3
  <2>4. QED
    BY <1>5, <2>1, <2>2, <2>3
<1>9. List!Chain(ab, f)
  BY <1>2, <1>3, <1>6, <1>7, <1>8 DEF List!Chain
<1>10. QED
  BY <1>9 DEF ab
-----------------------------------------------------------------------------
(***************************************************************************)
(* The stack that counts the threads in pop.                               *)
(***************************************************************************)
CountingPc == {"idle", "push_cas", "pop_load", "pop_next", "pop_cas", "reclaim", "exchange",
               "recheck", "chain_link", "chain_cas", "leave"}
Chaining == {"chain_link", "chain_cas"}
InPop == {t \in Thread : counted[t]}

CountingTypes ==
    /\ other_head \in ListNode \cup {NoAddress} /\ to_be_deleted \in ListNode \cup {NoAddress}
    /\ other_live \subseteq ListNode
    /\ other_next \in [ListNode -> ListNode \cup {NoAddress}]
    /\ other_data \in [ListNode -> Value \cup {Nothing}]
    /\ threads_in_pop = Cardinality(InPop)
    /\ other_result \in [Thread -> Value \cup {Nothing, <<>>}]
    /\ other_pc \in [Thread -> CountingPc]
    /\ other_node \in [Thread -> ListNode \cup {NoAddress}]
    /\ other_old_next \in [Thread -> ListNode \cup {NoAddress}]
    /\ first \in [Thread -> ListNode \cup {NoAddress}]
    /\ last \in [Thread -> ListNode \cup {NoAddress}]
    /\ counted \in [Thread -> BOOLEAN]

\* Who counts, and what a thread works on.
CountingControl(t) ==
    /\ other_pc[t] \in {"idle", "push_cas"} => ~counted[t]
    /\ other_pc[t] \notin {"idle", "push_cas"} \cup Chaining => counted[t]
    /\ other_pc[t] \in {"push_cas", "pop_next", "pop_cas"} => other_node[t] # NoAddress
    /\ other_pc[t] \in Chaining /\ counted[t] => first[t] = other_node[t] /\ last[t] = other_node[t]
    /\ other_pc[t] \in Chaining /\ ~counted[t] => first[t] # NoAddress
    /\ other_pc[t] = "chain_cas" => last[t] # NoAddress
    /\ other_pc[t] \notin Chaining => last[t] = NoAddress

\* The nodes that belong to a thread, and the piece of a list that it has besides.
Single(t) == IF other_pc[t] \in {"push_cas", "reclaim", "exchange", "recheck"} \cup Chaining
             THEN {other_node[t]} \ {NoAddress} ELSE {}

Piece(t, seq) ==
    /\ seq \in Seq(ListNode)
    /\ other_pc[t] = "recheck" => List!Chain(seq, first[t])
    /\ other_pc[t] \in Chaining => Strand(seq, first[t], last[t])
    /\ other_pc[t] \notin {"recheck"} \cup Chaining => seq = <<>>
    /\ other_pc[t] = "recheck" \/ (other_pc[t] \in Chaining /\ ~counted[t]) => other_node[t] \notin List!Elements(seq)

CountingPlaced(s, q, piece) ==
    /\ List!Chain(s, other_head) /\ List!Chain(q, to_be_deleted)
    /\ piece \in [Thread -> Seq(ListNode)] /\ \A t \in Thread : Piece(t, piece[t])
    /\ List!Apart(other_live, List!Elements(s), List!Elements(q),
                  [t \in Thread |-> Single(t) \cup List!Elements(piece[t])])

(***************************************************************************)
(* A pop that is about to read a node, or has read its next, can rely on   *)
(* it: it is not a new one that is pushed, and those who will delete it    *)
(* look first whether this pop still counts.  Until it has left the stack  *)
(* its next stays.                                                         *)
(***************************************************************************)
Doomed(t) == IF \/ other_pc[t] \in {"push_cas", "exchange", "recheck"}
                \/ other_pc[t] \in Chaining /\ ~counted[t]
             THEN {other_node[t]} ELSE {}

Relies(t, s) ==
    other_pc[t] \in {"pop_next", "pop_cas"} =>
              /\ other_node[t] \in other_live
              /\ \A u \in Thread : other_node[t] \notin Doomed(u)
              /\ other_pc[t] = "pop_cas" /\ other_node[t] \in List!Elements(s) => other_old_next[t] = other_next[other_node[t]]

Memory(s) == /\ \E q, piece : CountingPlaced(s, q, piece)
             /\ \A t \in Thread : Relies(t, s)

PushedInv == \A t \in Thread : other_pc[t] = "push_cas" => other_data[other_node[t]] \in Value

CountingInv == /\ CountingTypes /\ PushedInv
               /\ \A t \in Thread : CountingControl(t)
               /\ \E s : Memory(s)

\* A step concerns its own thread.
Apartness(t) == \A u \in Thread : u # t =>
    /\ other_pc'[u] = other_pc[u] /\ other_node'[u] = other_node[u]
    /\ other_old_next'[u] = other_old_next[u]
    /\ first'[u] = first[u] /\ last'[u] = last[u] /\ counted'[u] = counted[u]
    /\ other_result'[u] = other_result[u]

LEMMA CountingOthers ==
    ASSUME CountingTypes, NEW t \in Thread, Counting!Step(t)
    PROVE  Apartness(t)
<1> USE DEF CountingTypes, Apartness, Counting!Goto, Counting!Called, Counting!reclaimVars
<1>1. CASE Counting!Push(t)
  BY <1>1 DEF Counting!Push, Counting!PushStep, Counting!PushNew, Counting!PushCas,
     Counting!PushRetry
<1>2. CASE Counting!PopEnter(t)
  BY <1>2 DEF Counting!PopEnter
<1>3. CASE Counting!PopLoad(t) \/ Counting!PopRetry(t)
  BY <1>3 DEF Counting!PopLoad, Counting!PopRetry, Counting!LoadHead
<1>4. CASE Counting!PopNext(t)
  BY <1>4 DEF Counting!PopNext
<1>5. CASE Counting!PopCas(t)
  BY <1>5 DEF Counting!PopCas
<1>6. CASE Counting!ReclaimAlone(t)
  BY <1>6 DEF Counting!ReclaimAlone
<1>7. CASE Counting!ReclaimNotAlone(t)
  BY <1>7 DEF Counting!ReclaimNotAlone
<1>8. CASE Counting!Exchange(t)
  BY <1>8 DEF Counting!Exchange
<1>9. CASE Counting!RecheckAlone(t)
  BY <1>9 DEF Counting!RecheckAlone
<1>10. CASE Counting!RecheckNotAlone(t)
  BY <1>10 DEF Counting!RecheckNotAlone
<1>11. CASE Counting!ChainLink(t)
  BY <1>11 DEF Counting!ChainLink
<1>12. CASE Counting!ChainCas(t)
  BY <1>12 DEF Counting!ChainCas, Counting!AfterChain
<1>13. CASE Counting!ChainRetry(t)
  BY <1>13 DEF Counting!ChainRetry
<1>14. CASE Counting!Leave(t)
  BY <1>14 DEF Counting!Leave
<1>15. QED
  BY <1>1, <1>2, <1>3, <1>4, <1>5, <1>6, <1>7, <1>8, <1>9, <1>10, <1>11, <1>12, <1>13, <1>14
  DEF Counting!Step

\* The counter is right.
LEMMA PopBegins ==
    ASSUME CountingTypes, NEW t \in Thread, ~counted[t],
           counted' = [counted EXCEPT ![t] = TRUE], threads_in_pop' = threads_in_pop + 1
    PROVE  threads_in_pop' = Cardinality(InPop')
<1>1. IsFiniteSet(InPop)
  BY FS_Subset DEF InPop
<1>2. t \notin InPop /\ InPop' = InPop \cup {t}
  BY DEF InPop, CountingTypes
<1>3. QED
  BY <1>1, <1>2, FS_AddElement DEF CountingTypes

LEMMA PopEnds ==
    ASSUME CountingTypes, NEW t \in Thread, counted[t],
           counted' = [counted EXCEPT ![t] = FALSE]
    PROVE  Cardinality(InPop') = threads_in_pop - 1
<1>1. IsFiniteSet(InPop)
  BY FS_Subset DEF InPop
<1>2. t \in InPop /\ InPop' = InPop \ {t}
  BY DEF InPop, CountingTypes
<1>3. QED
  BY <1>1, <1>2, FS_RemoveElement DEF CountingTypes

\* If it is 1 the thread that has looked is alone.
LEMMA OnlyOne ==
    ASSUME CountingTypes, threads_in_pop = 1, NEW t \in Thread, counted[t],
           NEW u \in Thread, counted[u]
    PROVE  u = t
<1>1. IsFiniteSet(InPop) /\ Cardinality(InPop) = 1 /\ t \in InPop /\ u \in InPop
  BY FS_Subset DEF InPop, CountingTypes
<1>2. PICK x : InPop = {x}
  BY <1>1, FS_Singleton
<1>3. QED
  BY <1>1, <1>2

-----------------------------------------------------------------------------
\* A step keeps the types, and what is known of its thread.
LEMMA CountingStepTypes ==
    ASSUME CountingInv, NEW t \in Thread, Counting!Step(t)
    PROVE  CountingTypes' /\ CountingControl(t)'
<1> USE DEF CountingPc
<1>1. /\ CountingTypes /\ CountingControl(t) /\ NoAddress \notin ListNode
      /\ (other_pc[t] = "pop_cas" => other_node[t] \in ListNode)
  <2>1. NoAddress \notin ListNode
    OBVIOUS
  <2>2. QED
    BY <2>1 DEF CountingInv, CountingTypes, CountingControl
<1> USE DEF Counting!Goto, Counting!Called, Counting!reclaimVars, Counting!listVars, Counting!Free
<1>2. CASE Counting!Push(t)
  <2>1. threads_in_pop' = Cardinality(InPop')
    BY <1>1, <1>2 DEF Counting!Push, InPop, CountingTypes
  <2>2. ASSUME NEW v \in Value, NEW n \in ListNode, Counting!PushNew(t, v, n),
               UNCHANGED <<other_old_next, Counting!reclaimVars>>
        PROVE  CountingTypes' /\ CountingControl(t)'
    <3>1. CountingTypes'
      BY <1>1, <2>1, <2>2 DEF Counting!PushNew, CountingTypes
    <3>2. CountingControl(t)'
      BY <1>1, <2>2 DEF Counting!PushNew, CountingTypes, CountingControl, Chaining
    <3>3. QED
      BY <3>1, <3>2
  <2>3. CASE Counting!PushCas(t) \/ Counting!PushRetry(t)
    <3>1. CountingTypes'
      BY <1>1, <1>2, <2>1, <2>3
      DEF Counting!Push, Counting!PushCas, Counting!PushRetry, CountingTypes, CountingControl
    <3>2. CountingControl(t)'
      BY <1>1, <1>2, <2>3
      DEF Counting!Push, Counting!PushCas, Counting!PushRetry, CountingTypes, CountingControl,
          Chaining
    <3>3. QED
      BY <3>1, <3>2
  <2>4. QED
    BY <1>2, <2>2, <2>3 DEF Counting!Push, Counting!PushStep
<1>3. CASE Counting!PopEnter(t)
  <2>1. threads_in_pop' = Cardinality(InPop')
    BY <1>1, <1>3, PopBegins DEF Counting!PopEnter, CountingControl
  <2>2. CountingTypes'
    BY <1>1, <1>3, <2>1 DEF Counting!PopEnter, CountingTypes
  <2>3. CountingControl(t)'
    BY <1>1, <1>3 DEF Counting!PopEnter, CountingTypes, CountingControl, Chaining
  <2>4. QED
    BY <2>2, <2>3
\* The counter is not touched.
<1>4. ASSUME UNCHANGED <<counted, threads_in_pop>> PROVE threads_in_pop' = Cardinality(InPop')
  BY <1>1, <1>4 DEF InPop, CountingTypes
<1>5. CASE Counting!PopLoad(t) \/ Counting!PopRetry(t)
  <2>1. CountingTypes'
    BY <1>1, <1>4, <1>5
    DEF Counting!PopLoad, Counting!PopRetry, Counting!LoadHead, CountingTypes
  <2>2. CountingControl(t)'
    BY <1>1, <1>5
    DEF Counting!PopLoad, Counting!PopRetry, Counting!LoadHead, CountingTypes, CountingControl,
        Chaining
  <2>3. QED
    BY <2>1, <2>2
<1>6. CASE Counting!PopNext(t)
  <2>1. CountingTypes'
    BY <1>1, <1>4, <1>6 DEF Counting!PopNext, CountingTypes, CountingControl
  <2>2. CountingControl(t)'
    BY <1>1, <1>6 DEF Counting!PopNext, CountingTypes, CountingControl, Chaining
  <2>3. QED
    BY <2>1, <2>2
<1>7. CASE Counting!PopCas(t)
  <2>1. CountingTypes'
    BY <1>1, <1>4, <1>7 DEF Counting!PopCas, CountingTypes, CountingControl
  <2>2. CountingControl(t)'
    BY <1>1, <1>7 DEF Counting!PopCas, CountingTypes, CountingControl, Chaining
  <2>3. QED
    BY <2>1, <2>2
<1>8. CASE Counting!ReclaimAlone(t)
  <2>1. CountingTypes'
    BY <1>1, <1>4, <1>8 DEF Counting!ReclaimAlone, CountingTypes
  <2>2. CountingControl(t)'
    BY <1>1, <1>8 DEF Counting!ReclaimAlone, CountingTypes, CountingControl, Chaining
  <2>3. QED
    BY <2>1, <2>2
<1>9. CASE Counting!ReclaimNotAlone(t)
  <2>1. CountingTypes'
    BY <1>1, <1>4, <1>9 DEF Counting!ReclaimNotAlone, CountingTypes
  <2>2. CountingControl(t)'
    BY <1>1, <1>9 DEF Counting!ReclaimNotAlone, CountingTypes, CountingControl, Chaining
  <2>3. QED
    BY <2>1, <2>2
<1>10. CASE Counting!Exchange(t)
  <2>1. CountingTypes'
    BY <1>1, <1>4, <1>10 DEF Counting!Exchange, CountingTypes
  <2>2. CountingControl(t)'
    BY <1>1, <1>10 DEF Counting!Exchange, CountingTypes, CountingControl, Chaining
  <2>3. QED
    BY <2>1, <2>2
<1>11. CASE Counting!RecheckAlone(t)
  <2>1. Cardinality(InPop') = threads_in_pop - 1
    BY <1>1, <1>11, PopEnds DEF Counting!RecheckAlone, CountingControl, Chaining
  <2>2. CountingTypes'
    BY <1>1, <1>11, <2>1 DEF Counting!RecheckAlone, CountingTypes
  <2>3. CountingControl(t)'
    BY <1>1, <1>11 DEF Counting!RecheckAlone, CountingTypes, CountingControl, Chaining
  <2>4. QED
    BY <2>2, <2>3
<1>12. CASE Counting!RecheckNotAlone(t)
  <2>1. Cardinality(InPop') = threads_in_pop - 1
    BY <1>1, <1>12, PopEnds DEF Counting!RecheckNotAlone, CountingControl, Chaining
  <2>2. CASE first[t] = NoAddress
    <3>1. CountingTypes'
      BY <1>1, <1>12, <2>1, <2>2 DEF Counting!RecheckNotAlone, CountingTypes
    <3>2. CountingControl(t)'
      BY <1>1, <1>12, <2>2
      DEF Counting!RecheckNotAlone, CountingTypes, CountingControl, Chaining
    <3>3. QED
      BY <3>1, <3>2
  <2>3. CASE first[t] # NoAddress
    <3>1. PICK l : l = CHOOSE n \in List!Listed(first[t]) : other_next[n] = NoAddress
      OBVIOUS
    <3>2. l \in ListNode
      <4>1. PICK seq : List!Chain(seq, first[t])
        BY <1>12 DEF Counting!RecheckNotAlone, CountingInv, Memory, CountingPlaced, Piece
      <4>2. QED
        BY <2>3, <3>1, <4>1, LastOfChain
    <3>3. /\ last' = [last EXCEPT ![t] = l] /\ UNCHANGED <<other_data, other_live, other_node>>
          /\ other_pc' = [other_pc EXCEPT ![t] = "chain_link"] /\ other_pc[t] = "recheck"
      BY <1>12, <2>3, <3>1, SameLists DEF Counting!RecheckNotAlone
    <3>4. /\ threads_in_pop' = threads_in_pop - 1 /\ counted' = [counted EXCEPT ![t] = FALSE]
          /\ UNCHANGED <<other_head, to_be_deleted, other_next, other_old_next, first,
                         other_result>>
      BY <1>12 DEF Counting!RecheckNotAlone
    <3>5. CountingTypes'
      BY <1>1, <2>1, <3>2, <3>3, <3>4 DEF CountingTypes
    <3>6. CountingControl(t)'
      BY <1>1, <2>3, <3>2, <3>3, <3>4 DEF CountingTypes, CountingControl, Chaining
    <3>7. QED
      BY <3>5, <3>6
  <2>4. QED
    BY <2>2, <2>3
<1>13. CASE Counting!ChainLink(t) \/ Counting!ChainRetry(t)
  <2>1. CountingTypes'
    BY <1>1, <1>4, <1>13 DEF Counting!ChainLink, Counting!ChainRetry, CountingTypes
  <2>2. CountingControl(t)'
    BY <1>1, <1>13
    DEF Counting!ChainLink, Counting!ChainRetry, CountingTypes, CountingControl, Chaining
  <2>3. QED
    BY <2>1, <2>2
<1>14. CASE Counting!ChainCas(t)
  <2>1. CountingTypes'
    BY <1>1, <1>4, <1>14 DEF Counting!ChainCas, Counting!AfterChain, CountingTypes
  <2>2. CountingControl(t)'
    BY <1>1, <1>14
    DEF Counting!ChainCas, Counting!AfterChain, CountingTypes, CountingControl, Chaining
  <2>3. QED
    BY <2>1, <2>2
<1>15. CASE Counting!Leave(t)
  <2>1. Cardinality(InPop') = threads_in_pop - 1
    BY <1>1, <1>15, PopEnds DEF Counting!Leave, CountingControl, Chaining
  <2>2. CountingTypes'
    BY <1>1, <1>15, <2>1 DEF Counting!Leave, CountingTypes
  <2>3. CountingControl(t)'
    BY <1>1, <1>15 DEF Counting!Leave, CountingTypes, CountingControl, Chaining
  <2>4. QED
    BY <2>2, <2>3
<1>16. QED
  BY <1>2, <1>3, <1>5, <1>6, <1>7, <1>8, <1>9, <1>10, <1>11, <1>12, <1>13, <1>14, <1>15
  DEF Counting!Step

LEMMA CountingControlStep ==
    ASSUME CountingInv, NEW t \in Thread, Counting!Step(t)
    PROVE  \A u \in Thread : CountingControl(u)'
<1>1. CountingControl(t)' /\ Apartness(t) /\ \A u \in Thread : CountingControl(u)
  BY CountingStepTypes, CountingOthers DEF CountingInv
<1>2. QED
  BY <1>1 DEF Apartness, CountingControl
-----------------------------------------------------------------------------
(***************************************************************************)
(* Where the nodes of the stack that counts are.                           *)
(***************************************************************************)
Holding(t, piece) == Single(t) \cup List!Elements(piece[t])

\* What the others have stays in order while a step links only nodes of its own.
LEMMA PieceStays ==
    ASSUME NEW u \in Thread, NEW seq, Piece(u, seq),
           \A n \in List!Elements(seq) : other_next'[n] = other_next[n],
           other_pc'[u] = other_pc[u], other_node'[u] = other_node[u], first'[u] = first[u],
           last'[u] = last[u],
           counted'[u] = counted[u]
    PROVE  Piece(u, seq)'
<1>1. PICK f, l : f = first[u] /\ l = last[u]
  OBVIOUS
<1>2. other_pc[u] = "recheck" => List!Chain(seq, first[u])'
  <2>1. other_pc[u] = "recheck" => List!Chain(seq, f)'
    BY <1>1, AnyChainStays DEF Piece
  <2>2. QED
    BY <1>1, <2>1 DEF List!Chain
<1>3. other_pc[u] \in Chaining => Strand(seq, first[u], last[u])'
  <2>1. other_pc[u] \in Chaining => Strand(seq, f, l)'
    BY <1>1, StrandStays DEF Piece
  <2>2. QED
    BY <1>1, <2>1 DEF Strand
<1>4. List!Elements(seq)' = List!Elements(seq)
  BY DEF List!Elements
<1>5. QED
  BY <1>2, <1>3, <1>4 DEF Piece

\* One step moves nodes only between the stack, the list and its own thread, that
\* held the nodes T and holds T2 now.
Moves(alive, S, Q, T, alive2, S2, Q2, T2) ==
    /\ S2 \subseteq alive2 /\ Q2 \subseteq alive2 /\ T2 \subseteq alive2
    /\ \A n \in S2 : n \notin Q2 /\ n \notin T2
    /\ \A n \in Q2 : n \notin T2
    /\ \A n \in alive2 : n \in S2 \/ n \in Q2 \/ n \in T2
                       \/ (n \in alive /\ n \notin S /\ n \notin Q /\ n \notin T)
    /\ \A n \in alive : n \in S \/ n \in Q \/ n \in T
                       \/ (n \in alive2 /\ n \notin S2 /\ n \notin Q2 /\ n \notin T2)

LEMMA CountingPlacedLater ==
    ASSUME NEW t \in Thread, Apartness(t), NEW s, NEW q, NEW piece, CountingPlaced(s, q, piece),
           NEW s2, List!Chain(s2, other_head)', NEW q2, List!Chain(q2, to_be_deleted)', NEW x2,
           Piece(t, x2)',
           NEW T2, T2 = Single(t)' \cup List!Elements(x2),
           \A n \in other_live : n \notin Holding(t, piece) => other_next'[n] = other_next[n],
           Moves(other_live, List!Elements(s), List!Elements(q), Holding(t, piece),
                 other_live', List!Elements(s2), List!Elements(q2), T2)
    PROVE  CountingPlaced(s2, q2, [piece EXCEPT ![t] = x2])'
<1>1. PICK S, Q, T, S2, Q2 : /\ S = List!Elements(s) /\ Q = List!Elements(q)
                             /\ T = Holding(t, piece)
                             /\ S2 = List!Elements(s2) /\ Q2 = List!Elements(q2)
  OBVIOUS
<1>2. Moves(other_live, S, Q, T, other_live', S2, Q2, T2)
  BY <1>1
<1> DEFINE piece2 == [piece EXCEPT ![t] = x2]
           taken == [u \in Thread |-> Holding(u, piece)]
           taken2 == [u \in Thread |-> Single(u)' \cup List!Elements(piece2[u])]
<1>3. piece \in [Thread -> Seq(ListNode)] /\ x2 \in Seq(ListNode)
  BY DEF CountingPlaced, Piece
<1>4. /\ piece2 \in [Thread -> Seq(ListNode)] /\ piece2[t] = x2
      /\ \A u \in Thread : u # t => piece2[u] = piece[u]
  BY <1>3
<1>5. List!Apart(other_live, S, Q, taken)
  BY <1>1 DEF CountingPlaced, Holding
<1>6. taken[t] = T /\ taken2[t] = T2
  BY <1>1, <1>4
<1>7. \A u \in Thread : u # t => Single(u)' = Single(u)
  BY DEF Apartness, Single
<1>8. \A u \in Thread : u # t => taken2[u] = taken[u]
  BY <1>4, <1>7 DEF Holding
<1>9. ASSUME NEW u \in Thread PROVE Piece(u, piece2[u])'
  <2>1. CASE u = t
    BY <1>4, <2>1
  <2>2. CASE u # t
    <3>1. \A n \in List!Elements(piece[u]) : n \in other_live /\ n \notin T
      <4>1. List!Elements(piece[u]) \subseteq taken[u]
        BY DEF Holding
      <4> HIDE DEF taken
      <4>2. QED
        BY <1>5, <1>6, <2>2, <4>1 DEF List!Apart
    <3>2. PICK seq : seq = piece[u]
      OBVIOUS
    <3>3. Piece(u, seq)'
      BY <1>1, <2>2, <3>1, <3>2, PieceStays DEF CountingPlaced, Apartness
    <3>4. QED
      BY <1>4, <2>2, <3>2, <3>3
  <2>3. QED
    BY <2>1, <2>2
<1>10. taken2 = [u \in Thread |-> Single(u) \cup List!Elements(piece2[u])]'
  BY DEF List!Elements
<1> HIDE DEF piece2, taken, taken2
<1>11. List!Apart(other_live', S2, Q2, taken2)
  <2>1. \A u \in Thread : taken2[u] \subseteq other_live'
    BY <1>2, <1>5, <1>6, <1>8 DEF List!Apart, Moves
  <2>2. \A n \in other_live' : n \in S2 \/ n \in Q2 \/ \E u \in Thread : n \in taken2[u]
    BY <1>2, <1>5, <1>6, <1>8 DEF List!Apart, Moves
  <2>3. \A n \in S2 : n \notin Q2 /\ \A u \in Thread : n \notin taken2[u]
    BY <1>2, <1>5, <1>6, <1>8 DEF List!Apart, Moves
  <2>4. \A n \in Q2 : \A u \in Thread : n \notin taken2[u]
    BY <1>2, <1>5, <1>6, <1>8 DEF List!Apart, Moves
  <2>5. \A u, w \in Thread : \A n \in taken2[u] : u # w => n \notin taken2[w]
    BY <1>2, <1>5, <1>6, <1>8 DEF List!Apart, Moves
  <2>6. QED
    BY <1>2, <2>1, <2>2, <2>3, <2>4, <2>5 DEF List!Apart, Moves
<1>12. List!Elements(s2)' = S2 /\ List!Elements(q2)' = Q2
  BY <1>1 DEF List!Elements
<1>13. List!Apart(other_live, List!Elements(s2), List!Elements(q2),
                  [u \in Thread |-> Single(u) \cup List!Elements(piece2[u])])'
  BY <1>10, <1>11, <1>12 DEF List!Apart
<1>14. CountingPlaced(s2, q2, piece2)'
  BY <1>4, <1>9, <1>13 DEF CountingPlaced
<1>15. QED
  BY <1>14 DEF piece2

\* What CountingPlaced says of one thread's nodes.
LEMMA CountingPlacedFacts ==
    ASSUME NEW s, NEW q, NEW piece, CountingPlaced(s, q, piece), NEW t \in Thread
    PROVE  /\ List!Chain(s, other_head) /\ List!Chain(q, to_be_deleted) /\ Piece(t, piece[t])
           /\ piece = [piece EXCEPT ![t] = piece[t]]
           /\ List!Elements(s) \subseteq other_live /\ List!Elements(q) \subseteq other_live
           /\ Holding(t, piece) \subseteq other_live
           /\ \A n \in List!Elements(s) : n \notin List!Elements(q) /\ n \notin Holding(t, piece)
           /\ \A n \in List!Elements(q) : n \notin Holding(t, piece)
           /\ \A u \in Thread : u # t => \A n \in Holding(u, piece) : n \notin Holding(t, piece)
<1> DEFINE taken == [u \in Thread |-> Single(u) \cup List!Elements(piece[u])]
<1>1. PICK S, Q : S = List!Elements(s) /\ Q = List!Elements(q)
  OBVIOUS
<1>2. List!Apart(other_live, S, Q, taken)
  BY <1>1 DEF CountingPlaced
<1>3. \A u \in Thread : taken[u] = Holding(u, piece)
  BY DEF Holding
<1> HIDE DEF taken
<1>4. /\ S \subseteq other_live /\ Q \subseteq other_live
      /\ Holding(t, piece) \subseteq other_live
      /\ \A n \in S : n \notin Q /\ n \notin Holding(t, piece)
      /\ \A n \in Q : n \notin Holding(t, piece)
      /\ \A u \in Thread : u # t => \A n \in Holding(u, piece) : n \notin Holding(t, piece)
  BY <1>2, <1>3 DEF List!Apart
<1>5. QED
  BY <1>1, <1>4 DEF CountingPlaced

\* Steps that move no node.
CountingQuiet(t) == \/ Counting!PopEnter(t) \/ Counting!PopLoad(t) \/ Counting!PopNext(t)
                    \/ Counting!PopRetry(t) \/ Counting!ReclaimAlone(t) \/ Counting!Leave(t)

LEMMA CountingQuietPlaces ==
    ASSUME CountingTypes, NEW t \in Thread, CountingControl(t), Apartness(t), CountingQuiet(t),
           NEW s, NEW q, NEW piece, CountingPlaced(s, q, piece)
    PROVE  CountingPlaced(s, q, piece)'
<1>1. UNCHANGED <<other_head, other_live, other_next, to_be_deleted>>
  BY DEF CountingQuiet, Counting!PopEnter, Counting!PopLoad, Counting!PopNext, Counting!PopRetry,
         Counting!ReclaimAlone, Counting!Leave, Counting!LoadHead, Counting!reclaimVars,
         Counting!listVars
<1>2. /\ other_pc[t] \notin {"push_cas", "exchange", "recheck"} \cup Chaining
      /\ other_pc'[t] \notin {"push_cas", "recheck"} \cup Chaining
  BY DEF CountingQuiet, Counting!PopEnter, Counting!PopLoad, Counting!PopNext, Counting!PopRetry,
         Counting!ReclaimAlone, Counting!Leave, Counting!LoadHead, Counting!Goto, CountingTypes,
         Chaining
<1>3. Single(t)' = Single(t)
  <2>1. CASE Counting!PopEnter(t) \/ Counting!PopNext(t) \/ Counting!Leave(t)
    BY <2>1 DEF Counting!PopEnter, Counting!PopNext, Counting!Leave, Counting!Goto,
       CountingTypes, Single, Chaining
  <2>2. CASE Counting!ReclaimAlone(t)
    BY <2>2 DEF Counting!ReclaimAlone, Counting!Goto, CountingTypes, Single, Chaining
  <2>3. CASE Counting!PopLoad(t) \/ Counting!PopRetry(t)
    <3>1. other_pc[t] \in {"pop_load", "pop_cas"} /\ other_node'[t] = other_head
          /\ other_pc'[t] = IF other_head = NoAddress THEN "reclaim" ELSE "pop_next"
      BY <2>3 DEF Counting!PopLoad, Counting!PopRetry, Counting!LoadHead, CountingTypes
    <3>2. QED
      BY <3>1 DEF Single, Chaining
  <2>4. QED
    BY <2>1, <2>2, <2>3 DEF CountingQuiet
<1>4. PICK x : x = piece[t]
  OBVIOUS
<1>5. Holding(t, piece) = Single(t)' \cup List!Elements(x)
  BY <1>3, <1>4 DEF Holding
<1>6. Piece(t, x)'
  BY <1>2, <1>4, CountingPlacedFacts DEF Piece
<1>7. List!Chain(s, other_head)' /\ List!Chain(q, to_be_deleted)'
  BY <1>1, CountingPlacedFacts DEF List!Chain
<1>8. Moves(other_live, List!Elements(s), List!Elements(q), Holding(t, piece),
            other_live', List!Elements(s), List!Elements(q), Holding(t, piece))
  BY <1>1, CountingPlacedFacts DEF Moves
<1>9. CountingPlaced(s, q, [piece EXCEPT ![t] = x])'
  BY <1>1, <1>5, <1>6, <1>7, <1>8, CountingPlacedLater
<1>10. QED
  BY <1>4, <1>9, CountingPlacedFacts

LEMMA CountingPushNewPlaces ==
    ASSUME CountingTypes, NEW t \in Thread, CountingControl(t), Apartness(t),
           NEW v \in Value, NEW n \in ListNode, Counting!PushNew(t, v, n),
           to_be_deleted' = to_be_deleted,
           NEW s, NEW q, NEW piece, CountingPlaced(s, q, piece)
    PROVE  (\E q2, piece2 : CountingPlaced(s, q2, piece2))'
<1>1. /\ other_pc[t] = "idle" /\ other_pc'[t] = "push_cas" /\ n \notin other_live
      /\ other_live' = other_live \cup {n}
      /\ other_head' = other_head /\ other_node'[t] = n
      /\ \A m \in ListNode : m # n => other_next'[m] = other_next[m]
  BY DEF Counting!PushNew, Counting!Goto, CountingTypes
<1>2. NoAddress \notin ListNode
  OBVIOUS
<1>3. PICK x : x = piece[t]
  OBVIOUS
<1>4. x = <<>> /\ Holding(t, piece) = {} /\ List!Elements(x) = {}
  BY <1>1, <1>3, CountingPlacedFacts DEF Piece, Holding, Single, Chaining, List!Elements
<1>5. {n} = Single(t)' \cup List!Elements(x)
  BY <1>1, <1>2, <1>4 DEF Single
<1>6. Piece(t, x)'
  BY <1>1, <1>4 DEF Piece, Chaining
<1>7. List!Chain(s, other_head)' /\ List!Chain(q, to_be_deleted)'
  <2>1. \A m \in List!Elements(s) \cup List!Elements(q) : other_next'[m] = other_next[m]
    BY <1>1, CountingPlacedFacts DEF CountingTypes
  <2>2. PICK f, g : f = other_head /\ g = to_be_deleted
    OBVIOUS
  <2>3. List!Chain(s, f)' /\ List!Chain(q, g)'
    BY <2>1, <2>2, CountingPlacedFacts, AnyChainStays
  <2>4. QED
    BY <1>1, <2>2, <2>3 DEF List!Chain
<1>8. Moves(other_live, List!Elements(s), List!Elements(q), Holding(t, piece), other_live',
            List!Elements(s), List!Elements(q), {n})
  BY <1>1, <1>4, CountingPlacedFacts DEF Moves
<1>9. CountingPlaced(s, q, [piece EXCEPT ![t] = x])'
  <2>1. \A m \in other_live : other_next'[m] = other_next[m]
    BY <1>1 DEF CountingTypes
  <2>2. QED
    BY <2>1, <1>5, <1>6, <1>7, <1>8, CountingPlacedLater
<1>10. QED
  BY <1>9

LEMMA CountingPushCasPlaces ==
    ASSUME CountingTypes, NEW t \in Thread, CountingControl(t), Apartness(t),
           Counting!PushCas(t), to_be_deleted' = to_be_deleted,
           NEW n, n = other_node[t],
           NEW s, NEW q, NEW piece, CountingPlaced(s, q, piece)
    PROVE  /\ (\E q2, piece2 : CountingPlaced(<<n>> \o s, q2, piece2))'
           /\ n \in ListNode /\ n \notin List!Elements(s)
<1>1. /\ other_pc[t] = "push_cas" /\ other_pc'[t] = "idle" /\ other_live' = other_live
      /\ other_next' = other_next
      /\ other_head = other_next[n] /\ other_head' = n /\ n \in ListNode /\ n # NoAddress
  BY DEF Counting!PushCas, Counting!Goto, CountingTypes, CountingControl
<1>2. PICK x : x = piece[t]
  OBVIOUS
<1>3. x = <<>> /\ Holding(t, piece) = {n} /\ List!Elements(x) = {}
  BY <1>1, <1>2, CountingPlacedFacts DEF Piece, Holding, Single, Chaining, List!Elements
<1>4. {} = Single(t)' \cup List!Elements(x)
  BY <1>1, <1>3 DEF Single, Chaining
<1>5. Piece(t, x)'
  BY <1>1, <1>3 DEF Piece, Chaining
<1>6. s \in Seq(ListNode) /\ n \notin List!Elements(s)
  BY <1>3, CountingPlacedFacts DEF List!Chain
<1>7. List!Elements(<<n>> \o s) = {n} \cup List!Elements(s)
  BY <1>1, <1>6, List!Prefixed
<1>8. List!Chain(<<n>> \o s, other_head)' /\ List!Chain(q, to_be_deleted)'
  <2>1. List!Chain(<<n>> \o s, other_head)'
    BY <1>1, <1>6, CountingPlacedFacts, List!ChainPush
  <2>2. List!Chain(q, to_be_deleted)'
    BY <1>1, CountingPlacedFacts DEF List!Chain
  <2>3. QED
    BY <2>1, <2>2
<1>9. Moves(other_live, List!Elements(s), List!Elements(q), Holding(t, piece),
            other_live', List!Elements(<<n>> \o s), List!Elements(q), {})
  BY <1>1, <1>3, <1>7, CountingPlacedFacts DEF Moves
<1>10. CountingPlaced(<<n>> \o s, q, [piece EXCEPT ![t] = x])'
  BY <1>1, <1>4, <1>5, <1>8, <1>9, CountingPlacedLater
<1>11. QED
  BY <1>1, <1>6, <1>10

\* Of the nodes that a thread holds the next pointers change.
LEMMA CountingLinkPlaces ==
    ASSUME CountingTypes, NEW t \in Thread, CountingControl(t), Apartness(t),
           \/ Counting!PushRetry(t) /\ to_be_deleted' = to_be_deleted
           \/ Counting!ChainLink(t) \/ Counting!ChainRetry(t),
           NEW s, NEW q, NEW piece, CountingPlaced(s, q, piece)
    PROVE  (\E q2, piece2 : CountingPlaced(s, q2, piece2))'
<1>1. \/ UNCHANGED <<other_head, other_live, to_be_deleted, other_node, first, last, counted>>
      \/ Counting!PushRetry(t) /\ UNCHANGED <<other_head, other_live, other_node, to_be_deleted>>
  BY DEF Counting!PushRetry, Counting!ChainLink, Counting!ChainRetry, Counting!listVars,
     Counting!reclaimVars
<1>2. PICK x : x = piece[t]
  OBVIOUS
<1>3. Piece(t, x) /\ Holding(t, piece) = Single(t) \cup List!Elements(x)
  BY <1>2, CountingPlacedFacts DEF Holding
<1>4. /\ Single(t)' = Single(t) /\ Piece(t, x)'
      /\ \A n \in other_live : n \notin Holding(t, piece) => other_next'[n] = other_next[n]
  <2>1. CASE Counting!PushRetry(t)
    <3>1. /\ other_pc[t] = "push_cas" /\ other_pc'[t] = "push_cas"
          /\ other_node' = other_node /\ other_node[t] # NoAddress
          /\ \A n \in ListNode : n # other_node[t] => other_next'[n] = other_next[n]
      BY <2>1 DEF Counting!PushRetry, Counting!Goto, CountingTypes, CountingControl
    <3>2. QED
      BY <1>3, <3>1 DEF Piece, Single, Chaining, CountingTypes
  <2>2. CASE Counting!ChainLink(t) \/ Counting!ChainRetry(t)
    <3>1. /\ other_pc[t] \in Chaining /\ other_pc'[t] \in Chaining /\ last[t] # NoAddress
          /\ UNCHANGED <<other_node, first, last, counted>>
          /\ \A n \in ListNode : n # last[t] => other_next'[n] = other_next[n]
      BY <2>2 DEF Counting!ChainLink, Counting!ChainRetry, Counting!Goto, Counting!reclaimVars,
         Counting!listVars, CountingTypes, CountingControl, Chaining
    <3>2. PICK f, l : f = first[t] /\ l = last[t]
      OBVIOUS
    <3>3. Strand(x, f, l) /\ x \in Seq(ListNode) /\ l \in List!Elements(x)
      BY <1>3, <3>1, <3>2, StrandIs DEF Piece, CountingTypes
    <3>4. Strand(x, f, l)'
      <4>1. List!Elements(x) \subseteq ListNode
        BY <3>3, List!ElementsOf
      <4>2. QED
        BY <3>1, <3>2, <3>3, <4>1, StrandStays
    <3>5. Strand(x, first[t], last[t])'
      BY <3>1, <3>2, <3>4 DEF Strand
    <3>6. Piece(t, x)'
      BY <1>3, <3>1, <3>5 DEF Piece, List!Elements, Chaining
    <3>7. Single(t)' = Single(t)
      BY <3>1 DEF Single, Chaining
    <3>8. \A n \in other_live : n \notin Holding(t, piece) => other_next'[n] = other_next[n]
      BY <1>3, <3>1, <3>2, <3>3 DEF CountingTypes
    <3>9. QED
      BY <3>6, <3>7, <3>8
  <2>3. QED
    BY <2>1, <2>2
<1>5. List!Chain(s, other_head)' /\ List!Chain(q, to_be_deleted)'
  <2>1. \A n \in List!Elements(s) \cup List!Elements(q) : other_next'[n] = other_next[n]
    BY <1>4, CountingPlacedFacts
  <2>2. PICK f, g : f = other_head /\ g = to_be_deleted
    OBVIOUS
  <2>3. List!Chain(s, f)' /\ List!Chain(q, g)'
    BY <2>1, <2>2, CountingPlacedFacts, AnyChainStays
  <2>4. QED
    BY <1>1, <2>2, <2>3 DEF List!Chain
<1>6. Moves(other_live, List!Elements(s), List!Elements(q), Holding(t, piece),
            other_live', List!Elements(s), List!Elements(q), Holding(t, piece))
  BY <1>1, CountingPlacedFacts DEF Moves
<1>7. CountingPlaced(s, q, [piece EXCEPT ![t] = x])'
  BY <1>3, <1>4, <1>5, <1>6, CountingPlacedLater
<1>8. QED
  BY <1>7

LEMMA CountingPopCasPlaces ==
    ASSUME CountingTypes, NEW t \in Thread, CountingControl(t), Apartness(t),
           Counting!PopCas(t), other_old_next[t] = other_next[other_node[t]],
           NEW s, NEW q, NEW piece, CountingPlaced(s, q, piece)
    PROVE  /\ (\E q2, piece2 : CountingPlaced(Tail(s), q2, piece2))'
           /\ s # <<>> /\ other_node[t] = Head(s) /\ other_node[t] \in ListNode
           /\ other_node[t] \notin List!Elements(Tail(s))
           /\ List!Elements(Tail(s)) \subseteq List!Elements(s)
<1>1. /\ other_pc[t] = "pop_cas" /\ other_pc'[t] = "reclaim" /\ other_live' = other_live
      /\ other_next' = other_next
      /\ other_head = other_node[t] /\ other_head' = other_next[other_head]
      /\ other_node' = other_node /\ other_head \in ListNode /\ other_head # NoAddress
      /\ to_be_deleted' = to_be_deleted
  BY DEF Counting!PopCas, Counting!Goto, CountingTypes, CountingControl, Counting!reclaimVars
<1>2. PICK x : x = piece[t]
  OBVIOUS
<1>3. x = <<>> /\ Holding(t, piece) = {} /\ List!Elements(x) = {}
  BY <1>1, <1>2, CountingPlacedFacts DEF Piece, Holding, Single, Chaining, List!Elements
<1>4. {other_head} = Single(t)' \cup List!Elements(x)
  BY <1>1, <1>3 DEF Single, Chaining
<1>5. Piece(t, x)'
  BY <1>1, <1>3 DEF Piece, Chaining
<1>6. /\ s # <<>> /\ other_head = Head(s) /\ List!Chain(Tail(s), other_head)'
      /\ List!Chain(q, to_be_deleted)'
  <2>1. s # <<>> /\ other_head = Head(s) /\ List!Chain(Tail(s), other_head)'
    BY <1>1, CountingPlacedFacts, List!ChainPop
  <2>2. List!Chain(q, to_be_deleted)'
    BY <1>1, CountingPlacedFacts DEF List!Chain
  <2>3. QED
    BY <2>1, <2>2
<1>7. s \in Seq(ListNode) /\ List!Distinct(s)
  <2>1. List!Chain(s, other_head)
    BY CountingPlacedFacts
  <2>2. s \in Seq(ListNode) /\ DOMAIN s = 1..Len(s)
    BY <2>1, LenProperties DEF List!Chain
  <2>3. QED
    BY <2>1, <2>2 DEF List!Chain, List!Distinct
<1>8. /\ List!Elements(s) = {other_head} \cup List!Elements(Tail(s))
      /\ other_head \notin List!Elements(Tail(s))
  BY <1>6, <1>7, List!WithoutHead
<1>9. Moves(other_live, List!Elements(s), List!Elements(q), Holding(t, piece),
            other_live', List!Elements(Tail(s)), List!Elements(q), {other_head})
  BY <1>1, <1>3, <1>8, CountingPlacedFacts DEF Moves
<1>10. CountingPlaced(Tail(s), q, [piece EXCEPT ![t] = x])'
  BY <1>1, <1>4, <1>5, <1>6, <1>9, CountingPlacedLater
<1>11. QED
  BY <1>1, <1>6, <1>8, <1>10

LEMMA CountingReclaimPlaces ==
    ASSUME CountingTypes, NEW t \in Thread, CountingControl(t), Apartness(t),
           Counting!ReclaimNotAlone(t),
           NEW s, NEW q, NEW piece, CountingPlaced(s, q, piece)
    PROVE  (\E q2, piece2 : CountingPlaced(s, q2, piece2))'
<1>1. /\ other_pc[t] = "reclaim" /\ other_pc'[t] = "chain_link" /\ counted[t]
      /\ UNCHANGED <<other_head, other_live, other_next, to_be_deleted, other_node, counted>>
      /\ first'[t] = other_node[t] /\ last'[t] = other_node[t]
      /\ other_node[t] \in ListNode \cup {NoAddress}
  BY DEF Counting!ReclaimNotAlone, Counting!Goto, CountingTypes, CountingControl, Chaining,
     Counting!listVars
<1>2. piece[t] = <<>> /\ Holding(t, piece) = {other_node[t]} \ {NoAddress}
  BY <1>1, CountingPlacedFacts DEF Piece, Holding, Single, Chaining, List!Elements
<1>3. PICK x : x = IF other_node[t] = NoAddress THEN <<>> ELSE <<other_node[t]>>
  OBVIOUS
<1>4. /\ x \in Seq(ListNode) /\ List!Elements(x) = {other_node[t]} \ {NoAddress}
      /\ Strand(x, first[t], last[t])'
  <2>1. CASE other_node[t] = NoAddress
    <3>1. x = <<>> /\ first'[t] = NoAddress /\ last'[t] = NoAddress
      BY <1>1, <1>3, <2>1
    <3>2. QED
      BY <2>1, <3>1 DEF List!Elements, Strand
  <2>2. CASE other_node[t] # NoAddress
    <3>1. PICK n \in ListNode : n = other_node[t] /\ n # NoAddress
      BY <1>1, <2>2
    <3>2. x = <<n>> /\ x \in Seq(ListNode) /\ Len(x) = 1 /\ x[1] = n /\ x # <<>>
      BY <1>3, <3>1
    <3>3. List!Elements(x) = {n}
      <4>1. List!Elements(x) = {x[i] : i \in 1..Len(x)}
        <5>1. x \in Seq(ListNode)
          BY <3>2
        <5>2. QED
          BY <5>1, List!ElementsOf
      <4>2. 1..Len(x) = {1}
        BY <3>2
      <4>3. QED
        BY <3>2, <4>1, <4>2
    <3>4. Strand(x, first[t], last[t])'
      BY <1>1, <3>1, <3>2 DEF Strand
    <3>5. QED
      BY <3>1, <3>2, <3>3, <3>4
  <2>3. QED
    BY <2>1, <2>2
<1>5. Piece(t, x)'
  BY <1>1, <1>4 DEF Piece, Chaining
<1>6. {other_node[t]} \ {NoAddress} = Single(t)' \cup List!Elements(x)
  BY <1>1, <1>4 DEF Single, Chaining
<1>7. List!Chain(s, other_head)' /\ List!Chain(q, to_be_deleted)'
  BY <1>1, CountingPlacedFacts DEF List!Chain
<1>8. Moves(other_live, List!Elements(s), List!Elements(q), Holding(t, piece),
            other_live', List!Elements(s), List!Elements(q), {other_node[t]} \ {NoAddress})
  BY <1>1, <1>2, CountingPlacedFacts DEF Moves
<1>9. CountingPlaced(s, q, [piece EXCEPT ![t] = x])'
  BY <1>1, <1>5, <1>6, <1>7, <1>8, CountingPlacedLater
<1>10. QED
  BY <1>9

LEMMA CountingExchangePlaces ==
    ASSUME CountingTypes, NEW t \in Thread, CountingControl(t), Apartness(t),
           Counting!Exchange(t),
           NEW s, NEW q, NEW piece, CountingPlaced(s, q, piece)
    PROVE  (\E q2, piece2 : CountingPlaced(s, q2, piece2))'
<1>1. /\ other_pc[t] = "exchange" /\ other_pc'[t] = "recheck"
      /\ UNCHANGED <<other_head, other_live, other_next, other_node>>
      /\ first'[t] = to_be_deleted /\ to_be_deleted' = NoAddress
  BY DEF Counting!Exchange, Counting!Goto, CountingTypes, Counting!listVars
<1>2. piece[t] = <<>> /\ Holding(t, piece) = {other_node[t]} \ {NoAddress}
  BY <1>1, CountingPlacedFacts DEF Piece, Holding, Single, Chaining, List!Elements
<1>3. List!Chain(q, first[t])' /\ q \in Seq(ListNode)
  BY <1>1, CountingPlacedFacts DEF List!Chain
<1>4. other_node[t] \notin List!Elements(q)
  <2>1. NoAddress \notin ListNode /\ List!Elements(q) \subseteq ListNode
    BY <1>3, List!ElementsOf
  <2>2. QED
    BY <1>2, <2>1, CountingPlacedFacts
<1>5. Piece(t, q)'
  BY <1>1, <1>3, <1>4 DEF Piece, Chaining, List!Elements
<1>6. PICK T2 : T2 = Holding(t, piece) \cup List!Elements(q)
  OBVIOUS
<1>7. T2 = Single(t)' \cup List!Elements(q)
  BY <1>1, <1>2, <1>6 DEF Single, Chaining
<1>8. List!Chain(s, other_head)' /\ List!Chain(<<>>, to_be_deleted)'
  <2>1. List!Chain(s, other_head)'
    BY <1>1, CountingPlacedFacts DEF List!Chain
  <2>2. List!Chain(<<>>, to_be_deleted)'
    BY <1>1 DEF List!Chain
  <2>3. QED
    BY <2>1, <2>2
<1>9. Moves(other_live, List!Elements(s), List!Elements(q), Holding(t, piece),
            other_live', List!Elements(s), List!Elements(<<>>), T2)
  <2>1. List!Elements(<<>>) = {}
    BY DEF List!Elements
  <2>2. QED
    BY <1>1, <1>6, <2>1, CountingPlacedFacts DEF Moves
<1>10. CountingPlaced(s, <<>>, [piece EXCEPT ![t] = q])'
  BY <1>1, <1>5, <1>7, <1>8, <1>9, CountingPlacedLater
<1>11. QED
  BY <1>10

LEMMA CountingRecheckAlonePlaces ==
    ASSUME CountingTypes, NEW t \in Thread, CountingControl(t), Apartness(t),
           Counting!RecheckAlone(t),
           NEW s, NEW q, NEW piece, CountingPlaced(s, q, piece)
    PROVE  (\E q2, piece2 : CountingPlaced(s, q2, piece2))'
<1>1. /\ other_pc[t] = "recheck" /\ other_pc'[t] = "idle"
      /\ UNCHANGED <<other_head, other_next, to_be_deleted>>
      /\ other_live' = other_live \ (List!Listed(first[t]) \cup {other_node[t]})
  BY SameLists
  DEF Counting!RecheckAlone, Counting!Goto, Counting!Free, CountingTypes
<1>2. Holding(t, piece) = ({other_node[t]} \ {NoAddress}) \cup List!Elements(piece[t])
  BY <1>1 DEF Holding, Single, Chaining
<1>3. List!Listed(first[t]) = List!Elements(piece[t])
  BY <1>1, List!ListedIs, CountingPlacedFacts DEF Piece
<1>4. PICK x : x = <<>>
  OBVIOUS
<1>5. Piece(t, x)'
  BY <1>1, <1>4 DEF Piece, Chaining
<1>6. {} = Single(t)' \cup List!Elements(x)
  BY <1>1, <1>4 DEF Single, Chaining, List!Elements
<1>7. List!Chain(s, other_head)' /\ List!Chain(q, to_be_deleted)'
  BY <1>1, CountingPlacedFacts DEF List!Chain
<1>8. NoAddress \notin other_live
  BY DEF CountingTypes
<1>9. Moves(other_live, List!Elements(s), List!Elements(q), Holding(t, piece), other_live',
            List!Elements(s), List!Elements(q), {})
  BY <1>1, <1>2, <1>3, <1>8, CountingPlacedFacts DEF Moves
<1>10. CountingPlaced(s, q, [piece EXCEPT ![t] = x])'
  BY <1>1, <1>5, <1>6, <1>7, <1>9, CountingPlacedLater
<1>11. QED
  BY <1>10

LEMMA CountingRecheckNotAlonePlaces ==
    ASSUME CountingTypes, NEW t \in Thread, CountingControl(t), Apartness(t),
           Counting!RecheckNotAlone(t),
           NEW s, NEW q, NEW piece, CountingPlaced(s, q, piece)
    PROVE  (\E q2, piece2 : CountingPlaced(s, q2, piece2))'
<1>1. /\ other_pc[t] = "recheck" /\ UNCHANGED <<other_head, other_next, to_be_deleted, first>>
      /\ counted'[t] = FALSE
  BY DEF Counting!RecheckNotAlone, CountingTypes
<1>2. PICK x : x = piece[t]
  OBVIOUS
<1>3. /\ Holding(t, piece) = ({other_node[t]} \ {NoAddress}) \cup List!Elements(x)
      /\ List!Chain(x, first[t]) /\ other_node[t] \notin List!Elements(x) /\ x \in Seq(ListNode)
  BY <1>1, <1>2, CountingPlacedFacts DEF Holding, Single, Chaining, Piece
<1>4. List!Chain(s, other_head)' /\ List!Chain(q, to_be_deleted)'
  BY <1>1, CountingPlacedFacts DEF List!Chain
<1>5. NoAddress \notin other_live /\ NoAddress \notin ListNode
  BY DEF CountingTypes
<1>6. CASE first[t] = NoAddress
  <2>1. other_pc'[t] = "idle" /\ other_live' = other_live \ {other_node[t]}
    BY <1>6 DEF Counting!RecheckNotAlone, Counting!Free, CountingTypes
  <2>2. x = <<>>
    BY <1>3, <1>6, ChainHead
  <2>3. List!Elements(x) = {}
    BY <2>2 DEF List!Elements
  <2>4. Piece(t, x)' /\ {} = Single(t)' \cup List!Elements(x)
    BY <2>1, <2>2, <2>3 DEF Piece, Single, Chaining
  <2>5. Moves(other_live, List!Elements(s), List!Elements(q), Holding(t, piece), other_live',
              List!Elements(s), List!Elements(q), {})
    BY <1>3, <1>5, <2>1, <2>3, CountingPlacedFacts DEF Moves
  <2>6. CountingPlaced(s, q, [piece EXCEPT ![t] = x])'
    BY <1>1, <1>4, <2>4, <2>5, CountingPlacedLater
  <2>7. QED
    BY <2>6
<1>7. CASE first[t] # NoAddress
  <2>1. PICK l : l = CHOOSE n \in List!Listed(first[t]) : other_next[n] = NoAddress
    OBVIOUS
  <2>2. /\ other_pc'[t] = "chain_link" /\ last'[t] = l /\ other_live' = other_live
        /\ other_node' = other_node
    BY <1>7, <2>1, SameLists DEF Counting!RecheckNotAlone, CountingTypes
  <2>3. Strand(x, first[t], l)
    BY <1>3, <1>7, <2>1, LastOfChain
  <2>4. Strand(x, first[t], last[t])'
    BY <1>1, <2>2, <2>3 DEF Strand
  <2>5. Piece(t, x)' /\ Holding(t, piece) = Single(t)' \cup List!Elements(x)
    BY <1>3, <2>2, <2>4 DEF Piece, Single, Chaining, List!Elements
  <2>6. Moves(other_live, List!Elements(s), List!Elements(q), Holding(t, piece),
              other_live', List!Elements(s), List!Elements(q), Holding(t, piece))
    BY <2>2, CountingPlacedFacts DEF Moves
  <2>7. CountingPlaced(s, q, [piece EXCEPT ![t] = x])'
    BY <1>1, <1>4, <2>5, <2>6, CountingPlacedLater
  <2>8. QED
    BY <2>7
<1>8. QED
  BY <1>6, <1>7

LEMMA CountingChainCasPlaces ==
    ASSUME CountingTypes, NEW t \in Thread, CountingControl(t), Apartness(t),
           Counting!ChainCas(t),
           NEW s, NEW q, NEW piece, CountingPlaced(s, q, piece)
    PROVE  (\E q2, piece2 : CountingPlaced(s, q2, piece2))'
<1>1. /\ other_pc[t] = "chain_cas" /\ other_pc'[t] \in {"leave", "idle"}
      /\ UNCHANGED <<other_head, other_next>>
      /\ to_be_deleted = other_next[last[t]] /\ to_be_deleted' = first[t]
      /\ other_live' = IF counted[t] THEN other_live ELSE other_live \ {other_node[t]}
      /\ last[t] \in ListNode
  BY DEF Counting!ChainCas, Counting!AfterChain, Counting!Free, CountingTypes, CountingControl
<1>2. PICK x : x = piece[t]
  OBVIOUS
<1>3. /\ Holding(t, piece) = ({other_node[t]} \ {NoAddress}) \cup List!Elements(x)
      /\ Strand(x, first[t], last[t]) /\ x \in Seq(ListNode)
      /\ ~counted[t] => other_node[t] \notin List!Elements(x)
  BY <1>1, <1>2, CountingPlacedFacts DEF Holding, Single, Chaining, Piece
<1>4. last[t] \in List!Elements(x) /\ x # <<>>
  <2>1. last[t] \in List!Elements(x)
    BY <1>1, <1>3, StrandIs
  <2>2. List!Elements(<<>>) = {}
    BY DEF List!Elements
  <2>3. QED
    BY <2>1, <2>2
<1>5. /\ List!Elements(x) \subseteq Holding(t, piece)
      /\ counted[t] => other_node[t] \in List!Elements(x)
  BY <1>1, <1>3, <1>4 DEF CountingControl, Chaining
<1>6. PICK q2 : q2 = x \o q
  OBVIOUS
<1>7. List!Elements(q2) = List!Elements(x) \cup List!Elements(q) /\ List!Chain(q2, first[t])
  <2>1. List!Chain(q, other_next[last[t]]) /\ q \in Seq(ListNode)
    BY <1>1, CountingPlacedFacts DEF List!Chain
  <2>2. \A n \in List!Elements(x) : n \notin List!Elements(q)
    BY <1>5, CountingPlacedFacts
  <2>3. PICK f, l : f = first[t] /\ l = last[t]
    OBVIOUS
  <2>4. Strand(x, f, l) /\ List!Chain(q, other_next[l])
    BY <1>3, <2>1, <2>3
  <2>5. List!Chain(x \o q, f)
    BY <1>4, <2>2, <2>4, StrandJoins
  <2>6. List!Elements(x \o q) = List!Elements(x) \cup List!Elements(q)
    BY <1>3, <2>1, Joined
  <2>7. QED
    BY <1>6, <2>3, <2>5, <2>6
<1>8. List!Chain(s, other_head)' /\ List!Chain(q2, to_be_deleted)'
  BY <1>1, <1>7, CountingPlacedFacts DEF List!Chain
<1>9. Piece(t, <<>>)' /\ {} = Single(t)' \cup List!Elements(<<>>)
  BY <1>1 DEF Piece, Single, Chaining, List!Elements
<1>10. Moves(other_live, List!Elements(s), List!Elements(q), Holding(t, piece), other_live',
             List!Elements(s), List!Elements(q2), {})
  <2>1. NoAddress \notin other_live
    BY DEF CountingTypes
  <2>2. CASE counted[t]
    <3>1. Holding(t, piece) = List!Elements(x) /\ other_live' = other_live
      BY <1>1, <1>3, <1>5, <2>2
    <3>2. QED
      BY <1>7, <3>1, CountingPlacedFacts DEF Moves
  <2>3. CASE ~counted[t]
    BY <1>1, <1>3, <1>7, <2>1, <2>3, CountingPlacedFacts DEF Moves
  <2>4. QED
    BY <2>2, <2>3
<1>11. CountingPlaced(s, q2, [piece EXCEPT ![t] = <<>>])'
  BY <1>1, <1>8, <1>9, <1>10, CountingPlacedLater
<1>12. QED
  BY <1>11
-----------------------------------------------------------------------------
\* The nodes whose next pointers a thread may write.
Linking(t) == CASE other_pc[t] = "push_cas" -> {other_node[t]}
                [] other_pc[t] \in Chaining -> {last[t]}
                [] OTHER -> {}

Alone(t) == threads_in_pop = 1 /\ counted[t]

\* What a step does to nodes that were there: it deletes only doomed ones, and dooms
\* none, unless its thread is the only one in pop.
CountingEffects(t) ==
    \A n \in other_live :
        /\ n \notin Doomed(t) => n \in other_live' \/ Alone(t)
        /\ n \in Doomed(t)' => n \in Doomed(t) \/ Alone(t)
        /\ n \notin Linking(t) => other_next'[n] = other_next[n]

LEMMA CountingEffectsHold ==
    ASSUME CountingTypes, NEW t \in Thread, CountingControl(t), Counting!Step(t)
    PROVE  CountingEffects(t)
<1> USE DEF CountingTypes, CountingEffects, Counting!Goto, Counting!Free, Counting!reclaimVars,
            Counting!listVars, Doomed, Linking, Chaining
<1>1. CASE Counting!Push(t)
  <2>1. ASSUME NEW v \in Value, NEW n \in ListNode, Counting!PushNew(t, v, n)
        PROVE  CountingEffects(t)
    BY <2>1 DEF Counting!PushNew
  <2>2. CASE Counting!PushCas(t)
    BY <2>2 DEF Counting!PushCas
  <2>3. CASE Counting!PushRetry(t)
    BY <2>3 DEF Counting!PushRetry
  <2>4. QED
    BY <1>1, <2>1, <2>2, <2>3 DEF Counting!Push, Counting!PushStep
<1>2. CASE Counting!PopEnter(t)
  BY <1>2 DEF Counting!PopEnter
<1>3. CASE Counting!PopLoad(t) \/ Counting!PopRetry(t)
  BY <1>3 DEF Counting!PopLoad, Counting!PopRetry, Counting!LoadHead
<1>4. CASE Counting!PopNext(t)
  BY <1>4 DEF Counting!PopNext
<1>5. CASE Counting!PopCas(t)
  BY <1>5 DEF Counting!PopCas
<1>6. CASE Counting!ReclaimAlone(t)
  BY <1>6 DEF Counting!ReclaimAlone, CountingControl, Alone
<1>7. CASE Counting!ReclaimNotAlone(t)
  BY <1>7 DEF Counting!ReclaimNotAlone, CountingControl
<1>8. CASE Counting!Exchange(t)
  BY <1>8 DEF Counting!Exchange
<1>9. CASE Counting!RecheckAlone(t)
  BY <1>9 DEF Counting!RecheckAlone, CountingControl, Alone
<1>10. CASE Counting!RecheckNotAlone(t)
  <2>1. CASE first[t] = NoAddress
    BY <1>10, <2>1 DEF Counting!RecheckNotAlone
  <2>2. CASE first[t] # NoAddress
    <3>1. /\ other_pc[t] = "recheck" /\ other_pc'[t] = "chain_link"
          /\ UNCHANGED <<other_live, other_next, other_node>>
          /\ counted'[t] = FALSE
      BY <1>10, <2>2 DEF Counting!RecheckNotAlone
    <3>2. QED
      BY <3>1
  <2>3. QED
    BY <2>1, <2>2
<1>11. CASE Counting!ChainLink(t)
  BY <1>11 DEF Counting!ChainLink
<1>12. CASE Counting!ChainCas(t)
  BY <1>12 DEF Counting!ChainCas, Counting!AfterChain
<1>13. CASE Counting!ChainRetry(t)
  BY <1>13 DEF Counting!ChainRetry
<1>14. CASE Counting!Leave(t)
  BY <1>14 DEF Counting!Leave
<1>15. QED
  BY <1>1, <1>2, <1>3, <1>4, <1>5, <1>6, <1>7, <1>8, <1>9, <1>10, <1>11, <1>12, <1>13, <1>14
  DEF Counting!Step

\* What a thread links or will delete is its own.
LEMMA CountingOwn ==
    ASSUME CountingTypes, NEW t \in Thread, CountingControl(t),
           other_pc[t] = "chain_link" => last[t] # NoAddress,
           NEW s, NEW q, NEW piece, CountingPlaced(s, q, piece)
    PROVE  Linking(t) \subseteq Holding(t, piece)
<1>1. CASE other_pc[t] \in Chaining
  <2>1. PICK x, f, l : x = piece[t] /\ f = first[t] /\ l = last[t]
    OBVIOUS
  <2>2. Strand(x, f, l) /\ l \in ListNode
    BY <1>1, <2>1, CountingPlacedFacts DEF Piece, CountingControl, CountingTypes, Chaining
  <2>3. l \in List!Elements(x)
    BY <2>2, StrandIs
  <2>4. QED
    BY <1>1, <2>1, <2>3 DEF Linking, Holding, Chaining
<1>2. CASE other_pc[t] \notin Chaining
  BY <1>2 DEF Linking, Holding, Single, CountingControl
<1>3. QED
  BY <1>1, <1>2

LEMMA CountingReliesStep ==
    ASSUME CountingTypes, \A u \in Thread : CountingControl(u),
           NEW t \in Thread, Counting!Step(t), ~Counting!Crashing,
           NEW s, NEW q, NEW piece, CountingPlaced(s, q, piece), \A u \in Thread : Relies(u, s),
           NEW s2, \A n \in List!Elements(s2) : n \in List!Elements(s) \/ n \in Doomed(t)
    PROVE  \A u \in Thread : Relies(u, s2)'
<1>1. Apartness(t) /\ CountingEffects(t) /\ CountingControl(t)
  BY CountingOthers, CountingEffectsHold
<1>2. \A w \in Thread : w # t => Doomed(w)' = Doomed(w)
  BY <1>1 DEF Apartness, Doomed
<1>3. \A n \in List!Elements(s) : n \in other_live /\ other_next'[n] = other_next[n]
  <2>1. Linking(t) \subseteq Holding(t, piece)
    BY <1>1, CountingOwn DEF Counting!Crashing
  <2>2. QED
    BY <1>1, <2>1, CountingPlacedFacts DEF CountingEffects
<1>4. ASSUME NEW u \in Thread, u # t, other_pc[u] \in {"pop_next", "pop_cas"} PROVE Relies(u, s2)'
  <2>1. ~Alone(t)
    <3>1. counted[u]
      BY <1>4 DEF CountingControl, Chaining
    <3>2. QED
      BY <1>4, <3>1, OnlyOne DEF Alone
  <2>2. /\ other_node'[u] = other_node[u] /\ other_old_next'[u] = other_old_next[u]
        /\ other_pc'[u] = other_pc[u]
        /\ other_node[u] \in other_live /\ \A w \in Thread : other_node[u] \notin Doomed(w)
        /\ other_pc[u] = "pop_cas" /\ other_node[u] \in List!Elements(s) => other_old_next[u] = other_next[other_node[u]]
    BY <1>1, <1>4 DEF Apartness, Relies
  <2>3. other_node'[u] \in other_live' /\ \A w \in Thread : other_node'[u] \notin Doomed(w)'
    BY <1>1, <1>2, <2>1, <2>2 DEF CountingEffects
  <2>4. other_pc[u] = "pop_cas" /\ other_node[u] \in List!Elements(s2) => other_old_next[u] = other_next'[other_node[u]]
    BY <1>3, <2>2
  <2>5. List!Elements(s2)' = List!Elements(s2)
    BY DEF List!Elements
  <2>6. QED
    BY <2>2, <2>3, <2>4, <2>5 DEF Relies
<1>5. ASSUME NEW u \in Thread, u # t, other_pc[u] \notin {"pop_next",
                                                          "pop_cas"} PROVE Relies(u, s2)'
  BY <1>1, <1>5 DEF Apartness, Relies
<1>6. ASSUME Counting!PopLoad(t) \/ Counting!PopRetry(t) PROVE Relies(t, s2)'
  <2>1. /\ other_node'[t] = other_head /\ other_live' = other_live
        /\ other_pc'[t] = IF other_head = NoAddress THEN "reclaim" ELSE "pop_next"
    BY <1>6 DEF Counting!PopLoad, Counting!PopRetry, Counting!LoadHead, CountingTypes,
       Counting!listVars
  <2>2. CASE other_head # NoAddress
    <3>1. other_head \in List!Elements(s)
      BY <2>2, CountingPlacedFacts, ChainHead
    <3>2. other_head \in other_live /\ \A w \in Thread : other_head \notin Single(w)
      BY <3>1, CountingPlacedFacts DEF Holding
    <3>3. \A w \in Thread : w # t => other_head \notin Doomed(w)'
      BY <1>2, <2>2, <3>2 DEF Doomed, Single
    <3>4. Doomed(t)' = {}
      BY <2>1, <2>2 DEF Doomed, Chaining
    <3>5. QED
      BY <2>1, <2>2, <3>2, <3>3, <3>4 DEF Relies
  <2>3. CASE other_head = NoAddress
    BY <2>1, <2>3 DEF Relies
  <2>4. QED
    BY <2>2, <2>3
<1>7. ASSUME Counting!PopNext(t) PROVE Relies(t, s2)'
  <2>1. /\ other_pc[t] = "pop_next" /\ other_pc'[t] = "pop_cas" /\ other_live' = other_live
        /\ other_next' = other_next /\ other_node' = other_node
        /\ other_old_next'[t] = other_next[other_node[t]]
    BY <1>7 DEF Counting!PopNext, Counting!Goto, CountingTypes, Counting!listVars
  <2>2. other_node[t] \in other_live /\ \A w \in Thread : other_node[t] \notin Doomed(w)
    BY <2>1 DEF Relies
  <2>3. Doomed(t)' = {}
    BY <2>1 DEF Doomed, Chaining
  <2>4. QED
    BY <1>2, <2>1, <2>2, <2>3 DEF Relies
<1>8. ASSUME ~(Counting!PopLoad(t) \/ Counting!PopRetry(t) \/ Counting!PopNext(t))
      PROVE  Relies(t, s2)'
  <2>1. other_pc'[t] \notin {"pop_next", "pop_cas"}
    BY <1>8 DEF Counting!Step, Counting!Push, Counting!PushStep, Counting!PushNew,
       Counting!PushCas, Counting!PushRetry, Counting!PopEnter, Counting!PopCas,
       Counting!ReclaimAlone, Counting!ReclaimNotAlone, Counting!Exchange,
       Counting!RecheckAlone, Counting!RecheckNotAlone, Counting!ChainLink, Counting!ChainCas,
       Counting!AfterChain, Counting!ChainRetry, Counting!Leave, Counting!Goto, CountingTypes
  <2>2. QED
    BY <2>1 DEF Relies
<1>9. QED
  <2>1. Relies(t, s2)'
    BY <1>6, <1>7, <1>8
  <2>2. QED
    BY <1>4, <1>5, <2>1
-----------------------------------------------------------------------------
\* The other steps leave the stack as it is.
Elsewhere(t) == \/ CountingQuiet(t)
                \/ Counting!Push(t) /\ other_pc'[t] = "push_cas"
                \/ Counting!ReclaimNotAlone(t) \/ Counting!Exchange(t)
                \/ Counting!RecheckAlone(t) \/ Counting!RecheckNotAlone(t)
                \/ Counting!ChainLink(t) \/ Counting!ChainCas(t) \/ Counting!ChainRetry(t)

LEMMA CountingSteps ==
    ASSUME CountingTypes, NEW t \in Thread, Counting!Step(t)
    PROVE  \/ Elsewhere(t)
           \/ Counting!Push(t) /\ Counting!PushCas(t)
           \/ Counting!PopCas(t)
  BY DEF Elsewhere, CountingQuiet, Counting!Step, Counting!Push, Counting!PushStep,
         Counting!PushNew, Counting!PushRetry, Counting!Goto, CountingTypes

LEMMA CountingElsewhere ==
    ASSUME CountingTypes, NEW t \in Thread, CountingControl(t), Apartness(t), Elsewhere(t),
           NEW s, NEW q, NEW piece, CountingPlaced(s, q, piece)
    PROVE  (\E q2, piece2 : CountingPlaced(s, q2, piece2))'
<1>1. CASE CountingQuiet(t)
  BY <1>1, CountingQuietPlaces
<1>2. CASE Counting!Push(t) /\ other_pc'[t] = "push_cas"
  <2>1. to_be_deleted' = to_be_deleted
    BY <1>2 DEF Counting!Push, Counting!reclaimVars
  <2>2. ~Counting!PushCas(t)
    BY <1>2 DEF Counting!PushCas, Counting!Goto, CountingTypes
  <2>3. CASE Counting!PushRetry(t)
    BY <2>1, <2>3, CountingLinkPlaces
  <2>4. ASSUME NEW v \in Value, NEW n \in ListNode, Counting!PushNew(t, v, n)
        PROVE  (\E q2, piece2 : CountingPlaced(s, q2, piece2))'
    BY <2>1, <2>4, CountingPushNewPlaces
  <2>5. QED
    BY <1>2, <2>2, <2>3, <2>4 DEF Counting!Push, Counting!PushStep
<1>3. QED
  BY <1>1, <1>2, CountingReclaimPlaces, CountingExchangePlaces, CountingRecheckAlonePlaces,
     CountingRecheckNotAlonePlaces, CountingLinkPlaces, CountingChainCasPlaces DEF Elsewhere

LEMMA CountingMemoryStep ==
    ASSUME CountingInv, NEW t \in Thread, Counting!Step(t), ~Counting!Crashing,
           NEW s, Memory(s)
    PROVE  \E s2 : Memory(s2)'
<1>1. PICK q, piece : CountingPlaced(s, q, piece)
  BY DEF Memory
<1>2. /\ CountingTypes /\ CountingControl(t) /\ Apartness(t)
      /\ \A u \in Thread : CountingControl(u) /\ Relies(u, s)
  BY CountingOthers DEF CountingInv, Memory
<1>3. ASSUME NEW s2, (\E q2, piece2 : CountingPlaced(s2, q2, piece2))',
             \A n \in List!Elements(s2) : n \in List!Elements(s) \/ n \in Doomed(t)
      PROVE  \E s3 : Memory(s3)'
  <2>1. \A u \in Thread : Relies(u, s2)'
    BY <1>1, <1>2, <1>3, CountingReliesStep
  <2>2. Memory(s2)'
    BY <1>3, <2>1 DEF Memory
  <2>3. QED
    BY <2>2
<1>4. CASE Elsewhere(t)
  <2>1. (\E q2, piece2 : CountingPlaced(s, q2, piece2))'
    BY <1>1, <1>2, <1>4, CountingElsewhere
  <2>2. QED
    BY <1>3, <2>1
<1>5. CASE Counting!Push(t) /\ Counting!PushCas(t)
  <2>1. PICK n, s2 : n = other_node[t] /\ s2 = <<n>> \o s
    OBVIOUS
  <2>2. to_be_deleted' = to_be_deleted /\ other_pc[t] = "push_cas"
    BY <1>5 DEF Counting!Push, Counting!PushCas, Counting!Goto, Counting!reclaimVars
  <2>3. (\E q2, piece2 : CountingPlaced(s2, q2, piece2))' /\ n \in ListNode
    BY <1>1, <1>2, <1>5, <2>1, <2>2, CountingPushCasPlaces
  <2>4. List!Elements(s2) = {n} \cup List!Elements(s)
    <3>1. List!Chain(s, other_head)
      BY <1>1, <1>2, CountingPlacedFacts
    <3>2. QED
      BY <2>1, <2>3, <3>1, List!Prefixed DEF List!Chain
  <2>5. \A m \in List!Elements(s2) : m \in List!Elements(s) \/ m \in Doomed(t)
    BY <2>1, <2>2, <2>4 DEF Doomed
  <2>6. QED
    BY <1>3, <2>3, <2>5
<1>6. CASE Counting!PopCas(t)
  <2>1. PICK s2 : s2 = Tail(s)
    OBVIOUS
  <2>2. other_old_next[t] = other_next[other_node[t]]
    <3>1. other_pc[t] = "pop_cas" /\ other_head = other_node[t] /\ other_head # NoAddress
      BY <1>2, <1>6 DEF Counting!PopCas, Counting!Goto, CountingControl
    <3>2. other_head \in List!Elements(s)
      BY <1>1, <1>2, <3>1, CountingPlacedFacts, ChainHead
    <3>3. QED
      BY <1>2, <3>1, <3>2 DEF Relies
  <2>3. /\ (\E q2, piece2 : CountingPlaced(s2, q2, piece2))'
        /\ List!Elements(s2) \subseteq List!Elements(s)
    BY <1>1, <1>2, <1>6, <2>1, <2>2, CountingPopCasPlaces
  <2>4. QED
    BY <1>3, <2>3
<1>7. QED
  BY <1>2, <1>4, <1>5, <1>6, CountingSteps

\* The data of nodes that stay where they are.
LEMMA CountingData ==
    ASSUME CountingTypes, NEW t \in Thread, CountingControl(t), Counting!Step(t),
           NEW s, NEW q, NEW piece, CountingPlaced(s, q, piece)
    PROVE  \A n \in other_live : n \notin Holding(t, piece) =>
               other_data'[n] = other_data[n] \/ (Counting!PopCas(t) /\ n = other_head)
<1> USE DEF CountingTypes, Counting!Goto, Counting!reclaimVars, Counting!listVars
<1>1. Piece(t, piece[t]) /\ Holding(t, piece) = Single(t) \cup List!Elements(piece[t])
  BY CountingPlacedFacts DEF Holding
<1>2. NoAddress \notin ListNode
  OBVIOUS
<1>3. CASE other_data' = other_data
  BY <1>3
<1>4. ASSUME NEW nodes, Counting!Free(nodes), nodes \subseteq Holding(t, piece) \cup {NoAddress}
      PROVE  \A n \in other_live : n \notin Holding(t, piece) => other_data'[n] = other_data[n]
  BY <1>2, <1>4 DEF Counting!Free
<1>5. other_pc[t] \in {"recheck"} \cup Chaining
        => {other_node[t]} \subseteq Holding(t, piece) \cup {NoAddress}
  BY <1>1 DEF Single
<1>6. CASE Counting!Push(t)
  BY <1>6 DEF Counting!Push, Counting!PushStep, Counting!PushNew, Counting!PushCas,
     Counting!PushRetry
<1>7. CASE Counting!PopCas(t)
  BY <1>7 DEF Counting!PopCas
<1>8. CASE Counting!RecheckAlone(t)
  <2>1. List!Listed(first[t]) = List!Elements(piece[t]) /\ other_pc[t] = "recheck"
    BY <1>1, <1>8, List!ListedIs DEF Counting!RecheckAlone, Piece
  <2>2. Counting!Free(List!Listed(first[t]) \cup {other_node[t]})
    BY <1>8, SameLists DEF Counting!RecheckAlone
  <2>3. QED
    BY <1>1, <1>4, <1>5, <2>1, <2>2
<1>9. CASE Counting!RecheckNotAlone(t)
  BY <1>3, <1>4, <1>5, <1>9 DEF Counting!RecheckNotAlone
<1>10. CASE Counting!ChainCas(t)
  BY <1>3, <1>4, <1>5, <1>10 DEF Counting!ChainCas, Counting!AfterChain, Chaining
<1>11. QED
  BY <1>3, <1>6, <1>7, <1>8, <1>9, <1>10
  DEF Counting!Step, Counting!PopEnter, Counting!PopLoad, Counting!LoadHead, Counting!PopNext,
      Counting!PopRetry, Counting!ReclaimAlone, Counting!ReclaimNotAlone, Counting!Exchange,
      Counting!ChainLink, Counting!ChainRetry, Counting!Leave

LEMMA CountingPushedStep ==
    ASSUME CountingInv, NEW t \in Thread, Counting!Step(t)
    PROVE  PushedInv'
<1>1. PICK s, q, piece : CountingPlaced(s, q, piece)
  BY DEF CountingInv, Memory
<1>2. /\ CountingTypes /\ CountingControl(t) /\ Apartness(t) /\ PushedInv
      /\ \A u \in Thread : CountingControl(u)
  BY CountingOthers DEF CountingInv
<1>3. ASSUME NEW u \in Thread, u # t, other_pc'[u] = "push_cas" PROVE other_data'[other_node'[u]] \in Value
  <2>1. PICK n : n = other_node[u]
    OBVIOUS
  <2>2. other_pc[u] = "push_cas" /\ other_node'[u] = n /\ other_data[n] \in Value /\ n # NoAddress
    BY <1>2, <1>3, <2>1 DEF Apartness, PushedInv, CountingControl
  <2>3. n \in Holding(u, piece)
    BY <2>1, <2>2 DEF Holding, Single
  <2>4. n \in other_live /\ n \notin List!Elements(s) /\ n \notin Holding(t, piece)
    BY <1>1, <1>3, <2>3, CountingPlacedFacts
  <2>5. Counting!PopCas(t) => other_head \in List!Elements(s)
    <3>1. List!Chain(s, other_head) /\ (Counting!PopCas(t) => other_head # NoAddress)
      BY <1>1, <1>2, CountingPlacedFacts DEF Counting!PopCas, Counting!Goto, CountingControl
    <3>2. QED
      BY <3>1, ChainHead
  <2>6. other_data'[n] = other_data[n]
    BY <1>1, <1>2, <2>4, <2>5, CountingData
  <2>7. QED
    BY <2>2, <2>6
<1>4. ASSUME other_pc'[t] = "push_cas" PROVE other_data'[other_node'[t]] \in Value
  <2>1. CASE Counting!Push(t)
    BY <1>2, <1>4, <2>1 DEF Counting!Push, Counting!PushStep, Counting!PushNew, Counting!PushCas,
       Counting!PushRetry, Counting!Goto, CountingTypes, PushedInv
  <2>2. CASE ~Counting!Push(t)
    BY <1>2, <1>4, <2>2 DEF Counting!Step, Counting!PopEnter, Counting!PopLoad, Counting!LoadHead,
       Counting!PopNext, Counting!PopCas, Counting!PopRetry, Counting!ReclaimAlone,
       Counting!ReclaimNotAlone, Counting!Exchange, Counting!RecheckAlone,
       Counting!RecheckNotAlone, Counting!ChainLink, Counting!ChainCas, Counting!AfterChain,
       Counting!ChainRetry, Counting!Leave, Counting!Goto, CountingTypes
  <2>3. QED
    BY <2>1, <2>2
<1>5. QED
  BY <1>3, <1>4 DEF PushedInv
-----------------------------------------------------------------------------
LEMMA CountingInitial == Counting!Init => CountingInv
<1> SUFFICES ASSUME Counting!Init PROVE CountingInv
  OBVIOUS
<1> USE DEF Counting!Init, Counting!ListInit
<1>1. CountingTypes
  <2>1. InPop = {}
    BY DEF InPop
  <2>2. threads_in_pop = Cardinality(InPop)
    BY <2>1, FS_EmptySet
  <2>3. QED
    BY <2>2 DEF CountingTypes, CountingPc
<1>2. PushedInv /\ \A t \in Thread : CountingControl(t)
  BY DEF PushedInv, CountingControl, Chaining
<1>3. PICK none : none = [t \in Thread |-> <<>>]
  OBVIOUS
<1>4. List!Elements(<<>>) = {}
  BY DEF List!Elements
<1>5. CountingPlaced(<<>>, <<>>, none)
  <2>1. List!Chain(<<>>, other_head) /\ List!Chain(<<>>, to_be_deleted)
    BY DEF List!Chain
  <2>2. none \in [Thread -> Seq(ListNode)] /\ \A t \in Thread : Piece(t, none[t])
    BY <1>3 DEF Piece, Chaining
  <2>3. \A t \in Thread : Single(t) \cup List!Elements(none[t]) = {}
    BY <1>3, <1>4 DEF Single, Chaining
  <2>4. List!Apart(other_live, List!Elements(<<>>), List!Elements(<<>>),
                   [t \in Thread |-> Single(t) \cup List!Elements(none[t])])
    BY <1>4, <2>3 DEF List!Apart
  <2>5. QED
    BY <2>1, <2>2, <2>4 DEF CountingPlaced
<1>6. Memory(<<>>)
  BY <1>5 DEF Memory, Relies
<1>7. QED
  BY <1>1, <1>2, <1>6 DEF CountingInv

LEMMA CountingInductive == CountingInv /\ [Counting!Next]_(Counting!vars) => CountingInv'
<1> SUFFICES ASSUME CountingInv, [Counting!Next]_(Counting!vars) PROVE CountingInv'
  OBVIOUS
<1>1. CASE UNCHANGED Counting!vars
  <2>1. UNCHANGED <<other_head, other_data, other_next, other_live, other_pc, other_node,
                    other_result, threads_in_pop, to_be_deleted,
                    other_old_next, first, last, counted>>
    BY <1>1 DEF Counting!vars, Counting!stackVars, Counting!reclaimVars
  <2>2. CountingTypes' /\ PushedInv' /\ \A t \in Thread : CountingControl(t)'
    BY <2>1 DEF CountingInv, CountingTypes, InPop, PushedInv, CountingControl
  <2>3. PICK s : Memory(s)
    BY DEF CountingInv
  <2>4. PICK q, piece : CountingPlaced(s, q, piece)
    BY <2>3 DEF Memory
  <2>5. CountingPlaced(s, q, piece)'
    <3>1. \A t \in Thread : Single(t)' = Single(t) /\ Piece(t, piece[t])'
      BY <2>1, <2>4 DEF CountingPlaced, Single, Piece, List!Chain, Strand, List!Elements
    <3>2. \A seq : List!Elements(seq)' = List!Elements(seq)
      BY DEF List!Elements
    <3>3. QED
      BY <2>1, <2>4, <3>1, <3>2 DEF CountingPlaced, List!Chain, List!Apart
  <2>6. \A t \in Thread : Relies(t, s)'
    BY <2>1, <2>3 DEF Memory, Relies, Doomed, List!Elements
  <2>7. Memory(s)'
    BY <2>5, <2>6 DEF Memory
  <2>8. QED
    BY <2>2, <2>7 DEF CountingInv
<1>2. ASSUME NEW t \in Thread, Counting!Step(t), ~Counting!Crashing PROVE CountingInv'
  <2>1. PICK s : Memory(s)
    BY DEF CountingInv
  <2>2. \E s2 : Memory(s2)'
    BY <1>2, <2>1, CountingMemoryStep
  <2>3. CountingTypes' /\ PushedInv' /\ \A u \in Thread : CountingControl(u)'
    BY <1>2, CountingStepTypes, CountingControlStep, CountingPushedStep
  <2>4. QED
    BY <2>2, <2>3 DEF CountingInv
<1>3. QED
  BY <1>1, <1>2 DEF Counting!Next

LEMMA CountingInvariant == Counting!Spec => []CountingInv
  BY CountingInitial, CountingInductive, PTL DEF Counting!Spec

LEMMA CountingSafe == CountingInv => Counting!CountedNodesSafe
<1> SUFFICES ASSUME CountingInv PROVE Counting!CountedNodesSafe
  OBVIOUS
<1>1. PICK s, q, piece : CountingPlaced(s, q, piece) /\ \A t \in Thread : Relies(t, s)
  BY DEF CountingInv, Memory
<1>2. CountingTypes /\ \A t \in Thread : CountingControl(t)
  BY DEF CountingInv
<1>3. Counting!TypeOK
  <2>1. Counting!Cardinality({t \in Thread : counted[t]}) = Cardinality(InPop)
    BY SameLists DEF InPop
  <2>2. QED
    BY <1>2, <2>1 DEF Counting!TypeOK, CountingTypes
<1>4. List!Chain(s, other_head) /\ List!Chain(q, to_be_deleted)
  BY <1>1 DEF CountingPlaced
<1>5. Counting!NoUseAfterFree
  <2>1. ASSUME NEW t \in Thread, other_pc[t] = "pop_cas", other_head = other_node[t]
        PROVE  other_old_next[t] = other_next[other_node[t]]
    <3>1. other_head # NoAddress
      BY <1>2, <2>1 DEF CountingControl
    <3>2. QED
      BY <1>1, <1>4, <2>1, <3>1, ChainHead DEF Relies
  <2>2. ASSUME NEW t \in Thread, other_pc[t] = "chain_cas" PROVE last[t] \in other_live
    <3>1. Linking(t) \subseteq Holding(t, piece)
      BY <1>1, <1>2, <2>2, CountingOwn
    <3>2. QED
      BY <1>1, <2>2, <3>1, CountingPlacedFacts DEF Linking, Chaining
  <2>3. QED
    BY <1>1, <2>1, <2>2 DEF Counting!NoUseAfterFree, Relies
<1>6. \A t \in Thread : Counting!Taken(t) = Holding(t, piece)
  <2> TAKE t \in Thread
  <2>1. PICK x, f, l : x = piece[t] /\ f = first[t] /\ l = last[t]
    OBVIOUS
  <2>2. Piece(t, x) /\ Holding(t, piece) = Single(t) \cup List!Elements(x) /\ CountingControl(t)
    BY <1>1, <1>2, <2>1, CountingPlacedFacts DEF Holding
  <2>3. NoAddress \notin ListNode
    OBVIOUS
  <2>4. CASE other_pc[t] = "push_cas"
    BY <2>2, <2>4 DEF Counting!Taken, Single, Piece, List!Elements, CountingControl, Chaining
  <2>5. CASE other_pc[t] \in {"reclaim", "exchange"}
    BY <2>2, <2>5 DEF Counting!Taken, Single, Piece, List!Elements, Chaining
  <2>6. CASE other_pc[t] = "recheck"
    <3>1. Counting!Segment(f, l) = List!Elements(x)
      BY <2>1, <2>2, <2>6, SameLists, List!ListedIs DEF Piece, CountingControl, List!Listed,
      Chaining
    <3>2. QED
      BY <2>1, <2>2, <2>6, <3>1 DEF Counting!Taken, Single
  <2>7. CASE other_pc[t] \in Chaining
    <3>1. Counting!Segment(f, l) = List!Elements(x)
      BY <2>1, <2>2, <2>7, SameLists, StrandIs DEF Piece
    <3>2. QED
      BY <2>1, <2>2, <2>7, <3>1 DEF Counting!Taken, Single, Chaining
  <2>8. CASE other_pc[t] \notin {"push_cas", "reclaim", "exchange", "recheck"} \cup Chaining
    BY <2>2, <2>8 DEF Counting!Taken, Single, Piece, List!Elements, Chaining
  <2>9. QED
    BY <2>4, <2>5, <2>6, <2>7, <2>8
<1>7. Counting!NodesAccounted
  <2> DEFINE taken == [t \in Thread |-> Single(t) \cup List!Elements(piece[t])]
  <2>1. PICK stack, pending : stack = List!Elements(s) /\ pending = List!Elements(q)
    OBVIOUS
  <2>2. Counting!Listed(other_head) = stack /\ Counting!Listed(to_be_deleted) = pending
    BY <1>4, <2>1, SameLists, List!ListedIs
  <2>3. List!Apart(other_live, stack, pending, taken)
    BY <1>1, <2>1 DEF CountingPlaced
  <2>4. \A t \in Thread : taken[t] = Counting!Taken(t)
    BY <1>6 DEF Holding
  <2> HIDE DEF taken
  <2>5. other_live = stack \cup pending \cup UNION {Counting!Taken(t) : t \in Thread}
    <3>1. \A n : n \in UNION {Counting!Taken(t) : t \in Thread}
                 <=> \E t \in Thread : n \in Counting!Taken(t)
      OBVIOUS
    <3>2. \A n \in other_live : n \in stack \/ n \in pending \/ \E t \in Thread : n \in Counting!Taken(t)
      BY <2>3, <2>4 DEF List!Apart
    <3>3. /\ stack \subseteq other_live /\ pending \subseteq other_live
          /\ \A t \in Thread : Counting!Taken(t) \subseteq other_live
      BY <2>3, <2>4 DEF List!Apart
    <3>4. QED
      BY <3>1, <3>2, <3>3
  <2>6. /\ stack \cap pending = {}
        /\ \A t \in Thread : Counting!Taken(t) \cap (stack \cup pending) = {}
        /\ \A t, u \in Thread : t # u => Counting!Taken(t) \cap Counting!Taken(u) = {}
    BY <2>3, <2>4 DEF List!Apart
  <2>7. QED
    BY <2>2, <2>5, <2>6 DEF Counting!NodesAccounted
<1>8. QED
  BY <1>3, <1>5, <1>7 DEF Counting!CountedNodesSafe
-----------------------------------------------------------------------------
CountedStep == [Counting!Lifo!Next]_(Counting!Lifo!stackVars)

\* Steps that leave the elements where they are.
LEMMA CountingSameContents ==
    ASSUME CountingInv, CountingTypes', NEW t \in Thread, Counting!Step(t), Elsewhere(t)
    PROVE  Counting!Contents' = Counting!Contents
<1>1. PICK s, q, piece : CountingPlaced(s, q, piece)
  BY DEF CountingInv, Memory
<1>2. CountingTypes /\ CountingControl(t) /\ Apartness(t)
  BY CountingOthers DEF CountingInv
<1>3. List!Chain(s, other_head) /\ List!Chain(s, other_head)'
  <2>1. List!Chain(s, other_head)
    BY <1>1, <1>2, CountingPlacedFacts
  <2>2. (\E q2, piece2 : CountingPlaced(s, q2, piece2))'
    BY <1>1, <1>2, CountingElsewhere
  <2>3. QED
    BY <2>1, <2>2 DEF CountingPlaced
<1>4. ~Counting!PopCas(t)
  <2> SUFFICES ASSUME Counting!PopCas(t) PROVE FALSE
    OBVIOUS
  <2>1. /\ other_pc[t] = "pop_cas" /\ other_pc'[t] = "reclaim" /\ other_head = other_node[t]
        /\ other_head # NoAddress
    BY <1>2 DEF Counting!PopCas, Counting!Goto, CountingTypes, CountingControl
  <2>2. QED
    BY <1>2, <2>1 DEF Elsewhere, CountingQuiet, Counting!PopEnter, Counting!PopLoad,
       Counting!LoadHead, Counting!PopNext, Counting!PopRetry, Counting!ReclaimAlone,
       Counting!ReclaimNotAlone, Counting!Exchange, Counting!RecheckAlone,
       Counting!RecheckNotAlone, Counting!ChainLink, Counting!ChainCas, Counting!ChainRetry,
       Counting!Leave, Counting!Goto, CountingTypes
<1>5. \A n \in List!Elements(s) : other_data'[n] = other_data[n]
  BY <1>1, <1>2, <1>4, CountingData, CountingPlacedFacts
<1>6. List!ListTypes /\ List!ListTypes'
  BY <1>2 DEF CountingTypes, List!ListTypes
<1>7. List!Contents' = List!Contents
  BY <1>3, <1>5, <1>6, List!ContentsSame
<1>8. QED
  BY <1>7, SameLists, SameContentsLater

LEMMA CountingRefines ==
    ASSUME CountingInv, CountingTypes', NEW t \in Thread, Counting!Step(t)
    PROVE  CountedStep
<1>1. /\ CountingTypes /\ CountingControl(t) /\ Apartness(t) /\ PushedInv
      /\ List!ListTypes /\ List!ListTypes'
  BY CountingOthers DEF CountingInv, CountingTypes, List!ListTypes
<1>2. PICK s, q, piece : CountingPlaced(s, q, piece) /\ Relies(t, s)
  BY DEF CountingInv, Memory
<1> USE DEF Counting!Goto, Counting!Called
<1>3. CASE Elsewhere(t)
  <2>1. Counting!Contents' = Counting!Contents
    BY <1>3, CountingSameContents
  <2>2. CASE other_result' = other_result
    BY <2>1, <2>2 DEF CountedStep, Counting!Lifo!stackVars
  <2>3. CASE Counting!PopEnter(t) \/ (Counting!Push(t) /\ other_pc[t] = "idle")
    <3>1. other_result' = [other_result EXCEPT ![t] = <<>>]
      BY <2>3 DEF Counting!PopEnter, Counting!Push, Counting!PushStep, Counting!PushNew,
         Counting!PushCas, Counting!PushRetry
    <3>2. Counting!Lifo!Call(t)
      BY <2>1, <3>1 DEF Counting!Lifo!Call, Counting!Lifo!NoResult
    <3>3. QED
      BY <3>2 DEF CountedStep, Counting!Lifo!Next
  <2>4. CASE (Counting!PopLoad(t) \/ Counting!PopRetry(t)) /\ other_head = NoAddress
    <3>1. other_result' = [other_result EXCEPT ![t] = Nothing]
      BY <2>4 DEF Counting!PopLoad, Counting!PopRetry, Counting!LoadHead
    <3>2. List!Contents = <<>>
      <4>1. List!Chain(s, other_head) /\ s = <<>>
        BY <1>1, <1>2, <2>4, CountingPlacedFacts, ChainHead
      <4>2. List!Contents = List!Values(s)
        BY <1>1, <4>1, List!ContentsAre
      <4>3. QED
        BY <4>1, <4>2 DEF List!Values
    <3>3. Counting!Lifo!PopEmpty(t)
      BY <2>1, <3>1, <3>2, SameLists DEF Counting!Lifo!PopEmpty
    <3>4. QED
      BY <3>3 DEF CountedStep, Counting!Lifo!Next
  <2>5. QED
    BY <1>1, <1>3, <2>2, <2>3, <2>4
    DEF Elsewhere, CountingQuiet, Counting!Push, Counting!PushStep, Counting!PushNew,
        Counting!PushCas, Counting!PushRetry, Counting!PopLoad, Counting!PopRetry,
        Counting!LoadHead, Counting!PopNext, Counting!ReclaimAlone, Counting!Leave,
        Counting!ReclaimNotAlone, Counting!Exchange, Counting!RecheckAlone,
        Counting!RecheckNotAlone, Counting!ChainLink, Counting!ChainCas, Counting!ChainRetry
<1>4. CASE Counting!Push(t) /\ Counting!PushCas(t)
  <2>1. PICK n : n = other_node[t]
    OBVIOUS
  <2>2. UNCHANGED <<to_be_deleted, other_data, other_result>> /\ other_pc[t] = "push_cas"
    BY <1>4 DEF Counting!Push, Counting!PushCas, Counting!reclaimVars
  <2>3. (\E q2, piece2 : CountingPlaced(<<n>> \o s, q2, piece2))' /\ n \in ListNode
    BY <1>1, <1>2, <1>4, <2>1, <2>2, CountingPushCasPlaces
  <2>4. List!Chain(s, other_head) /\ List!Chain(<<n>> \o s, other_head)'
    BY <1>2, <2>3, CountingPlacedFacts DEF CountingPlaced
  <2>5. List!Contents' = <<other_data[n]>> \o List!Contents
    BY <1>1, <2>2, <2>3, <2>4, List!ContentsPushed
  <2>6. other_data[n] \in Value
    BY <1>1, <2>1, <2>2 DEF PushedInv
  <2>7. Counting!Lifo!Push(other_data[n])
    BY <2>2, <2>5, SameLists, SameContentsLater DEF Counting!Lifo!Push
  <2>8. QED
    BY <2>6, <2>7 DEF CountedStep, Counting!Lifo!Next
<1>5. CASE Counting!PopCas(t)
  <2>1. other_pc[t] = "pop_cas" /\ other_head = other_node[t] /\ other_head # NoAddress
    BY <1>1, <1>5 DEF Counting!PopCas, CountingControl
  <2>2. List!Chain(s, other_head)
    BY <1>2, CountingPlacedFacts
  <2>3. other_old_next[t] = other_next[other_node[t]]
    BY <1>2, <2>1, <2>2, ChainHead DEF Relies
  <2>4. /\ (\E q2, piece2 : CountingPlaced(Tail(s), q2, piece2))'
        /\ s # <<>> /\ other_node[t] = Head(s)
        /\ other_node[t] \notin List!Elements(Tail(s)) /\ other_node[t] \in ListNode
    BY <1>1, <1>2, <1>5, <2>3, CountingPopCasPlaces
  <2>5. List!Chain(Tail(s), other_head)'
    BY <2>4 DEF CountingPlaced
  <2>6. /\ other_result' = [other_result EXCEPT ![t] = other_data[other_node[t]]]
        /\ other_data' = [other_data EXCEPT ![other_node[t]] = Nothing]
    BY <1>5 DEF Counting!PopCas
  <2>7. \A n \in List!Elements(Tail(s)) : other_data'[n] = other_data[n]
    <3>1. List!Elements(Tail(s)) \subseteq ListNode
      BY <2>5, List!ElementsOf DEF List!Chain
    <3>2. QED
      BY <1>1, <2>4, <2>6, <3>1 DEF List!ListTypes
  <2>8. /\ List!Contents # <<>> /\ Head(List!Contents) = other_data[Head(s)]
        /\ List!Contents' = Tail(List!Contents)
    BY <1>1, <2>2, <2>4, <2>5, <2>7, List!ContentsPopped
  <2>9. Counting!Lifo!Pop(t)
    BY <2>4, <2>6, <2>8, SameLists, SameContentsLater DEF Counting!Lifo!Pop
  <2>10. QED
    BY <2>9 DEF CountedStep, Counting!Lifo!Next
<1>6. QED
  BY <1>1, <1>3, <1>4, <1>5, CountingSteps

LEMMA CountingBegins == Counting!Init => Counting!Lifo!Init
<1> SUFFICES ASSUME Counting!Init PROVE Counting!Lifo!Init
  OBVIOUS
<1>1. List!ListTypes
  BY CountingInitial DEF CountingInv, CountingTypes, List!ListTypes
<1>2. List!Chain(<<>>, other_head)
  BY DEF Counting!Init, Counting!ListInit, List!Chain
<1>3. List!Contents = List!Values(<<>>)
  BY <1>1, <1>2, List!ContentsAre
<1>4. Counting!Contents = <<>>
  BY <1>3, SameLists DEF List!Values
<1>5. QED
  BY <1>4 DEF Counting!Init, Counting!ListInit, Counting!Lifo!Init, Counting!Lifo!NoResult

LEMMA CountingLifoSteps == CountingInv /\ CountingInv' /\ [Counting!Next]_(Counting!vars)
                           => [Counting!Lifo!Next]_(Counting!Lifo!stackVars)
<1> SUFFICES ASSUME CountingInv, CountingInv', [Counting!Next]_(Counting!vars) PROVE CountedStep
  BY DEF CountedStep
<1>1. CASE UNCHANGED Counting!vars
  <2>1. UNCHANGED <<other_head, other_next, other_data, other_result>>
    BY <1>1 DEF Counting!vars, Counting!stackVars
  <2>2. PICK s : List!Chain(s, other_head)
    BY DEF CountingInv, Memory, CountingPlaced
  <2>3. List!Chain(s, other_head)'
    BY <2>1, <2>2 DEF List!Chain
  <2>4. List!Contents' = List!Contents
    BY <2>1, <2>2, <2>3, List!ContentsSame DEF CountingInv, CountingTypes, List!ListTypes
  <2>5. QED
    BY <2>1, <2>4, SameLists, SameContentsLater DEF CountedStep, Counting!Lifo!stackVars
<1>2. ASSUME NEW t \in Thread, Counting!Step(t) PROVE CountedStep
  BY <1>2, CountingRefines DEF CountingInv
<1>3. QED
  BY <1>1, <1>2 DEF Counting!Next

(***************************************************************************)
(* lock_free_stack1.h:37-96: push takes effect at its compare_exchange,    *)
(* and pop at its own, or when it has loaded a null head.                  *)
(***************************************************************************)
THEOREM CountedRefinement == Counting!Spec => Counting!ImplementsStack
  BY CountingBegins, CountingLifoSteps, CountingInvariant, PTL
  DEF Counting!Spec, Counting!ImplementsStack
-----------------------------------------------------------------------------
(***************************************************************************)
(* The stack with shared pointers.                                         *)
(***************************************************************************)
\* The function that Segment chooses exists, whatever the next pointers are.
LEMMA SegmentExists ==
    ASSUME NEW n, NEW stop, NEW N \in Nat
    PROVE  \E f : \A k \in 0..N : List!Reaches(f, n, stop, k)
<1> DEFINE bad == {m \in Nat : ~ \E f : \A k \in 0..m : List!Reaches(f, n, stop, k)}
<1> SUFFICES ASSUME bad # {} PROVE FALSE
  OBVIOUS
<1>1. PICK low \in bad : \A k \in bad : ~(k < low)
  <2>1. bad \in SUBSET Nat
    OBVIOUS
  <2> HIDE DEF bad
  <2>2. QED
    BY <2>1, List!LeastNumber
<1>2. low # 0
  <2> SUFFICES ASSUME low = 0 PROVE FALSE
    OBVIOUS
  <2> DEFINE f == [k \in {0} |-> {n} \ {NoAddress}]
  <2>1. \A k \in 0..0 : List!Reaches(f, n, stop, k)
    BY DEF List!Reaches
  <2> HIDE DEF f
  <2>2. QED
    BY <2>1
<1>3. low \in Nat /\ low - 1 \in Nat /\ low - 1 < low
  BY <1>2
<1>4. PICK f : \A k \in 0..low - 1 : List!Reaches(f, n, stop, k)
  BY <1>1, <1>3
<1> DEFINE g == [k \in 0..low |->
                    IF k = low THEN f[low - 1] \cup ({other_next[m] : m \in f[low - 1] \ {stop}} \ {NoAddress})
                    ELSE f[k]]
<1>5. /\ g[low] = f[low - 1] \cup ({other_next[m] : m \in f[low - 1] \ {stop}} \ {NoAddress})
      /\ \A k \in 0..low - 1 : g[k] = f[k]
  BY <1>3
<1> HIDE DEF g
<1>6. List!Reaches(g, n, stop, low)
  BY <1>2, <1>3, <1>5 DEF List!Reaches
<1>7. ASSUME NEW k \in 0..low - 1 PROVE List!Reaches(g, n, stop, k)
  <2>1. List!Reaches(f, n, stop, k) /\ g[k] = f[k]
    BY <1>4, <1>5
  <2>2. k # 0 => g[k - 1] = f[k - 1]
    BY <1>3, <1>5
  <2>3. QED
    BY <2>1, <2>2 DEF List!Reaches
<1>8. \A k \in 0..low : List!Reaches(g, n, stop, k)
  <2>1. \A k \in 0..low : k = low \/ k \in 0..low - 1
    BY <1>3
  <2>2. QED
    BY <1>6, <1>7, <2>1
<1>9. QED
  BY <1>1, <1>8

\* So a list has at least its first node.
LEMMA ListedFirst == \A n \in ListNode : n \in List!Listed(n)
<1> TAKE n \in ListNode
<1> DEFINE N == Cardinality(ListNode)
<1>1. N \in Nat
  BY FS_CardinalityType
<1> HIDE DEF N
<1>2. PICK f : \A k \in 0..N : List!Reaches(f, n, NoAddress, k)
  BY <1>1, SegmentExists
<1>3. PICK F : F = [k \in 0..N |-> f[k]]
  OBVIOUS
<1>4. \A k \in 0..N : List!Reaches(F, n, NoAddress, k)
  <2> TAKE k \in 0..N
  <2>1. F[k] = f[k] /\ (k # 0 => F[k - 1] = f[k - 1])
    BY <1>1, <1>3
  <2>2. QED
    BY <1>2, <2>1 DEF List!Reaches
<1>5. F = [k \in 0..N |-> IF k = 0 THEN {n} \ {NoAddress} ELSE
              F[k - 1] \cup ({other_next[m] : m \in F[k - 1] \ {NoAddress}} \ {NoAddress})]
  BY <1>3, <1>4 DEF List!Reaches
<1>6. List!Listed(n) = F[N]
  <2>1. List!Cardinality(ListNode) = N
    BY SameLists DEF N
  <2>2. QED
    BY <1>1, <1>5, <2>1, List!SegmentIs DEF List!Listed
<1> DEFINE bad == {k \in 0..N : n \notin F[k]}
<1>7. ASSUME bad # {} PROVE FALSE
  <2>1. PICK low \in bad : \A k \in bad : ~(k < low)
    <3>1. bad \in SUBSET Nat
      OBVIOUS
    <3> HIDE DEF bad
    <3>2. QED
      BY <1>7, <3>1, List!LeastNumber
  <2>2. n \in F[0]
    <3>1. NoAddress \notin ListNode
      OBVIOUS
    <3>2. List!Reaches(F, n, NoAddress, 0)
      BY <1>1, <1>4
    <3>3. F[0] = {n} \ {NoAddress}
      BY <3>2 DEF List!Reaches
    <3>4. QED
      BY <3>1, <3>3
  <2>3. low # 0 /\ low - 1 \in 0..N /\ low - 1 < low
    BY <1>1, <2>1, <2>2
  <2>4. n \in F[low - 1]
    BY <2>1, <2>3
  <2>5. F[low - 1] \subseteq F[low]
    <3>1. low \in 0..N /\ List!Reaches(F, n, NoAddress, low)
      BY <1>4, <2>1
    <3>2. QED
      BY <2>3, <3>1 DEF List!Reaches
  <2>6. QED
    BY <2>1, <2>4, <2>5
<1>8. QED
  BY <1>1, <1>6, <1>7

LEMMA ListsLater ==
    (/\ \A n \in ListNode : n \in SharedPtr!Listed(n)
     /\ \A seq, f : List!Chain(seq, f) => SharedPtr!Listed(f) = List!Elements(seq))'
<1>1. /\ \A n \in ListNode : n \in SharedPtr!Listed(n)
      /\ \A seq, f : List!Chain(seq, f) => SharedPtr!Listed(f) = List!Elements(seq)
  BY ListedFirst, List!ListedIs, SameLists
<1>2. QED
  BY <1>1, PTL

SharedPc == {"idle", "push_cas", "pop_next", "pop_cas"}

SharedTypes ==
    /\ other_head \in ListNode \cup {NoAddress}
    /\ other_next \in [ListNode -> ListNode \cup {NoAddress}]
    /\ other_data \in [ListNode -> Value \cup {Nothing}]
    /\ other_pc \in [Thread -> SharedPc]
    /\ other_node \in [Thread -> ListNode \cup {NoAddress}]
    /\ other_old_next \in [Thread -> ListNode \cup {NoAddress}]
    /\ other_result \in [Thread -> Value \cup {Nothing, NewElement, <<>>}]

\* A node is not deleted while a thread has a pointer to it, the one of a push is
\* known to its thread only, and what a pop has read next to its node is still there.
Shares(t) ==
    /\ other_node[t] # NoAddress => other_node[t] \in other_live
    /\ other_pc[t] # "idle" => other_node[t] # NoAddress
    /\ other_pc[t] = "push_cas" => /\ other_data[other_node[t]] \in Value
                                   /\ \A u \in Thread : u # t => other_node[u] # other_node[t]
    /\ other_pc[t] = "pop_cas" => other_old_next[t] = other_next[other_node[t]]

SharedList(s) ==
    /\ List!Chain(s, other_head) /\ List!Elements(s) \subseteq other_live
    /\ \A t \in Thread : other_pc[t] = "push_cas" => other_node[t] \notin List!Elements(s)

SharedInv == SharedTypes /\ (\A t \in Thread : Shares(t)) /\ \E s : SharedList(s)

\* What is reachable after a step stays.
LEMMA SharedReleased ==
    ASSUME SharedPtr!Release, NEW s, List!Chain(s, other_head)'
    PROVE  /\ List!Elements(s) \subseteq other_live'
           /\ \A t \in Thread : other_node'[t] \in ListNode => other_node'[t] \in other_live'
           /\ \A n \in ListNode : n \in other_live' => other_data'[n] = other_data[n]
<1>1. PICK reached : reached = {other_head'} \cup {other_node'[t] : t \in Thread} \cup {other_old_next'[t] : t \in Thread}
  OBVIOUS
<1>2. other_live' = UNION {SharedPtr!Listed(n)' : n \in reached}
  BY <1>1 DEF SharedPtr!Release, SharedPtr!Pointed
<1>3. \A n \in reached : SharedPtr!Listed(n)' \subseteq other_live'
  BY <1>2
<1>4. List!Elements(s) \subseteq other_live'
  <2>1. PICK f : f = other_head'
    OBVIOUS
  <2>2. List!Chain(s, f)' /\ List!Elements(s)' = List!Elements(s)
    BY <2>1 DEF List!Chain, List!Elements
  <2>3. SharedPtr!Listed(f)' = List!Elements(s)
    BY <2>2, ListsLater
  <2>4. QED
    BY <1>1, <1>3, <2>1, <2>3
<1>5. ASSUME NEW t \in Thread, other_node'[t] \in ListNode PROVE other_node'[t] \in other_live'
  <2>1. PICK n \in ListNode : n = other_node'[t]
    BY <1>5
  <2>2. n \in SharedPtr!Listed(n)'
    BY ListsLater
  <2>3. QED
    BY <1>1, <1>3, <2>1, <2>2
<1>6. \A n \in ListNode : n \in other_live' => other_data'[n] = other_data[n]
  BY DEF SharedPtr!Release
<1>7. QED
  BY <1>4, <1>5, <1>6

SharedApart(t) == \A u \in Thread : u # t =>
    other_pc'[u] = other_pc[u] /\ other_node'[u] = other_node[u] /\ other_old_next'[u] = other_old_next[u]

LEMMA SharedTypesStep ==
    ASSUME SharedTypes, NEW t \in Thread, Shares(t), SharedPtr!Step(t)
    PROVE  SharedTypes' /\ SharedApart(t)
<1> USE DEF SharedTypes, SharedApart, SharedPc, SharedPtr!Goto, SharedPtr!Called,
SharedPtr!Release
<1>1. CASE SharedPtr!Push(t)
  <2>1. ASSUME NEW v \in Value, NEW n \in ListNode, SharedPtr!PushNew(t, v, n),
               UNCHANGED other_old_next
        PROVE  SharedTypes' /\ SharedApart(t)
    BY <2>1 DEF SharedPtr!PushNew
  <2>2. CASE SharedPtr!PushCas(t) /\ UNCHANGED other_old_next
    BY <2>2 DEF SharedPtr!PushCas
  <2>3. CASE SharedPtr!Reload(t)
    BY <2>3 DEF SharedPtr!Reload
  <2>4. QED
    BY <1>1, <2>1, <2>2, <2>3 DEF SharedPtr!Push
<1>2. CASE SharedPtr!PopLoad(t) \/ SharedPtr!PopRetry(t)
  <2>1. /\ other_node' = [other_node EXCEPT ![t] = other_head]
        /\ other_old_next' = [other_old_next EXCEPT ![t] = NoAddress]
        /\ other_pc' = [other_pc EXCEPT ![t] = IF other_head = NoAddress THEN "idle" ELSE "pop_next"]
        /\ other_result' = [other_result EXCEPT ![t] = IF other_head = NoAddress THEN NewElement ELSE <<>>]
        /\ other_head' = other_head /\ other_next' = other_next
        /\ other_data' \in [ListNode -> Value \cup {Nothing}]
    BY <1>2 DEF SharedPtr!PopLoad, SharedPtr!PopRetry, SharedPtr!LoadHead
  <2>2. QED
    BY <2>1
<1>3. CASE SharedPtr!PopNext(t)
  BY <1>3 DEF SharedPtr!PopNext, Shares
<1>4. CASE SharedPtr!PopCas(t)
  BY <1>4 DEF SharedPtr!PopCas, Shares
<1>5. QED
  BY <1>1, <1>2, <1>3, <1>4 DEF SharedPtr!Step

\* Each step keeps what is known of the threads and of the list.
LEMMA SharedPushNew ==
    ASSUME SharedInv, NEW t \in Thread, SharedApart(t), NEW v \in Value, NEW n \in ListNode,
           SharedPtr!PushNew(t, v, n), other_old_next' = other_old_next, NEW s, SharedList(s)
    PROVE  /\ SharedList(s)' /\ \A u \in Thread : Shares(u)'
           /\ \A m \in List!Elements(s) : other_data'[m] = other_data[m]
<1>1. SharedTypes /\ \A u \in Thread : Shares(u)
  BY DEF SharedInv
<1>2. NoAddress \notin ListNode
  OBVIOUS
<1>3. /\ other_pc'[t] = "push_cas" /\ n \notin other_live
      /\ other_live' = other_live \cup {n} /\ other_head' = other_head
      /\ other_node'[t] = n /\ other_data'[n] = v
      /\ \A m \in ListNode : m # n => other_next'[m] = other_next[m] /\ other_data'[m] = other_data[m]
  BY <1>1 DEF SharedPtr!PushNew, SharedPtr!Goto, SharedTypes
<1>4. /\ List!Elements(s) \subseteq ListNode /\ List!Elements(s) \subseteq other_live
      /\ List!Chain(s, other_head)
  BY List!ElementsOf DEF SharedList, List!Chain
<1>5. List!Chain(s, other_head)'
  BY <1>3, <1>4, List!ChainStays
<1>6. SharedList(s)'
  BY <1>3, <1>4, <1>5 DEF SharedList, SharedApart, List!Elements
<1>7. Shares(t)'
  BY <1>1, <1>2, <1>3 DEF Shares, SharedApart
<1>8. ASSUME NEW u \in Thread, u # t PROVE Shares(u)'
  <2>1. other_node[u] # n /\ Shares(u) /\ other_node[u] \in ListNode \cup {NoAddress}
    BY <1>1, <1>2, <1>3 DEF Shares, SharedTypes
  <2>2. /\ other_pc'[u] = other_pc[u] /\ other_node'[u] = other_node[u]
        /\ other_old_next'[u] = other_old_next[u]
    BY <1>8 DEF SharedApart
  <2>3. \A w \in Thread : w # u /\ other_node[w] # other_node[u] => other_node'[w] # other_node[u]
    BY <1>3, <2>1 DEF SharedApart
  <2>4. QED
    BY <1>3, <2>1, <2>2, <2>3 DEF Shares
<1>9. QED
  BY <1>3, <1>4, <1>6, <1>7, <1>8

LEMMA SharedPushCas ==
    ASSUME SharedInv, NEW t \in Thread, SharedApart(t), SharedPtr!PushCas(t),
           other_old_next' = other_old_next,
           NEW s, SharedList(s), NEW n, n = other_node[t]
    PROVE  /\ SharedList(<<n>> \o s)' /\ \A u \in Thread : Shares(u)'
           /\ n \in ListNode /\ other_data[n] \in Value
<1>1. SharedTypes /\ \A u \in Thread : Shares(u)
  BY DEF SharedInv
<1>2. /\ other_pc[t] = "push_cas" /\ other_pc'[t] = "idle"
      /\ UNCHANGED <<other_data, other_next, other_live>>
      /\ other_head = other_next[n] /\ other_head' = n /\ other_node'[t] = NoAddress
      /\ n \in ListNode /\ n \in other_live
      /\ other_data[n] \in Value /\ \A u \in Thread : u # t => other_node[u] # n
  BY <1>1 DEF SharedPtr!PushCas, SharedPtr!Goto, SharedTypes, Shares
<1>3. /\ n \notin List!Elements(s) /\ List!Chain(s, other_head)
      /\ List!Elements(s) \subseteq other_live
  BY <1>2 DEF SharedList
<1>4. List!Chain(<<n>> \o s, other_head)' /\ List!Elements(<<n>> \o s) = {n} \cup List!Elements(s)
  <2>1. s \in Seq(ListNode)
    BY <1>3 DEF List!Chain
  <2>2. QED
    BY <1>2, <1>3, <2>1, List!ChainPush, List!Prefixed
<1>5. SharedList(<<n>> \o s)'
  <2>1. PICK s2 : s2 = <<n>> \o s
    OBVIOUS
  <2>2. List!Elements(s2)' = {n} \cup List!Elements(s) /\ List!Chain(s2, other_head)'
    BY <1>4, <2>1 DEF List!Elements
  <2>3. SharedList(s2)'
    BY <1>2, <1>3, <2>2 DEF SharedList, SharedApart
  <2>4. QED
    BY <2>1, <2>3
<1>6. Shares(t)'
  BY <1>2 DEF Shares
<1>7. ASSUME NEW u \in Thread, u # t PROVE Shares(u)'
  <2>1. /\ Shares(u) /\ other_pc'[u] = other_pc[u] /\ other_node'[u] = other_node[u]
        /\ other_old_next'[u] = other_old_next[u]
    BY <1>1, <1>7 DEF SharedApart
  <2>2. other_pc[u] = "push_cas" => \A w \in Thread : w # u => other_node'[w] # other_node[u]
    BY <1>2, <2>1 DEF SharedApart, Shares
  <2>3. QED
    BY <1>2, <2>1, <2>2 DEF Shares
<1>8. QED
  BY <1>2, <1>5, <1>6, <1>7

LEMMA SharedReload ==
    ASSUME SharedInv, SharedTypes', NEW t \in Thread, SharedApart(t), SharedPtr!Reload(t),
           NEW s, SharedList(s)
    PROVE  /\ SharedList(s)' /\ \A u \in Thread : Shares(u)'
           /\ \A m \in List!Elements(s) : other_data'[m] = other_data[m]
<1>1. SharedTypes /\ \A u \in Thread : Shares(u)
  BY DEF SharedInv
<1>2. NoAddress \notin ListNode
  OBVIOUS
<1>3. /\ other_pc[t] = "push_cas" /\ other_pc'[t] = "push_cas"
      /\ UNCHANGED <<other_head, other_node, other_old_next>>
      /\ SharedPtr!Release
      /\ \A m \in ListNode : m # other_node[t] => other_next'[m] = other_next[m]
  BY <1>1 DEF SharedPtr!Reload, SharedPtr!Goto, SharedTypes
<1>4. /\ List!Elements(s) \subseteq ListNode /\ List!Chain(s, other_head)
      /\ other_node[t] \notin List!Elements(s)
  BY <1>3, List!ElementsOf DEF SharedList, List!Chain
<1>5. List!Chain(s, other_head)'
  BY <1>3, <1>4, List!ChainStays
<1>6. /\ List!Elements(s) \subseteq other_live'
      /\ \A u \in Thread : other_node[u] \in ListNode => other_node[u] \in other_live'
      /\ \A m \in ListNode : m \in other_live' => other_data'[m] = other_data[m]
  BY <1>3, <1>5, SharedReleased
<1>7. \A u \in Thread : other_pc'[u] = other_pc[u]
  BY <1>3 DEF SharedApart
<1>8. SharedList(s)'
  BY <1>3, <1>5, <1>6, <1>7 DEF SharedList, List!Elements
<1>9. ASSUME NEW u \in Thread PROVE Shares(u)'
  <2>1. Shares(u) /\ other_node[u] \in ListNode \cup {NoAddress}
    BY <1>1 DEF SharedTypes
  <2>2. other_pc[u] = "pop_cas" => other_node[u] # other_node[t] /\ other_node[u] # NoAddress
    BY <1>1, <1>3, <2>1 DEF Shares
  <2>3. QED
    BY <1>2, <1>3, <1>6, <1>7, <2>1, <2>2 DEF Shares
<1>10. QED
  BY <1>4, <1>6, <1>8, <1>9

LEMMA SharedLoadHead ==
    ASSUME SharedInv, SharedTypes', NEW t \in Thread, SharedApart(t), SharedPtr!LoadHead(t),
           NEW s, SharedList(s)
    PROVE  /\ SharedList(s)' /\ \A u \in Thread : Shares(u)'
           /\ \A m \in List!Elements(s) : other_data'[m] = other_data[m]
<1>1. SharedTypes /\ \A u \in Thread : Shares(u)
  BY DEF SharedInv
<1>2. NoAddress \notin ListNode
  OBVIOUS
<1>3. /\ other_pc'[t] = IF other_head = NoAddress THEN "idle" ELSE "pop_next"
      /\ UNCHANGED <<other_head, other_next>> /\ SharedPtr!Release /\ other_node'[t] = other_head
  BY <1>1 DEF SharedPtr!LoadHead, SharedTypes
<1>4. /\ List!Elements(s) \subseteq ListNode /\ List!Chain(s, other_head)
      /\ \A u \in Thread : other_pc[u] = "push_cas" => other_node[u] \notin List!Elements(s)
  BY List!ElementsOf DEF SharedList, List!Chain
<1>5. List!Chain(s, other_head)'
  BY <1>3, <1>4, List!ChainStays
<1>6. /\ List!Elements(s) \subseteq other_live'
      /\ \A u \in Thread : other_node'[u] \in ListNode => other_node'[u] \in other_live'
      /\ \A m \in ListNode : m \in other_live' => other_data'[m] = other_data[m]
  BY <1>3, <1>5, SharedReleased
<1>7. SharedList(s)'
  BY <1>3, <1>4, <1>5, <1>6 DEF SharedList, SharedApart, List!Elements
<1>8. Shares(t)'
  BY <1>1, <1>3, <1>6 DEF Shares, SharedTypes
<1>9. ASSUME NEW u \in Thread, u # t PROVE Shares(u)'
  <2>1. /\ Shares(u) /\ other_node[u] \in ListNode \cup {NoAddress}
        /\ other_pc'[u] = other_pc[u] /\ other_node'[u] = other_node[u]
        /\ other_old_next'[u] = other_old_next[u]
    BY <1>1, <1>9 DEF SharedTypes, SharedApart
  <2>2. other_pc[u] = "push_cas" => \A w \in Thread : w # u => other_node'[w] # other_node[u]
    <3> SUFFICES ASSUME other_pc[u] = "push_cas" PROVE \A w \in Thread : w # u => other_node'[w] # other_node[u]
      OBVIOUS
    <3>1. other_head # other_node[u]
      BY <1>4, <2>1, ChainHead DEF Shares
    <3>2. QED
      BY <1>3, <2>1, <3>1 DEF Shares, SharedApart
  <2>3. QED
    BY <1>2, <1>3, <1>6, <2>1, <2>2 DEF Shares
<1>10. QED
  BY <1>4, <1>6, <1>7, <1>8, <1>9

LEMMA SharedPopNext ==
    ASSUME SharedInv, NEW t \in Thread, SharedApart(t), SharedPtr!PopNext(t), NEW s, SharedList(s)
    PROVE  SharedList(s)' /\ \A u \in Thread : Shares(u)'
<1>1. SharedTypes /\ \A u \in Thread : Shares(u)
  BY DEF SharedInv
<1>2. /\ other_pc[t] = "pop_next" /\ other_pc'[t] = "pop_cas"
      /\ UNCHANGED <<other_head, other_data, other_next, other_live, other_node>>
      /\ other_old_next'[t] = other_next[other_node[t]]
  BY <1>1 DEF SharedPtr!PopNext, SharedPtr!Goto, SharedTypes
<1>3. SharedList(s)'
  BY <1>2 DEF SharedList, SharedApart, List!Chain, List!Elements
<1>4. \A u \in Thread : Shares(u)'
  BY <1>1, <1>2 DEF Shares, SharedApart
<1>5. QED
  BY <1>3, <1>4

LEMMA SharedPopCas ==
    ASSUME SharedInv, SharedTypes', NEW t \in Thread, SharedApart(t), SharedPtr!PopCas(t),
           NEW s, SharedList(s)
    PROVE  /\ SharedList(Tail(s))' /\ \A u \in Thread : Shares(u)'
           /\ s # <<>> /\ other_node[t] = Head(s) /\ other_node[t] \in ListNode
           /\ \A m \in List!Elements(Tail(s)) : other_data'[m] = other_data[m]
<1>1. SharedTypes /\ \A u \in Thread : Shares(u)
  BY DEF SharedInv
<1>2. NoAddress \notin ListNode
  OBVIOUS
<1>3. /\ other_pc'[t] = "idle" /\ other_next' = other_next /\ SharedPtr!Release
      /\ other_node'[t] = NoAddress
      /\ other_head = other_node[t] /\ other_head # NoAddress
      /\ other_head' = other_next[other_head] /\ other_head \in ListNode
  BY <1>1 DEF SharedPtr!PopCas, SharedPtr!Goto, SharedTypes, Shares
<1>4. /\ List!Chain(s, other_head)
      /\ \A u \in Thread : other_pc[u] = "push_cas" => other_node[u] \notin List!Elements(s)
  BY DEF SharedList
<1>5. s # <<>> /\ other_head = Head(s) /\ List!Chain(Tail(s), other_head)'
  BY <1>3, <1>4, List!ChainPop
<1>6. PICK s2 : s2 = Tail(s)
  OBVIOUS
<1>7. /\ List!Chain(s2, other_head)' /\ List!Elements(s2) \subseteq List!Elements(s)
      /\ List!Elements(s2) \subseteq ListNode
  <2>1. s \in Seq(ListNode) /\ List!Distinct(s)
    <3>1. s \in Seq(ListNode) /\ DOMAIN s = 1..Len(s)
      BY <1>4, LenProperties DEF List!Chain
    <3>2. QED
      BY <1>4, <3>1 DEF List!Chain, List!Distinct
  <2>2. List!Elements(s2) \subseteq List!Elements(s)
    BY <1>5, <1>6, <2>1, List!WithoutHead
  <2>3. s2 \in Seq(ListNode)
    BY <1>5, <1>6, <2>1
  <2>4. List!Elements(s2) \subseteq ListNode
    BY <2>3, List!ElementsOf
  <2>5. QED
    BY <1>5, <1>6, <2>2, <2>4
<1>8. /\ List!Elements(s2) \subseteq other_live'
      /\ \A u \in Thread : other_node'[u] \in ListNode => other_node'[u] \in other_live'
      /\ \A m \in ListNode : m \in other_live' => other_data'[m] = other_data[m]
  BY <1>3, <1>7, SharedReleased
<1>9. SharedList(s2)'
  BY <1>3, <1>4, <1>7, <1>8 DEF SharedList, SharedApart, List!Elements
<1>10. Shares(t)'
  BY <1>3 DEF Shares
<1>11. ASSUME NEW u \in Thread, u # t PROVE Shares(u)'
  <2>1. /\ Shares(u) /\ other_node[u] \in ListNode \cup {NoAddress}
        /\ other_pc'[u] = other_pc[u] /\ other_node'[u] = other_node[u]
        /\ other_old_next'[u] = other_old_next[u]
    BY <1>1, <1>11 DEF SharedTypes, SharedApart
  <2>2. other_pc[u] = "push_cas" => \A w \in Thread : w # u => other_node'[w] # other_node[u]
    BY <1>3, <2>1 DEF Shares, SharedApart
  <2>3. QED
    BY <1>2, <1>3, <1>8, <2>1, <2>2 DEF Shares
<1>12. QED
  BY <1>3, <1>5, <1>6, <1>7, <1>8, <1>9, <1>10, <1>11

SharedStep == [SharedPtr!Lifo!Next]_(SharedPtr!Lifo!stackVars)

LEMMA SharedSameContents ==
    ASSUME SharedTypes, SharedTypes', NEW s, SharedList(s), SharedList(s)',
           \A n \in List!Elements(s) : other_data'[n] = other_data[n]
    PROVE  SharedPtr!Contents' = SharedPtr!Contents
<1>1. List!Contents' = List!Contents
  BY List!ContentsSame DEF SharedList, SharedTypes, List!ListTypes
<1>2. QED
  BY <1>1, SameLists, SameContentsLater

LEMMA SharedStepHolds ==
    ASSUME SharedInv, NEW t \in Thread, SharedPtr!Step(t)
    PROVE  SharedInv' /\ SharedStep
<1>1. SharedTypes /\ Shares(t)
  BY DEF SharedInv
<1>2. SharedTypes' /\ SharedApart(t) /\ List!ListTypes /\ List!ListTypes'
  BY <1>1, SharedTypesStep DEF SharedTypes, List!ListTypes
<1>3. PICK s : SharedList(s)
  BY DEF SharedInv
<1>4. ASSUME SharedList(s)', \A m \in List!Elements(s) : other_data'[m] = other_data[m]
      PROVE  SharedPtr!Contents' = SharedPtr!Contents
  BY <1>1, <1>2, <1>3, <1>4, SharedSameContents
<1>5. ASSUME NEW v \in Value, NEW n \in ListNode, SharedPtr!PushNew(t, v, n),
             other_old_next' = other_old_next
      PROVE  SharedInv' /\ SharedStep
  <2>1. /\ SharedList(s)' /\ \A u \in Thread : Shares(u)'
        /\ \A m \in List!Elements(s) : other_data'[m] = other_data[m]
    BY <1>2, <1>3, <1>5, SharedPushNew
  <2>2. SharedPtr!Contents' = SharedPtr!Contents
    BY <1>4, <2>1
  <2>3. other_result' = [other_result EXCEPT ![t] = <<>>]
    BY <1>5 DEF SharedPtr!PushNew, SharedPtr!Called
  <2>4. SharedPtr!Lifo!Call(t)
    BY <1>1, <2>2, <2>3 DEF SharedPtr!Lifo!Call, SharedPtr!Lifo!NoResult
  <2>5. QED
    BY <1>2, <2>1, <2>4 DEF SharedInv, SharedStep, SharedPtr!Lifo!Next
<1>6. CASE SharedPtr!PushCas(t) /\ other_old_next' = other_old_next
  <2>1. PICK n, s2 : n = other_node[t] /\ s2 = <<n>> \o s
    OBVIOUS
  <2>2. /\ SharedList(s2)' /\ \A u \in Thread : Shares(u)'
        /\ n \in ListNode /\ other_data[n] \in Value
    BY <1>2, <1>3, <1>6, <2>1, SharedPushCas
  <2>3. other_data' = other_data /\ other_result' = other_result
    BY <1>6 DEF SharedPtr!PushCas
  <2>4. List!Chain(s, other_head) /\ List!Chain(<<n>> \o s, other_head)'
    BY <1>3, <2>1, <2>2 DEF SharedList
  <2>5. List!Contents' = <<other_data[n]>> \o List!Contents
    BY <1>2, <2>2, <2>3, <2>4, List!ContentsPushed
  <2>6. other_result' = other_result
    BY <2>3
  <2>7. SharedPtr!Lifo!Push(other_data[n])
    BY <2>5, <2>6, SameLists, SameContentsLater DEF SharedPtr!Lifo!Push
  <2>8. QED
    BY <1>2, <2>2, <2>7 DEF SharedInv, SharedStep, SharedPtr!Lifo!Next
<1>7. CASE SharedPtr!Reload(t)
  <2>1. /\ SharedList(s)' /\ \A u \in Thread : Shares(u)'
        /\ \A m \in List!Elements(s) : other_data'[m] = other_data[m]
    BY <1>2, <1>3, <1>7, SharedReload
  <2>2. SharedPtr!Contents' = SharedPtr!Contents
    BY <1>4, <2>1
  <2>3. other_result' = other_result
    BY <1>7 DEF SharedPtr!Reload
  <2>4. QED
    BY <1>2, <2>1, <2>2, <2>3 DEF SharedInv, SharedStep, SharedPtr!Lifo!stackVars
<1>8. CASE SharedPtr!LoadHead(t)
  <2>1. /\ SharedList(s)' /\ \A u \in Thread : Shares(u)'
        /\ \A m \in List!Elements(s) : other_data'[m] = other_data[m]
    BY <1>2, <1>3, <1>8, SharedLoadHead
  <2>2. SharedPtr!Contents' = SharedPtr!Contents
    BY <1>4, <2>1
  <2>3. other_result' = [other_result EXCEPT ![t] = IF other_head = NoAddress THEN NewElement ELSE <<>>]
    BY <1>8 DEF SharedPtr!LoadHead
  <2>4. CASE other_head = NoAddress
    <3>1. s = <<>> /\ List!Chain(s, other_head)
      BY <1>3, <2>4, ChainHead DEF SharedList
    <3>2. List!Contents = List!Values(s)
      BY <1>2, <3>1, List!ContentsAre
    <3>3. SharedPtr!Contents = <<>>
      BY <3>1, <3>2, SameLists DEF List!Values
    <3>4. SharedPtr!Lifo!PopEmpty(t)
      BY <1>1, <2>2, <2>3, <2>4, <3>3 DEF SharedPtr!Lifo!PopEmpty
    <3>5. QED
      BY <1>2, <2>1, <3>4 DEF SharedInv, SharedStep, SharedPtr!Lifo!Next
  <2>5. CASE other_head # NoAddress
    <3>1. SharedPtr!Lifo!Call(t)
      BY <1>1, <2>2, <2>3, <2>5 DEF SharedPtr!Lifo!Call, SharedPtr!Lifo!NoResult
    <3>2. QED
      BY <1>2, <2>1, <3>1 DEF SharedInv, SharedStep, SharedPtr!Lifo!Next
  <2>6. QED
    BY <2>4, <2>5
<1>9. CASE SharedPtr!PopNext(t)
  <2>1. SharedList(s)' /\ \A u \in Thread : Shares(u)'
    BY <1>2, <1>3, <1>9, SharedPopNext
  <2>2. other_data' = other_data /\ other_result' = other_result
    BY <1>9 DEF SharedPtr!PopNext
  <2>3. SharedPtr!Contents' = SharedPtr!Contents
    BY <1>4, <2>1, <2>2
  <2>4. other_result' = other_result
    BY <2>2
  <2>5. QED
    BY <1>2, <2>1, <2>3, <2>4 DEF SharedInv, SharedStep, SharedPtr!Lifo!stackVars
<1>10. CASE SharedPtr!PopCas(t)
  <2>1. /\ SharedList(Tail(s))' /\ \A u \in Thread : Shares(u)'
        /\ s # <<>> /\ other_node[t] = Head(s) /\ other_node[t] \in ListNode
        /\ \A m \in List!Elements(Tail(s)) : other_data'[m] = other_data[m]
    BY <1>2, <1>3, <1>10, SharedPopCas
  <2>2. List!Chain(s, other_head) /\ List!Chain(Tail(s), other_head)'
    BY <1>3, <2>1 DEF SharedList
  <2>3. /\ List!Contents # <<>> /\ Head(List!Contents) = other_data[Head(s)]
        /\ List!Contents' = Tail(List!Contents)
    BY <1>2, <2>1, <2>2, List!ContentsPopped
  <2>4. PICK r : r = other_data[other_node[t]]
    OBVIOUS
  <2>5. other_result' = [other_result EXCEPT ![t] = r]
    BY <1>1, <1>10, <2>1, <2>4 DEF SharedPtr!PopCas, SharedTypes
  <2>6. SharedPtr!Lifo!Pop(t)
    BY <2>1, <2>3, <2>4, <2>5, SameLists, SameContentsLater DEF SharedPtr!Lifo!Pop
  <2>7. QED
    BY <1>2, <2>1, <2>6 DEF SharedInv, SharedStep, SharedPtr!Lifo!Next
<1>11. QED
  BY <1>5, <1>6, <1>7, <1>8, <1>9, <1>10
  DEF SharedPtr!Step, SharedPtr!Push, SharedPtr!PopLoad, SharedPtr!PopRetry

LEMMA SharedBegins == SharedPtr!Init => SharedInv /\ SharedPtr!Lifo!Init
<1> SUFFICES ASSUME SharedPtr!Init PROVE SharedInv /\ SharedPtr!Lifo!Init
  OBVIOUS
<1> USE DEF SharedPtr!Init, SharedPtr!ListInit
<1>1. SharedTypes
  BY DEF SharedTypes, SharedPc
<1>2. List!Chain(<<>>, other_head) /\ List!Elements(<<>>) = {}
  BY DEF List!Chain, List!Elements
<1>3. SharedInv
  BY <1>1, <1>2 DEF SharedInv, Shares, SharedList
<1>4. List!Contents = List!Values(<<>>)
  BY <1>1, <1>2, List!ContentsAre DEF SharedTypes, List!ListTypes
<1>5. SharedPtr!Contents = <<>>
  BY <1>4, SameLists DEF List!Values
<1>6. QED
  BY <1>3, <1>5 DEF SharedPtr!Lifo!Init, SharedPtr!Lifo!NoResult

LEMMA SharedSteps == SharedInv /\ [SharedPtr!Next]_<<SharedPtr!stackVars, other_old_next>>
                     => SharedInv' /\ [SharedPtr!Lifo!Next]_(SharedPtr!Lifo!stackVars)
<1> SUFFICES ASSUME SharedInv, [SharedPtr!Next]_<<SharedPtr!stackVars, other_old_next>>
             PROVE  SharedInv' /\ SharedStep
  BY DEF SharedStep
<1>1. CASE UNCHANGED <<SharedPtr!stackVars, other_old_next>>
  <2>1. UNCHANGED <<other_head, other_data, other_next, other_live, other_pc, other_node,
                    other_result, other_old_next>>
    BY <1>1 DEF SharedPtr!stackVars
  <2>2. PICK s : SharedList(s)
    BY DEF SharedInv
  <2>3. SharedList(s)'
    BY <2>1, <2>2 DEF SharedList, List!Chain, List!Elements
  <2>4. SharedTypes /\ SharedTypes' /\ \A t \in Thread : Shares(t)'
    BY <2>1 DEF SharedInv, SharedTypes, Shares
  <2>5. SharedPtr!Contents' = SharedPtr!Contents
    BY <2>1, <2>2, <2>3, <2>4, SharedSameContents
  <2>6. QED
    BY <2>1, <2>3, <2>4, <2>5 DEF SharedInv, SharedStep, SharedPtr!Lifo!stackVars
<1>2. CASE SharedPtr!Next
  BY <1>2, SharedStepHolds DEF SharedPtr!Next
<1>3. QED
  BY <1>1, <1>2

(***************************************************************************)
(* lock_free_stack3.h:24-38: with shared pointers, too, push and pop take  *)
(* effect at one instant; the answer of an empty stack is an element, which*)
(* may be one that is pushed, too (lock_free_stack3.h:37).                 *)
(***************************************************************************)
THEOREM SharedPtrRefinement == SharedPtr!Spec => SharedPtr!ImplementsStack
  BY SharedBegins, SharedSteps, PTL DEF SharedPtr!Spec, SharedPtr!ImplementsStack
-----------------------------------------------------------------------------
(***************************************************************************)
(* The three together, as TLC checks them.                                 *)
(***************************************************************************)
AllInv == /\ class \in {"hazard", "counting", "shared_ptr", "locking"}
          /\ class = "counting" => CountingInv
          /\ class = "shared_ptr" => SharedInv
          /\ class = "locking" => HeldInv

allVars == <<class, vars, otherVars>>

\* A step is one of the class, or of none.
LEMMA OfClass ==
    ASSUME AllInv, [StacksNext]_allVars
    PROVE  /\ class' = class
           /\ class = "hazard" => UNCHANGED otherVars
           /\ class = "counting" => [Counting!Next]_(Counting!vars)
           /\ class = "shared_ptr" => [SharedPtr!Next]_<<SharedPtr!stackVars, other_old_next>>
           /\ class = "locking" => [Locking!Next]_(Locking!vars)
<1>1. CASE UNCHANGED allVars
  BY <1>1 DEF allVars, otherVars, linkedVars, countingVars, lockingVars, Counting!vars,
              Counting!stackVars, Counting!reclaimVars, SharedPtr!stackVars, Locking!vars
<1>2. CASE StacksNext
  BY <1>2 DEF StacksNext
<1>3. QED
  BY <1>1, <1>2

LEMMA AllInductive == AllInv /\ [StacksNext]_allVars => AllInv'
<1> SUFFICES ASSUME AllInv, [StacksNext]_allVars PROVE AllInv'
  OBVIOUS
<1>1. class = "counting" => CountingInv'
  BY OfClass, CountingInductive DEF AllInv
<1>2. class = "shared_ptr" => SharedInv'
  BY OfClass, SharedSteps DEF AllInv
<1>3. class = "locking" => HeldInv'
  BY OfClass, LockingSteps DEF AllInv
<1>4. QED
  BY <1>1, <1>2, <1>3, OfClass DEF AllInv

LEMMA AllInitial == StacksInit => AllInv
  BY CountingInitial, SharedBegins, LockingBegins DEF StacksInit, AllInv

LEMMA AllInvariant == StacksSpec => []AllInv
  BY AllInitial, AllInductive, PTL DEF StacksSpec, allVars

(***************************************************************************)
(* lock_free_stack1.h:37-96: the counter is right, no pop reads a node     *)
(* that is deleted or is fooled by one that came back, no node leaks and   *)
(* none is deleted twice.                                                  *)
(***************************************************************************)
THEOREM CountedStackSafe == StacksSpec => []CountedNodesSafe
<1>1. AllInv => CountedNodesSafe
  BY CountingSafe DEF AllInv, CountedNodesSafe
<1>2. QED
  BY <1>1, AllInvariant, PTL

(***************************************************************************)
(* The operations of all three are atomic (lock_free_stack1.h:37-96,       *)
(* lock_free_stack3.h:24-38, threadsafe_stack.h:36-81), with the answer of *)
(* each to a pop of an empty stack.                                        *)
(***************************************************************************)
THEOREM OthersRefinement == StacksSpec => OthersImplementStack
<1>1. StacksInit => /\ class = "counting"   => Counting!Lifo!Init
                    /\ class = "shared_ptr" => SharedPtr!Lifo!Init
                    /\ class = "locking"    => Locking!Lifo!Init
  BY CountingBegins, SharedBegins, LockingBegins DEF StacksInit
<1>2. AllInv /\ AllInv' /\ [StacksNext]_allVars =>
         [/\ class = "counting"   => [Counting!Lifo!Next]_(Counting!Lifo!stackVars)
          /\ class = "shared_ptr" => [SharedPtr!Lifo!Next]_(SharedPtr!Lifo!stackVars)
          /\ class = "locking"    => [Locking!Lifo!Next]_(Locking!Lifo!stackVars)]_otherVars
  <2> SUFFICES ASSUME AllInv, AllInv', [StacksNext]_allVars
               PROVE  /\ class = "counting"   => [Counting!Lifo!Next]_(Counting!Lifo!stackVars)
                      /\ class = "shared_ptr" => [SharedPtr!Lifo!Next]_(SharedPtr!Lifo!stackVars)
                      /\ class = "locking"    => [Locking!Lifo!Next]_(Locking!Lifo!stackVars)
    OBVIOUS
  <2>1. class = "counting" => [Counting!Lifo!Next]_(Counting!Lifo!stackVars)
    BY OfClass, CountingLifoSteps DEF AllInv
  <2>2. class = "shared_ptr" => [SharedPtr!Lifo!Next]_(SharedPtr!Lifo!stackVars)
    BY OfClass, SharedSteps DEF AllInv
  <2>3. class = "locking" => [Locking!Lifo!Next]_(Locking!Lifo!stackVars)
    BY OfClass, LockingSteps DEF AllInv
  <2>4. QED
    BY <2>1, <2>2, <2>3
<1>3. QED
  BY <1>1, <1>2, AllInvariant, PTL DEF StacksSpec, OthersImplementStack, allVars
=============================================================================
