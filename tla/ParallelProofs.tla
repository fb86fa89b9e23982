--------------------------- MODULE ParallelProofs ---------------------------
(***************************************************************************)
(* The sorter, for any elements, values and numbers of cores, and the      *)
(* algorithms that cut a range into parts, for any vectors, batch sizes    *)
(* and numbers of cores.                                                   *)
(*                                                                         *)
(* The sorter starts no more than max_thread_count workers unless a thread *)
(* has looked at the size of the vector before another one has stored its  *)
(* worker (IInv).  The lists come back sorted and the threads do not all   *)
(* wait for each other (SortInv).  The destructor leaves no worker behind  *)
(* (WorkersInv).                                                           *)
(*                                                                         *)
(* The algorithms return what they should and leave no task behind         *)
(* (RangeInv): the tasks form a tree of ranges, each element is dealt with *)
(* by the one short range that it lies in, and a task that has ended has   *)
(* nothing going on inside its range.                                      *)
(***************************************************************************)
EXTENDS Parallel, FiniteSetTheorems, SequenceTheorems, WellFoundedInduction, TLAPS

StoringSteps == {"start", "started", "push_back"}
\* Whole stands in no list, but the limit does not depend on that.
Pivot == Element \cup {Whole}
CallSet == [data : SUBSET Element, to : Pivot,
            step : {"sort", "test", "higher", "wait", "help"} \cup StoringSteps,
            pivot : Pivot, worker : Nat, higher : Seq(Pivot)]

TypeOK == /\ max_thread_count \in Nat
          /\ chunks \in Seq(Element)
          /\ lower \in [Element -> SUBSET Element]
          /\ promise \in [Pivot -> {<<>>} \cup {<<list>> : list \in Seq(Pivot)}]
          /\ stack \in [Thread -> Seq(CallSet)]
          /\ started \in Nat
          /\ threads \in Seq(Nat)
          /\ overtaken \in BOOLEAN

\* The calls below the inmost one of a thread wait for it.
Inner(calls) == \A i \in 1..Len(calls) - 1 : calls[i].step \in {"higher", "wait"}
Last(calls) == calls[Len(calls)]
InnerInv == \A t \in Thread : Inner(stack[t])

\* t has seen room in the vector and has not yet stored its worker.
Storing(t) == stack[t] # <<>> /\ Last(stack[t]).step \in StoringSteps
HasStarted(t) == stack[t] # <<>> /\ Last(stack[t]).step \in {"started", "push_back"}

\* While nobody has been overtaken one thread at most is at it, and only its worker
\* is not in the vector.
StoreInv ==
    ~overtaken =>
        /\ \A t, u \in Thread : Storing(t) /\ Storing(u) => t = u
        /\ (\E t \in Thread : Storing(t)) => Len(threads) < max_thread_count
        /\ (\E t \in Thread : HasStarted(t)) => started = Len(threads) + 1
        /\ (\A t \in Thread : ~HasStarted(t)) => started = Len(threads)
        /\ started <= max_thread_count

IInv == TypeOK /\ InnerInv /\ StoreInv
-----------------------------------------------------------------------------
\* The inmost call has changed; it has returned.
WithTop(s, c) == [s EXCEPT ![Len(s)] = c]
WithoutTop(s) == SubSeq(s, 1, Len(s) - 1)

LEMMA WithTopFacts ==
    ASSUME NEW s \in Seq(CallSet), s # <<>>, NEW c \in CallSet
    PROVE  /\ WithTop(s, c) \in Seq(CallSet) /\ WithTop(s, c) # <<>>
           /\ Len(WithTop(s, c)) = Len(s) /\ Len(s) \in Nat \ {0}
           /\ \A i \in 1..Len(s) : i # Len(s) => WithTop(s, c)[i] = s[i]
           /\ WithTop(s, c)[Len(s)] = c /\ Last(WithTop(s, c)) = c
           /\ Last(s) = s[Len(s)] /\ Last(s) \in CallSet
<1>1. Len(s) \in Nat \ {0} /\ Len(s) \in 1..Len(s)
  BY EmptySeq
<1> DEFINE r == [s EXCEPT ![Len(s)] = c]
<1>2. /\ r \in Seq(CallSet) /\ Len(r) = Len(s)
      /\ \A j \in 1..Len(s) : r[j] = IF j = Len(s) THEN c ELSE s[j]
  BY <1>1, ExceptSeq
<1>3. r = WithTop(s, c)
  BY DEF WithTop
<1> HIDE DEF r
<1>4. r # <<>>
  BY <1>1, <1>2, EmptySeq
<1>5. r[Len(s)] = c /\ Last(r) = c
  BY <1>1, <1>2 DEF Last
<1>6. \A i \in 1..Len(s) : i # Len(s) => r[i] = s[i]
  BY <1>2
<1>7. Last(s) = s[Len(s)] /\ Last(s) \in CallSet
  BY <1>1, ElementOfSeq DEF Last
<1>8. QED
  BY <1>1, <1>2, <1>3, <1>4, <1>5, <1>6, <1>7

LEMMA WithoutTopFacts ==
    ASSUME NEW s \in Seq(CallSet), s # <<>>
    PROVE  /\ WithoutTop(s) \in Seq(CallSet)
           /\ Len(WithoutTop(s)) = Len(s) - 1 /\ Len(s) \in Nat \ {0}
           /\ \A i \in 1..Len(s) - 1 : WithoutTop(s)[i] = s[i]
           /\ WithoutTop(s) = <<>> <=> Len(s) = 1
           /\ WithoutTop(s) # <<>> => /\ Len(s) - 1 \in 1..Len(s)
                                      /\ Last(WithoutTop(s)) = s[Len(s) - 1]
<1>1. Len(s) \in Nat \ {0} /\ \A i \in 1..Len(s) : s[i] \in CallSet
  BY EmptySeq, ElementOfSeq
<1> DEFINE r == SubSeq(s, 1, Len(s) - 1)
<1>2. /\ r \in Seq(CallSet) /\ Len(r) = Len(s) - 1
      /\ \A i \in 1..Len(s) - 1 : r[i] = s[i]
  <2> DEFINE k == Len(s) - 1
  <2>1. k \in Nat /\ \A i \in 1..k : s[i] \in CallSet
    BY <1>1
  <2> HIDE DEF k
  <2>2. /\ SubSeq(s, 1, k) \in Seq(CallSet) /\ Len(SubSeq(s, 1, k)) = k
        /\ \A i \in 1..k : SubSeq(s, 1, k)[i] = s[i]
    BY <2>1, SubSeqProperties
  <2>3. QED
    BY <2>2 DEF k
<1>3. r = WithoutTop(s)
  BY DEF WithoutTop
<1> HIDE DEF r
<1>4. r = <<>> <=> Len(s) = 1
  <2>1. r = <<>> => Len(r) = 0
    BY EmptySeq
  <2>2. r # <<>> => Len(r) # 0
    BY <1>2, EmptySeq
  <2>3. QED
    BY <1>1, <1>2, <2>1, <2>2
<1>5. r # <<>> => (Len(s) - 1 \in 1..Len(s) - 1 /\ Len(s) - 1 \in 1..Len(s))
  <2> SUFFICES ASSUME r # <<>> PROVE Len(s) - 1 \in 1..Len(s) - 1 /\ Len(s) - 1 \in 1..Len(s)
    OBVIOUS
  <2> DEFINE n == Len(s)
  <2>1. n # 1 /\ n \in Nat \ {0}
    BY <1>1, <1>4
  <2> HIDE DEF n
  <2>2. n - 1 \in 1..n - 1 /\ n - 1 \in 1..n
    BY <2>1
  <2>3. QED
    BY <2>2 DEF n
<1>6. r # <<>> => Last(r) = s[Len(s) - 1]
  BY <1>2, <1>5 DEF Last
<1>7. QED
  BY <1>1, <1>2, <1>3, <1>4, <1>5, <1>6

LEMMA AppendFacts ==
    ASSUME NEW s \in Seq(CallSet), NEW c \in CallSet
    PROVE  /\ Append(s, c) \in Seq(CallSet) /\ Append(s, c) # <<>>
           /\ Len(Append(s, c)) = Len(s) + 1 /\ Len(s) \in Nat
           /\ \A i \in 1..Len(s) : Append(s, c)[i] = s[i]
           /\ Append(s, c)[Len(s) + 1] = c /\ Last(Append(s, c)) = c
           /\ s = <<>> <=> Len(s) = 0
           /\ s # <<>> => Last(s) = s[Len(s)]
<1>1. /\ Append(s, c) \in Seq(CallSet) /\ Append(s, c) # <<>>
      /\ Len(Append(s, c)) = Len(s) + 1 /\ Len(s) \in Nat
      /\ \A i \in 1..Len(s) : Append(s, c)[i] = s[i]
      /\ Append(s, c)[Len(s) + 1] = c
  BY AppendProperties, LenProperties
<1>2. s = <<>> <=> Len(s) = 0
  BY EmptySeq, LenProperties
<1>3. Last(Append(s, c)) = c
  BY <1>1 DEF Last
<1>4. QED
  BY <1>1, <1>2, <1>3 DEF Last

LEMMA ReplaceLast ==
    ASSUME NEW s \in Seq(CallSet), s # <<>>, Inner(s), NEW c \in CallSet
    PROVE  /\ [s EXCEPT ![Len(s)] = c] \in Seq(CallSet)
           /\ [s EXCEPT ![Len(s)] = c] # <<>>
           /\ Last([s EXCEPT ![Len(s)] = c]) = c
           /\ Inner([s EXCEPT ![Len(s)] = c])
<1> DEFINE n == Len(s)
           r == WithTop(s, c)
<1>1. /\ r \in Seq(CallSet) /\ r # <<>> /\ Len(r) = n /\ n \in Nat \ {0}
      /\ \A i \in 1..n : i # n => r[i] = s[i]
      /\ Last(r) = c
  BY WithTopFacts
<1>2. \A i \in 1..n - 1 : s[i].step \in {"higher", "wait"}
  BY DEF Inner
<1> HIDE DEF n, r
<1>3. Inner(r)
  BY <1>1, <1>2 DEF Inner
<1>4. QED
  BY <1>1, <1>3 DEF n, r, WithTop

LEMMA DropLast ==
    ASSUME NEW s \in Seq(CallSet), s # <<>>, Inner(s)
    PROVE  LET r == SubSeq(s, 1, Len(s) - 1) IN
           /\ r \in Seq(CallSet) /\ Inner(r)
           /\ r # <<>> => Last(r).step \in {"higher", "wait"}
           /\ Last(s) \in CallSet
<1> DEFINE n == Len(s)
           r == WithoutTop(s)
<1>1. /\ r \in Seq(CallSet) /\ Len(r) = n - 1 /\ n \in Nat \ {0}
      /\ \A i \in 1..n - 1 : r[i] = s[i]
      /\ r = <<>> <=> n = 1
      /\ r # <<>> => Last(r) = s[n - 1]
  BY WithoutTopFacts
<1>2. Last(s) \in CallSet
  BY WithTopFacts
<1>3. \A i \in 1..n - 1 : s[i].step \in {"higher", "wait"}
  BY DEF Inner
<1> HIDE DEF n, r
<1>4. Inner(r)
  BY <1>1, <1>3 DEF Inner
<1>5. r # <<>> => n - 1 \in 1..n - 1
  BY <1>1
<1>6. r # <<>> => Last(r).step \in {"higher", "wait"}
  BY <1>1, <1>3, <1>5
<1>7. QED
  BY <1>1, <1>2, <1>4, <1>6 DEF r, WithoutTop

\* A call is made.
LEMMA PushCall ==
    ASSUME NEW s \in Seq(CallSet), Inner(s), NEW c \in CallSet,
           s # <<>> => Last(s).step \in {"higher", "wait"}
    PROVE  /\ Append(s, c) \in Seq(CallSet) /\ Append(s, c) # <<>>
           /\ Last(Append(s, c)) = c /\ Inner(Append(s, c))
<1> DEFINE r == Append(s, c)
           n == Len(s)
<1>1. /\ r \in Seq(CallSet) /\ r # <<>> /\ Len(r) = n + 1 /\ n \in Nat
      /\ \A i \in 1..n : r[i] = s[i]
      /\ Last(r) = c
      /\ s = <<>> <=> n = 0
      /\ s # <<>> => Last(s) = s[n]
  BY AppendFacts
<1>2. \A i \in 1..n - 1 : s[i].step \in {"higher", "wait"}
  BY DEF Inner
<1> HIDE DEF n, r
<1>3. ASSUME NEW i \in 1..n PROVE r[i].step \in {"higher", "wait"}
  <2>1. CASE i = n
    BY <1>1, <2>1
  <2>2. CASE i # n
    BY <1>1, <1>2, <2>2
  <2>3. QED
    BY <2>1, <2>2
<1>4. Inner(r)
  BY <1>1, <1>3 DEF Inner
<1>5. QED
  BY <1>1, <1>4 DEF r

\* So are two, one upon the other.
LEMMA PushTwo ==
    ASSUME NEW s \in Seq(CallSet), NEW c \in CallSet, NEW d \in CallSet
    PROVE  s \o <<c, d>> = Append(Append(s, c), d)
  OBVIOUS
-----------------------------------------------------------------------------
\* A thread that has nothing to store, and goes on without, disturbs nobody.
LEMMA Quiet ==
    ASSUME IInv, NEW t \in Thread, ~Storing(t),
           NEW calls \in Seq(CallSet), Inner(calls),
           calls # <<>> => Last(calls).step \notin StoringSteps,
           stack' = [stack EXCEPT ![t] = calls],
           started' = started, threads' = threads, overtaken' \in BOOLEAN,
           overtaken => overtaken', max_thread_count' = max_thread_count
    PROVE  stack' \in [Thread -> Seq(CallSet)] /\ InnerInv' /\ StoreInv'
<1>1. stack' \in [Thread -> Seq(CallSet)]
  BY DEF IInv, TypeOK
<1>2. InnerInv'
  BY DEF IInv, TypeOK, InnerInv, Inner
<1>3. \A u \in Thread : (Storing(u)' <=> Storing(u)) /\ (HasStarted(u)' <=> HasStarted(u))
  <2> SUFFICES ASSUME NEW u \in Thread
               PROVE  (Storing(u)' <=> Storing(u)) /\ (HasStarted(u)' <=> HasStarted(u))
    OBVIOUS
  <2>1. CASE u = t
    BY <2>1 DEF IInv, TypeOK, Storing, HasStarted, StoringSteps, Last
  <2>2. CASE u # t
    BY <2>2 DEF IInv, TypeOK, Storing, HasStarted, Last
  <2>3. QED
    BY <2>1, <2>2
<1>4. StoreInv'
  BY <1>3 DEF IInv, TypeOK, StoreInv
<1>5. QED
  BY <1>1, <1>2, <1>4

\* A list that is returned goes to a call that waits for it, or to a promise.
LEMMA ReturnStep ==
    ASSUME IInv, NEW t \in Thread, stack[t] # <<>>, ~Storing(t),
           NEW list \in Seq(Pivot), Return(t, list), UNCHANGED given
    PROVE  IInv'
<1> DEFINE rest == Below(t)
           inner == rest # <<>> /\ rest[Len(rest)].step = "higher"
           waiting == [rest[Len(rest)] EXCEPT !.step = "wait", !.higher = list]
<1>1. /\ rest \in Seq(CallSet) /\ Inner(rest) /\ Last(stack[t]) \in CallSet
      /\ rest # <<>> => Last(rest).step \in {"higher", "wait"}
  BY DropLast DEF IInv, TypeOK, InnerInv, Below
<1>2. promise' \in [Pivot -> {<<>>} \cup {<<l>> : l \in Seq(Pivot)}]
  BY <1>1 DEF Return, IInv, TypeOK, Top, Last, CallSet
<1>3. UNCHANGED <<max_thread_count, chunks, lower, started, threads, overtaken>>
  BY DEF Return, given, vectorVars
<1>4. CASE ~inner
  <2>1. stack' = [stack EXCEPT ![t] = rest]
    BY <1>4 DEF Return
  <2>2. stack' \in [Thread -> Seq(CallSet)] /\ InnerInv' /\ StoreInv'
    BY <1>1, <1>3, <2>1, Quiet DEF StoringSteps, IInv, TypeOK
  <2>3. QED
    BY <1>2, <1>3, <2>2 DEF IInv, TypeOK
<1>5. CASE inner
  <2> DEFINE calls == [rest EXCEPT ![Len(rest)] = waiting]
  <2>1. stack' = [stack EXCEPT ![t] = calls]
    BY <1>5 DEF Return
  <2>2. waiting \in CallSet /\ waiting.step = "wait"
    <3>1. Len(rest) \in 1..Len(rest)
      BY <1>1, <1>5, EmptySeq
    <3>2. rest[Len(rest)] \in CallSet
      BY <1>1, <3>1, ElementOfSeq
    <3>3. QED
      BY <3>2 DEF CallSet
  <2> HIDE DEF waiting
  <2>3. calls \in Seq(CallSet) /\ Inner(calls) /\ Last(calls) = waiting
    BY <1>1, <1>5, <2>2, ReplaceLast
  <2> HIDE DEF calls
  <2>4. stack' \in [Thread -> Seq(CallSet)] /\ InnerInv' /\ StoreInv'
    BY <1>3, <2>1, <2>2, <2>3, Quiet DEF StoringSteps, IInv, TypeOK
  <2>5. QED
    BY <1>2, <1>3, <2>4 DEF IInv, TypeOK
<1>6. QED
  BY <1>4, <1>5

\* The inmost call goes on without storing anything.
LEMMA GoOn ==
    ASSUME IInv, NEW t \in Thread, stack[t] # <<>>, ~Storing(t),
           NEW call \in CallSet, call.step \notin StoringSteps, Becomes(t, call),
           UNCHANGED vectorVars, UNCHANGED given
    PROVE  stack' \in [Thread -> Seq(CallSet)] /\ InnerInv' /\ StoreInv'
<1> DEFINE calls == [stack[t] EXCEPT ![Len(stack[t])] = call]
<1>1. stack' = [stack EXCEPT ![t] = calls]
  BY DEF Becomes
<1>2. calls \in Seq(CallSet) /\ Inner(calls) /\ Last(calls) = call
  BY ReplaceLast DEF IInv, TypeOK, InnerInv
<1> HIDE DEF calls
<1>3. QED
  BY <1>1, <1>2, Quiet DEF vectorVars, given, IInv, TypeOK

\* Another call is made on top of calls that wait.
LEMMA CallOnTop ==
    ASSUME IInv, NEW t \in Thread, ~Storing(t), NEW calls \in Seq(CallSet), Inner(calls),
           calls # <<>> => Last(calls).step \in {"higher", "wait"},
           NEW list \in SUBSET Element, NEW to \in Pivot,
           stack' = [stack EXCEPT ![t] = Append(calls, Call(list, to))],
           UNCHANGED vectorVars, UNCHANGED given
    PROVE  stack' \in [Thread -> Seq(CallSet)] /\ InnerInv' /\ StoreInv'
<1> DEFINE call == Call(list, to)
<1>1. call \in CallSet /\ call.step = "sort"
  BY EmptySeq DEF Call, CallSet, Pivot
<1> HIDE DEF call
<1>2. /\ Append(calls, call) \in Seq(CallSet) /\ Inner(Append(calls, call))
      /\ Last(Append(calls, call)) = call
  BY <1>1, PushCall
<1>3. QED
  BY <1>1, <1>2, Quiet DEF StoringSteps, vectorVars, given, IInv, TypeOK, call
-----------------------------------------------------------------------------
\* What At says of the inmost call.
LEMMA AtFacts ==
    ASSUME IInv, NEW t \in Thread, NEW step, At(t, step)
    PROVE  /\ stack[t] \in Seq(CallSet) /\ stack[t] # <<>> /\ Inner(stack[t])
           /\ Top(t) \in CallSet /\ Top(t) = Last(stack[t]) /\ Top(t).step = step
           /\ Storing(t) <=> step \in StoringSteps
<1>1. stack[t] \in Seq(CallSet) /\ stack[t] # <<>> /\ Inner(stack[t])
  BY DEF At, IInv, TypeOK, InnerInv
<1>2. Top(t) \in CallSet /\ Top(t) = Last(stack[t])
  BY <1>1, DropLast DEF Top, Last
<1>3. QED
  BY <1>1, <1>2 DEF At, Storing

\* new_higher = do_sort(chunk_data), after which t stores nothing.
LEMMA SortHigherFacts ==
    ASSUME IInv, NEW t \in Thread, stack[t] # <<>>, Top(t) \in CallSet, SortHigher(t)
    PROVE  \E calls \in Seq(CallSet) : /\ stack' = [stack EXCEPT ![t] = calls]
                                      /\ Inner(calls) /\ calls # <<>>
                                      /\ Last(calls).step = "sort"
<1> DEFINE rest == Below(t)
           outer == [Top(t) EXCEPT !.step = "higher"]
           call == Call(Top(t).data, Whole)
           once == Append(rest, outer)
           calls == Append(once, call)
<1>1. /\ rest \in Seq(CallSet) /\ Inner(rest)
      /\ rest # <<>> => Last(rest).step \in {"higher", "wait"}
  BY DropLast DEF IInv, TypeOK, InnerInv, Below
<1>2. outer \in CallSet /\ outer.step = "higher"
  BY DEF CallSet
<1>3. call \in CallSet /\ call.step = "sort"
  BY EmptySeq DEF Call, CallSet, Pivot
<1>4. stack' = [stack EXCEPT ![t] = rest \o <<outer, call>>]
  BY DEF SortHigher
<1> HIDE DEF rest, outer, call
<1>5. once \in Seq(CallSet) /\ once # <<>> /\ Last(once) = outer /\ Inner(once)
  BY <1>1, <1>2, PushCall
<1>6. rest \o <<outer, call>> = calls
  BY <1>1, <1>2, <1>3, PushTwo
<1> HIDE DEF once
<1>7. calls \in Seq(CallSet) /\ calls # <<>> /\ Last(calls) = call /\ Inner(calls)
  BY <1>2, <1>3, <1>5, PushCall
<1>8. QED
  BY <1>3, <1>4, <1>6, <1>7

\* The test of the size of the vector.
LEMMA TestStep ==
    ASSUME IInv, NEW t \in Thread, TestThreads(t), UNCHANGED given
    PROVE  IInv'
<1>1. /\ At(t, "test") /\ ~Storing(t) /\ stack[t] # <<>> /\ Top(t) \in CallSet
      /\ stack[t] \in Seq(CallSet) /\ Inner(stack[t])
  BY AtFacts DEF TestThreads, StoringSteps
<1>2. /\ UNCHANGED <<max_thread_count, chunks, lower, promise, started, threads>>
      /\ overtaken' \in BOOLEAN /\ (overtaken => overtaken')
  BY DEF TestThreads, given, IInv, TypeOK
<1>3. CASE ~MayStart
  <2>1. SortHigher(t)
    BY <1>3 DEF TestThreads
  <2>2. PICK calls \in Seq(CallSet) : /\ stack' = [stack EXCEPT ![t] = calls]
                                     /\ Inner(calls) /\ calls # <<>>
                                     /\ Last(calls).step = "sort"
    BY <1>1, <2>1, SortHigherFacts
  <2>3. stack' \in [Thread -> Seq(CallSet)] /\ InnerInv' /\ StoreInv'
    BY <1>1, <1>2, <2>2, Quiet DEF StoringSteps
  <2>4. QED
    BY <1>2, <2>3 DEF IInv, TypeOK
<1>4. CASE MayStart
  <2> DEFINE call == [Top(t) EXCEPT !.step = "start"]
             calls == [stack[t] EXCEPT ![Len(stack[t])] = call]
  <2>1. call \in CallSet /\ call.step = "start"
    BY <1>1 DEF CallSet, StoringSteps
  <2>2. stack' = [stack EXCEPT ![t] = calls]
    BY <1>4 DEF TestThreads, Goto, Becomes
  <2> HIDE DEF call
  <2>3. calls \in Seq(CallSet) /\ calls # <<>> /\ Inner(calls) /\ Last(calls) = call
    BY <1>1, <2>1, ReplaceLast
  <2> HIDE DEF calls
  <2>4. stack' \in [Thread -> Seq(CallSet)] /\ InnerInv'
    BY <2>2, <2>3 DEF IInv, TypeOK, InnerInv, Inner
  <2>5. StoreInv'
    <3> SUFFICES ASSUME ~overtaken'
                 PROVE  StoreInv'
      BY DEF StoreInv
    <3>1. ~overtaken /\ Steps(t) \cap {"start", "started", "push_back"} = {}
      BY DEF TestThreads, IInv, TypeOK
    <3>2. \A u \in Thread : ~Storing(u)
      <4> SUFFICES ASSUME NEW u \in Thread \ {t}, Storing(u)
                   PROVE  FALSE
        BY <1>1
      <4>1. Top(u).step \in Steps(t) /\ Top(u).step \in StoringSteps
        BY DEF Steps, Storing, Top, Last
      <4>2. QED
        BY <3>1, <4>1 DEF StoringSteps
    <3>3. \A u \in Thread : ~HasStarted(u)
      BY <3>2 DEF HasStarted, Storing, StoringSteps
    <3>4. \A u \in Thread : ~HasStarted(u)' /\ (Storing(u)' => u = t)
      BY <2>1, <2>2, <2>3, <3>2 DEF HasStarted, Storing, StoringSteps, Last, IInv, TypeOK
    <3>5. Len(threads) \in Nat /\ max_thread_count \in Nat
      BY LenProperties DEF IInv, TypeOK
    <3>6. started = Len(threads)
      BY <3>1, <3>3 DEF IInv, StoreInv
    <3>7. Len(threads) < max_thread_count
      BY <1>4 DEF MayStart
    <3>8. /\ started' = Len(threads')
          /\ started' <= max_thread_count' /\ Len(threads') < max_thread_count'
      BY <1>2, <3>5, <3>6, <3>7
    <3>9. QED
      BY <3>4, <3>8 DEF StoreInv
  <2>6. QED
    BY <1>2, <2>4, <2>5 DEF IInv, TypeOK
<1>5. QED
  BY <1>3, <1>4

\* A thread that has seen room goes on to store its worker.
LEMMA StoringOn ==
    ASSUME IInv, NEW t \in Thread, NEW call \in CallSet, Storing(t),
           call.step \in {"started", "push_back"}, Becomes(t, call),
           UNCHANGED <<max_thread_count, threads, overtaken>>,
           IF HasStarted(t) THEN started' = started ELSE started' = started + 1
    PROVE  stack' \in [Thread -> Seq(CallSet)] /\ InnerInv' /\ StoreInv' /\ started' \in Nat
<1> DEFINE calls == [stack[t] EXCEPT ![Len(stack[t])] = call]
<1>1. stack' = [stack EXCEPT ![t] = calls]
  BY DEF Becomes
<1>2. calls \in Seq(CallSet) /\ calls # <<>> /\ Inner(calls) /\ Last(calls) = call
  BY ReplaceLast DEF IInv, TypeOK, InnerInv, Storing
<1> HIDE DEF calls
<1>3. stack' \in [Thread -> Seq(CallSet)] /\ InnerInv'
  BY <1>1, <1>2 DEF IInv, TypeOK, InnerInv, Inner
<1>4. started' \in Nat
  BY DEF IInv, TypeOK
<1>5. HasStarted(t)' /\ Storing(t)'
  BY <1>1, <1>2 DEF IInv, TypeOK, HasStarted, Storing, StoringSteps
<1>6. \A u \in Thread \ {t} : (Storing(u)' <=> Storing(u)) /\ (HasStarted(u)' <=> HasStarted(u))
  BY <1>1 DEF IInv, TypeOK, Storing, HasStarted, Last
<1>7. ASSUME ~overtaken PROVE StoreInv'
  <2>1. \A u \in Thread : Storing(u) => u = t
    BY <1>7 DEF IInv, StoreInv
  <2>2. \A u \in Thread : HasStarted(u) => u = t
    BY <2>1 DEF HasStarted, Storing, StoringSteps
  <2>3. \A u \in Thread : Storing(u)' => u = t
    BY <1>6, <2>1
  <2>4. Len(threads) < max_thread_count
    BY <1>7 DEF IInv, StoreInv
  <2>5. Len(threads) \in Nat /\ max_thread_count \in Nat
    BY LenProperties DEF IInv, TypeOK
  <2>6. started' = Len(threads) + 1
    <3>1. CASE HasStarted(t)
      BY <1>7, <3>1 DEF IInv, StoreInv
    <3>2. CASE ~HasStarted(t)
      <4>1. started = Len(threads)
        BY <1>7, <2>2, <3>2 DEF IInv, StoreInv
      <4>2. QED
        BY <3>2, <4>1
    <3>3. QED
      BY <3>1, <3>2
  <2>7. started' <= max_thread_count'
    BY <2>4, <2>5, <2>6
  <2>8. QED
    BY <1>5, <2>3, <2>4, <2>6, <2>7 DEF StoreInv
<1>8. StoreInv'
  BY <1>7 DEF StoreInv
<1>9. QED
  BY <1>3, <1>4, <1>8

LEMMA StartStep ==
    ASSUME IInv, NEW t \in Thread, StartThread(t), UNCHANGED given
    PROVE  IInv'
<1> DEFINE call == [Top(t) EXCEPT !.step = "started", !.worker = started + 1]
<1>1. /\ Top(t) \in CallSet /\ Storing(t) /\ ~HasStarted(t)
  <2>1. At(t, "start")
    BY DEF StartThread
  <2>2. QED
    BY <2>1, AtFacts DEF StoringSteps, HasStarted
<1>2. call \in CallSet /\ call.step = "started"
  <2> DEFINE number == started + 1
  <2>1. number \in Nat
    BY DEF IInv, TypeOK
  <2> HIDE DEF number
  <2>2. [Top(t) EXCEPT !.step = "started", !.worker = number] \in CallSet
    BY <1>1, <2>1 DEF CallSet, StoringSteps
  <2>3. QED
    BY <1>1, <2>2 DEF number, CallSet
<1>3. Becomes(t, call) /\ started' = started + 1
  BY DEF StartThread
<1>4. UNCHANGED <<max_thread_count, chunks, lower, promise, threads, overtaken>>
  BY DEF StartThread, given
<1> HIDE DEF call
<1>5. stack' \in [Thread -> Seq(CallSet)] /\ InnerInv' /\ StoreInv' /\ started' \in Nat
  BY <1>1, <1>2, <1>3, <1>4, StoringOn
<1>6. QED
  BY <1>4, <1>5 DEF IInv, TypeOK

LEMMA PushBeginStep ==
    ASSUME IInv, NEW t \in Thread, PushBegin(t), UNCHANGED given
    PROVE  IInv'
<1> DEFINE call == [Top(t) EXCEPT !.step = "push_back"]
<1>1. Top(t) \in CallSet /\ Storing(t) /\ HasStarted(t)
  <2>1. At(t, "started")
    BY DEF PushBegin
  <2>2. QED
    BY <2>1, AtFacts DEF StoringSteps, HasStarted
<1>2. call \in CallSet /\ call.step = "push_back"
  BY <1>1 DEF CallSet, StoringSteps
<1>3. Becomes(t, call)
  BY DEF PushBegin, Goto
<1>4. UNCHANGED <<max_thread_count, chunks, lower, promise, threads, overtaken, started>>
  BY DEF PushBegin, given
<1> HIDE DEF call
<1>5. stack' \in [Thread -> Seq(CallSet)] /\ InnerInv' /\ StoreInv' /\ started' \in Nat
  BY <1>1, <1>2, <1>3, <1>4, StoringOn
<1>6. QED
  BY <1>4, <1>5 DEF IInv, TypeOK

\* The worker is stored, and the thread no longer stores anything.
LEMMA PushBackStep ==
    ASSUME IInv, NEW t \in Thread, PushBack(t), UNCHANGED given
    PROVE  IInv'
<1>1. /\ stack[t] # <<>> /\ Top(t) \in CallSet /\ Storing(t) /\ HasStarted(t)
  <2>1. At(t, "push_back")
    BY DEF PushBack
  <2>2. QED
    BY <2>1, AtFacts DEF StoringSteps, HasStarted
<1>2. /\ UNCHANGED <<max_thread_count, chunks, lower, promise, started, overtaken>>
      /\ SortHigher(t)
  BY DEF PushBack, given
<1>3. threads' \in Seq(Nat) /\ Len(threads') = Len(threads) + 1 /\ Len(threads) \in Nat
  <2>1. Top(t).worker \in Nat
    BY <1>1 DEF CallSet
  <2>2. QED
    BY <2>1, AppendProperties DEF PushBack, IInv, TypeOK
<1>4. PICK calls \in Seq(CallSet) : /\ stack' = [stack EXCEPT ![t] = calls]
                                   /\ Inner(calls) /\ calls # <<>>
                                   /\ Last(calls).step = "sort"
  BY <1>1, <1>2, SortHigherFacts
<1>5. stack' \in [Thread -> Seq(CallSet)] /\ InnerInv'
  BY <1>4 DEF IInv, TypeOK, InnerInv, Inner
<1>6. ASSUME ~overtaken PROVE StoreInv'
  <2>1. \A u \in Thread : Storing(u) => u = t
    BY <1>1, <1>6 DEF IInv, StoreInv
  <2>2. \A u \in Thread : ~Storing(u)'
    BY <1>4, <2>1 DEF Storing, StoringSteps, Last, IInv, TypeOK
  <2>3. \A u \in Thread : ~HasStarted(u)'
    BY <2>2 DEF HasStarted, Storing, StoringSteps
  <2>4. started' = Len(threads')
    BY <1>1, <1>2, <1>3, <1>6 DEF IInv, StoreInv
  <2>5. started' <= max_thread_count'
    BY <1>2, <1>6 DEF IInv, StoreInv
  <2>6. QED
    BY <2>2, <2>3, <2>4, <2>5 DEF StoreInv
<1>7. StoreInv'
  BY <1>2, <1>6 DEF StoreInv
<1>8. QED
  BY <1>2, <1>3, <1>5, <1>7 DEF IInv, TypeOK
-----------------------------------------------------------------------------
LEMMA ReturnShortStep ==
    ASSUME IInv, NEW t \in Thread, ReturnShort(t), UNCHANGED given
    PROVE  IInv'
<1>1. stack[t] # <<>> /\ ~Storing(t)
  <2>1. At(t, "sort")
    BY DEF ReturnShort
  <2>2. QED
    BY <2>1, AtFacts DEF StoringSteps
<1>2. CASE Return(t, <<>>)
  BY <1>1, <1>2, ReturnStep, EmptySeq
<1>3. ASSUME NEW e \in Element, Return(t, <<e>>)
      PROVE  IInv'
  <2>1. <<e>> \in Seq(Pivot)
    BY DEF Pivot
  <2>2. QED
    BY <1>1, <1>3, <2>1, ReturnStep
<1>4. QED
  BY <1>2, <1>3 DEF ReturnShort

LEMMA FinishStep ==
    ASSUME IInv, NEW t \in Thread, FinishWait(t), UNCHANGED given
    PROVE  IInv'
<1> DEFINE new_lower == promise[Top(t).pivot][1]
           list == Result(Top(t), new_lower)
<1>1. stack[t] # <<>> /\ ~Storing(t) /\ Top(t) \in CallSet
  <2>1. At(t, "wait")
    BY DEF FinishWait
  <2>2. QED
    BY <2>1, AtFacts DEF StoringSteps
<1>2. Top(t).pivot \in Pivot /\ Top(t).higher \in Seq(Pivot)
  BY <1>1 DEF CallSet
<1>3. new_lower \in Seq(Pivot)
  <2>1. promise[Top(t).pivot] \in {<<l>> : l \in Seq(Pivot)}
    BY <1>2 DEF FinishWait, Ready, IInv, TypeOK
  <2>2. QED
    BY <2>1
<1>4. list \in Seq(Pivot)
  <2>1. <<Top(t).pivot>> \in Seq(Pivot)
    BY <1>2
  <2>2. new_lower \o <<Top(t).pivot>> \in Seq(Pivot)
    BY <1>3, <2>1, ConcatProperties
  <2>3. QED
    BY <1>2, <2>2, ConcatProperties DEF Result
<1>5. Return(t, list)
  BY DEF FinishWait
<1> HIDE DEF list
<1>6. QED
  BY <1>1, <1>4, <1>5, ReturnStep

\* The lower part becomes a chunk.
LEMMA SplitStep ==
    ASSUME IInv, NEW t \in Thread, Split(t), UNCHANGED given
    PROVE  IInv'
<1>1. stack[t] # <<>> /\ ~Storing(t) /\ Top(t) \in CallSet
  <2>1. At(t, "sort")
    BY DEF Split
  <2>2. QED
    BY <2>1, AtFacts DEF StoringSteps
<1>2. UNCHANGED <<max_thread_count, promise, started, threads, overtaken>>
      /\ UNCHANGED vectorVars
  BY DEF Split, given, vectorVars
<1>3. PICK p \in Top(t).data :
         /\ chunks' = <<p>> \o chunks
         /\ lower' = [lower EXCEPT ![p] = {e \in Top(t).data : key[e] < key[p]}]
         /\ Becomes(t, [Top(t) EXCEPT !.step = "test", !.pivot = p,
                    !.data = @ \ ({e \in Top(t).data : key[e] < key[p]} \cup {p})])
  BY DEF Split
<1> DEFINE less == {e \in Top(t).data : key[e] < key[p]}
           call == [Top(t) EXCEPT !.step = "test", !.pivot = p, !.data = @ \ (less \cup {p})]
<1>4. Top(t).data \in SUBSET Element /\ p \in Element /\ less \in SUBSET Element
  BY <1>1 DEF CallSet
<1>5. chunks' \in Seq(Element)
  BY <1>3, <1>4, ConcatProperties DEF IInv, TypeOK
<1>6. lower' \in [Element -> SUBSET Element]
  BY <1>3, <1>4 DEF IInv, TypeOK
<1>7. Becomes(t, call)
  BY <1>3
<1> HIDE DEF less
<1>8. call \in CallSet /\ call.step \notin StoringSteps
  BY <1>1, <1>4 DEF CallSet, Pivot, StoringSteps
<1> HIDE DEF call
<1>9. stack' \in [Thread -> Seq(CallSet)] /\ InnerInv' /\ StoreInv'
  BY <1>1, <1>2, <1>7, <1>8, GoOn
<1>10. QED
  BY <1>2, <1>5, <1>6, <1>9 DEF IInv, TypeOK

LEMMA NotReadyStep ==
    ASSUME IInv, NEW t \in Thread, NotReady(t), UNCHANGED given
    PROVE  IInv'
<1> DEFINE call == [Top(t) EXCEPT !.step = "help"]
<1>1. stack[t] # <<>> /\ ~Storing(t) /\ Top(t) \in CallSet
  <2>1. At(t, "wait")
    BY DEF NotReady
  <2>2. QED
    BY <2>1, AtFacts DEF StoringSteps
<1>2. UNCHANGED <<max_thread_count, chunks, lower, promise, started, threads, overtaken>>
      /\ UNCHANGED vectorVars
  BY DEF NotReady, given, vectorVars
<1>3. Becomes(t, call)
  BY DEF NotReady, Goto
<1>4. call \in CallSet /\ call.step \notin StoringSteps
  BY <1>1 DEF CallSet, StoringSteps
<1> HIDE DEF call
<1>5. stack' \in [Thread -> Seq(CallSet)] /\ InnerInv' /\ StoreInv'
  BY <1>1, <1>2, <1>3, <1>4, GoOn
<1>6. QED
  BY <1>2, <1>5 DEF IInv, TypeOK

\* A chunk is taken on top of calls that wait.
LEMMA TakeStep ==
    ASSUME IInv, NEW t \in Thread, ~Storing(t), NEW calls \in Seq(CallSet), Inner(calls),
           calls # <<>> => Last(calls).step \in {"higher", "wait"},
           TrySortChunk(t, calls), UNCHANGED <<lower, promise>>,
           UNCHANGED vectorVars, UNCHANGED given
    PROVE  IInv'
<1> DEFINE to == Head(chunks)
           list == lower[to]
<1>1. chunks \in Seq(Element) /\ chunks # <<>>
  BY DEF TrySortChunk, IInv, TypeOK
<1>2. to \in Element /\ chunks' \in Seq(Element)
  BY <1>1, HeadTailProperties DEF TrySortChunk, Popped
<1>3. list \in SUBSET Element /\ to \in Pivot
  BY <1>2 DEF IInv, TypeOK, Pivot
<1>4. stack' = [stack EXCEPT ![t] = Append(calls, Call(list, to))]
  BY DEF TrySortChunk
<1> HIDE DEF to, list
<1>5. stack' \in [Thread -> Seq(CallSet)] /\ InnerInv' /\ StoreInv'
  BY <1>3, <1>4, CallOnTop
<1>6. QED
  BY <1>2, <1>5 DEF IInv, TypeOK, vectorVars, given

LEMMA HelpStep ==
    ASSUME IInv, NEW t \in Thread, Help(t), UNCHANGED given
    PROVE  IInv'
<1> DEFINE call == [Top(t) EXCEPT !.step = "wait"]
           calls == Append(Below(t), call)
<1>1. stack[t] # <<>> /\ ~Storing(t) /\ Top(t) \in CallSet
  <2>1. At(t, "help")
    BY DEF Help
  <2>2. QED
    BY <2>1, AtFacts DEF StoringSteps
<1>2. UNCHANGED <<lower, promise>> /\ UNCHANGED vectorVars
  BY DEF Help
<1>3. call \in CallSet /\ call.step = "wait"
  BY <1>1 DEF CallSet
<1>4. CASE TrySortChunk(t, calls)
  <2>1. /\ Below(t) \in Seq(CallSet) /\ Inner(Below(t))
        /\ Below(t) # <<>> => Last(Below(t)).step \in {"higher", "wait"}
    BY <1>1, DropLast DEF IInv, TypeOK, InnerInv, Below
  <2> HIDE DEF call
  <2>2. calls \in Seq(CallSet) /\ Inner(calls) /\ Last(calls) = call
    BY <1>3, <2>1, PushCall
  <2> HIDE DEF calls
  <2>3. QED
    BY <1>1, <1>2, <1>3, <1>4, <2>2, TakeStep
<1>5. CASE Goto(t, "wait") /\ UNCHANGED chunks
  <2>1. Becomes(t, call)
    BY <1>5 DEF Goto
  <2>2. call.step \notin StoringSteps
    BY <1>3 DEF StoringSteps
  <2> HIDE DEF call
  <2>3. stack' \in [Thread -> Seq(CallSet)] /\ InnerInv' /\ StoreInv'
    BY <1>1, <1>2, <1>3, <2>1, <2>2, GoOn
  <2>4. QED
    BY <1>2, <1>5, <2>3 DEF IInv, TypeOK, vectorVars, given
<1>6. QED
  BY <1>4, <1>5 DEF Help

LEMMA WorkerTakesStep ==
    ASSUME IInv, NEW t \in Thread, WorkerTakes(t), UNCHANGED given
    PROVE  IInv'
<1>1. ~Storing(t) /\ TrySortChunk(t, <<>>) /\ UNCHANGED <<lower, promise>>
      /\ UNCHANGED vectorVars
  BY DEF WorkerTakes, Idle, Storing
<1>2. <<>> \in Seq(CallSet) /\ Inner(<<>>)
  BY EmptySeq DEF Inner
<1>3. QED
  BY <1>1, <1>2, TakeStep

\* Steps without a part in sorting.
LEMMA OtherStep ==
    ASSUME IInv, UNCHANGED <<chunks, lower, promise, stack, vectorVars>>, UNCHANGED given
    PROVE  IInv'
<1>1. UNCHANGED <<max_thread_count, chunks, lower, promise, stack, started, threads, overtaken>>
  BY DEF vectorVars, given
<1>2. TypeOK' /\ InnerInv'
  BY <1>1 DEF IInv, TypeOK, InnerInv
<1>3. \A t \in Thread : (Storing(t)' <=> Storing(t)) /\ (HasStarted(t)' <=> HasStarted(t))
  BY <1>1 DEF Storing, HasStarted
<1>4. StoreInv'
  BY <1>1, <1>3 DEF IInv, StoreInv
<1>5. QED
  BY <1>2, <1>4 DEF IInv
-----------------------------------------------------------------------------
LEMMA Initial == Init => IInv
<1> SUFFICES ASSUME Init PROVE IInv
  OBVIOUS
<1>1. max_thread_count \in Nat
  <2>1. PICK cores \in hardware_concurrency :
           max_thread_count = (cores - 1) % (UINT_MAX + 1)
    BY DEF Init
  <2>2. cores \in Int /\ UINT_MAX \in Nat
    BY SorterAssumption
  <2>3. QED
    BY <2>1, <2>2
<1>2. Call(Element, Whole) \in CallSet /\ Call(Element, Whole).step = "sort"
  BY EmptySeq DEF Call, CallSet, Pivot
<1>3. /\ <<Call(Element, Whole)>> \in Seq(CallSet) /\ Len(<<Call(Element, Whole)>>) = 1
      /\ <<Call(Element, Whole)>>[1] = Call(Element, Whole)
  BY <1>2
<1>4. <<>> \in Seq(CallSet) /\ Len(<<>>) = 0
  BY EmptySeq
<1>5. stack \in [Thread -> Seq(CallSet)]
  BY <1>3, <1>4 DEF Init
<1>6. \A t \in Thread : stack[t] = <<>> \/ stack[t] = <<Call(Element, Whole)>>
  BY DEF Init
<1> HIDE DEF Call
<1>7. InnerInv
  <2>1. Inner(<<>>)
    BY <1>4 DEF Inner
  <2>2. Inner(<<Call(Element, Whole)>>)
    BY <1>3 DEF Inner
  <2>3. QED
    BY <1>6, <2>1, <2>2 DEF InnerInv
<1>8. \A t \in Thread : ~Storing(t) /\ ~HasStarted(t)
  BY <1>2, <1>3, <1>6 DEF Storing, HasStarted, StoringSteps, Last
<1>9. TypeOK
  BY <1>1, <1>5, EmptySeq DEF Init, TypeOK, Pivot
<1>10. started = 0 /\ Len(threads) = 0
  BY EmptySeq DEF Init
<1>11. StoreInv
  BY <1>1, <1>8, <1>10 DEF StoreInv
<1>12. QED
  BY <1>7, <1>9, <1>11 DEF IInv

LEMMA Inductive == IInv /\ [Next]_vars => IInv'
<1> SUFFICES ASSUME IInv, [Next]_vars PROVE IInv'
  OBVIOUS
<1>1. CASE UNCHANGED vars
  BY <1>1, OtherStep DEF vars
<1>2. ASSUME NEW t \in Thread, Step(t)
      PROVE  IInv'
  <2>1. UNCHANGED given
    BY <1>2 DEF Step
  <2>2. CASE ReturnShort(t)
    BY <2>1, <2>2, ReturnShortStep
  <2>3. CASE Split(t)
    BY <2>1, <2>3, SplitStep
  <2>4. CASE TestThreads(t)
    BY <2>1, <2>4, TestStep
  <2>5. CASE StartThread(t)
    BY <2>1, <2>5, StartStep
  <2>6. CASE PushBegin(t)
    BY <2>1, <2>6, PushBeginStep
  <2>7. CASE PushBack(t)
    BY <2>1, <2>7, PushBackStep
  <2>8. CASE FinishWait(t)
    BY <2>1, <2>8, FinishStep
  <2>9. CASE NotReady(t)
    BY <2>1, <2>9, NotReadyStep
  <2>10. CASE Help(t)
    BY <2>1, <2>10, HelpStep
  <2>11. CASE WorkerTakes(t)
    BY <2>1, <2>11, WorkerTakesStep
  <2>12. CASE WorkerEnds(t)
    BY <2>1, <2>12, OtherStep DEF WorkerEnds
  <2>13. CASE EndOfData
    BY <2>1, <2>13, OtherStep DEF EndOfData
  <2>14. CASE Join
    BY <2>1, <2>14, OtherStep DEF Join
  <2>15. QED
    BY <1>2, <2>2, <2>3, <2>4, <2>5, <2>6, <2>7, <2>8, <2>9, <2>10, <2>11, <2>12,
       <2>13, <2>14 DEF Step
<1>3. QED
  BY <1>1, <1>2 DEF Next

\* The variables keep to their types (Whole may stand in a list as far as they say).
THEOREM TypeCorrect == Spec => []TypeOK
<1>1. IInv => TypeOK
  BY DEF IInv
<1>2. QED
  BY Initial, Inductive, <1>1, PTL DEF Spec

(***************************************************************************)
(* sorter.cpp:86-89: no more workers than max_thread_count are started     *)
(* unless a thread tests the size of the vector between the test and the   *)
(* end of the push_back of another one.                                    *)
(***************************************************************************)
THEOREM LimitIsKept == Spec => []LimitKept
<1>1. IInv => LimitKept
  BY DEF IInv, StoreInv, LimitKept
<1>2. QED
  BY Initial, Inductive, <1>1, PTL DEF Spec
-----------------------------------------------------------------------------
(***************************************************************************)
(* What the calls of do_sort have to do with each other.  A call sorts the *)
(* list it was called with: a chunk, if it has a promise to set, the       *)
(* higher part of the call below it, or all elements.                      *)
(***************************************************************************)
PendingSteps == {"sort", "test"} \cup StoringSteps
WaitSteps == {"wait", "help"}

\* The list that the i-th call was called with, when low tells the chunks' data.
Target(s, i, low) == IF s[i].to # Whole THEN low[s[i].to]
                     ELSE IF i = 1 THEN Element ELSE s[i - 1].data

\* A call has that list still, or has split it.
Good(c, target, low) ==
    IF c.step = "sort" THEN c.data = target
    ELSE /\ c.pivot \in Element
         /\ target = low[c.pivot] \cup {c.pivot} \cup c.data
         /\ \A e \in low[c.pivot] : key[e] < key[c.pivot]
         /\ \A e \in c.data : key[c.pivot] <= key[e]
         /\ c.pivot \notin c.data
         /\ c.step \in WaitSteps => Sorts(c.higher, c.data)

StackOK(t, s, low) ==
    \A i \in 1..Len(s) :
        /\ (s[i].to = Whole) <=> (IF i = 1 THEN t = Main ELSE s[i - 1].step = "higher")
        /\ Good(s[i], Target(s, i, low), low)

\* e is neither a pivot nor the name of a chunk in these calls.
Unused(e, s) == \A i \in 1..Len(s) : s[i].to # e /\ s[i].pivot # e

\* A chunk is older than the pivots of the calls that sort it or are above it.
Rising(s, rank) ==
    \A i, j \in 1..Len(s) :
        i <= j /\ s[i].to # Whole /\ s[j].step # "sort"
            => rank[s[i].to] < rank[s[j].pivot]

\* The elements that a thread has still to sort.
PendingOf(s) == IF s # <<>> /\ Last(s).step \in PendingSteps THEN Last(s).data ELSE {}

-----------------------------------------------------------------------------
\* The inmost call changes.
LEMMA TopChanges ==
    ASSUME NEW t, NEW s \in Seq(CallSet), s # <<>>, NEW c \in CallSet, c.to = Last(s).to,
           NEW low, NEW rank
    PROVE  /\ StackOK(t, s, low) /\ Good(c, Target(s, Len(s), low), low)
                  => StackOK(t, WithTop(s, c), low)
           /\ \A e : Unused(e, s) /\ c.pivot # e => Unused(e, WithTop(s, c))
           /\ (c.step = "sort" \/ (c.pivot = Last(s).pivot /\ Last(s).step # "sort"))
                  => (Rising(s, rank) => Rising(WithTop(s, c), rank))
           /\ (\A i \in 1..Len(s) : s[i].to # Whole => rank[s[i].to] < rank[c.pivot])
                  => (Rising(s, rank) => Rising(WithTop(s, c), rank))
<1> DEFINE r == WithTop(s, c)
           n == Len(s)
<1>1. /\ r \in Seq(CallSet) /\ Len(r) = n /\ n \in Nat \ {0}
      /\ \A i \in 1..n : i # n => r[i] = s[i]
      /\ r[n] = c /\ Last(s) = s[n]
  BY WithTopFacts
<1> HIDE DEF r, n
<1>2. \A i \in 1..n : r[i].to = s[i].to
  BY <1>1
<1>3. \A i \in 1..n : i # 1 => r[i - 1] = s[i - 1]
  BY <1>1
<1>4. \A i \in 1..n : Target(r, i, low) = Target(s, i, low)
  BY <1>2, <1>3 DEF Target
<1>5. StackOK(t, s, low) /\ Good(c, Target(s, n, low), low) => StackOK(t, r, low)
  <2> SUFFICES ASSUME StackOK(t, s, low), Good(c, Target(s, n, low), low),
                      NEW i \in 1..n
               PROVE  /\ (r[i].to = Whole) <=>
                             (IF i = 1 THEN t = Main ELSE r[i - 1].step = "higher")
                      /\ Good(r[i], Target(r, i, low), low)
    BY <1>1 DEF StackOK
  <2>1. /\ (s[i].to = Whole) <=> (IF i = 1 THEN t = Main ELSE s[i - 1].step = "higher")
        /\ Good(s[i], Target(s, i, low), low)
    BY DEF StackOK, n
  <2>2. Good(r[i], Target(r, i, low), low)
    BY <1>1, <1>4, <2>1
  <2>3. QED
    BY <1>2, <1>3, <2>1, <2>2
<1>6. ASSUME NEW e, Unused(e, s), c.pivot # e
      PROVE  Unused(e, r)
  BY <1>1, <1>2, <1>6 DEF Unused, n
<1>7. ASSUME c.step = "sort" \/ (c.pivot = Last(s).pivot /\ Last(s).step # "sort"),
             Rising(s, rank)
      PROVE  Rising(r, rank)
  <2> SUFFICES ASSUME NEW i \in 1..n, NEW j \in 1..n, i <= j, r[i].to # Whole,
                      r[j].step # "sort"
               PROVE  rank[r[i].to] < rank[r[j].pivot]
    BY <1>1 DEF Rising
  <2>1. s[j].step # "sort" /\ r[j].pivot = s[j].pivot
    BY <1>1, <1>7
  <2>2. QED
    BY <1>2, <1>7, <2>1 DEF Rising, n
<1>8. ASSUME \A i \in 1..n : s[i].to # Whole => rank[s[i].to] < rank[c.pivot],
             Rising(s, rank)
      PROVE  Rising(r, rank)
  <2> SUFFICES ASSUME NEW i \in 1..n, NEW j \in 1..n, i <= j, r[i].to # Whole,
                      r[j].step # "sort"
               PROVE  rank[r[i].to] < rank[r[j].pivot]
    BY <1>1 DEF Rising
  <2>1. CASE j = n
    BY <1>1, <1>2, <1>8, <2>1
  <2>2. CASE j # n
    <3>1. r[j] = s[j] /\ r[i].to = s[i].to
      BY <1>1, <1>2, <2>2
    <3>2. QED
      BY <1>8, <3>1 DEF Rising, n
  <2>3. QED
    BY <2>1, <2>2
<1>9. QED
  BY <1>5, <1>6, <1>7, <1>8 DEF r, n

\* The inmost call returns.
LEMMA TopReturns ==
    ASSUME NEW t, NEW s \in Seq(CallSet), s # <<>>, NEW low, NEW rank
    PROVE  /\ StackOK(t, s, low) => StackOK(t, WithoutTop(s), low)
           /\ \A e : Unused(e, s) => Unused(e, WithoutTop(s))
           /\ Rising(s, rank) => Rising(WithoutTop(s), rank)
<1> DEFINE r == WithoutTop(s)
           n == Len(s)
<1>1. /\ r \in Seq(CallSet) /\ Len(r) = n - 1 /\ n \in Nat \ {0}
      /\ \A i \in 1..n - 1 : r[i] = s[i]
  BY WithoutTopFacts
<1> HIDE DEF r, n
<1>2. \A i \in 1..n - 1 : i \in 1..n /\ (i # 1 => i - 1 \in 1..n - 1)
  BY <1>1
<1>3. ASSUME StackOK(t, s, low) PROVE StackOK(t, r, low)
  <2> SUFFICES ASSUME NEW i \in 1..n - 1
               PROVE  /\ (r[i].to = Whole) <=>
                             (IF i = 1 THEN t = Main ELSE r[i - 1].step = "higher")
                      /\ Good(r[i], Target(r, i, low), low)
    BY <1>1 DEF StackOK
  <2>1. /\ (s[i].to = Whole) <=> (IF i = 1 THEN t = Main ELSE s[i - 1].step = "higher")
        /\ Good(s[i], Target(s, i, low), low)
    BY <1>2, <1>3 DEF StackOK, n
  <2>2. r[i] = s[i] /\ (i # 1 => r[i - 1] = s[i - 1])
    BY <1>1, <1>2
  <2>3. Target(r, i, low) = Target(s, i, low)
    BY <2>2 DEF Target
  <2>4. QED
    BY <2>1, <2>2, <2>3
<1>4. ASSUME NEW e, Unused(e, s) PROVE Unused(e, r)
  BY <1>1, <1>2, <1>4 DEF Unused, n
<1>5. ASSUME Rising(s, rank) PROVE Rising(r, rank)
  BY <1>1, <1>2, <1>5 DEF Rising, n
<1>6. QED
  BY <1>3, <1>4, <1>5 DEF r

\* A list is to be sorted: a chunk, or what the call below needs.
LEMMA CallStarts ==
    ASSUME NEW t, NEW s \in Seq(CallSet), NEW c \in CallSet, c.step = "sort",
           NEW low, NEW rank
    PROVE  /\ /\ StackOK(t, s, low)
              /\ (c.to = Whole) <=> (IF s = <<>> THEN t = Main ELSE Last(s).step = "higher")
              /\ c.data = IF c.to # Whole THEN low[c.to]
                          ELSE IF s = <<>> THEN Element ELSE Last(s).data
              => StackOK(t, Append(s, c), low)
           /\ \A e : Unused(e, s) /\ c.to # e /\ c.pivot # e => Unused(e, Append(s, c))
           /\ Rising(s, rank) => Rising(Append(s, c), rank)
           /\ PendingOf(Append(s, c)) = c.data
<1> DEFINE r == Append(s, c)
           n == Len(s)
<1>1. /\ r \in Seq(CallSet) /\ r # <<>> /\ Len(r) = n + 1 /\ n \in Nat
      /\ \A i \in 1..n : r[i] = s[i]
      /\ r[n + 1] = c /\ Last(r) = c
      /\ s = <<>> <=> n = 0
      /\ s # <<>> => Last(s) = s[n]
  BY AppendFacts
<1> HIDE DEF r, n
<1>2. \A i \in 1..n + 1 : i # n + 1 => (i \in 1..n /\ (i # 1 => i - 1 \in 1..n))
  BY <1>1
<1>3. ASSUME StackOK(t, s, low),
             (c.to = Whole) <=> (IF s = <<>> THEN t = Main ELSE Last(s).step = "higher"),
             c.data = IF c.to # Whole THEN low[c.to]
                      ELSE IF s = <<>> THEN Element ELSE Last(s).data
      PROVE  StackOK(t, r, low)
  <2> SUFFICES ASSUME NEW i \in 1..n + 1
               PROVE  /\ (r[i].to = Whole) <=>
                             (IF i = 1 THEN t = Main ELSE r[i - 1].step = "higher")
                      /\ Good(r[i], Target(r, i, low), low)
    BY <1>1 DEF StackOK
  <2>1. CASE i # n + 1
    <3>1. /\ (s[i].to = Whole) <=> (IF i = 1 THEN t = Main ELSE s[i - 1].step = "higher")
          /\ Good(s[i], Target(s, i, low), low)
      BY <1>2, <1>3, <2>1 DEF StackOK, n
    <3>2. r[i] = s[i] /\ (i # 1 => r[i - 1] = s[i - 1])
      BY <1>1, <1>2, <2>1
    <3>3. Target(r, i, low) = Target(s, i, low)
      BY <3>2 DEF Target
    <3>4. QED
      BY <3>1, <3>2, <3>3
  <2>2. CASE i = n + 1
    <3>1. (i = 1) <=> (s = <<>>)
      BY <1>1, <2>2
    <3>2. i # 1 => r[i - 1] = Last(s)
      <4> SUFFICES ASSUME i # 1 PROVE r[i - 1] = Last(s)
        OBVIOUS
      <4>1. i - 1 = n /\ n \in 1..n
        BY <1>1, <2>2
      <4>2. QED
        BY <1>1, <3>1, <4>1
    <3>3. r[i] = c
      BY <1>1, <2>2
    <3>4. Target(r, i, low) = c.data
      BY <1>3, <3>1, <3>2, <3>3 DEF Target
    <3>5. Good(r[i], Target(r, i, low), low)
      BY <3>3, <3>4 DEF Good
    <3>6. QED
      BY <1>3, <3>1, <3>2, <3>3, <3>5
  <2>3. QED
    BY <2>1, <2>2
<1>4. ASSUME NEW e, Unused(e, s), c.to # e, c.pivot # e
      PROVE  Unused(e, r)
  BY <1>1, <1>2, <1>4 DEF Unused, n
<1>5. ASSUME Rising(s, rank) PROVE Rising(r, rank)
  <2> SUFFICES ASSUME NEW i \in 1..n + 1, NEW j \in 1..n + 1, i <= j, r[i].to # Whole,
                      r[j].step # "sort"
               PROVE  rank[r[i].to] < rank[r[j].pivot]
    BY <1>1 DEF Rising
  <2>1. j # n + 1
    BY <1>1
  <2>2. i \in 1..n /\ j \in 1..n
    BY <1>1, <2>1
  <2>3. QED
    BY <1>1, <1>5, <2>2 DEF Rising, n
<1>6. PendingOf(r) = c.data
  BY <1>1 DEF PendingOf, PendingSteps
<1>7. QED
  BY <1>3, <1>4, <1>5, <1>6 DEF r
\* A new chunk, whose name these calls do not use.
LEMMA ChunkIsNew ==
    ASSUME NEW t, NEW s \in Seq(CallSet), NEW p \in Element, Unused(p, s),
           NEW low \in [Element -> SUBSET Element], NEW less, StackOK(t, s, low)
    PROVE  /\ StackOK(t, s, [low EXCEPT ![p] = less])
           /\ \A rank \in [Element -> Nat], n \in Nat :
                  Rising(s, rank) => Rising(s, [rank EXCEPT ![p] = n])
<1> DEFINE new == [low EXCEPT ![p] = less]
<1>1. \A i \in 1..Len(s) : s[i] \in CallSet
  BY ElementOfSeq
<1>2. \A e \in Element : e # p => new[e] = low[e]
  OBVIOUS
<1> HIDE DEF new
<1>3. ASSUME NEW i \in 1..Len(s)
      PROVE  /\ s[i].to # p /\ s[i].pivot # p
             /\ s[i].to # Whole => s[i].to \in Element
             /\ s[i].step # "sort" => s[i].pivot \in Element
             /\ Good(s[i], Target(s, i, low), low)
  <2>1. s[i].to # p /\ s[i].pivot # p
    BY DEF Unused
  <2>2. s[i].to \in Pivot
    BY <1>1 DEF CallSet
  <2>3. Good(s[i], Target(s, i, low), low)
    BY DEF StackOK
  <2>4. s[i].step # "sort" => s[i].pivot \in Element
    BY <2>3 DEF Good
  <2>5. QED
    BY <2>1, <2>2, <2>3, <2>4 DEF Pivot
<1>4. StackOK(t, s, new)
  <2> SUFFICES ASSUME NEW i \in 1..Len(s)
               PROVE  Good(s[i], Target(s, i, new), new)
    BY DEF StackOK
  <2>1. Target(s, i, new) = Target(s, i, low)
    BY <1>2, <1>3 DEF Target
  <2>2. s[i].step # "sort" => new[s[i].pivot] = low[s[i].pivot]
    BY <1>2, <1>3
  <2>3. QED
    BY <1>3, <2>1, <2>2 DEF Good
<1>5. ASSUME NEW rank \in [Element -> Nat], NEW n \in Nat, Rising(s, rank)
      PROVE  Rising(s, [rank EXCEPT ![p] = n])
  <2>1. \A e \in Element : e # p => [rank EXCEPT ![p] = n][e] = rank[e]
    OBVIOUS
  <2>2. QED
    BY <1>3, <1>5, <2>1 DEF Rising
<1>6. QED
  BY <1>4, <1>5 DEF new
-----------------------------------------------------------------------------
(***************************************************************************)
(* Sorted lists                                                            *)
(***************************************************************************)
LEMMA ShortSorts ==
    /\ Sorts(<<>>, {})
    /\ \A e \in Element : Sorts(<<e>>, {e})
<1>1. Sorts(<<>>, {})
  <2>1. Len(<<>>) = 0 /\ DOMAIN <<>> = {}
    OBVIOUS
  <2>2. QED
    BY <2>1, FS_EmptySet DEF Sorts
<1>2. ASSUME NEW e \in Element PROVE Sorts(<<e>>, {e})
  <2>1. Len(<<e>>) = 1 /\ DOMAIN <<e>> = {1} /\ <<e>>[1] = e
    OBVIOUS
  <2>2. 1..Len(<<e>>) - 1 = {}
    BY <2>1
  <2>3. QED
    BY <2>1, <2>2, FS_Singleton DEF Sorts
<1>3. QED
  BY <1>1, <1>2

\* new_lower, the pivot and new_higher are the sorted list of all.
LEMMA ResultSorts ==
    ASSUME NEW less \in SUBSET Element, NEW p \in Element, NEW others \in SUBSET Element,
           NEW new_lower \in Seq(Pivot), NEW new_higher \in Seq(Pivot),
           key \in [Element -> Int],
           \A e \in less : key[e] < key[p],
           \A e \in others : key[p] <= key[e], p \notin others,
           Sorts(new_lower, less), Sorts(new_higher, others)
    PROVE  Sorts((new_lower \o <<p>>) \o new_higher, less \cup {p} \cup others)
<1> DEFINE front == new_lower \o <<p>>
           list == front \o new_higher
           a == Len(new_lower)
           b == Len(new_higher)
<1>1. a \in Nat /\ b \in Nat
  BY LenProperties
<1>2. /\ front \in Seq(Pivot) /\ Len(front) = a + 1
      /\ \A i \in 1..a : front[i] = new_lower[i]
      /\ front[a + 1] = p
  <2>1. <<p>> \in Seq(Pivot) /\ Len(<<p>>) = 1 /\ <<p>>[1] = p
    BY DEF Pivot
  <2>2. front \in Seq(Pivot) /\ Len(front) = a + 1
        /\ \A i \in 1..a + 1 : front[i] = IF i <= a THEN new_lower[i] ELSE <<p>>[i - a]
    BY <2>1, ConcatProperties
  <2> HIDE DEF front, a
  <2>3. \A i \in 1..a : i \in 1..a + 1 /\ i <= a
    BY <1>1
  <2>4. a + 1 \in 1..a + 1 /\ ~(a + 1 <= a) /\ (a + 1) - a = 1
    BY <1>1
  <2>5. front[a + 1] = p
    BY <2>1, <2>2, <2>4
  <2>6. QED
    BY <2>2, <2>3, <2>5
<1> HIDE DEF front
<1>3. /\ list \in Seq(Pivot) /\ Len(list) = a + 1 + b
      /\ \A i \in 1..a + 1 : list[i] = front[i]
      /\ \A i \in 1..b : list[a + 1 + i] = new_higher[i]
  <2>1. list \in Seq(Pivot) /\ Len(list) = (a + 1) + b
        /\ \A i \in 1..(a + 1) + b :
              list[i] = IF i <= a + 1 THEN front[i] ELSE new_higher[i - (a + 1)]
    BY <1>2, ConcatProperties
  <2> HIDE DEF list, a, b
  <2>2. \A i \in 1..a + 1 : i \in 1..(a + 1) + b /\ i <= a + 1
    BY <1>1
  <2>3. \A i \in 1..b : /\ a + 1 + i \in 1..(a + 1) + b /\ ~(a + 1 + i <= a + 1)
                        /\ (a + 1 + i) - (a + 1) = i
    BY <1>1
  <2>4. \A i \in 1..b : list[a + 1 + i] = new_higher[i]
    BY <2>1, <2>3
  <2>5. QED
    BY <2>1, <2>2, <2>4
<1> HIDE DEF list
<1>4. /\ a = Cardinality(less) /\ {new_lower[i] : i \in 1..a} = less
      /\ \A i \in 1..a - 1 : key[new_lower[i]] <= key[new_lower[i + 1]]
      /\ b = Cardinality(others) /\ {new_higher[i] : i \in 1..b} = others
      /\ \A i \in 1..b - 1 : key[new_higher[i]] <= key[new_higher[i + 1]]
  BY LenProperties DEF Sorts
<1> HIDE DEF a, b
<1>5. /\ \A i \in 1..a : list[i] = new_lower[i] /\ list[i] \in less
      /\ list[a + 1] = p
      /\ \A i \in 1..b : list[a + 1 + i] = new_higher[i] /\ list[a + 1 + i] \in others
  <2>1. \A i \in 1..a : i \in 1..a + 1
    BY <1>1
  <2>2. a + 1 \in 1..a + 1
    BY <1>1
  <2>3. QED
    BY <1>2, <1>3, <1>4, <2>1, <2>2
<1>6. \A i \in 1..a + 1 + b : \/ i \in 1..a \/ i = a + 1
                              \/ i - (a + 1) \in 1..b /\ i = a + 1 + (i - (a + 1))
  BY <1>1
<1>7. Len(list) = Cardinality(less \cup {p} \cup others)
  <2>1. IsFiniteSet(less) /\ IsFiniteSet(others)
    BY SorterAssumption, FS_Subset
  <2>2. p \notin less
    BY DEF Sorts
  <2>3. IsFiniteSet(less \cup {p}) /\ Cardinality(less \cup {p}) = a + 1
    BY <1>4, <2>1, <2>2, FS_AddElement
  <2>4. (less \cup {p}) \cap others = {}
    <3>1. ASSUME NEW e \in less, e \in others PROVE FALSE
      <4>1. key[e] \in Int /\ key[p] \in Int
        OBVIOUS
      <4>2. key[e] < key[p] /\ key[p] <= key[e]
        BY <3>1
      <4>3. QED
        BY <4>1, <4>2
    <3>2. QED
      BY <3>1
  <2> DEFINE front_set == less \cup {p}
  <2>5. /\ IsFiniteSet(front_set) /\ Cardinality(front_set) = a + 1
        /\ Cardinality(front_set \cap others) = 0
    BY <2>3, <2>4, FS_EmptySet
  <2> HIDE DEF front_set
  <2>6. Cardinality(front_set \cup others) =
            Cardinality(front_set) + Cardinality(others) - Cardinality(front_set \cap others)
    BY <2>1, <2>5, FS_Union
  <2>7. Cardinality(front_set \cup others) = a + 1 + b
    BY <1>1, <1>4, <2>5, <2>6
  <2>8. QED
    BY <1>3, <2>7 DEF front_set
<1>8. {list[i] : i \in DOMAIN list} = less \cup {p} \cup others
  <2>1. DOMAIN list = 1..a + 1 + b
    BY <1>3, LenProperties
  <2>2. ASSUME NEW i \in 1..a + 1 + b PROVE list[i] \in less \cup {p} \cup others
    BY <1>5, <1>6
  <2>3. ASSUME NEW e \in less \cup {p} \cup others
        PROVE  \E i \in 1..a + 1 + b : list[i] = e
    <3>1. CASE e \in less
      <4>1. PICK i \in 1..a : new_lower[i] = e
        BY <1>4, <3>1
      <4>2. i \in 1..a + 1 + b
        BY <1>1
      <4>3. QED
        BY <1>5, <4>1, <4>2
    <3>2. CASE e = p
      <4>1. a + 1 \in 1..a + 1 + b
        BY <1>1
      <4>2. QED
        BY <1>5, <3>2, <4>1
    <3>3. CASE e \in others
      <4>1. PICK i \in 1..b : new_higher[i] = e
        BY <1>4, <3>3
      <4>2. a + 1 + i \in 1..a + 1 + b
        BY <1>1
      <4>3. QED
        BY <1>5, <4>1, <4>2
    <3>4. QED
      BY <3>1, <3>2, <3>3
  <2>4. QED
    BY <2>1, <2>2, <2>3
<1>9. ASSUME NEW i \in 1..Len(list) - 1
      PROVE  key[list[i]] <= key[list[i + 1]]
  <2>1. i \in 1..a + b
    BY <1>1, <1>3
  <2>2. CASE i \in 1..a - 1
    <3>1. i \in 1..a /\ i + 1 \in 1..a
      BY <1>1, <2>2
    <3>2. QED
      BY <1>4, <1>5, <2>2, <3>1
  <2>3. CASE i = a
    <3>1. i \in 1..a
      BY <1>1, <2>1, <2>3
    <3>2. list[i] \in less /\ list[i + 1] = p
      BY <1>5, <2>3, <3>1
    <3>3. key[list[i]] < key[p] /\ key[list[i]] \in Int /\ key[p] \in Int
      BY <3>2
    <3>4. QED
      BY <3>2, <3>3
  <2>4. CASE i = a + 1
    <3>1. 1 \in 1..b /\ i + 1 = a + 1 + 1
      BY <1>1, <2>1, <2>4
    <3>2. list[i] = p /\ list[i + 1] \in others
      BY <1>5, <2>4, <3>1
    <3>3. QED
      BY <3>2
  <2>5. CASE i > a + 1
    <3> DEFINE j == i - (a + 1)
    <3>1. j \in 1..b - 1 /\ j \in 1..b /\ j + 1 \in 1..b
          /\ i = a + 1 + j /\ i + 1 = a + 1 + (j + 1)
      BY <1>1, <2>1, <2>5
    <3> HIDE DEF j
    <3>2. list[i] = new_higher[j]
      BY <1>5, <3>1
    <3>3. list[i + 1] = new_higher[j + 1]
      BY <1>5, <3>1
    <3>4. QED
      BY <1>4, <3>1, <3>2, <3>3
  <2>6. QED
    BY <1>1, <2>1, <2>2, <2>3, <2>4, <2>5
<1>10. QED
  BY <1>7, <1>8, <1>9 DEF Sorts, list, front
-----------------------------------------------------------------------------
(***************************************************************************)
(* The invariant of the sorting                                            *)
(***************************************************************************)
CallsInv == \A t \in Thread : StackOK(t, stack[t], lower)

PromiseInv ==
    /\ \A p \in Element : promise[p] # <<>> => Sorts(promise[p][1], lower[p])
    /\ promise[Whole] # <<>> => Sorts(promise[Whole][1], Element)
    /\ (promise[Whole] = <<>>) <=> (stack[Main] # <<>>)

\* An element that is still to be sorted has not been a pivot.
Fresh(e) == /\ promise[e] = <<>>
            /\ \A i \in 1..Len(chunks) : chunks[i] # e
            /\ \A t \in Thread : Unused(e, stack[t])
FreshInv == /\ \A t \in Thread : \A e \in PendingOf(stack[t]) : Fresh(e)
            /\ \A i \in 1..Len(chunks) : \A e \in lower[chunks[i]] : Fresh(e)

\* Nothing is to be sorted twice.
Apart == /\ \A t, u \in Thread : t # u => PendingOf(stack[t]) \cap PendingOf(stack[u]) = {}
         /\ \A t \in Thread : \A i \in 1..Len(chunks) :
                PendingOf(stack[t]) \cap lower[chunks[i]] = {}
         /\ \A i, j \in 1..Len(chunks) : i # j => lower[chunks[i]] \cap lower[chunks[j]] = {}

\* A chunk that somebody waits for is on the stack of chunks, being sorted or ready.
Sorting(p) == \E t \in Thread : \E i \in 1..Len(stack[t]) : stack[t][i].to = p
Kept(p) == promise[p] # <<>> \/ (\E i \in 1..Len(chunks) : chunks[i] = p) \/ Sorting(p)
KeptInv == \A t \in Thread : \A i \in 1..Len(stack[t]) :
               stack[t][i].step # "sort" => Kept(stack[t][i].pivot)

RankInv == \E rank \in [Element -> Nat], n \in Nat :
               /\ \A e \in Element : rank[e] < n
               /\ \A t \in Thread : Rising(stack[t], rank)

SortInv == /\ key \in [Element -> Int]
           /\ CallsInv /\ PromiseInv /\ FreshInv /\ Apart /\ KeptInv /\ RankInv

\* t has done something to its calls.
LEMMA OnlyItsCalls ==
    ASSUME IInv, NEW t \in Thread, NEW calls, stack' = [stack EXCEPT ![t] = calls]
    PROVE  /\ stack'[t] = calls
           /\ \A u \in Thread : u # t => stack'[u] = stack[u]
           /\ \A u \in Thread : stack[u] \in Seq(CallSet) /\ Inner(stack[u])
           /\ chunks \in Seq(Element) /\ Len(chunks) \in Nat
           /\ \A i \in 1..Len(chunks) : chunks[i] \in Element
           /\ lower \in [Element -> SUBSET Element]
BY ElementOfSeq, LenProperties DEF IInv, TypeOK, InnerInv

LEMMA StacksLater ==
    ASSUME key' = key, NEW t, StackOK(t, stack'[t], lower')
    PROVE  StackOK(t, stack[t], lower)'
<1> SUFFICES ASSUME NEW i \in 1..Len(stack'[t])
             PROVE  /\ (stack'[t][i].to = Whole) <=>
                           (IF i = 1 THEN t = Main ELSE stack'[t][i - 1].step = "higher")
                    /\ Good(stack[t][i], Target(stack[t], i, lower), lower)'
  BY DEF StackOK
<1>1. /\ (stack'[t][i].to = Whole) <=>
             (IF i = 1 THEN t = Main ELSE stack'[t][i - 1].step = "higher")
      /\ Good(stack'[t][i], Target(stack'[t], i, lower'), lower')
  BY DEF StackOK
<1>2. Target(stack[t], i, lower)' = Target(stack'[t], i, lower')
  BY DEF Target
<1>3. Sorts(stack[t][i].higher, stack[t][i].data)'
          <=> Sorts(stack'[t][i].higher, stack'[t][i].data)
  BY DEF Sorts
<1>4. Good(stack[t][i], Target(stack[t], i, lower), lower)'
  <2>1. CASE stack'[t][i].step = "sort"
    BY <1>1, <1>2, <2>1 DEF Good
  <2>2. CASE stack'[t][i].step # "sort"
    BY <1>1, <1>2, <1>3, <2>2 DEF Good
  <2>3. QED
    BY <2>1, <2>2
<1>5. QED
  BY <1>1, <1>4

LEMMA CallsLater ==
    ASSUME IInv, NEW t \in Thread, NEW calls, stack' = [stack EXCEPT ![t] = calls],
           key' = key, lower' = lower, CallsInv, StackOK(t, calls, lower)
    PROVE  CallsInv'
<1>1. ASSUME NEW u \in Thread PROVE StackOK(u, stack'[u], lower)
  BY OnlyItsCalls DEF CallsInv
<1>2. ASSUME NEW u \in Thread PROVE StackOK(u, stack[u], lower)'
  BY <1>1, StacksLater
<1>3. QED
  BY <1>2 DEF CallsInv

LEMMA PendingElements ==
    ASSUME IInv, NEW t \in Thread
    PROVE  PendingOf(stack[t]) \in SUBSET Element
<1>1. CASE stack[t] # <<>>
  <2>1. stack[t] \in Seq(CallSet) /\ Len(stack[t]) \in 1..Len(stack[t])
    BY <1>1, EmptySeq DEF IInv, TypeOK
  <2>2. Last(stack[t]) \in CallSet
    BY <2>1, ElementOfSeq DEF Last
  <2>3. QED
    BY <2>2 DEF PendingOf, CallSet
<1>2. QED
  BY <1>1 DEF PendingOf

\* No element is taken up.
LEMMA ApartLater ==
    ASSUME IInv, NEW t \in Thread, NEW calls, stack' = [stack EXCEPT ![t] = calls],
           UNCHANGED <<chunks, lower>>, FreshInv, Apart,
           PendingOf(calls) \subseteq PendingOf(stack[t]),
           \A e \in Element : Unused(e, stack[t])
                 => (Unused(e, calls) /\ (promise[e] = <<>> => promise'[e] = <<>>))
    PROVE  FreshInv' /\ Apart'
<1>1. ASSUME NEW e \in Element, Fresh(e) PROVE Fresh(e)'
  <2>1. promise'[e] = <<>>
    BY <1>1 DEF Fresh
  <2>2. \A u \in Thread : Unused(e, stack'[u])
    BY <1>1, OnlyItsCalls DEF Fresh
  <2>3. QED
    BY <1>1, <2>1, <2>2 DEF Fresh, Unused
<1>2. \A u \in Thread : /\ PendingOf(stack'[u]) \subseteq PendingOf(stack[u])
                        /\ PendingOf(stack[u]) \in SUBSET Element
  BY OnlyItsCalls, PendingElements
<1>3. \A i \in 1..Len(chunks) : lower[chunks[i]] \in SUBSET Element
  BY OnlyItsCalls
<1>4. ASSUME NEW u \in Thread, NEW e \in PendingOf(stack'[u]) PROVE Fresh(e)'
  BY <1>1, <1>2 DEF FreshInv
<1>5. ASSUME NEW i \in 1..Len(chunks), NEW e \in lower[chunks[i]] PROVE Fresh(e)'
  BY <1>1, <1>3 DEF FreshInv
<1> HIDE DEF Fresh
<1>6. FreshInv'
  <2>1. \A u \in Thread : \A e \in PendingOf(stack[u])' : Fresh(e)'
    BY <1>4 DEF PendingOf, Last
  <2>2. QED
    BY <1>5, <2>1 DEF FreshInv
<1>7. Apart'
  <2>1. \A u \in Thread : PendingOf(stack[u])' = PendingOf(stack'[u])
    BY DEF PendingOf, Last
  <2>2. \A u, v \in Thread : u # v => PendingOf(stack'[u]) \cap PendingOf(stack'[v]) = {}
    BY <1>2 DEF Apart
  <2>3. \A u \in Thread : \A i \in 1..Len(chunks) :
            PendingOf(stack'[u]) \cap lower[chunks[i]] = {}
    BY <1>2 DEF Apart
  <2>4. \A i, j \in 1..Len(chunks) : i # j => lower[chunks[i]] \cap lower[chunks[j]] = {}
    BY DEF Apart
  <2>5. QED
    BY <2>1, <2>2, <2>3, <2>4 DEF Apart
<1>8. QED
  BY <1>6, <1>7

\* No chunk that somebody waits for is lost, and t waits for no other than before.
LEMMA KeptLater ==
    ASSUME IInv, NEW t \in Thread, NEW calls, stack' = [stack EXCEPT ![t] = calls],
           CallsInv, KeptInv, \A p \in Element : Kept(p) => Kept(p)',
           \A i \in 1..Len(calls) : calls[i].step # "sort" =>
               \/ \E j \in 1..Len(stack[t]) : /\ stack[t][j].step # "sort"
                                              /\ stack[t][j].pivot = calls[i].pivot
               \/ \E p \in Element : p = calls[i].pivot /\ Kept(p)'
    PROVE  KeptInv'
<1>1. ASSUME NEW u \in Thread, NEW j \in 1..Len(stack[u]), stack[u][j].step # "sort"
      PROVE  \E p \in Element : p = stack[u][j].pivot /\ Kept(p)'
  <2>1. Good(stack[u][j], Target(stack[u], j, lower), lower)
    BY DEF CallsInv, StackOK
  <2>2. PICK p \in Element : p = stack[u][j].pivot
    BY <1>1, <2>1 DEF Good
  <2>3. Kept(p)
    BY <1>1, <2>2 DEF KeptInv
  <2>4. QED
    BY <2>2, <2>3
<1>2. ASSUME NEW u \in Thread, NEW i \in 1..Len(stack'[u]), stack'[u][i].step # "sort"
      PROVE  \E p \in Element : p = stack'[u][i].pivot /\ Kept(p)'
  <2>1. CASE u # t
    <3>1. stack'[u] = stack[u]
      BY <2>1, OnlyItsCalls
    <3>2. QED
      BY <1>1, <1>2, <3>1
  <2>2. CASE u = t
    <3>1. stack'[u] = calls
      BY <2>2, OnlyItsCalls
    <3>2. QED
      BY <1>1, <1>2, <2>2, <3>1
  <2>3. QED
    BY <2>1, <2>2
<1>3. ASSUME NEW u \in Thread, NEW i \in 1..Len(stack'[u]), stack'[u][i].step # "sort"
      PROVE  Kept(stack[u][i].pivot)'
  <2>1. PICK p \in Element : p = stack'[u][i].pivot /\ Kept(p)'
    BY <1>2, <1>3
  <2>2. QED
    BY <2>1 DEF Kept, Sorting
<1>4. QED
  BY <1>3 DEF KeptInv

LEMMA NothingLost ==
    ASSUME IInv, NEW t \in Thread, NEW calls, stack' = [stack EXCEPT ![t] = calls],
           NEW p,
           promise[p] # <<>> => promise'[p] # <<>>,
           (\E i \in 1..Len(chunks) : chunks[i] = p)
                => (\/ \E i \in 1..Len(chunks') : chunks'[i] = p
                    \/ \E i \in 1..Len(calls) : calls[i].to = p),
           (\E i \in 1..Len(stack[t]) : stack[t][i].to = p)
                => ((\E i \in 1..Len(calls) : calls[i].to = p) \/ promise'[p] # <<>>)
    PROVE  Kept(p) => Kept(p)'
<1>1. (\E i \in 1..Len(calls) : calls[i].to = p) => Sorting(p)'
  <2>1. stack'[t] = calls
    BY OnlyItsCalls
  <2>2. QED
    BY <2>1 DEF Sorting
<1>2. ASSUME NEW u \in Thread, u # t, \E i \in 1..Len(stack[u]) : stack[u][i].to = p
      PROVE  Sorting(p)'
  <2>1. stack'[u] = stack[u]
    BY <1>2, OnlyItsCalls
  <2>2. QED
    BY <1>2, <2>1 DEF Sorting
<1>3. Sorting(p) => (Sorting(p)' \/ promise'[p] # <<>>)
  BY <1>1, <1>2 DEF Sorting
<1>4. QED
  BY <1>1, <1>3 DEF Kept

LEMMA RankLater ==
    ASSUME IInv, NEW t \in Thread, NEW calls, stack' = [stack EXCEPT ![t] = calls],
           RankInv,
           \A rank \in [Element -> Nat] : Rising(stack[t], rank) => Rising(calls, rank)
    PROVE  RankInv'
<1>1. PICK rank \in [Element -> Nat], n \in Nat :
          /\ \A e \in Element : rank[e] < n
          /\ \A u \in Thread : Rising(stack[u], rank)
  BY DEF RankInv
<1>2. \A u \in Thread : Rising(stack'[u], rank)
  BY <1>1, OnlyItsCalls
<1>3. \A u \in Thread : Rising(stack[u], rank)'
  BY <1>2 DEF Rising
<1>4. QED
  BY <1>1, <1>3 DEF RankInv
-----------------------------------------------------------------------------
\* The inmost call goes on.
LEMMA GoingOnSorts ==
    ASSUME IInv, SortInv, NEW t \in Thread, stack[t] # <<>>, NEW c \in CallSet,
           stack' = [stack EXCEPT ![t] = WithTop(stack[t], c)],
           UNCHANGED <<key, chunks, lower, promise>>,
           c.data = Last(stack[t]).data, c.to = Last(stack[t]).to,
           c.pivot = Last(stack[t]).pivot, c.higher = Last(stack[t]).higher,
           Last(stack[t]).step # "sort", c.step # "sort",
           c.step \in PendingSteps => Last(stack[t]).step \in PendingSteps,
           c.step \in WaitSteps => Last(stack[t]).step \in WaitSteps
    PROVE  SortInv'
<1> DEFINE s == stack[t]
           calls == WithTop(s, c)
           n == Len(s)
<1>1. /\ s \in Seq(CallSet) /\ s # <<>>
      /\ calls \in Seq(CallSet) /\ calls # <<>> /\ Len(calls) = n
      /\ n \in 1..n
      /\ \A i \in 1..n : i # n => calls[i] = s[i]
      /\ calls[n] = c /\ Last(calls) = c /\ Last(s) = s[n]
  <2>1. s \in Seq(CallSet) /\ s # <<>>
    BY OnlyItsCalls
  <2> HIDE DEF s
  <2>2. n \in Nat \ {0}
    BY <2>1, WithTopFacts
  <2>3. n \in 1..n
    BY <2>2
  <2>4. QED
    BY <2>1, <2>3, WithTopFacts
<1>2. StackOK(t, s, lower)
  BY DEF SortInv, CallsInv
<1> HIDE DEF calls, n
<1>3. Good(c, Target(s, n, lower), lower)
  <2>1. Good(Last(s), Target(s, n, lower), lower)
    BY <1>1, <1>2 DEF StackOK, n
  <2>2. QED
    BY <2>1 DEF Good
<1> HIDE DEF s
<1>4. /\ StackOK(t, calls, lower)
      /\ \A e : Unused(e, s) => Unused(e, calls)
      /\ \A rank : Rising(s, rank) => Rising(calls, rank)
  <2>1. \A e : Unused(e, s) => c.pivot # e
    BY <1>1 DEF Unused, n, s
  <2>2. QED
    BY <1>1, <1>2, <1>3, <2>1, TopChanges DEF calls, n, s
<1>5. PendingOf(calls) \subseteq PendingOf(s)
  BY <1>1 DEF PendingOf, s
<1>6. stack' = [stack EXCEPT ![t] = calls]
  BY DEF calls, s
<1>7. CallsInv'
  BY <1>4, <1>6, CallsLater DEF SortInv
<1>8. FreshInv' /\ Apart'
  BY <1>4, <1>5, <1>6, ApartLater DEF SortInv, s
<1>9. PromiseInv'
  <2>1. (stack'[Main] # <<>>) <=> (stack[Main] # <<>>)
    BY <1>1, <1>6, OnlyItsCalls DEF Thread, s
  <2>2. QED
    BY <2>1 DEF PromiseInv, Sorts, SortInv
<1>10. KeptInv'
  <2>1. \A i \in 1..n : calls[i].to = s[i].to
    BY <1>1 DEF s
  <2>2. \A p \in Element : Kept(p) => Kept(p)'
    <3>1. Len(stack[t]) = n /\ Len(calls) = n /\ stack[t] = s
      BY <1>1 DEF n, s
    <3>2. \A p : (\E i \in 1..Len(stack[t]) : stack[t][i].to = p)
                   => (\E i \in 1..Len(calls) : calls[i].to = p)
      BY <2>1, <3>1
    <3>3. chunks' = chunks /\ promise' = promise
      OBVIOUS
    <3>4. ASSUME NEW p \in Element PROVE Kept(p) => Kept(p)'
      <4>1. promise[p] # <<>> => promise'[p] # <<>>
        BY <3>3
      <4>2. (\E i \in 1..Len(chunks) : chunks[i] = p)
                => (\/ \E i \in 1..Len(chunks') : chunks'[i] = p
                    \/ \E i \in 1..Len(calls) : calls[i].to = p)
        BY <3>3
      <4>3. (\E i \in 1..Len(stack[t]) : stack[t][i].to = p)
                => ((\E i \in 1..Len(calls) : calls[i].to = p) \/ promise'[p] # <<>>)
        BY <3>2
      <4>4. QED
        BY <1>6, <4>1, <4>2, <4>3, NothingLost
    <3>5. QED
      BY <3>4
  <2>3. \A i \in 1..Len(calls) : calls[i].step # "sort" =>
            \E j \in 1..Len(s) : s[j].step # "sort" /\ s[j].pivot = calls[i].pivot
    BY <1>1 DEF n, s
  <2>4. QED
    BY <1>6, <2>2, <2>3, KeptLater DEF SortInv, s
<1>11. RankInv'
  BY <1>4, <1>6, RankLater DEF SortInv, s
<1>12. QED
  BY <1>7, <1>8, <1>9, <1>10, <1>11 DEF SortInv

\* The calls below the inmost one and two more: it has changed and made a call.
LEMMA BelowAndTwo ==
    ASSUME NEW s \in Seq(CallSet), s # <<>>, NEW c \in CallSet, NEW d \in CallSet
    PROVE  /\ WithoutTop(s) \o <<c, d>> = Append(WithTop(s, c), d)
           /\ Append(WithoutTop(s), c) = WithTop(s, c)
<1> DEFINE once == Append(WithoutTop(s), c)
           n == Len(s)
<1>1. /\ WithoutTop(s) \in Seq(CallSet) /\ Len(WithoutTop(s)) = n - 1 /\ n \in Nat \ {0}
      /\ \A i \in 1..n - 1 : WithoutTop(s)[i] = s[i]
  BY WithoutTopFacts
<1>2. /\ once \in Seq(CallSet) /\ Len(once) = (n - 1) + 1
      /\ \A i \in 1..n - 1 : once[i] = WithoutTop(s)[i]
      /\ once[(n - 1) + 1] = c
  BY <1>1, AppendFacts
<1>3. /\ WithTop(s, c) \in Seq(CallSet) /\ Len(WithTop(s, c)) = n
      /\ \A i \in 1..n : i # n => WithTop(s, c)[i] = s[i]
      /\ WithTop(s, c)[n] = c
  BY WithTopFacts
<1> HIDE DEF once, n
<1>4. (n - 1) + 1 = n /\ \A i \in 1..n : i # n => i \in 1..n - 1
  BY <1>1
<1>5. \A i \in 1..n : once[i] = WithTop(s, c)[i]
  BY <1>1, <1>2, <1>3, <1>4
<1>6. once = WithTop(s, c)
  BY <1>2, <1>3, <1>4, <1>5, SeqEqual
<1>7. WithoutTop(s) \o <<c, d>> = Append(once, d)
  BY <1>1, PushTwo DEF once
<1>8. QED
  BY <1>6, <1>7 DEF once

\* The call for the higher part.
LEMMA HigherSorts ==
    ASSUME IInv, SortInv, NEW t \in Thread, stack[t] # <<>>,
           Last(stack[t]).step \in {"test", "push_back"}, SortHigher(t),
           UNCHANGED <<key, chunks, lower, promise>>
    PROVE  SortInv'
<1> DEFINE s == stack[t]
           c == [Last(s) EXCEPT !.step = "higher"]
           d == Call(Last(s).data, Whole)
           once == WithTop(s, c)
           calls == Append(once, d)
           n == Len(s)
<1>1. s \in Seq(CallSet) /\ s # <<>> /\ Last(s) \in CallSet /\ Last(s) = s[n]
      /\ n \in Nat \ {0} /\ n \in 1..n
  <2>1. s \in Seq(CallSet) /\ s # <<>>
    BY DEF IInv, TypeOK
  <2>2. Len(s) \in Nat \ {0}
    BY <2>1, EmptySeq
  <2>3. Len(s) \in 1..Len(s)
    BY <2>2
  <2>4. QED
    BY <2>1, <2>2, <2>3, ElementOfSeq DEF Last
<1>2. /\ c \in CallSet /\ c.step = "higher" /\ c.data = Last(s).data
      /\ c.to = Last(s).to /\ c.pivot = Last(s).pivot
  BY <1>1 DEF CallSet
<1>3. d \in CallSet /\ d.step = "sort" /\ d.data = c.data /\ d.to = Whole /\ d.pivot = Whole
  BY <1>1, EmptySeq DEF Call, CallSet, Pivot
<1>4. stack' = [stack EXCEPT ![t] = WithoutTop(s) \o <<c, d>>]
  BY DEF SortHigher, Below, WithoutTop, Top, Last
<1> HIDE DEF c, d
<1>5. stack' = [stack EXCEPT ![t] = calls]
  BY <1>1, <1>2, <1>3, <1>4, BelowAndTwo
<1>6. StackOK(t, s, lower) /\ Good(c, Target(s, n, lower), lower)
  <2>1. StackOK(t, s, lower)
    BY DEF SortInv, CallsInv
  <2>2. Good(Last(s), Target(s, n, lower), lower)
    BY <1>1, <2>1 DEF StackOK
  <2>3. QED
    BY <1>2, <2>1, <2>2 DEF Good, WaitSteps
<1>7. /\ once \in Seq(CallSet) /\ once # <<>> /\ Last(once) = c /\ Len(once) = n
      /\ \A i \in 1..n : i # n => once[i] = s[i]
      /\ once[n] = c
  BY <1>1, <1>2, WithTopFacts
<1>8. /\ StackOK(t, once, lower)
      /\ \A e : Unused(e, s) => Unused(e, once)
      /\ \A rank : Rising(s, rank) => Rising(once, rank)
  <2>1. \A e : Unused(e, s) => c.pivot # e
    BY <1>1, <1>2 DEF Unused
  <2>2. QED
    BY <1>1, <1>2, <1>6, <2>1, TopChanges
<1>9. /\ calls \in Seq(CallSet) /\ Len(calls) = n + 1
      /\ \A i \in 1..n : calls[i] = once[i]
      /\ calls[n + 1] = d
  BY <1>3, <1>7, AppendFacts
<1>10. /\ StackOK(t, calls, lower)
       /\ \A e \in Element : Unused(e, s) => Unused(e, calls)
       /\ \A rank : Rising(s, rank) => Rising(calls, rank)
       /\ PendingOf(calls) = c.data
  <2>1. \A e \in Element : d.to # e /\ d.pivot # e
    BY <1>3, SorterAssumption
  <2>2. QED
    BY <1>2, <1>3, <1>7, <1>8, <2>1, CallStarts
<1> HIDE DEF once
<1>11. calls # <<>>
  BY <1>3, <1>7, AppendFacts
<1> HIDE DEF calls, n
<1>12. PendingOf(calls) \subseteq PendingOf(s)
  BY <1>1, <1>2, <1>10 DEF PendingOf, PendingSteps, StoringSteps
<1>13. CallsInv'
  BY <1>5, <1>10, CallsLater DEF SortInv
<1>14. FreshInv' /\ Apart'
  BY <1>5, <1>10, <1>12, ApartLater DEF SortInv
<1>15. PromiseInv'
  <2>1. (stack'[Main] # <<>>) <=> (stack[Main] # <<>>)
    BY <1>1, <1>5, <1>11, OnlyItsCalls DEF Thread
  <2>2. QED
    BY <2>1 DEF PromiseInv, Sorts, SortInv
<1>16. KeptInv'
  <2>1. \A i \in 1..n : i \in 1..n + 1 /\ calls[i].to = s[i].to
    BY <1>1, <1>2, <1>7, <1>9
  <2>2. ASSUME NEW p \in Element PROVE Kept(p) => Kept(p)'
    <3>1. promise[p] # <<>> => promise'[p] # <<>>
      OBVIOUS
    <3>2. (\E i \in 1..Len(chunks) : chunks[i] = p)
              => (\E i \in 1..Len(chunks') : chunks'[i] = p)
      OBVIOUS
    <3>3. (\E i \in 1..Len(stack[t]) : stack[t][i].to = p)
              => (\E i \in 1..Len(calls) : calls[i].to = p)
      BY <1>9, <2>1 DEF n
    <3>4. QED
      BY <1>5, <3>1, <3>2, <3>3, NothingLost
  <2>3. ASSUME NEW i \in 1..Len(calls), calls[i].step # "sort"
        PROVE  \E j \in 1..Len(s) : s[j].step # "sort" /\ s[j].pivot = calls[i].pivot
    <3>1. i \in 1..n + 1 /\ i # n + 1
      BY <1>3, <1>9, <2>3
    <3>2. i \in 1..n /\ calls[i] = once[i]
      BY <1>1, <1>9, <3>1
    <3>3. CASE i = n
      BY <1>1, <1>2, <1>7, <3>2, <3>3 DEF n
    <3>4. CASE i # n
      BY <1>7, <2>3, <3>2, <3>4 DEF n
    <3>5. QED
      BY <3>3, <3>4
  <2>4. QED
    BY <1>5, <2>2, <2>3, KeptLater DEF SortInv
<1>17. RankInv'
  BY <1>5, <1>10, RankLater DEF SortInv
<1>18. QED
  BY <1>13, <1>14, <1>15, <1>16, <1>17 DEF SortInv

\* A sorted list is returned.
LEMMA ReturningSorts ==
    ASSUME IInv, SortInv, NEW t \in Thread, stack[t] # <<>>,
           NEW list \in Seq(Pivot), Return(t, list), UNCHANGED key,
           Sorts(list, Target(stack[t], Len(stack[t]), lower))
    PROVE  SortInv'
<1> DEFINE s == stack[t]
           n == Len(s)
           rest == WithoutTop(s)
           to == Last(s).to
           inner == rest # <<>> /\ Last(rest).step = "higher"
           w == [Last(rest) EXCEPT !.step = "wait", !.higher = list]
           calls == IF inner THEN WithTop(rest, w) ELSE rest
<1>1. /\ s \in Seq(CallSet) /\ s # <<>> /\ Inner(s) /\ Last(s) \in CallSet /\ Last(s) = s[n]
      /\ n \in Nat \ {0} /\ n \in 1..n
  <2>1. s \in Seq(CallSet) /\ s # <<>> /\ Inner(s)
    BY DEF IInv, TypeOK, InnerInv
  <2>2. Len(s) \in Nat \ {0}
    BY <2>1, EmptySeq
  <2>3. Len(s) \in 1..Len(s)
    BY <2>2
  <2>4. QED
    BY <2>1, <2>2, <2>3, ElementOfSeq DEF Last
<1>2. StackOK(t, s, lower)
  BY DEF SortInv, CallsInv
<1> HIDE DEF s
<1>3. /\ rest \in Seq(CallSet) /\ Len(rest) = n - 1
      /\ \A i \in 1..n - 1 : rest[i] = s[i]
      /\ rest = <<>> <=> n = 1
      /\ rest # <<>> => (n - 1 \in 1..n - 1 /\ Last(rest) = s[n - 1] /\ Last(rest) = rest[n - 1])
      /\ rest # <<>> => Last(rest).step \in {"higher", "wait"}
  <2>1. /\ rest \in Seq(CallSet) /\ Len(rest) = n - 1
        /\ \A i \in 1..n - 1 : rest[i] = s[i]
        /\ rest = <<>> <=> n = 1
        /\ rest # <<>> => Last(rest) = s[n - 1]
    BY <1>1, WithoutTopFacts
  <2> HIDE DEF rest, n
  <2>2. rest # <<>> => n - 1 \in 1..n - 1
    BY <1>1, <2>1
  <2>3. rest # <<>> => s[n - 1].step \in {"higher", "wait"}
    BY <1>1, <2>2 DEF Inner, n
  <2>4. QED
    BY <2>1, <2>2, <2>3
<1>4. to \in Pivot /\ ((to = Whole) <=> (IF rest = <<>> THEN t = Main ELSE inner))
  <2>1. to \in Pivot
    BY <1>1 DEF CallSet
  <2>2. (to = Whole) <=> (IF n = 1 THEN t = Main ELSE s[n - 1].step = "higher")
    BY <1>1, <1>2 DEF StackOK
  <2> HIDE DEF rest, to, n
  <2>3. QED
    BY <1>3, <2>1, <2>2
<1>5. /\ stack' = [stack EXCEPT ![t] = calls]
      /\ promise' = IF inner THEN promise ELSE [promise EXCEPT ![to] = <<list>>]
      /\ UNCHANGED <<chunks, lower>>
  BY DEF Return, Below, WithoutTop, WithTop, Top, Last, s
<1>6. inner => (w \in CallSet /\ w.step = "wait" /\ w.to = Last(rest).to
                 /\ w.pivot = Last(rest).pivot /\ w.data = Last(rest).data
                 /\ w.higher = list)
  <2> SUFFICES ASSUME inner PROVE w \in CallSet /\ w.step = "wait" /\ w.to = Last(rest).to
                 /\ w.pivot = Last(rest).pivot /\ w.data = Last(rest).data
                 /\ w.higher = list
    OBVIOUS
  <2>1. Last(rest) \in CallSet
    BY <1>3, ElementOfSeq
  <2> HIDE DEF rest
  <2>2. QED
    BY <2>1 DEF CallSet
<1>7. Sorts(list, IF inner THEN Last(rest).data ELSE IF to = Whole THEN Element ELSE lower[to])
  <2>1. Target(s, n, lower) = IF to # Whole THEN lower[to]
                              ELSE IF n = 1 THEN Element ELSE s[n - 1].data
    BY <1>1 DEF Target
  <2>2. Target(s, n, lower) =
            IF inner THEN Last(rest).data ELSE IF to = Whole THEN Element ELSE lower[to]
    <3> HIDE DEF rest, to, n
    <3>1. QED
      BY <1>3, <1>4, <2>1
  <2>3. QED
    BY <2>2 DEF s
<1> HIDE DEF rest, to, w
<1>8. /\ StackOK(t, rest, lower)
      /\ \A e : Unused(e, s) => Unused(e, rest)
      /\ \A rank : Rising(s, rank) => Rising(rest, rank)
  BY <1>1, <1>2, TopReturns DEF rest
<1>9. inner => /\ WithTop(rest, w) \in Seq(CallSet) /\ WithTop(rest, w) # <<>>
               /\ Len(WithTop(rest, w)) = Len(rest) /\ Last(WithTop(rest, w)) = w
               /\ \A i \in 1..Len(rest) : i # Len(rest) => WithTop(rest, w)[i] = rest[i]
               /\ WithTop(rest, w)[Len(rest)] = w
  BY <1>3, <1>6, WithTopFacts
<1>10. /\ StackOK(t, calls, lower)
       /\ \A e : Unused(e, s) => Unused(e, calls)
       /\ \A rank : Rising(s, rank) => Rising(calls, rank)
  <2>1. CASE ~inner
    BY <1>8, <2>1
  <2>2. CASE inner
    <3>1. Good(Last(rest), Target(rest, Len(rest), lower), lower)
      <4>1. Len(rest) \in 1..Len(rest)
        BY <1>3, <2>2
      <4>2. Last(rest) = rest[Len(rest)]
        BY DEF Last
      <4>3. QED
        BY <1>8, <4>1, <4>2 DEF StackOK
    <3>2. Good(w, Target(rest, Len(rest), lower), lower)
      BY <1>6, <1>7, <2>2, <3>1 DEF Good
    <3>3. \A e : Unused(e, rest) => w.pivot # e
      <4>1. Len(rest) \in 1..Len(rest) /\ Last(rest) = rest[Len(rest)]
        BY <1>3, <2>2
      <4>2. QED
        BY <1>6, <2>2, <4>1 DEF Unused
    <3>4. /\ StackOK(t, WithTop(rest, w), lower)
          /\ \A e : Unused(e, rest) => Unused(e, WithTop(rest, w))
          /\ \A rank : Rising(rest, rank) => Rising(WithTop(rest, w), rank)
      BY <1>3, <1>6, <1>8, <2>2, <3>2, <3>3, TopChanges
    <3>5. QED
      BY <1>8, <2>2, <3>4
  <2>3. QED
    BY <2>1, <2>2
<1>11. PendingOf(calls) = {}
  <2>1. calls # <<>> => Last(calls).step = "wait"
    BY <1>3, <1>6, <1>9
  <2> HIDE DEF calls
  <2>2. QED
    BY <2>1 DEF PendingOf, PendingSteps, StoringSteps
<1>12. \A p \in Pivot : /\ p = to /\ ~inner => promise'[p] = <<list>>
                        /\ p # to \/ inner => promise'[p] = promise[p]
  BY <1>4, <1>5 DEF IInv, TypeOK
<1>13. <<list>> # <<>> /\ <<list>>[1] = list
  OBVIOUS
<1>14. CallsInv'
  <2> HIDE DEF calls
  <2>1. QED
    BY <1>5, <1>10, CallsLater DEF SortInv
<1>15. FreshInv' /\ Apart'
  <2>1. ASSUME NEW e \in Element, Unused(e, s), promise[e] = <<>> PROVE promise'[e] = <<>>
    <3>1. e # to
      BY <1>1, <2>1 DEF Unused, to, n
    <3>2. QED
      BY <1>12, <2>1, <3>1 DEF Pivot
  <2> HIDE DEF calls
  <2>2. QED
    BY <1>5, <1>10, <1>11, <2>1, ApartLater DEF SortInv, s
<1>16. PromiseInv'
  <2>1. ASSUME NEW p \in Element, promise'[p] # <<>> PROVE Sorts(promise'[p][1], lower[p])
    <3>1. p # Whole /\ p \in Pivot
      BY SorterAssumption DEF Pivot
    <3>2. CASE p = to /\ ~inner
      BY <1>7, <1>12, <1>13, <3>1, <3>2
    <3>3. CASE p # to \/ inner
      BY <1>12, <2>1, <3>1, <3>3 DEF SortInv, PromiseInv
    <3>4. QED
      BY <3>2, <3>3
  <2>2. promise'[Whole] # <<>> => Sorts(promise'[Whole][1], Element)
    <3>1. CASE to = Whole /\ ~inner
      BY <1>7, <1>12, <1>13, <3>1 DEF Pivot
    <3>2. CASE to # Whole \/ inner
      BY <1>12, <3>2 DEF SortInv, PromiseInv, Pivot
    <3>3. QED
      BY <3>1, <3>2
  <2>3. (promise'[Whole] = <<>>) <=> (stack'[Main] # <<>>)
    <3>1. CASE t = Main
      <4>1. stack'[Main] = calls /\ promise[Whole] = <<>>
        <5> HIDE DEF calls
        <5>1. stack'[Main] = calls
          BY <1>5, <3>1, OnlyItsCalls
        <5>2. QED
          BY <3>1, <5>1 DEF SortInv, PromiseInv
      <4>2. CASE rest = <<>>
        BY <1>4, <1>12, <1>13, <3>1, <4>1, <4>2 DEF Pivot
      <4>3. CASE rest # <<>>
        <5>1. calls # <<>>
          BY <1>9, <4>3
        <5>2. to # Whole \/ inner
          BY <1>4, <4>3
        <5>3. QED
          BY <1>12, <4>1, <5>1, <5>2 DEF Pivot
      <4>4. QED
        BY <4>2, <4>3
    <3>2. CASE t # Main
      <4>1. stack'[Main] = stack[Main]
        BY <1>5, <3>2, OnlyItsCalls DEF Thread
      <4>2. to # Whole \/ inner
        BY <1>4, <3>2
      <4>3. QED
        BY <1>12, <4>1, <4>2 DEF SortInv, PromiseInv, Pivot
    <3>3. QED
      BY <3>1, <3>2
  <2>4. lower' = lower /\ key' = key
    BY <1>5
  <2>5. QED
    BY <2>1, <2>2, <2>3, <2>4 DEF PromiseInv, Sorts
<1>17. KeptInv'
  <2>1. Len(calls) = n - 1 /\ \A i \in 1..n - 1 : /\ calls[i].to = s[i].to
                                                 /\ calls[i].pivot = s[i].pivot
                                                 /\ s[i].step # "sort"
    <3>1. \A i \in 1..n - 1 : s[i].step # "sort"
      BY <1>1 DEF Inner, n
    <3>2. CASE ~inner
      BY <1>3, <3>1, <3>2
    <3>3. CASE inner
      BY <1>3, <1>6, <1>9, <3>1, <3>3
    <3>4. QED
      BY <3>2, <3>3
  <2>2. \A i \in 1..n : i # n => i \in 1..n - 1
    BY <1>1
  <2>3. \A i \in 1..n - 1 : i \in 1..n
    BY <1>1
  <2> HIDE DEF calls, n
  <2>4. ASSUME NEW p \in Element PROVE Kept(p) => Kept(p)'
    <3>1. promise[p] # <<>> => promise'[p] # <<>>
      BY <1>12, <1>13 DEF Pivot
    <3>2. (\E i \in 1..Len(chunks) : chunks[i] = p)
              => (\E i \in 1..Len(chunks') : chunks'[i] = p)
      BY <1>5
    <3>3. ASSUME NEW i \in 1..n, s[i].to = p
          PROVE  (\E j \in 1..Len(calls) : calls[j].to = p) \/ promise'[p] # <<>>
      <4>1. CASE i = n
        <5>1. p = to /\ p # Whole /\ p \in Pivot
          BY <1>1, <3>3, <4>1, SorterAssumption DEF to, Pivot
        <5>2. CASE inner
          <6>1. rest # <<>> /\ to = Whole
            BY <1>4, <5>2
          <6>2. QED
            BY <5>1, <6>1
        <5>3. CASE ~inner
          BY <1>12, <1>13, <5>1, <5>3
        <5>4. QED
          BY <5>2, <5>3
      <4>2. CASE i # n
        BY <2>1, <2>2, <3>3, <4>2
      <4>3. QED
        BY <4>1, <4>2
    <3>4. (\E i \in 1..Len(stack[t]) : stack[t][i].to = p)
              => ((\E i \in 1..Len(calls) : calls[i].to = p) \/ promise'[p] # <<>>)
      BY <3>3 DEF n, s
    <3>5. QED
      BY <1>5, <3>1, <3>2, <3>4, NothingLost
  <2>5. \A i \in 1..Len(calls) :
            \E j \in 1..Len(stack[t]) : /\ stack[t][j].step # "sort"
                                        /\ stack[t][j].pivot = calls[i].pivot
    BY <2>1, <2>3 DEF n, s
  <2>6. QED
    BY <1>5, <2>4, <2>5, KeptLater DEF SortInv
<1>18. RankInv'
  <2> HIDE DEF calls
  <2>1. QED
    BY <1>5, <1>10, RankLater DEF SortInv, s
<1>19. QED
  BY <1>14, <1>15, <1>16, <1>17, <1>18 DEF SortInv

\* A chunk is taken by a thread that has nothing of its own to sort.
LEMMA TakingSorts ==
    ASSUME IInv, SortInv, NEW t \in Thread, NEW calls \in Seq(CallSet),
           StackOK(t, calls, lower), Len(calls) = Len(stack[t]),
           \A i \in 1..Len(calls) : /\ calls[i].to = stack[t][i].to
                                    /\ calls[i].pivot = stack[t][i].pivot
                                    /\ stack[t][i].step # "sort",
           \A rank : Rising(stack[t], rank) => Rising(calls, rank),
           IF calls = <<>> THEN t # Main ELSE Last(calls).step = "wait",
           TrySortChunk(t, calls), UNCHANGED <<key, lower, promise>>
    PROVE  SortInv'
<1> DEFINE p == Head(chunks)
           c == Call(lower[p], p)
           s == stack[t]
           n == Len(s)
           m == Len(chunks)
           now == Append(calls, c)
<1>1. /\ chunks \in Seq(Element) /\ m \in Nat \ {0} /\ 1 \in 1..m
      /\ p \in Element /\ p = chunks[1] /\ chunks' \in Seq(Element) /\ Len(chunks') = m - 1
      /\ \A i \in 1..m - 1 : chunks'[i] = chunks[i + 1]
  <2>1. chunks \in Seq(Element) /\ chunks # <<>> /\ chunks' = Tail(chunks)
    BY DEF TrySortChunk, Popped, IInv, TypeOK
  <2>2. m \in Nat \ {0}
    BY <2>1, EmptySeq
  <2>3. 1 \in 1..m
    BY <2>2
  <2>4. QED
    BY <2>1, <2>2, <2>3, HeadTailProperties
<1> HIDE DEF p, m
<1>2. /\ \A i \in 1..m - 1 : i \in 1..m /\ i + 1 \in 1..m /\ i + 1 # 1
      /\ \A i \in 1..m : i # 1 => (i - 1 \in 1..m - 1 /\ chunks'[i - 1] = chunks[i])
  <2>1. \A i \in 1..m : i # 1 => (i - 1 \in 1..m - 1 /\ (i - 1) + 1 = i)
    BY <1>1
  <2>2. QED
    BY <1>1, <2>1
<1>3. /\ stack' = [stack EXCEPT ![t] = now]
      /\ s \in Seq(CallSet) /\ n \in Nat /\ Len(calls) = n
  BY LenProperties DEF TrySortChunk, p, IInv, TypeOK
<1>4. c \in CallSet /\ c.step = "sort" /\ c.to = p /\ c.pivot = Whole /\ c.data = lower[p]
  BY <1>1, EmptySeq DEF Call, CallSet, Pivot, IInv, TypeOK
<1>5. p # Whole /\ \A e \in Element : e # Whole
  BY <1>1, SorterAssumption
<1> HIDE DEF c
<1>6. /\ now \in Seq(CallSet) /\ now # <<>> /\ Len(now) = n + 1
      /\ \A i \in 1..n : now[i] = calls[i]
      /\ now[n + 1] = c
  BY <1>3, <1>4, AppendFacts
<1>7. /\ StackOK(t, now, lower)
      /\ \A e \in Element : Unused(e, s) /\ e # p => Unused(e, now)
      /\ \A rank : Rising(s, rank) => Rising(now, rank)
      /\ PendingOf(now) = lower[p]
  <2>1. \A e : Unused(e, s) => Unused(e, calls)
    BY <1>3 DEF Unused
  <2>2. (c.to = Whole) <=> (IF calls = <<>> THEN t = Main ELSE Last(calls).step = "higher")
    BY <1>4, <1>5
  <2>3. c.data = IF c.to # Whole THEN lower[c.to]
                 ELSE IF calls = <<>> THEN Element ELSE Last(calls).data
    BY <1>4, <1>5
  <2>4. StackOK(t, now, lower)
    BY <1>4, <2>2, <2>3, CallStarts
  <2>5. QED
    BY <1>4, <1>5, <2>1, <2>4, CallStarts
<1> HIDE DEF now
<1>8. \A i \in 1..m : chunks[i] \in Element /\ lower[chunks[i]] \in SUBSET Element
  <2>1. \A i \in 1..m : chunks[i] \in Element
    BY <1>1, ElementOfSeq DEF m
  <2>2. QED
    BY <2>1 DEF IInv, TypeOK
<1>9. /\ \A u \in Thread : u # t => stack'[u] = stack[u]
      /\ stack'[t] = now
  BY <1>3, OnlyItsCalls
<1>10. CallsInv'
  BY <1>3, <1>7, CallsLater DEF SortInv
<1>11. ASSUME NEW e \in Element, Fresh(e) PROVE Fresh(e)'
  <2>1. e # p
    BY <1>1, <1>11 DEF Fresh, m
  <2>2. \A u \in Thread : Unused(e, stack'[u])
    BY <1>7, <1>9, <1>11, <2>1 DEF Fresh
  <2>3. \A i \in 1..Len(chunks') : chunks'[i] # e
    BY <1>1, <1>2, <1>11 DEF Fresh, m
  <2>4. QED
    BY <1>11, <2>2, <2>3 DEF Fresh, Unused
<1>12. \A u \in Thread : PendingOf(stack[u])' = PendingOf(stack'[u])
  BY DEF PendingOf, Last
<1>13. FreshInv'
  <2>1. ASSUME NEW u \in Thread, NEW e \in PendingOf(stack'[u]) PROVE Fresh(e)'
    <3>1. Fresh(e) /\ e \in Element
      <4>1. CASE u = t
        <5>1. e \in lower[chunks[1]]
          BY <1>1, <1>7, <1>9, <2>1, <4>1
        <5>2. QED
          BY <1>1, <1>8, <5>1 DEF SortInv, FreshInv, m
      <4>2. CASE u # t
        <5>1. e \in PendingOf(stack[u])
          BY <1>9, <2>1, <4>2
        <5>2. QED
          BY <5>1, PendingElements DEF SortInv, FreshInv
      <4>3. QED
        BY <4>1, <4>2
    <3>2. QED
      BY <1>11, <3>1
  <2>2. ASSUME NEW i \in 1..m - 1, NEW e \in lower[chunks'[i]] PROVE Fresh(e)'
    <3>1. i + 1 \in 1..m /\ chunks'[i] = chunks[i + 1]
      BY <1>1, <1>2
    <3>2. Fresh(e) /\ e \in Element
      BY <1>8, <2>2, <3>1 DEF SortInv, FreshInv, m
    <3>3. QED
      BY <1>11, <3>2
  <2> HIDE DEF Fresh
  <2>3. \A u \in Thread : \A e \in PendingOf(stack[u])' : Fresh(e)'
    BY <1>12, <2>1
  <2>4. QED
    BY <1>1, <2>2, <2>3 DEF FreshInv
<1>14. Apart'
  <2>1. /\ \A u \in Thread : \A i \in 1..m : PendingOf(stack[u]) \cap lower[chunks[i]] = {}
        /\ \A i, j \in 1..m : i # j => lower[chunks[i]] \cap lower[chunks[j]] = {}
        /\ \A u, v \in Thread : u # v => PendingOf(stack[u]) \cap PendingOf(stack[v]) = {}
    BY DEF SortInv, Apart, m
  <2>2. PendingOf(stack'[t]) = lower[chunks[1]]
    BY <1>1, <1>7, <1>9
  <2>3. \A u, v \in Thread : u # v => PendingOf(stack'[u]) \cap PendingOf(stack'[v]) = {}
    <3>1. \A v \in Thread : v # t => PendingOf(stack'[v]) \cap lower[chunks[1]] = {}
      BY <1>1, <1>9, <2>1
    <3>2. ASSUME NEW u \in Thread, NEW v \in Thread, u # v
          PROVE  PendingOf(stack'[u]) \cap PendingOf(stack'[v]) = {}
      <4>1. CASE u = t
        BY <2>2, <3>1, <3>2, <4>1
      <4>2. CASE v = t
        BY <2>2, <3>1, <3>2, <4>2
      <4>3. CASE u # t /\ v # t
        BY <1>9, <2>1, <3>2, <4>3
      <4>4. QED
        BY <4>1, <4>2, <4>3
    <3>3. QED
      BY <3>2
  <2>4. \A i \in 1..m - 1 : i + 1 \in 1..m /\ i + 1 # 1 /\ chunks'[i] = chunks[i + 1]
    BY <1>1, <1>2
  <2>5. \A u \in Thread : \A i \in 1..m - 1 : PendingOf(stack'[u]) \cap lower[chunks'[i]] = {}
    <3> SUFFICES ASSUME NEW u \in Thread, NEW i \in 1..m - 1
                 PROVE  PendingOf(stack'[u]) \cap lower[chunks'[i]] = {}
      OBVIOUS
    <3>1. i + 1 \in 1..m /\ 1 # i + 1 /\ chunks'[i] = chunks[i + 1]
      BY <2>4
    <3>2. CASE u = t
      BY <1>1, <2>1, <2>2, <3>1, <3>2
    <3>3. CASE u # t
      BY <1>9, <2>1, <3>1, <3>3
    <3>4. QED
      BY <3>2, <3>3
  <2>6. \A i, j \in 1..m - 1 : i # j => lower[chunks'[i]] \cap lower[chunks'[j]] = {}
    <3> SUFFICES ASSUME NEW i \in 1..m - 1, NEW j \in 1..m - 1, i # j
                 PROVE  lower[chunks'[i]] \cap lower[chunks'[j]] = {}
      OBVIOUS
    <3>1. i + 1 # j + 1
      BY <1>1
    <3>2. QED
      BY <2>1, <2>4, <3>1
  <2>7. lower' = lower
    OBVIOUS
  <2>8. QED
    BY <1>1, <1>12, <2>3, <2>5, <2>6, <2>7 DEF Apart
<1>15. PromiseInv'
  <2>1. (stack'[Main] # <<>>) <=> (stack[Main] # <<>>)
    <3>1. CASE t = Main
      <4>1. stack[Main] # <<>>
        <5>1. calls # <<>>
          BY <3>1
        <5>2. n # 0
          BY <1>3, <5>1, EmptySeq
        <5>3. QED
          BY <3>1, <5>2, EmptySeq DEF n, s
      <4>2. QED
        BY <1>6, <1>9, <3>1, <4>1
    <3>2. CASE t # Main
      BY <1>9, <3>2 DEF Thread
    <3>3. QED
      BY <3>1, <3>2
  <2>2. QED
    BY <2>1 DEF PromiseInv, Sorts, SortInv
<1>16. KeptInv'
  <2>1. n + 1 \in 1..n + 1 /\ \A i \in 1..n : i \in 1..n + 1
    BY <1>3
  <2>2. \A i \in 1..n + 1 : i # n + 1 => i \in 1..n
    BY <1>3
  <2>3. ASSUME NEW q \in Element PROVE Kept(q) => Kept(q)'
    <3>1. promise[q] # <<>> => promise'[q] # <<>>
      OBVIOUS
    <3>2. (\E i \in 1..Len(chunks) : chunks[i] = q)
              => (\/ \E i \in 1..Len(chunks') : chunks'[i] = q
                  \/ \E i \in 1..Len(now) : now[i].to = q)
      <4> SUFFICES ASSUME NEW i \in 1..m, chunks[i] = q
                   PROVE  \/ \E j \in 1..Len(chunks') : chunks'[j] = q
                          \/ \E j \in 1..Len(now) : now[j].to = q
        BY DEF m
      <4>1. CASE i = 1
        BY <1>1, <1>4, <1>6, <2>1, <4>1
      <4>2. CASE i # 1
        BY <1>1, <1>2, <4>2
      <4>3. QED
        BY <4>1, <4>2
    <3>3. (\E i \in 1..Len(stack[t]) : stack[t][i].to = q)
              => (\E i \in 1..Len(now) : now[i].to = q)
      BY <1>3, <1>6, <2>1 DEF n, s
    <3>4. QED
      BY <1>3, <3>1, <3>2, <3>3, NothingLost
  <2>4. ASSUME NEW i \in 1..Len(now), now[i].step # "sort"
        PROVE  \E j \in 1..Len(stack[t]) : /\ stack[t][j].step # "sort"
                                           /\ stack[t][j].pivot = now[i].pivot
    <3>1. i \in 1..n + 1 /\ i # n + 1
      BY <1>4, <1>6, <2>4
    <3>2. i \in 1..n
      BY <2>2, <3>1
    <3>3. QED
      BY <1>3, <1>6, <3>2 DEF n, s
  <2>5. QED
    BY <1>3, <2>3, <2>4, KeptLater DEF SortInv
<1>17. RankInv'
  BY <1>3, <1>7, RankLater DEF SortInv, s
<1>18. QED
  BY <1>10, <1>13, <1>14, <1>15, <1>16, <1>17 DEF SortInv

\* The list is split, and its lower part becomes a chunk with the name of the pivot.
LEMMA SplittingSorts ==
    ASSUME IInv, SortInv, NEW t \in Thread, Split(t), UNCHANGED key
    PROVE  SortInv'
<1> DEFINE s == stack[t]
           n == Len(s)
           m == Len(chunks)
           data == Last(s).data
<1>1. /\ s \in Seq(CallSet) /\ s # <<>> /\ n \in Nat \ {0} /\ n \in 1..n
      /\ Last(s) \in CallSet /\ Last(s) = s[n] /\ Last(s).step = "sort"
      /\ data \in SUBSET Element /\ PendingOf(s) = data
  <2>1. At(t, "sort")
    BY DEF Split
  <2>2. s \in Seq(CallSet) /\ s # <<>> /\ Last(s) \in CallSet /\ Last(s).step = "sort"
    BY <2>1, AtFacts
  <2>3. n \in Nat \ {0}
    BY <2>2, EmptySeq
  <2>4. n \in 1..n
    BY <2>3
  <2>5. data \in SUBSET Element
    BY <2>2 DEF CallSet
  <2>6. PendingOf(s) = data
    BY <2>2 DEF PendingOf, PendingSteps
  <2>7. QED
    BY <2>2, <2>3, <2>4, <2>5, <2>6 DEF Last
<1>2. PICK p \in data :
         /\ chunks' = <<p>> \o chunks
         /\ lower' = [lower EXCEPT ![p] = {e \in data : key[e] < key[p]}]
         /\ Becomes(t, [Last(s) EXCEPT !.step = "test", !.pivot = p,
                            !.data = @ \ ({e \in data : key[e] < key[p]} \cup {p})])
         /\ promise' = promise
  BY DEF Split, Top, Last
<1> DEFINE less == {e \in data : key[e] < key[p]}
           c == [Last(s) EXCEPT !.step = "test", !.pivot = p, !.data = @ \ (less \cup {p})]
           now == WithTop(s, c)
<1>3. stack' = [stack EXCEPT ![t] = now] /\ lower' = [lower EXCEPT ![p] = less]
  BY <1>2 DEF Becomes, WithTop
<1>4. /\ p \in Element /\ less \in SUBSET Element /\ less \subseteq data /\ p \notin less
      /\ key \in [Element -> Int]
      /\ \A e \in less : key[e] < key[p]
      /\ \A e \in data \ less : key[p] <= key[e]
  <2>1. key \in [Element -> Int]
    BY DEF SortInv
  <2> HIDE DEF data
  <2>2. QED
    BY <1>1, <2>1
<1>5. c.step = "test" /\ c.pivot = p /\ c.data = data \ (less \cup {p}) /\ c.to = Last(s).to
  BY <1>1 DEF CallSet
<1>6. c \in CallSet
  BY <1>1, <1>4 DEF CallSet, Pivot
<1> HIDE DEF data, less, c
<1>7. /\ chunks \in Seq(Element) /\ m \in Nat /\ lower \in [Element -> SUBSET Element]
      /\ \A i \in 1..m : chunks[i] \in Element
      /\ chunks' \in Seq(Element) /\ Len(chunks') = m + 1
      /\ chunks'[1] = p
      /\ \A i \in 1..m : chunks'[i + 1] = chunks[i]
  <2>1. /\ chunks \in Seq(Element) /\ m \in Nat /\ lower \in [Element -> SUBSET Element]
        /\ \A i \in 1..m : chunks[i] \in Element
    BY LenProperties, ElementOfSeq DEF IInv, TypeOK
  <2>2. <<p>> \in Seq(Element) /\ Len(<<p>>) = 1 /\ <<p>>[1] = p
    BY <1>4
  <2> HIDE DEF m
  <2>3. /\ chunks' \in Seq(Element) /\ Len(chunks') = 1 + m
        /\ \A i \in 1..1 + m : chunks'[i] = IF i <= 1 THEN <<p>>[i] ELSE chunks[i - 1]
    BY <1>2, <2>1, <2>2, ConcatProperties DEF m
  <2>4. 1 \in 1..1 + m
    BY <2>1
  <2>5. \A i \in 1..m : i + 1 \in 1..1 + m /\ ~(i + 1 <= 1) /\ (i + 1) - 1 = i
    BY <2>1
  <2>6. chunks'[1] = p
    BY <2>2, <2>3, <2>4
  <2>7. \A i \in 1..m : chunks'[i + 1] = chunks[i]
    BY <2>3, <2>5
  <2>8. 1 + m = m + 1
    BY <2>1
  <2>9. QED
    BY <2>1, <2>3, <2>6, <2>7, <2>8
<1>8. /\ 1 \in 1..m + 1
      /\ \A i \in 1..m : i + 1 \in 1..m + 1
      /\ \A i \in 1..m + 1 : i # 1 => (i - 1 \in 1..m /\ chunks'[i] = chunks[i - 1])
  <2>1. \A i \in 1..m + 1 : i # 1 => (i - 1 \in 1..m /\ (i - 1) + 1 = i)
    BY <1>7
  <2>2. 1 \in 1..m + 1 /\ \A i \in 1..m : i + 1 \in 1..m + 1
    BY <1>7
  <2>3. QED
    BY <1>7, <2>1, <2>2
<1>9. Fresh(p)
  BY <1>1 DEF SortInv, FreshInv
<1>10. /\ \A i \in 1..m : chunks[i] # p
       /\ \A u \in Thread : Unused(p, stack[u])
       /\ promise[p] = <<>>
  BY <1>9 DEF Fresh
<1>11. lower'[p] = less /\ \A e \in Element : e # p => lower'[e] = lower[e]
  BY <1>3, <1>4, <1>7
<1>12. \A u \in Thread : /\ stack[u] \in Seq(CallSet)
                         /\ u # t => stack'[u] = stack[u]
                         /\ u = t => stack'[u] = now
  <2> HIDE DEF now
  <2>1. QED
    BY <1>3, OnlyItsCalls
<1>13. \A u \in Thread : StackOK(u, stack[u], lower')
  BY <1>3, <1>4, <1>7, <1>10, <1>12, ChunkIsNew DEF SortInv, CallsInv
<1>14. StackOK(t, now, lower') /\ \A e : Unused(e, s) /\ e # p => Unused(e, now)
  <2>1. Target(s, n, lower') = data
    <3>1. Good(Last(s), Target(s, n, lower'), lower')
      BY <1>1, <1>13 DEF StackOK
    <3>2. QED
      BY <1>1, <3>1 DEF Good, data
  <2>2. Good(c, Target(s, n, lower'), lower')
    <3>1. data = lower'[p] \cup {p} \cup c.data
      BY <1>4, <1>5, <1>11
    <3>2. QED
      BY <1>4, <1>5, <1>11, <2>1, <3>1 DEF Good, WaitSteps
  <2>3. StackOK(t, now, lower')
    BY <1>1, <1>5, <1>6, <1>13, <2>2, TopChanges
  <2>4. QED
    BY <1>1, <1>5, <1>6, <2>3, TopChanges
<1>15. PendingOf(now) = c.data /\ now # <<>> /\ Len(now) = n
       /\ (\A i \in 1..n : i # n => now[i] = s[i]) /\ now[n] = c
  <2>1. Last(now) = c /\ now # <<>> /\ Len(now) = n
        /\ (\A i \in 1..n : i # n => now[i] = s[i]) /\ now[n] = c
    BY <1>1, <1>6, WithTopFacts
  <2>2. PendingOf(now) = c.data
    BY <1>5, <2>1 DEF PendingOf, PendingSteps
  <2>3. QED
    BY <2>1, <2>2
<1> HIDE DEF now, s, n, m
<1>16. CallsInv'
  <2>1. \A u \in Thread : StackOK(u, stack'[u], lower')
    BY <1>12, <1>13, <1>14
  <2>2. \A u \in Thread : StackOK(u, stack[u], lower)'
    BY <2>1, StacksLater
  <2>3. QED
    BY <2>2 DEF CallsInv
<1>17. \A u \in Thread : PendingOf(stack[u])' = PendingOf(stack'[u])
  BY DEF PendingOf, Last
<1>18. ASSUME NEW e \in Element, Fresh(e), e # p PROVE Fresh(e)'
  <2>1. \A u \in Thread : Unused(e, stack'[u])
    BY <1>12, <1>14, <1>18 DEF Fresh, s
  <2>2. \A i \in 1..Len(chunks') : chunks'[i] # e
    BY <1>7, <1>8, <1>18 DEF Fresh, m
  <2>3. QED
    BY <1>2, <1>18, <2>1, <2>2 DEF Fresh, Unused
<1>19. /\ PendingOf(stack'[t]) = data \ (less \cup {p})
       /\ \A u \in Thread : u # t => PendingOf(stack'[u]) = PendingOf(stack[u])
       /\ lower'[chunks'[1]] = less
       /\ \A i \in 1..m : lower'[chunks'[i + 1]] = lower[chunks[i]]
       /\ PendingOf(stack[t]) = data
  BY <1>1, <1>5, <1>7, <1>10, <1>11, <1>12, <1>15 DEF s
<1>20. /\ \A u, v \in Thread : u # v => PendingOf(stack[u]) \cap PendingOf(stack[v]) = {}
       /\ \A u \in Thread : \A i \in 1..m : PendingOf(stack[u]) \cap lower[chunks[i]] = {}
       /\ \A i, j \in 1..m : i # j => lower[chunks[i]] \cap lower[chunks[j]] = {}
  BY DEF SortInv, Apart, m
<1>21. /\ \A u \in Thread : PendingOf(stack[u]) \in SUBSET Element
       /\ \A i \in 1..m : lower[chunks[i]] \in SUBSET Element
  BY <1>7, PendingElements
<1>22. FreshInv'
  <2>1. ASSUME NEW u \in Thread, NEW e \in PendingOf(stack'[u]) PROVE Fresh(e)'
    <3>1. e \in PendingOf(stack[u]) /\ e # p
      <4>1. CASE u = t
        BY <1>19, <2>1, <4>1
      <4>2. CASE u # t
        BY <1>19, <1>20, <2>1, <4>2
      <4>3. QED
        BY <4>1, <4>2
    <3>2. e \in Element /\ Fresh(e)
      BY <1>21, <3>1 DEF SortInv, FreshInv
    <3>3. QED
      BY <1>18, <3>1, <3>2
  <2>2. ASSUME NEW i \in 1..m + 1, NEW e \in lower'[chunks'[i]] PROVE Fresh(e)'
    <3>1. CASE i = 1
      <4>1. e \in PendingOf(stack[t]) /\ e # p
        BY <1>4, <1>19, <2>2, <3>1
      <4>2. e \in Element /\ Fresh(e)
        BY <1>21, <4>1 DEF SortInv, FreshInv
      <4>3. QED
        BY <1>18, <4>1, <4>2
    <3>2. CASE i # 1
      <4>1. PICK j \in 1..m : lower'[chunks'[i]] = lower[chunks[j]]
        <5>1. i - 1 \in 1..m /\ chunks'[i] = chunks[i - 1]
          BY <1>8, <3>2
        <5>2. chunks[i - 1] # p /\ chunks[i - 1] \in Element
          BY <1>7, <1>10, <5>1
        <5>3. QED
          BY <1>11, <5>1, <5>2
      <4>2. e \in lower[chunks[j]] /\ e # p
        BY <1>19, <1>20, <2>2, <4>1
      <4>3. e \in Element /\ Fresh(e)
        BY <1>21, <4>2 DEF SortInv, FreshInv, m
      <4>4. QED
        BY <1>18, <4>2, <4>3
    <3>3. QED
      BY <3>1, <3>2
  <2> HIDE DEF Fresh
  <2>3. \A u \in Thread : \A e \in PendingOf(stack[u])' : Fresh(e)'
    BY <1>17, <2>1
  <2>4. QED
    BY <1>7, <2>2, <2>3 DEF FreshInv
<1>23. Apart'
  <2>1. \A u \in Thread : PendingOf(stack'[u]) \subseteq PendingOf(stack[u])
    BY <1>19
  <2>2. \A u, v \in Thread : u # v => PendingOf(stack'[u]) \cap PendingOf(stack'[v]) = {}
    BY <1>20, <2>1
  <2>3. \A i \in 1..m + 1 : i # 1 =>
            \E j \in 1..m : i = j + 1 /\ lower'[chunks'[i]] = lower[chunks[j]]
    <3> SUFFICES ASSUME NEW i \in 1..m + 1, i # 1
                 PROVE  \E j \in 1..m : i = j + 1 /\ lower'[chunks'[i]] = lower[chunks[j]]
      OBVIOUS
    <3>1. i - 1 \in 1..m /\ i = (i - 1) + 1
      BY <1>7, <1>8
    <3>2. QED
      BY <1>19, <3>1
  <2>4. ASSUME NEW u \in Thread, NEW i \in 1..m + 1
        PROVE  PendingOf(stack'[u]) \cap lower'[chunks'[i]] = {}
    <3>1. CASE i = 1
      <4>1. CASE u = t
        BY <1>19, <3>1, <4>1
      <4>2. CASE u # t
        BY <1>4, <1>19, <1>20, <3>1, <4>2
      <4>3. QED
        BY <4>1, <4>2
    <3>2. CASE i # 1
      BY <1>20, <2>1, <2>3, <3>2
    <3>3. QED
      BY <3>1, <3>2
  <2>5. \A j \in 1..m : less \cap lower[chunks[j]] = {}
    BY <1>4, <1>19, <1>20
  <2>6. ASSUME NEW i \in 1..m + 1, NEW j \in 1..m + 1, i # j
        PROVE  lower'[chunks'[i]] \cap lower'[chunks'[j]] = {}
    <3>1. CASE i = 1
      BY <1>19, <2>3, <2>5, <2>6, <3>1
    <3>2. CASE j = 1
      BY <1>19, <2>3, <2>5, <2>6, <3>2
    <3>3. CASE i # 1 /\ j # 1
      <4>1. PICK k \in 1..m : i = k + 1 /\ lower'[chunks'[i]] = lower[chunks[k]]
        BY <2>3, <3>3
      <4>2. PICK l \in 1..m : j = l + 1 /\ lower'[chunks'[j]] = lower[chunks[l]]
        BY <2>3, <3>3
      <4>3. k # l
        BY <2>6, <4>1, <4>2
      <4>4. QED
        BY <1>20, <4>1, <4>2, <4>3
    <3>4. QED
      BY <3>1, <3>2, <3>3
  <2>7. QED
    BY <1>7, <1>17, <2>2, <2>4, <2>6 DEF Apart
<1>24. PromiseInv'
  <2>1. \A e \in Element : promise[e] # <<>> => lower'[e] = lower[e]
    BY <1>10, <1>11
  <2>2. (stack'[Main] # <<>>) <=> (stack[Main] # <<>>)
    BY <1>1, <1>12, <1>15 DEF Thread, s
  <2>3. QED
    <3>1. PromiseInv /\ key' = key /\ promise' = promise
      BY <1>2 DEF SortInv
    <3>2. \A e \in Element : promise[e] # <<>> => Sorts(promise[e][1], lower'[e])
      BY <2>1, <3>1 DEF PromiseInv
    <3>3. QED
      BY <2>2, <3>1, <3>2 DEF PromiseInv, Sorts
<1>25. KeptInv'
  <2>1. ASSUME NEW q \in Element PROVE Kept(q) => Kept(q)'
    <3>1. promise[q] # <<>> => promise'[q] # <<>>
      BY <1>2
    <3>2. (\E i \in 1..Len(chunks) : chunks[i] = q)
              => (\E i \in 1..Len(chunks') : chunks'[i] = q)
      BY <1>7, <1>8 DEF m
    <3>3. \A i \in 1..n : now[i].to = s[i].to
      BY <1>1, <1>5, <1>15
    <3>4. (\E i \in 1..Len(stack[t]) : stack[t][i].to = q)
              => (\E i \in 1..Len(now) : now[i].to = q)
      BY <1>15, <3>3 DEF n, s
    <3>5. QED
      BY <1>3, <3>1, <3>2, <3>4, NothingLost
  <2>2. Kept(p)'
    BY <1>7, <1>8 DEF Kept
  <2>3. \A i \in 1..Len(now) : now[i].step # "sort" =>
            \/ \E j \in 1..Len(stack[t]) : /\ stack[t][j].step # "sort"
                                           /\ stack[t][j].pivot = now[i].pivot
            \/ \E q \in Element : q = now[i].pivot /\ Kept(q)'
    BY <1>4, <1>5, <1>15, <2>2 DEF n, s
  <2>4. QED
    BY <1>3, <2>1, <2>3, KeptLater DEF SortInv
<1>26. RankInv'
  <2>1. PICK rank \in [Element -> Nat], k \in Nat :
            /\ \A e \in Element : rank[e] < k
            /\ \A u \in Thread : Rising(stack[u], rank)
    BY DEF SortInv, RankInv
  <2> DEFINE later == [rank EXCEPT ![p] = k]
  <2>2. \A u \in Thread : Rising(stack[u], later)
    BY <1>4, <1>7, <1>10, <1>12, <2>1, ChunkIsNew DEF SortInv, CallsInv
  <2>3. /\ later \in [Element -> Nat] /\ later[p] = k
        /\ \A e \in Element : e # p => later[e] = rank[e]
    BY <1>4
  <2> HIDE DEF later
  <2>4. ASSUME NEW i \in 1..n, s[i].to # Whole PROVE later[s[i].to] < later[c.pivot]
    <3>1. s[i].to \in Element /\ s[i].to # p
      <4>1. s[i] \in CallSet
        BY <1>1, ElementOfSeq DEF n
      <4>2. s[i].to # p
        BY <1>10 DEF Unused, n, s
      <4>3. QED
        BY <2>4, <4>1, <4>2 DEF CallSet, Pivot
    <3>2. QED
      BY <1>5, <2>1, <2>3, <3>1
  <2>5. Rising(now, later)
    BY <1>1, <1>5, <1>6, <2>2, <2>4, TopChanges DEF now, n, s
  <2>6. \A u \in Thread : Rising(stack'[u], later)
    BY <1>12, <2>2, <2>5
  <2>7. \A u \in Thread : Rising(stack[u], later)'
    BY <2>6 DEF Rising
  <2>8. k + 1 \in Nat /\ \A e \in Element : later[e] < k + 1
    <3>1. \A e \in Element : later[e] \in Nat /\ (later[e] = k \/ later[e] < k)
      BY <2>1, <2>3
    <3>2. QED
      BY <3>1
  <2>9. QED
    BY <2>3, <2>7, <2>8 DEF RankInv
<1>27. key' \in [Element -> Int]
  BY <1>4
<1>28. QED
  BY <1>16, <1>22, <1>23, <1>24, <1>25, <1>26, <1>27 DEF SortInv
-----------------------------------------------------------------------------
\* A thread in a call that At names.
LEMMA InACall ==
    ASSUME IInv, SortInv, NEW t \in Thread, NEW step, At(t, step)
    PROVE  /\ stack[t] \in Seq(CallSet) /\ stack[t] # <<>> /\ Inner(stack[t])
           /\ Last(stack[t]) \in CallSet /\ Last(stack[t]).step = step
           /\ Top(t) = Last(stack[t]) /\ Last(stack[t]) = stack[t][Len(stack[t])]
           /\ Len(stack[t]) \in Nat \ {0} /\ Len(stack[t]) \in 1..Len(stack[t])
           /\ StackOK(t, stack[t], lower)
           /\ Good(Last(stack[t]), Target(stack[t], Len(stack[t]), lower), lower)
<1>1. /\ stack[t] \in Seq(CallSet) /\ stack[t] # <<>> /\ Inner(stack[t])
      /\ Last(stack[t]) \in CallSet /\ Last(stack[t]).step = step
      /\ Top(t) = Last(stack[t]) /\ Last(stack[t]) = stack[t][Len(stack[t])]
  BY AtFacts DEF Last
<1>2. Len(stack[t]) \in Nat \ {0}
  BY <1>1, EmptySeq
<1>3. Len(stack[t]) \in 1..Len(stack[t])
  BY <1>2
<1>4. StackOK(t, stack[t], lower)
  BY DEF SortInv, CallsInv
<1>5. Good(Last(stack[t]), Target(stack[t], Len(stack[t]), lower), lower)
  BY <1>1, <1>3, <1>4 DEF StackOK
<1>6. QED
  BY <1>1, <1>2, <1>3, <1>4, <1>5

LEMMA ReturnShortSorts ==
    ASSUME IInv, SortInv, NEW t \in Thread, ReturnShort(t), UNCHANGED key
    PROVE  SortInv'
<1>1. At(t, "sort")
  BY DEF ReturnShort
<1>2. stack[t] # <<>> /\ Last(stack[t]).data = Target(stack[t], Len(stack[t]), lower)
      /\ Top(t) = Last(stack[t])
  BY <1>1, InACall DEF Good
<1>3. CASE Top(t).data = {} /\ Return(t, <<>>)
  BY <1>2, <1>3, EmptySeq, ShortSorts, ReturningSorts
<1>4. ASSUME NEW e \in Element, Top(t).data = {e}, Return(t, <<e>>)
      PROVE  SortInv'
  <2>1. <<e>> \in Seq(Pivot)
    BY DEF Pivot
  <2>2. Sorts(<<e>>, Target(stack[t], Len(stack[t]), lower))
    BY <1>2, <1>4, ShortSorts
  <2>3. QED
    BY <1>2, <1>4, <2>1, <2>2, ReturningSorts
<1>5. QED
  BY <1>3, <1>4 DEF ReturnShort

\* new_lower.get() is the lower part, sorted.
LEMMA FinishSorts ==
    ASSUME IInv, SortInv, NEW t \in Thread, FinishWait(t), UNCHANGED key
    PROVE  SortInv'
<1> DEFINE c == Last(stack[t])
           new_lower == promise[c.pivot][1]
           target == Target(stack[t], Len(stack[t]), lower)
           list == (new_lower \o <<c.pivot>>) \o c.higher
<1>1. /\ stack[t] # <<>> /\ c \in CallSet /\ c.step = "wait" /\ Top(t) = c
      /\ Good(c, target, lower)
  BY InACall DEF FinishWait
<1>2. Return(t, list) /\ promise[c.pivot] # <<>>
  BY <1>1 DEF FinishWait, Ready, Result
<1> HIDE DEF c
<1>3. /\ c.pivot \in Element /\ c.data \in SUBSET Element /\ c.higher \in Seq(Pivot)
      /\ target = lower[c.pivot] \cup {c.pivot} \cup c.data
      /\ \A e \in lower[c.pivot] : key[e] < key[c.pivot]
      /\ \A e \in c.data : key[c.pivot] <= key[e]
      /\ c.pivot \notin c.data /\ Sorts(c.higher, c.data)
  <2>1. c.data \in SUBSET Element /\ c.higher \in Seq(Pivot)
    BY <1>1 DEF CallSet
  <2> HIDE DEF target
  <2>2. QED
    BY <1>1, <2>1 DEF Good, WaitSteps
<1> HIDE DEF target
<1>4. c.pivot \in Pivot /\ lower[c.pivot] \in SUBSET Element /\ key \in [Element -> Int]
  BY <1>3 DEF Pivot, IInv, TypeOK, SortInv
<1>5. new_lower \in Seq(Pivot)
  <2>1. promise[c.pivot] \in {<<l>> : l \in Seq(Pivot)}
    BY <1>2, <1>4 DEF IInv, TypeOK
  <2>2. QED
    BY <2>1
<1>6. Sorts(new_lower, lower[c.pivot])
  BY <1>2, <1>3 DEF SortInv, PromiseInv
<1> HIDE DEF new_lower
<1>7. Sorts(list, target)
  BY <1>3, <1>4, <1>5, <1>6, ResultSorts
<1>8. list \in Seq(Pivot)
  <2>1. <<c.pivot>> \in Seq(Pivot)
    BY <1>4
  <2>2. new_lower \o <<c.pivot>> \in Seq(Pivot)
    BY <1>5, <2>1, ConcatProperties
  <2>3. QED
    BY <1>3, <2>2, ConcatProperties
<1> HIDE DEF list
<1>9. QED
  BY <1>1, <1>2, <1>7, <1>8, ReturningSorts DEF target

LEMMA NothingSorted ==
    ASSUME SortInv, UNCHANGED <<key, chunks, lower, promise, stack>>
    PROVE  SortInv'
<1>1. /\ \A e : Fresh(e) => Fresh(e)'
      /\ \A p : Kept(p) => Kept(p)'
  BY DEF Fresh, Kept, Sorting
<1>2. CallsInv'
  <2>1. \A t \in Thread : StackOK(t, stack'[t], lower')
    BY DEF SortInv, CallsInv
  <2>2. \A t \in Thread : StackOK(t, stack[t], lower)'
    BY <2>1, StacksLater
  <2>3. QED
    BY <2>2 DEF CallsInv
<1>3. PromiseInv'
  BY DEF SortInv, PromiseInv, Sorts
<1>4. FreshInv' /\ Apart'
  BY <1>1 DEF SortInv, FreshInv, Apart
<1>5. KeptInv'
  BY <1>1 DEF SortInv, KeptInv
<1>6. RankInv'
  BY DEF SortInv, RankInv, Rising
<1>7. QED
  BY <1>2, <1>3, <1>4, <1>5, <1>6 DEF SortInv

\* A call goes on to its next step.
LEMMA NextStepSorts ==
    ASSUME IInv, SortInv, NEW t \in Thread, NEW step, NEW next, At(t, step), Goto(t, next),
           UNCHANGED <<key, chunks, lower, promise>>,
           \/ step = "test" /\ next = "start"
           \/ step = "started" /\ next = "push_back"
           \/ step \in WaitSteps /\ next \in WaitSteps
    PROVE  SortInv'
<1> DEFINE c == [Last(stack[t]) EXCEPT !.step = next]
<1>1. /\ stack[t] # <<>> /\ Last(stack[t]) \in CallSet /\ Last(stack[t]).step = step
      /\ Top(t) = Last(stack[t])
  BY InACall
<1>2. /\ c \in CallSet /\ c.step = next /\ c.data = Last(stack[t]).data
      /\ c.to = Last(stack[t]).to /\ c.pivot = Last(stack[t]).pivot
      /\ c.higher = Last(stack[t]).higher
  BY <1>1 DEF CallSet, StoringSteps, WaitSteps
<1>3. stack' = [stack EXCEPT ![t] = WithTop(stack[t], c)]
  BY <1>1 DEF Goto, Becomes, WithTop
<1> HIDE DEF c
<1>4. /\ step # "sort" /\ next # "sort"
      /\ next \in PendingSteps => step \in PendingSteps
      /\ next \in WaitSteps => step \in WaitSteps
  BY DEF PendingSteps, StoringSteps, WaitSteps
<1>5. QED
  BY <1>1, <1>2, <1>3, <1>4, GoingOnSorts

LEMMA StartThreadSorts ==
    ASSUME IInv, SortInv, NEW t \in Thread, StartThread(t), UNCHANGED key
    PROVE  SortInv'
<1> DEFINE number == started + 1
           c == [Last(stack[t]) EXCEPT !.step = "started", !.worker = number]
<1>1. /\ stack[t] # <<>> /\ Last(stack[t]) \in CallSet /\ Last(stack[t]).step = "start"
      /\ Top(t) = Last(stack[t])
  BY InACall DEF StartThread
<1>2. number \in Nat
  BY DEF IInv, TypeOK
<1>3. stack' = [stack EXCEPT ![t] = WithTop(stack[t], c)] /\ UNCHANGED <<chunks, lower, promise>>
  BY <1>1 DEF StartThread, Becomes, WithTop
<1> HIDE DEF number
<1>4. /\ c \in CallSet /\ c.step = "started" /\ c.data = Last(stack[t]).data
      /\ c.to = Last(stack[t]).to /\ c.pivot = Last(stack[t]).pivot
      /\ c.higher = Last(stack[t]).higher
  BY <1>1, <1>2 DEF CallSet, StoringSteps
<1> HIDE DEF c
<1>5. /\ "start" \in PendingSteps /\ "started" \notin WaitSteps
  BY DEF PendingSteps, StoringSteps, WaitSteps
<1>6. QED
  BY <1>1, <1>3, <1>4, <1>5, GoingOnSorts

LEMMA TestSorts ==
    ASSUME IInv, SortInv, NEW t \in Thread, TestThreads(t), UNCHANGED key
    PROVE  SortInv'
<1>1. At(t, "test") /\ UNCHANGED <<chunks, lower, promise>>
  BY DEF TestThreads
<1>2. CASE MayStart
  BY <1>1, <1>2, NextStepSorts DEF TestThreads
<1>3. CASE ~MayStart
  BY <1>1, <1>3, InACall, HigherSorts DEF TestThreads
<1>4. QED
  BY <1>2, <1>3

LEMMA HelpSorts ==
    ASSUME IInv, SortInv, NEW t \in Thread, Help(t), UNCHANGED key
    PROVE  SortInv'
<1> DEFINE s == stack[t]
           n == Len(s)
           c == [Last(s) EXCEPT !.step = "wait"]
           calls == WithTop(s, c)
<1>1. At(t, "help") /\ UNCHANGED <<lower, promise>>
  BY DEF Help
<1>2. /\ s \in Seq(CallSet) /\ s # <<>> /\ Last(s) \in CallSet /\ Inner(s)
      /\ Last(s).step = "help" /\ Top(t) = Last(s) /\ Last(s) = s[n]
      /\ n \in Nat \ {0} /\ n \in 1..n
      /\ StackOK(t, s, lower)
      /\ Good(Last(s), Target(s, n, lower), lower)
  BY <1>1, InACall
<1>3. CASE Goto(t, "wait") /\ UNCHANGED chunks
  BY <1>1, <1>3, NextStepSorts DEF WaitSteps
<1>4. ASSUME TrySortChunk(t, Append(Below(t), [Top(t) EXCEPT !.step = "wait"]))
      PROVE  SortInv'
  <2>1. /\ c \in CallSet /\ c.step = "wait" /\ c.data = Last(s).data /\ c.to = Last(s).to
        /\ c.pivot = Last(s).pivot /\ c.higher = Last(s).higher
    BY <1>2 DEF CallSet
  <2>2. Append(Below(t), [Top(t) EXCEPT !.step = "wait"]) = Append(WithoutTop(s), c)
    BY <1>2 DEF Below, WithoutTop
  <2> HIDE DEF c
  <2>3. TrySortChunk(t, calls)
    BY <1>2, <1>4, <2>1, <2>2, BelowAndTwo
  <2>4. /\ calls \in Seq(CallSet) /\ calls # <<>> /\ Len(calls) = n
        /\ \A i \in 1..n : i # n => calls[i] = s[i]
        /\ calls[n] = c /\ Last(calls) = c
    BY <1>2, <2>1, WithTopFacts
  <2>5. Good(c, Target(s, n, lower), lower)
    <3> HIDE DEF s, n
    <3>1. QED
      BY <1>2, <2>1 DEF Good, WaitSteps
  <2>6. StackOK(t, calls, lower)
    BY <1>2, <2>1, <2>5, TopChanges
  <2>7. \A rank : Rising(s, rank) => Rising(calls, rank)
    BY <1>2, <2>1, TopChanges
  <2>8. ASSUME NEW i \in 1..Len(calls)
        PROVE  calls[i].to = s[i].to /\ calls[i].pivot = s[i].pivot /\ s[i].step # "sort"
    <3>1. CASE i = n
      BY <1>2, <2>1, <2>4, <3>1
    <3>2. CASE i # n
      <4>1. i \in 1..n - 1
        BY <1>2, <2>4, <3>2
      <4>2. QED
        BY <1>2, <2>4, <3>2, <4>1 DEF Inner
    <3>3. QED
      BY <3>1, <3>2
  <2> HIDE DEF calls, n
  <2>9. IF calls = <<>> THEN t # Main ELSE Last(calls).step = "wait"
    BY <2>1, <2>4
  <2>10. QED
    BY <1>1, <2>3, <2>4, <2>6, <2>7, <2>8, <2>9, TakingSorts DEF n
<1>5. QED
  BY <1>3, <1>4 DEF Help

LEMMA WorkerSorts ==
    ASSUME IInv, SortInv, NEW t \in Thread, WorkerTakes(t), UNCHANGED key
    PROVE  SortInv'
<1>1. /\ stack[t] = <<>> /\ t # Main /\ TrySortChunk(t, <<>>) /\ UNCHANGED <<lower, promise>>
  <2>1. t \in 1..started /\ started \in Nat
    BY DEF WorkerTakes, Idle, IInv, TypeOK
  <2>2. t # Main
    BY <2>1 DEF Main
  <2>3. QED
    BY <2>2 DEF WorkerTakes, Idle
<1>2. <<>> \in Seq(CallSet) /\ Len(<<>>) = 0
  BY EmptySeq
<1>3. StackOK(t, <<>>, lower)
  BY <1>2 DEF StackOK
<1>4. /\ Len(<<>>) = Len(stack[t])
      /\ \A i \in 1..Len(<<>>) : /\ <<>>[i].to = stack[t][i].to
                                 /\ <<>>[i].pivot = stack[t][i].pivot
                                 /\ stack[t][i].step # "sort"
      /\ \A rank : Rising(stack[t], rank) => Rising(<<>>, rank)
  BY <1>1, <1>2
<1> DEFINE none == <<>>
<1> HIDE DEF none
<1>5. /\ none \in Seq(CallSet) /\ none = <<>> /\ StackOK(t, none, lower)
      /\ TrySortChunk(t, none) /\ Len(none) = Len(stack[t])
      /\ \A i \in 1..Len(none) : /\ none[i].to = stack[t][i].to
                                 /\ none[i].pivot = stack[t][i].pivot
                                 /\ stack[t][i].step # "sort"
      /\ \A rank : Rising(stack[t], rank) => Rising(none, rank)
  BY <1>1, <1>2, <1>3, <1>4 DEF none
<1>6. IF none = <<>> THEN t # Main ELSE Last(none).step = "wait"
  BY <1>1, <1>5
<1>7. QED
  BY <1>1, <1>5, <1>6, TakingSorts

LEMMA SortingInitial == Init => SortInv
<1> SUFFICES ASSUME Init PROVE SortInv
  OBVIOUS
<1> DEFINE c == Call(Element, Whole)
           s == <<c>>
<1>1. IInv
  BY Initial
<1>2. /\ c \in CallSet /\ c.step = "sort" /\ c.to = Whole /\ c.pivot = Whole
      /\ c.data = Element
  BY EmptySeq DEF Call, CallSet, Pivot
<1> HIDE DEF c
<1>3. s \in Seq(CallSet) /\ s # <<>> /\ Len(s) = 1 /\ s[1] = c /\ Last(s) = c
  BY <1>2 DEF Last
<1>4. <<>> \in Seq(CallSet) /\ Len(<<>>) = 0 /\ 1..0 = {} /\ 1..1 = {1}
  BY EmptySeq
<1>5. /\ \A t \in Thread : t # Main => stack[t] = <<>>
      /\ stack[Main] = s
      /\ chunks = <<>>
      /\ promise = [e \in Element \cup {Whole} |-> <<>>]
      /\ key \in Keys
  BY DEF Init, c, Thread
<1> HIDE DEF s
<1>6. key \in [Element -> Int]
  BY <1>5, SorterAssumption
<1>7. CallsInv
  <2>1. StackOK(Main, s, lower)
    BY <1>2, <1>3, <1>4 DEF StackOK, Good, Target
  <2>2. \A t : StackOK(t, <<>>, lower)
    BY <1>4 DEF StackOK
  <2>3. QED
    BY <1>5, <2>1, <2>2 DEF CallsInv
<1>8. PromiseInv
  BY <1>3, <1>5 DEF PromiseInv
<1>9. \A e \in Element : \A t \in Thread : Unused(e, stack[t])
  BY <1>2, <1>3, <1>4, <1>5, SorterAssumption DEF Unused
<1>10. FreshInv /\ Apart
  <2>1. \A t \in Thread : t # Main => PendingOf(stack[t]) = {}
    BY <1>5 DEF PendingOf
  <2>2. \A e \in Element : Fresh(e)
    BY <1>4, <1>5, <1>9 DEF Fresh
  <2>3. FreshInv
    BY <1>1, <1>4, <1>5, <2>2, PendingElements DEF FreshInv
  <2>4. Apart
    BY <1>4, <1>5, <2>1 DEF Apart
  <2>5. QED
    BY <2>3, <2>4
<1>11. KeptInv
  BY <1>2, <1>3, <1>4, <1>5 DEF KeptInv
<1>12. RankInv
  <2> DEFINE rank == [e \in Element |-> 0]
  <2>1. rank \in [Element -> Nat] /\ 1 \in Nat /\ \A e \in Element : rank[e] < 1
    OBVIOUS
  <2> HIDE DEF rank
  <2>2. \A t \in Thread : Rising(stack[t], rank)
    BY <1>2, <1>3, <1>4, <1>5 DEF Rising
  <2>3. QED
    BY <2>1, <2>2 DEF RankInv
<1>13. QED
  BY <1>6, <1>7, <1>8, <1>10, <1>11, <1>12 DEF SortInv

LEMMA SortingInductive == IInv /\ SortInv /\ [Next]_vars => SortInv'
<1> SUFFICES ASSUME IInv, SortInv, [Next]_vars PROVE SortInv'
  OBVIOUS
<1>1. CASE UNCHANGED vars
  BY <1>1, NothingSorted DEF vars, given
<1>2. ASSUME NEW t \in Thread, Step(t)
      PROVE  SortInv'
  <2>1. UNCHANGED key
    BY <1>2 DEF Step, given
  <2>2. CASE ReturnShort(t)
    BY <2>1, <2>2, ReturnShortSorts
  <2>3. CASE Split(t)
    BY <2>1, <2>3, SplittingSorts
  <2>4. CASE TestThreads(t)
    BY <2>1, <2>4, TestSorts
  <2>5. CASE StartThread(t)
    BY <2>1, <2>5, StartThreadSorts
  <2>6. CASE PushBegin(t)
    BY <2>1, <2>6, NextStepSorts DEF PushBegin
  <2>7. CASE PushBack(t)
    <3>1. At(t, "push_back") /\ SortHigher(t) /\ UNCHANGED <<chunks, lower, promise>>
      BY <2>7 DEF PushBack
    <3>2. QED
      BY <2>1, <3>1, InACall, HigherSorts
  <2>8. CASE FinishWait(t)
    BY <2>1, <2>8, FinishSorts
  <2>9. CASE NotReady(t)
    BY <2>1, <2>9, NextStepSorts DEF NotReady, WaitSteps
  <2>10. CASE Help(t)
    BY <2>1, <2>10, HelpSorts
  <2>11. CASE WorkerTakes(t)
    BY <2>1, <2>11, WorkerSorts
  <2>12. CASE WorkerEnds(t)
    BY <2>1, <2>12, NothingSorted DEF WorkerEnds
  <2>13. CASE EndOfData
    BY <2>1, <2>13, NothingSorted DEF EndOfData
  <2>14. CASE Join
    BY <2>1, <2>14, NothingSorted DEF Join
  <2>15. QED
    BY <1>2, <2>2, <2>3, <2>4, <2>5, <2>6, <2>7, <2>8, <2>9, <2>10, <2>11, <2>12,
       <2>13, <2>14 DEF Step
<1>3. QED
  BY <1>1, <1>2 DEF Next
-----------------------------------------------------------------------------
\* A number that is the least with some property.
LEMMA LeastNumber ==
    ASSUME NEW S \in SUBSET Nat, S # {}
    PROVE  \E low \in S : \A k \in S : ~(k < low)
<1>1. PICK low \in S : \A k \in S : <<k, low>> \notin OpToRel(<, Nat)
  BY NatLessThanWellFounded, WFMin
<1>2. QED
  BY <1>1 DEF OpToRel

\* Numbers below a bound do not rise for ever.
LEMMA NoEndlessRise ==
    ASSUME NEW W, W # {}, NEW rank \in [W -> Nat], NEW n \in Nat,
           \A p \in W : rank[p] < n,
           \A p \in W : \E q \in W : rank[p] < rank[q]
    PROVE  FALSE
<1> DEFINE gaps == {n - rank[p] : p \in W}
<1>1. gaps \subseteq Nat /\ gaps # {}
  OBVIOUS
<1>2. PICK low \in gaps : \A k \in gaps : ~(k < low)
  <2> HIDE DEF gaps
  <2>1. QED
    BY <1>1, LeastNumber
<1>4. PICK p \in W : low = n - rank[p]
  BY <1>2
<1>5. PICK q \in W : rank[p] < rank[q]
  OBVIOUS
<1>6. n - rank[q] \in gaps /\ rank[p] \in Nat /\ rank[q] \in Nat
  OBVIOUS
<1>7. n - rank[q] < low
  BY <1>4, <1>5, <1>6
<1>8. QED
  BY <1>2, <1>6, <1>7

LEMMA SomebodyDoes ==
    ASSUME IInv, SortInv
    PROVE  SomebodyWorks
<1> SUFFICES ASSUME promise[Whole] = <<>>, chunks = <<>>, \A t \in Thread : Waits(t)
             PROVE  FALSE
  BY DEF SomebodyWorks
<1> DEFINE Waiting == {t \in Thread : stack[t] # <<>>}
           W == {Last(stack[t]).pivot : t \in Waiting}
<1>1. Main \in Waiting
  BY DEF SortInv, PromiseInv, Thread
<1>2. ASSUME NEW t \in Waiting
      PROVE  /\ Last(stack[t]).pivot \in Element /\ Last(stack[t]).step # "sort"
             /\ Len(stack[t]) \in Nat /\ Len(stack[t]) \in 1..Len(stack[t])
             /\ Last(stack[t]) = stack[t][Len(stack[t])]
             /\ Sorting(Last(stack[t]).pivot)
  <2>1. At(t, Last(stack[t]).step) /\ t \in Thread
    BY DEF At, Top, Last
  <2>2. /\ Last(stack[t]) = Top(t) /\ Last(stack[t]) = stack[t][Len(stack[t])]
        /\ Len(stack[t]) \in Nat /\ Len(stack[t]) \in 1..Len(stack[t])
        /\ Good(Last(stack[t]), Target(stack[t], Len(stack[t]), lower), lower)
    BY <2>1, InACall
  <2>3. Last(stack[t]).step # "sort" /\ promise[Last(stack[t]).pivot] = <<>>
    BY <2>1, <2>2 DEF Waits, Ready
  <2>4. Kept(Last(stack[t]).pivot)
    BY <2>1, <2>2, <2>3 DEF SortInv, KeptInv
  <2>5. 1..Len(chunks) = {}
    BY EmptySeq
  <2>6. Sorting(Last(stack[t]).pivot)
    BY <2>3, <2>4, <2>5 DEF Kept
  <2>7. QED
    BY <2>2, <2>3, <2>6 DEF Good
<1>3. PICK ranks \in [Element -> Nat], n \in Nat :
          /\ \A e \in Element : ranks[e] < n
          /\ \A t \in Thread : Rising(stack[t], ranks)
  BY DEF SortInv, RankInv
<1> DEFINE rank == [p \in W |-> ranks[p]]
<1>4. W # {} /\ W \subseteq Element
  BY <1>1, <1>2
<1>5. rank \in [W -> Nat] /\ \A p \in W : rank[p] < n /\ rank[p] = ranks[p]
  <2> HIDE DEF W
  <2>1. QED
    BY <1>3, <1>4
<1>6. ASSUME NEW p \in W PROVE \E q \in W : rank[p] < rank[q]
  <2>1. PICK t \in Waiting : p = Last(stack[t]).pivot
    BY <1>6
  <2>2. PICK u \in Thread : \E i \in 1..Len(stack[u]) : stack[u][i].to = p
    BY <1>2, <2>1 DEF Sorting
  <2>3. u \in Waiting
    BY <2>2, EmptySeq
  <2>4. Last(stack[u]).pivot \in W
    BY <2>3
  <2>5. /\ Len(stack[u]) \in Nat /\ Len(stack[u]) \in 1..Len(stack[u])
        /\ stack[u][Len(stack[u])] = Last(stack[u]) /\ Last(stack[u]).step # "sort"
    BY <1>2, <2>3
  <2>6. PICK i \in 1..Len(stack[u]) : stack[u][i].to = p
    BY <2>2
  <2>61. i <= Len(stack[u]) /\ p # Whole
    BY <1>2, <2>1, <2>5, SorterAssumption
  <2>7. ranks[p] < ranks[Last(stack[u]).pivot]
    BY <1>3, <2>5, <2>6, <2>61 DEF Rising
  <2> HIDE DEF W, rank
  <2>8. QED
    BY <1>5, <2>4, <2>7
<1> HIDE DEF W, rank
<1>7. QED
  BY <1>3, <1>4, <1>5, <1>6, NoEndlessRise

LEMMA ListsAreSorted ==
    ASSUME IInv, SortInv
    PROVE  ListsSorted
<1>1. ASSUME NEW t \in Thread, NEW i \in DOMAIN stack[t],
             stack[t][i].step \in {"wait", "help"}
      PROVE  Sorts(stack[t][i].higher, stack[t][i].data)
  <2>1. stack[t] \in Seq(CallSet)
    BY DEF IInv, TypeOK
  <2>2. i \in 1..Len(stack[t])
    BY <2>1, LenProperties
  <2>3. Good(stack[t][i], Target(stack[t], i, lower), lower)
    BY <2>2 DEF SortInv, CallsInv, StackOK
  <2>4. QED
    BY <1>1, <2>3 DEF Good, WaitSteps
<1>2. QED
  BY <1>1 DEF ListsSorted, SortInv, PromiseInv
-----------------------------------------------------------------------------
(***************************************************************************)
(* The workers and the destructor.  A worker is in the vector, or the      *)
(* thread that started it, an older one, is about to store it.             *)
(***************************************************************************)
Stored(w) == \E i \in 1..Len(threads) : threads[i] = w
BeingStored(u, w) == HasStarted(u) /\ Last(stack[u]).worker = w
Known(w) == Stored(w) \/ \E u \in Thread : u < w /\ BeingStored(u, w)

WorkersInv ==
    /\ \A t \in ended : stack[t] = <<>>
    /\ \A t \in Thread : stack[t] # <<>> => (t <= started /\ t \notin ended)
    /\ end_of_data => promise[Whole] # <<>>
    /\ Main \in ended => (end_of_data /\ 1..started \subseteq ended)
    /\ \A w \in 1..started : Known(w)

\* A thread that has not ended makes, leaves or changes a call.
LEMMA WorkersLater ==
    ASSUME IInv, WorkersInv, NEW t \in Thread, t \notin ended, t <= started,
           NEW calls, stack' = [stack EXCEPT ![t] = calls],
           started' \in Nat, started <= started', UNCHANGED endVars,
           promise[Whole] # <<>> => promise'[Whole] # <<>>,
           \A w \in 1..started' : Known(w)'
    PROVE  WorkersInv'
<1>1. stack \in [Thread -> Seq(CallSet)] /\ started \in Nat
  BY DEF IInv, TypeOK
<1>2. Main \notin ended
  BY <1>1 DEF WorkersInv, Thread, Main, Worker
<1>3. Thread \subseteq Nat
  <2>1. Thread \subseteq {0} \cup 1..Cardinality(Element)
    BY DEF Thread, Main, Worker
  <2>2. QED
    BY <2>1, SorterAssumption, FS_CardinalityType
<1>4. \A u \in Thread : stack'[u] # <<>> => (u <= started' /\ u \notin ended')
  BY <1>1, <1>3 DEF WorkersInv, endVars
<1>5. \A u \in ended' : stack'[u] = <<>>
  BY <1>1 DEF WorkersInv, endVars
<1>6. QED
  BY <1>2, <1>4, <1>5 DEF WorkersInv, endVars

\* A thread that is not storing a worker disturbs nobody's.
LEMMA KnownLater ==
    ASSUME IInv, NEW t \in Thread, ~HasStarted(t),
           NEW calls, stack' = [stack EXCEPT ![t] = calls], threads' = threads,
           NEW w, Known(w)
    PROVE  Known(w)'
<1>1. stack \in [Thread -> Seq(CallSet)]
  BY DEF IInv, TypeOK
<1>2. CASE Stored(w)
  BY <1>2 DEF Known, Stored
<1>3. ASSUME NEW u \in Thread, u < w, BeingStored(u, w) PROVE Known(w)'
  <2>1. u # t
    BY <1>3 DEF BeingStored
  <2>2. stack'[u] = stack[u]
    BY <1>1, <2>1
  <2>3. BeingStored(u, w)'
    BY <1>3, <2>2 DEF BeingStored, HasStarted, Last
  <2>4. QED
    BY <1>3, <2>3 DEF Known
<1>4. QED
  BY <1>2, <1>3 DEF Known

LEMMA QuietWorkers ==
    ASSUME IInv, WorkersInv, NEW t \in Thread, ~HasStarted(t),
           stack[t] # <<>> \/ (t \notin ended /\ t <= started),
           NEW calls, stack' = [stack EXCEPT ![t] = calls],
           started' = started, threads' = threads, UNCHANGED endVars,
           promise[Whole] # <<>> => promise'[Whole] # <<>>
    PROVE  WorkersInv'
<1>1. t \notin ended /\ t <= started
  BY DEF WorkersInv
<1>2. \A w \in 1..started' : Known(w)'
  BY KnownLater DEF WorkersInv
<1>3. started' \in Nat /\ started <= started'
  BY DEF IInv, TypeOK
<1>4. QED
  BY <1>1, <1>2, <1>3, WorkersLater

LEMMA ReturningWorkers ==
    ASSUME IInv, WorkersInv, NEW t \in Thread, stack[t] # <<>>, ~HasStarted(t),
           NEW list, Return(t, list)
    PROVE  WorkersInv'
<1>1. started' = started /\ threads' = threads /\ UNCHANGED endVars
  BY DEF Return, vectorVars
<1>2. promise[Whole] # <<>> => promise'[Whole] # <<>>
  BY DEF Return, IInv, TypeOK, Pivot
<1>3. PICK calls : stack' = [stack EXCEPT ![t] = calls]
  BY DEF Return
<1>4. QED
  BY <1>1, <1>2, <1>3, QuietWorkers

LEMMA StartThreadWorkers ==
    ASSUME IInv, WorkersInv, NEW t \in Thread, StartThread(t)
    PROVE  WorkersInv'
<1> DEFINE call == [Top(t) EXCEPT !.step = "started", !.worker = started + 1]
           calls == WithTop(stack[t], call)
<1>1. /\ stack[t] \in Seq(CallSet) /\ stack[t] # <<>> /\ ~HasStarted(t)
      /\ Top(t) \in CallSet
  <2>1. At(t, "start")
    BY DEF StartThread
  <2>2. QED
    BY <2>1, AtFacts DEF HasStarted
<1>2. started \in Nat /\ started' = started + 1 /\ threads' = threads /\ UNCHANGED endVars
  BY DEF StartThread, IInv, TypeOK
<1>3. stack' = [stack EXCEPT ![t] = calls]
  BY DEF StartThread, Becomes, WithTop
<1>4. call \in CallSet /\ call.step = "started" /\ call.worker = started'
  <2> DEFINE n == started + 1
  <2>1. n \in Nat
    BY <1>2
  <2> HIDE DEF n
  <2>2. /\ [Top(t) EXCEPT !.step = "started", !.worker = n] \in CallSet
        /\ [Top(t) EXCEPT !.step = "started", !.worker = n].step = "started"
        /\ [Top(t) EXCEPT !.step = "started", !.worker = n].worker = n
    BY <1>1, <2>1 DEF CallSet, StoringSteps
  <2>3. QED
    BY <1>2, <2>2 DEF n
<1> HIDE DEF call
<1>5. calls # <<>> /\ Last(calls) = call
  BY <1>1, <1>4, WithTopFacts
<1> HIDE DEF calls
<1>6. stack'[t] = calls /\ t <= started /\ t \notin ended
  BY <1>1, <1>3 DEF IInv, TypeOK, WorkersInv
<1>7. ASSUME NEW w \in 1..started' PROVE Known(w)'
  <2>1. CASE w \in 1..started
    BY <1>1, <1>2, <1>3, <2>1, KnownLater DEF WorkersInv
  <2>2. CASE w = started'
    <3>1. BeingStored(t, w)'
      BY <1>4, <1>5, <1>6, <2>2 DEF BeingStored, HasStarted, Last
    <3>2. t < w
      <4>1. t \in Int
        <5>1. Cardinality(Element) \in Nat
          BY SorterAssumption, FS_CardinalityType
        <5>2. QED
          BY <5>1 DEF Thread, Main, Worker
      <4>2. QED
        BY <1>2, <1>6, <2>2, <4>1
    <3>3. QED
      BY <3>1, <3>2 DEF Known
  <2>3. QED
    BY <1>2, <2>1, <2>2
<1>8. started' \in Nat /\ started <= started'
  BY <1>2
<1>9. promise' = promise
  BY DEF StartThread
<1>10. QED
  BY <1>2, <1>3, <1>6, <1>7, <1>8, <1>9, WorkersLater

LEMMA PushBeginWorkers ==
    ASSUME IInv, WorkersInv, NEW t \in Thread, PushBegin(t)
    PROVE  WorkersInv'
<1> DEFINE call == [Top(t) EXCEPT !.step = "push_back"]
           calls == WithTop(stack[t], call)
<1>1. /\ stack[t] \in Seq(CallSet) /\ stack[t] # <<>>
      /\ Top(t) \in CallSet /\ Top(t) = Last(stack[t])
  <2>1. At(t, "started")
    BY DEF PushBegin
  <2>2. QED
    BY <2>1, AtFacts
<1>2. started' = started /\ threads' = threads /\ UNCHANGED endVars /\ promise' = promise
  BY DEF PushBegin
<1>3. stack' = [stack EXCEPT ![t] = calls]
  BY DEF PushBegin, Goto, Becomes, WithTop
<1>4. call \in CallSet /\ call.step = "push_back" /\ call.worker = Top(t).worker
  BY <1>1 DEF CallSet, StoringSteps
<1> HIDE DEF call
<1>5. calls # <<>> /\ Last(calls) = call
  BY <1>1, <1>4, WithTopFacts
<1> HIDE DEF calls
<1>6. /\ stack'[t] = calls /\ \A u \in Thread : u # t => stack'[u] = stack[u]
      /\ t <= started /\ t \notin ended /\ started \in Nat
  BY <1>1, <1>3 DEF IInv, TypeOK, WorkersInv
<1>7. ASSUME NEW w, NEW u \in Thread, BeingStored(u, w) PROVE BeingStored(u, w)'
  <2>1. CASE u = t
    BY <1>1, <1>4, <1>5, <1>6, <1>7, <2>1 DEF BeingStored, HasStarted, Last
  <2>2. CASE u # t
    BY <1>6, <1>7, <2>2 DEF BeingStored, HasStarted, Last
  <2>3. QED
    BY <2>1, <2>2
<1>8. \A w \in 1..started' : Known(w)'
  BY <1>2, <1>7 DEF WorkersInv, Known, Stored
<1>9. started' \in Nat /\ started <= started'
  BY <1>2, <1>6
<1>10. QED
  BY <1>2, <1>3, <1>6, <1>8, <1>9, WorkersLater

LEMMA PushBackWorkers ==
    ASSUME IInv, WorkersInv, NEW t \in Thread, PushBack(t)
    PROVE  WorkersInv'
<1>1. /\ stack[t] # <<>> /\ Top(t) \in CallSet /\ Top(t) = Last(stack[t])
  <2>1. At(t, "push_back")
    BY DEF PushBack
  <2>2. QED
    BY <2>1, AtFacts
<1>2. started' = started /\ UNCHANGED endVars /\ promise' = promise
  BY DEF PushBack
<1>3. PICK calls : stack' = [stack EXCEPT ![t] = calls]
  BY DEF PushBack, SortHigher
<1>4. /\ Len(threads) \in Nat /\ Len(threads') = Len(threads) + 1
      /\ \A i \in 1..Len(threads) : threads'[i] = threads[i]
      /\ threads'[Len(threads) + 1] = Last(stack[t]).worker
  <2>1. Top(t).worker \in Nat
    BY <1>1 DEF CallSet
  <2>2. threads \in Seq(Nat) /\ threads' = Append(threads, Top(t).worker)
    BY DEF PushBack, IInv, TypeOK
  <2>3. QED
    BY <1>1, <2>1, <2>2, AppendProperties, LenProperties
<1>5. \A w : Stored(w) => Stored(w)'
  BY <1>4 DEF Stored
<1>6. ASSUME NEW w, BeingStored(t, w) PROVE Stored(w)'
  <2>1. Len(threads) + 1 \in 1..Len(threads')
    BY <1>4
  <2>2. QED
    BY <1>4, <1>6, <2>1 DEF BeingStored, Stored
<1>7. ASSUME NEW u \in Thread, u # t, NEW w, BeingStored(u, w) PROVE BeingStored(u, w)'
  <2>1. stack'[u] = stack[u]
    BY <1>3, <1>7 DEF IInv, TypeOK
  <2>2. QED
    BY <1>7, <2>1 DEF BeingStored, HasStarted, Last
<1>8. \A w \in 1..started' : Known(w)'
  BY <1>2, <1>5, <1>6, <1>7 DEF WorkersInv, Known
<1>9. t <= started /\ t \notin ended /\ started' \in Nat /\ started <= started'
  BY <1>1, <1>2 DEF IInv, TypeOK, WorkersInv
<1>10. QED
  BY <1>2, <1>3, <1>8, <1>9, WorkersLater

\* When all workers in the vector have ended no worker is left out of it.
LEMMA JoinWorkers ==
    ASSUME IInv, SortInv, WorkersInv, Join
    PROVE  WorkersInv'
<1>1. /\ ended' = ended \cup {Main}
      /\ UNCHANGED <<stack, promise, started, threads, end_of_data>>
      /\ end_of_data /\ stack[Main] = <<>>
  BY DEF Join, vectorVars, WorkersInv, SortInv, PromiseInv
<1>2. started \in Nat /\ Main \in Thread /\ Main = 0
  BY DEF IInv, TypeOK, Thread, Main
<1>3. ASSUME NEW w, Stored(w) PROVE w \in ended
  <2>1. PICK i \in 1..Len(threads) : threads[i] = w
    BY <1>3 DEF Stored
  <2>2. i \in DOMAIN threads
    BY <2>1, LenProperties DEF IInv, TypeOK
  <2>3. QED
    BY <2>1, <2>2 DEF Join, Joined
<1>4. 1..started \subseteq ended
  <2> DEFINE others == {w \in 1..started : w \notin ended}
  <2> SUFFICES ASSUME others # {} PROVE FALSE
    OBVIOUS
  <2>1. others \in SUBSET Nat
    BY <1>2
  <2>2. PICK low \in others : \A k \in others : ~(k < low)
    <3> HIDE DEF others
    <3>1. QED
      BY <2>1, LeastNumber
  <2>3. PICK u \in Thread : u < low /\ BeingStored(u, low)
    BY <1>3, <2>2 DEF WorkersInv, Known
  <2>4. stack[u] # <<>> /\ u # Main /\ u <= started /\ u \notin ended
    BY <1>1, <2>3 DEF BeingStored, HasStarted, WorkersInv
  <2>5. u \in 1..started
    BY <1>2, <2>4 DEF Thread, Main, Worker
  <2>6. QED
    BY <2>2, <2>3, <2>4, <2>5
<1>5. \A t \in Thread : stack'[t] # <<>> => (t <= started' /\ t \notin ended')
  BY <1>1 DEF WorkersInv
<1>6. \A t \in ended' : stack'[t] = <<>>
  BY <1>1 DEF WorkersInv
<1>7. \A w \in 1..started' : Known(w)'
  BY <1>1 DEF WorkersInv, Known, Stored, BeingStored, HasStarted, Last
<1>8. end_of_data' => promise'[Whole] # <<>>
  BY <1>1 DEF WorkersInv
<1>9. Main \in ended' => (end_of_data' /\ 1..started' \subseteq ended')
  BY <1>1, <1>4
<1>10. QED
  BY <1>5, <1>6, <1>7, <1>8, <1>9 DEF WorkersInv

LEMMA WorkersInitial == Init => WorkersInv
<1> SUFFICES ASSUME Init PROVE WorkersInv
  OBVIOUS
<1>1. \A t \in Thread : stack[t] # <<>> => t = 0
  BY DEF Init, Main
<1>2. QED
  BY <1>1 DEF Init, WorkersInv

LEMMA WorkersInductive == IInv /\ SortInv /\ WorkersInv /\ [Next]_vars => WorkersInv'
<1> SUFFICES ASSUME IInv, SortInv, WorkersInv, [Next]_vars PROVE WorkersInv'
  OBVIOUS
<1>1. ASSUME UNCHANGED <<stack, promise, started, threads>>,
             end_of_data' => promise[Whole] # <<>>,
             \A t \in ended' : stack[t] = <<>>,
             Main \in ended' => (end_of_data' /\ 1..started \subseteq ended')
      PROVE  WorkersInv'
  <2>1. \A w \in 1..started' : Known(w)'
    BY <1>1 DEF WorkersInv, Known, Stored, BeingStored, HasStarted, Last
  <2>2. \A t \in Thread : stack'[t] # <<>> => (t <= started' /\ t \notin ended')
    BY <1>1 DEF WorkersInv
  <2>3. QED
    BY <1>1, <2>1, <2>2 DEF WorkersInv
<1>2. ASSUME NEW t \in Thread, stack[t] # <<>>, ~HasStarted(t),
             \E calls : stack' = [stack EXCEPT ![t] = calls],
             UNCHANGED <<promise, started, threads, endVars>>
      PROVE  WorkersInv'
  BY <1>2, QuietWorkers
<1>3. ASSUME NEW t \in Thread, NEW step \in {"sort", "test", "start", "wait", "help"},
             At(t, step)
      PROVE  stack[t] # <<>> /\ ~HasStarted(t)
  BY <1>3, AtFacts DEF HasStarted
<1>4. ASSUME NEW t \in Thread, ReturnShort(t) PROVE WorkersInv'
  BY <1>3, <1>4, ReturningWorkers DEF ReturnShort
<1>5. ASSUME NEW t \in Thread, Split(t) PROVE WorkersInv'
  <2>1. \E calls : stack' = [stack EXCEPT ![t] = calls]
    BY <1>5 DEF Split, Becomes
  <2>2. At(t, "sort") /\ UNCHANGED <<promise, started, threads, endVars>>
    BY <1>5 DEF Split, vectorVars
  <2>3. QED
    BY <1>2, <1>3, <2>1, <2>2
<1>6. ASSUME NEW t \in Thread, TestThreads(t) PROVE WorkersInv'
  <2>1. \E calls : stack' = [stack EXCEPT ![t] = calls]
    BY <1>6 DEF TestThreads, Goto, Becomes, SortHigher
  <2>2. At(t, "test") /\ UNCHANGED <<promise, started, threads, endVars>>
    BY <1>6 DEF TestThreads
  <2>3. QED
    BY <1>2, <1>3, <2>1, <2>2
<1>7. ASSUME NEW t \in Thread, FinishWait(t) PROVE WorkersInv'
  BY <1>3, <1>7, ReturningWorkers DEF FinishWait
<1>8. ASSUME NEW t \in Thread, NotReady(t) PROVE WorkersInv'
  <2>1. \E calls : stack' = [stack EXCEPT ![t] = calls]
    BY <1>8 DEF NotReady, Goto, Becomes
  <2>2. At(t, "wait") /\ UNCHANGED <<promise, started, threads, endVars>>
    BY <1>8 DEF NotReady, vectorVars
  <2>3. QED
    BY <1>2, <1>3, <2>1, <2>2
<1>9. ASSUME NEW t \in Thread, Help(t) PROVE WorkersInv'
  <2>1. \E calls : stack' = [stack EXCEPT ![t] = calls]
    BY <1>9 DEF Help, TrySortChunk, Goto, Becomes
  <2>2. At(t, "help") /\ UNCHANGED <<promise, started, threads, endVars>>
    BY <1>9 DEF Help, vectorVars
  <2>3. QED
    BY <1>2, <1>3, <2>1, <2>2
<1>10. ASSUME NEW t \in Thread, WorkerTakes(t) PROVE WorkersInv'
  <2>1. /\ t \notin ended /\ t <= started /\ ~HasStarted(t)
        /\ UNCHANGED <<promise, started, threads, endVars>>
    BY <1>10 DEF WorkerTakes, Idle, HasStarted, vectorVars, IInv, TypeOK
  <2>2. PICK calls : stack' = [stack EXCEPT ![t] = calls]
    BY <1>10 DEF WorkerTakes, TrySortChunk
  <2>3. QED
    BY <2>1, <2>2, QuietWorkers
<1>11. ASSUME NEW t \in Thread, WorkerEnds(t) PROVE WorkersInv'
  <2>1. /\ UNCHANGED <<stack, promise, started, threads, end_of_data>>
        /\ ended' = ended \cup {t} /\ stack[t] = <<>> /\ t # Main
    BY <1>11 DEF WorkerEnds, Idle, vectorVars, IInv, TypeOK, Main
  <2>2. QED
    BY <1>1, <2>1 DEF WorkersInv
<1>12. ASSUME EndOfData PROVE WorkersInv'
  BY <1>1, <1>12 DEF EndOfData, vectorVars, WorkersInv
<1>13. CASE UNCHANGED vars
  BY <1>1, <1>13 DEF vars, vectorVars, endVars, WorkersInv
<1>14. ASSUME NEW t \in Thread, Step(t) PROVE WorkersInv'
  BY <1>4, <1>5, <1>6, <1>7, <1>8, <1>9, <1>10, <1>11, <1>12, <1>14, StartThreadWorkers,
     PushBeginWorkers, PushBackWorkers, JoinWorkers DEF Step
<1>15. QED
  BY <1>13, <1>14 DEF Next
-----------------------------------------------------------------------------
(***************************************************************************)
(* sorter.cpp:88-102: a promise is set to its own chunk, sorted; the       *)
(* higher part comes back sorted; the result is the whole list, sorted.    *)
(***************************************************************************)
THEOREM SortedResult == Spec => []ListsSorted
<1>1. IInv /\ SortInv => ListsSorted
  BY ListsAreSorted
<1>2. QED
  BY Initial, Inductive, SortingInitial, SortingInductive, <1>1, PTL DEF Spec

(***************************************************************************)
(* sorter.cpp:93-96: each thread sorts other chunks while it waits for its *)
(* own.  Until the list is sorted there is a chunk to be taken or a thread *)
(* that has something to do: they do not all wait for each other.          *)
(***************************************************************************)
THEOREM NoDeadlock == Spec => []SomebodyWorks
<1>1. IInv /\ SortInv => SomebodyWorks
  BY SomebodyDoes
<1>2. QED
  BY Initial, Inductive, SortingInitial, SortingInductive, <1>1, PTL DEF Spec

(***************************************************************************)
(* sorter.cpp:52-60: when the destructor is through every worker that was  *)
(* ever started has ended, those above the limit included.                 *)
(***************************************************************************)
THEOREM AllReclaimed == Spec => []Reclaimed
<1>1. WorkersInv => Reclaimed
  BY DEF WorkersInv, Reclaimed
<1>2. QED
  BY Initial, Inductive, SortingInitial, SortingInductive, WorkersInitial,
     WorkersInductive, <1>1, PTL DEF Spec

\* In the behaviours of the other algorithms the sorter stays as it is.
LEMMA SorterInAll == AllSpec => Spec
<1>1. AllInit => Init
  BY DEF AllInit, SorterIdle
<1>2. [AllNext]_<<vars, rangeVars>> => [Next]_vars
  BY DEF AllNext, OnSorter, OnRanges, Next
<1>. QED
  BY <1>1, <1>2, PTL DEF AllSpec, Spec

(***************************************************************************)
(* The same for the behaviours of Parallel, the specification of the runs. *)
(***************************************************************************)
THEOREM SorterSafe == AllSpec => [](ListsSorted /\ SomebodyWorks /\ LimitKept /\ Reclaimed)
  BY SorterInAll, SortedResult, NoDeadlock, LimitIsKept, AllReclaimed, PTL

-----------------------------------------------------------------------------
(***************************************************************************)
(* The algorithms that cut a range into parts.                             *)
(***************************************************************************)
Halving == Ranges!Halving
InBlocks == Ranges!InBlocks
Root == Ranges!Root
Parts(r) == Ranges!Parts(r)
\* The parts that r leaves to other tasks, as a set.
PartsOf(r) == {Parts(r)[k] : k \in 1..Len(Parts(r))}

\* The numbers from a to b - 1.
Upto(a, b) == [i \in 1..b - a |-> a + i - 1]
\* Where the sum of r begins: init, 0, comes before the first element of the whole.
Base(r) == IF \/ algorithm = "accumulate_using_async" /\ r[1] = 1
              \/ algorithm \in InBlocks /\ r = Root
           THEN 0 ELSE r[1]

Inside(q, r) == r[1] <= q[1] /\ q[2] <= r[2]
Disjoint(q, r) == q[2] <= r[1] \/ r[2] <= q[1]
IsRange(r) == /\ r \in Int \X Int
              /\ 1 <= r[1] /\ r[1] <= r[2] /\ r[2] <= Len(vector) + 1

Unbegun == {"begin", "deferred"}
TaskSet == [step : Unbegun \cup {"work", "compare", "store", "direct", "get", "leave", "ended"},
            at : Int, size : Nat \ {0, 1}, got : Nat, sum : Seq(Int), result : Seq(Int)]

RangeTypes ==
    /\ algorithm \in Halving \cup InBlocks
    /\ vector \in Seq({"match", "other", "throw"})
    /\ task = [r \in DOMAIN task |-> task[r]]
    /\ \A r \in DOMAIN task : IsRange(r) /\ task[r] \in TaskSet
    /\ applied \in [DOMAIN vector -> Nat]
    /\ done_flag \in BOOLEAN

\* r has left its parts to other tasks.  q lies in one of them.
IsSplit(r) == /\ r \in DOMAIN task
              /\ ~Ranges!IsShort(r) /\ task[r].step \notin Unbegun
Under(q, r) == IsSplit(r) /\ \E p \in PartsOf(r) : Inside(q, p)

\* The tasks but the first are parts of others that have begun.
RangeTree ==
    /\ Root \in DOMAIN task
    /\ \A r \in DOMAIN task \ {Root} : /\ r[1] < r[2]
                                       /\ \E s \in DOMAIN task : IsSplit(s) /\ r \in PartsOf(s)
    /\ \A r \in DOMAIN task : IsSplit(r) => PartsOf(r) \subseteq DOMAIN task
    /\ \A q, r \in DOMAIN task : q = r \/ Disjoint(q, r) \/ Under(q, r) \/ Under(r, q)

\* The elements from a to b - 1 have been dealt with.
Done(a, b) == \A i \in a..b - 1 : vector[i] # "throw" /\ applied[i] = 1
NoneFound(a, b) == \A i \in a..b - 1 : vector[i] = "other"
Has(r, what) == \E i \in r[1]..r[2] - 1 : vector[i] = what

\* What a task knows while it works through its range: everything before its place has
\* been dealt with, and nothing found.
Working(r) == /\ Ranges!IsShort(r)
              /\ r[1] <= task[r].at /\ task[r].at <= r[2]
              /\ task[r].result = Upto(Base(r), task[r].at)
              /\ Done(r[1], task[r].at)
              /\ algorithm = "find" => NoneFound(r[1], task[r].at)

\* What a task of parallel_find knows before it sets the flag.
AnswerKnown(r) == /\ algorithm = "find" /\ Ranges!IsShort(r) /\ task[r].result # <<r[2]>>
                  /\ \/ task[r].result = Ranges!Thrown /\ Has(r, "throw")
                     \/ \E i \in r[1]..r[2] - 1 : vector[i] = "match" /\ task[r].result = <<i>>

\* p has ended without a reason to stop.
Right(p) == /\ Ranges!Ended(p) /\ task[p].result # Ranges!Thrown
            /\ algorithm = "find" => task[p].result = <<p[2]>>

\* r works on its own part.
Starts(r) == /\ ~Ranges!IsShort(r)
             /\ task[r].got = 0
             /\ task[r].sum = IF algorithm \in InBlocks THEN <<0>> ELSE <<>>

\* The part at which get() has come.
NextPart(r) == Ranges!Others(r)[task[r].got + 1]

\* r has got the results of its own part and of those before NextPart(r).
Getting(r) == /\ ~Ranges!IsShort(r)
              /\ Right(Ranges!Direct(r)) /\ task[r].result = task[Ranges!Direct(r)].result
              /\ task[r].got < Len(Ranges!Others(r))
              /\ algorithm \in Halving => task[r].got = 0 /\ task[r].sum = <<>>
              /\ algorithm \in InBlocks => task[r].sum = Upto(0, NextPart(r)[1])
              /\ algorithm # "find" => Done(r[1], NextPart(r)[1])

\* r has its answer.  parallel_find has looked at all parts if it has found nothing.
Leaving(r) == /\ ~Ranges!IsShort(r)
              /\ Ranges!Ended(Ranges!Direct(r))
              /\ (algorithm = "find" /\ task[r].result = <<r[2]>>) => \A p \in PartsOf(r) : Right(p)

\* The answers: an exception only where an element throws, a match only where there is
\* one, nothing unless the flag is set or there is none, a sum only of all elements.
Answered(r) == task[r].step \in {"leave", "ended"}
Outcome(r) ==
    \/ task[r].result = Ranges!Thrown /\ Has(r, "throw")
    \/ /\ algorithm = "find"
       /\ \E i \in r[1]..r[2] - 1 : vector[i] = "match" /\ task[r].result = <<i>>
    \/ /\ algorithm = "find" /\ task[r].result = <<r[2]>>
       /\ done_flag \/ NoneFound(r[1], r[2])
    \/ algorithm # "find" /\ task[r].result = Upto(Base(r), r[2]) /\ Done(r[1], r[2])

Control(r) == /\ task[r].step \in Unbegun => task[r] = Ranges!New(task[r].step, r, task[r].size)
              /\ task[r].step = "work" => Working(r)
              /\ task[r].step = "compare" => /\ algorithm = "find" /\ Working(r)
                                             /\ task[r].at < r[2]
              /\ task[r].step = "store" => AnswerKnown(r)
              /\ task[r].step = "direct" => Starts(r)
              /\ task[r].step = "get" => Getting(r)
              /\ task[r].step = "leave" => Leaving(r)
              /\ Answered(r) => Outcome(r)
RangeControl == \A r \in DOMAIN task : Control(r)

\* An element is dealt with by the one short range that it lies in.
AppliedOnce ==
    \A i \in DOMAIN vector :
       \/ applied[i] = 0
       \/ /\ applied[i] = 1
          /\ \E q \in DOMAIN task : /\ Ranges!IsShort(q) /\ q[1] <= i /\ i < q[2]
                                    /\ \/ task[q].step \in {"store", "ended"}
                                       \/ /\ task[q].step \in {"work", "compare"}
                                          /\ i < task[q].at

\* The flag is set by a task that has found or thrown.
FlagSet == done_flag => /\ algorithm = "find"
                        /\ \E w \in DOMAIN task : Ranges!Ended(w) /\ task[w].result # <<w[2]>>

\* When a task has ended nothing goes on in its range.
NoneInside == \A q, r \in DOMAIN task :
                 Ranges!Ended(r) /\ Inside(q, r) => task[q].step \in {"ended", "deferred"}

\* If a task of parallel_find has found nothing, so have all those of its range.
NothingInside ==
    algorithm = "find" =>
       \A q, r \in DOMAIN task :
          /\ Answered(r) /\ task[r].result = <<r[2]>>
          /\ Ranges!Ended(q) /\ Inside(q, r)
          => task[q].result = <<q[2]>>

RangesGoOn == /\ RangeTypes /\ RangeTree /\ RangeControl /\ AppliedOnce
              /\ FlagSet /\ NoneInside /\ NothingInside

\* parallel_accumulate.cpp after an element has thrown.
ProcessEnded == /\ algorithm = "accumulate" /\ DOMAIN task = {Root}
                /\ Ranges!Ended(Root) /\ task[Root].result = Ranges!Terminated
                /\ Ranges!Positions("throw") # {}
                /\ \A i \in DOMAIN vector : applied[i] <= 1

RangeInv == algorithm = "quick_sort" \/ RangesGoOn \/ ProcessEnded
-----------------------------------------------------------------------------
(***************************************************************************)
(* The parts of a range.                                                   *)
(***************************************************************************)
LEMMA Division ==
    ASSUME NEW a \in Nat, NEW b \in Nat \ {0}
    PROVE  a \div b \in Nat /\ b * (a \div b) <= a /\ a < b * (a \div b) + b
  OBVIOUS

LEMMA Product ==
    ASSUME NEW a \in Nat, NEW b \in Nat, NEW c \in Nat, a <= b
    PROVE  a * c \in Nat /\ b * c \in Nat /\ a * c <= b * c
<1>1. PICK d \in Nat : d = b - a
  OBVIOUS
<1>2. b * c = a * c + d * c /\ d * c >= 0
  BY <1>1
<1>. QED
  BY <1>2

LEMMA LeastOfTwo ==
    ASSUME NEW a \in Nat, NEW b \in Nat
    PROVE  Ranges!Min({a, b}) \in {a, b} /\ Ranges!Min({a, b}) <= a /\ Ranges!Min({a, b}) <= b
<1>1. \E x \in {a, b} : \A y \in {a, b} : x <= y
  <2>1. CASE a <= b
    BY <2>1
  <2>2. CASE b <= a
    BY <2>2
  <2>. QED
    BY <2>1, <2>2
<1>. QED
  BY <1>1 DEF Ranges!Min

LEMMA NumberOfThreads ==
    ASSUME NEW n \in Nat, n = Len(vector), RangesAssumption
    PROVE  /\ Ranges!num_threads \in Nat
           /\ Ranges!num_threads > 1 => Ranges!num_threads <= n
<1> DEFINE m == min_per_thread
           k == (n + m - 1) \div m
           h == IF hardware_threads # 0 THEN hardware_threads ELSE 2
<1>1. m \in Nat \ {0} /\ h \in Nat
  BY DEF RangesAssumption
<1>2. n + m - 1 \in Nat
  BY <1>1
<1>3. k \in Nat /\ m * k <= n + m - 1
  BY <1>1, <1>2, Division
<1>4. Ranges!num_threads \in {h, k} /\ Ranges!num_threads <= k
  BY <1>1, <1>3, LeastOfTwo DEF Ranges!num_threads
<1>5. k <= n \/ k <= 1
  <2>1. SUFFICES ASSUME k >= n + 1 PROVE k <= 1
    BY <1>3
  <2>2. (n + 1) * m <= k * m
    BY <2>1, <1>1, <1>3, Product
  <2>3. (n + 1) * m = n * m + m /\ k * m = m * k
    BY <1>1, <1>3
  <2>4. n * 1 <= n * m
    <3>1. 1 * n <= m * n
      BY <1>1, Product
    <3>. QED
      BY <3>1, <1>1
  <2>. QED
    BY <2>2, <2>3, <2>4, <1>1, <1>3
<1>. QED
  BY <1>1, <1>3, <1>4, <1>5

\* The parts of r are ranges in r, smaller than r and one after the other.
Divides(r, parts) ==
    LET m == Len(parts) IN
    /\ parts \in Seq(Int \X Int) /\ m \in Nat /\ m >= 2
    /\ algorithm \in Halving => m = 2
    /\ parts[1][1] = r[1] /\ parts[m][2] = r[2]
    /\ \A k \in 1..m : /\ parts[k] \in Int \X Int
                       /\ r[1] <= parts[k][1] /\ parts[k][1] < parts[k][2]
                       /\ parts[k][2] <= r[2] /\ parts[k] # r
    /\ \A k \in 1..m - 1 : parts[k][2] = parts[k + 1][1]
    /\ \A j, k \in 1..m : j < k => parts[j][2] <= parts[k][1]

LEMMA Algorithms == \A a : ~(a \in Halving /\ a \in InBlocks)
  BY DEF Halving, InBlocks, Ranges!Halving, Ranges!InBlocks

LEMMA ShortRanges ==
    ASSUME NEW r
    PROVE  /\ algorithm \in {"find", "for_each"} =>
                 (Ranges!IsShort(r) <=> r[2] - r[1] < task[r].size \/ r[2] - r[1] = 0)
           /\ algorithm = "accumulate_using_async" =>
                 (Ranges!IsShort(r) <=> r[2] - r[1] <= task[r].size)
           /\ algorithm \in InBlocks => (Ranges!IsShort(r) <=> r # Root \/ Ranges!num_threads <= 1)
<1>1. CASE algorithm = "find"
  BY <1>1 DEF Ranges!IsShort, Ranges!Length, InBlocks, Ranges!InBlocks
<1>2. CASE algorithm = "for_each"
  BY <1>2 DEF Ranges!IsShort, Ranges!Length, InBlocks, Ranges!InBlocks
<1>3. CASE algorithm = "accumulate_using_async"
  BY <1>3 DEF Ranges!IsShort, Ranges!Length, InBlocks, Ranges!InBlocks
<1>4. CASE algorithm \in InBlocks
  <2>1. algorithm \notin {"find", "for_each"} /\ algorithm # "accumulate_using_async"
    BY <1>4 DEF InBlocks, Ranges!InBlocks
  <2>. QED
    BY <1>4, <2>1 DEF Ranges!IsShort, InBlocks, Root
<1>. QED
  BY <1>1, <1>2, <1>3, <1>4

LEMMA TaskFields ==
    ASSUME NEW c \in TaskSet
    PROVE  /\ c.at \in Int /\ c.got \in Nat /\ c.sum \in Seq(Int) /\ c.result \in Seq(Int)
           /\ c.size \in Nat \ {0, 1} /\ c.size >= 2
  BY DEF TaskSet

LEMMA TwoHalves ==
    ASSUME RangesAssumption, RangeTypes, algorithm \in Halving,
           NEW r \in DOMAIN task, ~Ranges!IsShort(r)
    PROVE  Divides(r, Parts(r))
<1> DEFINE mid == r[1] + (r[2] - r[1]) \div 2
           parts == <<<<r[1], mid>>, <<mid, r[2]>>>>
<1>1. r \in Int \X Int /\ r[1] <= r[2] /\ task[r] \in TaskSet
  BY DEF RangeTypes, IsRange
<1>2. r[2] - r[1] >= 2
  <2>1. task[r].size \in Nat /\ task[r].size >= 2
    BY <1>1, TaskFields
  <2>2. CASE algorithm \in {"find", "for_each"}
    BY <1>1, <2>1, <2>2, ShortRanges
  <2>3. CASE algorithm = "accumulate_using_async"
    BY <1>1, <2>1, <2>3, ShortRanges
  <2>. QED
    BY <2>2, <2>3 DEF Halving, Ranges!Halving
<1>3. mid \in Int /\ r[1] < mid /\ mid < r[2]
  <2>1. PICK d \in Nat : d = r[2] - r[1]
    BY <1>1, <1>2
  <2>2. d \div 2 \in Nat /\ 2 * (d \div 2) <= d /\ d < 2 * (d \div 2) + 2
    BY <2>1, Division
  <2>. QED
    BY <2>1, <2>2, <1>1, <1>2
<1>4. Parts(r) = parts
  BY Algorithms DEF Parts, Ranges!Parts, Ranges!Halves, Ranges!Length, InBlocks
<1>5. parts \in Seq(Int \X Int) /\ Len(parts) = 2 /\ parts[1] = <<r[1], mid>> /\ parts[2] = <<mid, r[2]>>
  BY <1>1, <1>3
<1>6. r = <<r[1], r[2]>> /\ parts[1] # r /\ parts[2] # r
  BY <1>1, <1>3, <1>5
<1>. HIDE DEF parts
<1>7. \A k \in 1..2 : k = 1 \/ k = 2
  OBVIOUS
<1>. QED
  <2>1. \A k \in 1..2 : /\ parts[k] \in Int \X Int
                        /\ r[1] <= parts[k][1] /\ parts[k][1] < parts[k][2]
                        /\ parts[k][2] <= r[2] /\ parts[k] # r
    BY <1>1, <1>3, <1>5, <1>6, <1>7
  <2>2. \A k \in 1..2 - 1 : parts[k][2] = parts[k + 1][1]
    BY <1>5
  <2>3. \A j, k \in 1..2 : j < k => parts[j][2] <= parts[k][1]
    BY <1>3, <1>5, <1>7
  <2>4. parts[1][1] = r[1] /\ parts[2][2] = r[2]
    BY <1>5
  <2>. QED
    BY <1>4, <1>5, <2>1, <2>2, <2>3, <2>4 DEF Divides

LEMMA ManyBlocks ==
    ASSUME RangesAssumption, RangeTypes, algorithm \in InBlocks,
           NEW r \in DOMAIN task, ~Ranges!IsShort(r)
    PROVE  Divides(r, Parts(r))
<1>1. PICK n \in Nat : n = Len(vector)
  BY DEF RangeTypes
<1>2. PICK m \in Nat : m = Ranges!num_threads /\ m >= 2 /\ m <= n
  <2>1. algorithm \notin {"find", "for_each"} /\ algorithm # "accumulate_using_async"
    BY DEF InBlocks, Ranges!InBlocks
  <2>2. Ranges!num_threads > 1
    BY <2>1, <1>1, NumberOfThreads DEF Ranges!IsShort, InBlocks
  <2>. QED
    BY <1>1, <2>2, NumberOfThreads
<1>3. r = Root /\ Root = <<1, n + 1>> /\ r[1] = 1 /\ r[2] = n + 1
  <2>1. algorithm \notin {"find", "for_each"} /\ algorithm # "accumulate_using_async"
    BY DEF InBlocks, Ranges!InBlocks
  <2>2. r = Root
    BY <2>1 DEF Ranges!IsShort, InBlocks, Root
  <2>. QED
    BY <1>1, <2>2 DEF Root, Ranges!Root
<1>4. PICK b \in Nat : b = n \div m /\ m * b <= n /\ b >= 1
  <2>1. n \div m \in Nat /\ m * (n \div m) <= n /\ n < m * (n \div m) + m
    BY <1>2, Division
  <2>2. n \div m # 0
    BY <2>1, <1>2
  <2>. QED
    BY <2>1, <2>2
<1> DEFINE P == Parts(r)
<1>5. P = [k \in 1..m |-> <<1 + (k - 1) * b, IF k = m THEN n + 1 ELSE 1 + k * b>>]
  BY <1>1, <1>2, <1>4 DEF Parts, Ranges!Parts, Ranges!Blocks, InBlocks
<1>. HIDE DEF P
<1>6. ASSUME NEW k \in 1..m
      PROVE  /\ (k - 1) * b \in Nat /\ k * b \in Nat /\ k * b = (k - 1) * b + b
             /\ k * b <= n /\ (k - 1) * b + b <= n
  <2>1. k \in Nat /\ k - 1 \in Nat /\ k <= m
    BY <1>2
  <2>2. k * b \in Nat /\ (k - 1) * b \in Nat /\ k * b <= m * b
    BY <2>1, Product
  <2>3. k * b = (k - 1) * b + b /\ m * b = m * b
    BY <2>1
  <2>. QED
    <3>1. PICK x \in Nat, y \in Nat, z \in Nat : x = (k - 1) * b /\ y = k * b /\ z = m * b
      BY <2>2, <1>2, <1>4
    <3>. QED
      BY <3>1, <2>1, <2>2, <2>3, <1>4
<1>7. ASSUME NEW k \in 1..m
      PROVE  /\ P[k] \in Int \X Int /\ P[k][1] = 1 + (k - 1) * b
             /\ P[k][2] = IF k = m THEN n + 1 ELSE 1 + k * b
  BY <1>5, <1>6
<1>8. P \in Seq(Int \X Int) /\ Len(P) = m
  <2>1. P = [k \in 1..m |-> P[k]]
    BY <1>5
  <2>2. \A k \in 1..m : P[k] \in Int \X Int
    BY <1>7
  <2>. QED
    BY <2>1, <2>2
<1>9. 1 \in 1..m /\ m \in 1..m
  BY <1>2
<1>10. P[1][1] = 1 /\ P[m][2] = n + 1
  BY <1>9, <1>7
<1>11. ASSUME NEW j \in 1..m, NEW k \in 1..m, j < k
       PROVE  P[j][2] <= P[k][1] /\ (k = j + 1 => P[j][2] = P[k][1])
  <2>1. j # m /\ P[j][2] = 1 + j * b /\ P[k][1] = 1 + (k - 1) * b
    BY <1>7, <1>11
  <2>2. j \in Nat /\ k - 1 \in Nat /\ j <= k - 1
    BY <1>11
  <2>3. j * b <= (k - 1) * b /\ j * b \in Nat /\ (k - 1) * b \in Nat
    BY <2>2, Product
  <2>4. k = j + 1 => k - 1 = j
    BY <2>2
  <2>. QED
    BY <2>1, <2>3, <2>4
<1>12. ASSUME NEW k \in 1..m
       PROVE  /\ 1 <= P[k][1] /\ P[k][1] < P[k][2] /\ P[k][2] <= n + 1 /\ P[k] # r
  <2>0. PICK x \in Nat, y \in Nat : x = (k - 1) * b /\ y = k * b
    BY <1>6
  <2>1. 1 <= P[k][1] /\ P[k][1] < P[k][2] /\ P[k][2] <= n + 1
    <3>1. y = x + b /\ y <= n
      BY <2>0, <1>6
    <3>2. P[k][1] = 1 + x /\ P[k][2] = IF k = m THEN n + 1 ELSE 1 + y
      BY <2>0, <1>7
    <3>3. b >= 1
      BY <1>4
    <3>. QED
      BY <3>1, <3>2, <3>3
  <2>2. k # m => P[k][2] # n + 1
    <3>1. ASSUME k # m PROVE P[k][2] <= P[m][1]
      BY <3>1, <1>9, <1>11, <1>2
    <3>2. PICK z \in Nat : z = (m - 1) * b /\ z + b <= n
      <4>1. (m - 1) * b \in Nat /\ (m - 1) * b + b <= n
        BY <1>6, <1>9
      <4>. QED
        BY <4>1, Zenon
    <3>3. P[m][1] = 1 + z
      BY <3>2, <1>7, <1>9
    <3>4. P[m][1] < n + 1 /\ P[m][1] \in Int
      BY <3>2, <3>3, <1>4
    <3>5. P[k][2] \in Int
      BY <1>7
    <3>. QED
      BY <3>1, <3>4, <3>5
  <2>3. k # 1 => P[k][1] # 1
    <3>1. ASSUME k # 1 PROVE P[1][2] <= P[k][1]
      BY <3>1, <1>9, <1>11, <1>2
    <3>2. P[1][2] = 1 + b
      BY <1>2, <1>7, <1>9, <1>4
    <3>3. P[k][1] \in Int /\ b >= 1
      BY <1>4, <1>7
    <3>. QED
      BY <3>1, <3>2, <3>3
  <2>4. k # m \/ k # 1
    BY <1>2
  <2>. QED
    BY <2>1, <2>2, <2>3, <2>4, <1>3
<1>13. ASSUME NEW k \in 1..m - 1
       PROVE  P[k][2] = P[k + 1][1]
  BY <1>11
<1>14. algorithm \notin Halving
  BY Algorithms
<1>15. \A k \in 1..m : /\ P[k] \in Int \X Int
                        /\ r[1] <= P[k][1] /\ P[k][1] < P[k][2]
                        /\ P[k][2] <= r[2] /\ P[k] # r
  BY <1>3, <1>7, <1>12
<1>16. \A j, k \in 1..m : j < k => P[j][2] <= P[k][1]
  BY <1>11
<1>17. P[1][1] = r[1] /\ P[m][2] = r[2]
  BY <1>3, <1>10
<1>18. Divides(r, P)
  BY <1>2, <1>8, <1>13, <1>14, <1>15, <1>16, <1>17 DEF Divides
<1>. QED
  BY <1>18 DEF P

LEMMA Divided ==
    ASSUME RangesAssumption, RangeTypes, NEW r \in DOMAIN task, ~Ranges!IsShort(r)
    PROVE  Divides(r, Parts(r))
  BY TwoHalves, ManyBlocks DEF RangeTypes

\* The part that r works on itself, and the others.
Shares(r, direct, others) ==
    LET n == Len(others) IN
    /\ others \in Seq(Int \X Int) /\ n \in Nat /\ n >= 1
    /\ PartsOf(r) = {direct} \cup {others[k] : k \in 1..n}
    /\ \A p \in PartsOf(r) : /\ p \in Int \X Int /\ p # r /\ Inside(p, r) /\ p[1] < p[2]
    /\ \A p, q \in PartsOf(r) : p = q \/ Disjoint(p, q)
    /\ \A k \in 1..n : others[k] # direct
    /\ algorithm \in Halving => n = 1
    /\ algorithm = "find" => /\ direct[1] = r[1] /\ direct[2] = others[1][1]
                             /\ others[1][2] = r[2]
    /\ algorithm # "find" => /\ others[1][1] = r[1]
                             /\ \A k \in 1..n - 1 : others[k][2] = others[k + 1][1]
                             /\ others[n][2] = direct[1] /\ direct[2] = r[2]

LEMMA TailOfTwo ==
    ASSUME NEW S, NEW s \in Seq(S), Len(s) = 2
    PROVE  Tail(s) \in Seq(S) /\ Len(Tail(s)) = 1 /\ Tail(s)[1] = s[2]
<1>1. s # <<>>
  BY EmptySeq
<1>2. Len(Tail(s)) = Len(s) - 1 /\ Tail(s) \in Seq(S)
  BY <1>1, HeadTailProperties
<1>3. Len(Tail(s)) = 1 /\ 1 \in 1..Len(Tail(s))
  <2>1. \A n : n = Len(s) - 1 => n = 1 /\ 1 \in 1..n
    OBVIOUS
  <2>. QED
    BY <1>2, <2>1, Zenon
<1>4. Tail(s)[1] = s[1 + 1]
  BY <1>1, <1>3, HeadTailProperties
<1>. QED
  BY <1>2, <1>3, <1>4

LEMMA FrontFacts ==
    ASSUME NEW S, NEW s \in Seq(S), NEW m \in Nat, m = Len(s), m >= 2
    PROVE  /\ SubSeq(s, 1, m - 1) \in Seq(S) /\ Len(SubSeq(s, 1, m - 1)) = m - 1
           /\ \A k \in 1..m - 1 : SubSeq(s, 1, m - 1)[k] = s[k]
  OBVIOUS

LEMMA Shared ==
    ASSUME RangesAssumption, RangeTypes, NEW r \in DOMAIN task, ~Ranges!IsShort(r)
    PROVE  /\ Shares(r, Ranges!Direct(r), Ranges!Others(r))
           /\ PartsOf(r) = Ranges!ToSet(Parts(r))
<1> DEFINE P == Parts(r)
           m == Len(P)
           D == Ranges!Direct(r)
           O == Ranges!Others(r)
           n == Len(O)
<1>1. Divides(r, P)
  BY Divided
<1>2. P \in Seq(Int \X Int) /\ m \in Nat /\ m >= 2 /\ DOMAIN P = 1..m
  BY <1>1 DEF Divides
<1>3. CASE algorithm = "find"
  <2>1. m = 2
    BY <1>1, <1>3 DEF Divides, Halving, Ranges!Halving
  <2>2. D = P[1] /\ O = Tail(P)
    BY <1>2, <1>3 DEF Ranges!Direct, Ranges!Others, Parts
  <2>3. O \in Seq(Int \X Int) /\ n = 1 /\ O[1] = P[2]
    BY <1>2, <2>1, <2>2, TailOfTwo, Zenon
  <2>4. PartsOf(r) = {P[1], P[2]}
    <3>1. 1..2 = {1, 2}
      OBVIOUS
    <3>. QED
      BY <2>1, <3>1 DEF PartsOf
  <2>5. \A k \in 1..1 : k = 1
    OBVIOUS
  <2>6. /\ \A p \in PartsOf(r) : /\ p \in Int \X Int /\ p # r /\ Inside(p, r) /\ p[1] < p[2]
        /\ P[1][2] = P[2][1] /\ P[1][1] = r[1] /\ P[2][2] = r[2] /\ P[1] # P[2]
    BY <1>1, <2>1, <2>4 DEF Divides, Inside
  <2>7. PartsOf(r) = {D} \cup {O[k] : k \in 1..n}
    <3>1. 1..1 = {1}
      OBVIOUS
    <3>2. {O[k] : k \in 1..n} = {O[1]}
      BY <2>3, <3>1
    <3>. QED
      BY <2>2, <2>3, <2>4, <3>2
  <2>8. \A p, q \in PartsOf(r) : p = q \/ Disjoint(p, q)
    BY <2>4, <2>6 DEF Disjoint
  <2>. QED
    <3>1. PartsOf(r) = Ranges!ToSet(P)
      BY <1>2 DEF PartsOf, Ranges!ToSet
    <3>2. \A k \in 1..n : O[k] # D
      BY <2>2, <2>3, <2>5, <2>6
    <3>3. /\ D[1] = r[1] /\ D[2] = O[1][1] /\ O[1][2] = r[2]
      BY <2>2, <2>3, <2>6
    <3>4. Shares(r, D, O)
      BY <1>3, <2>3, <2>6, <2>7, <2>8, <3>2, <3>3 DEF Shares
    <3>. QED
      BY <3>1, <3>4
<1>4. CASE algorithm # "find"
  <2>1. D = P[m] /\ O = SubSeq(P, 1, m - 1)
    BY <1>4 DEF Ranges!Direct, Ranges!Others, Parts, Ranges!Front
  <2>2. /\ O \in Seq(Int \X Int) /\ n = m - 1 /\ n \in Nat /\ n >= 1
        /\ \A k \in 1..n : O[k] = P[k]
    <3>0. /\ SubSeq(P, 1, m - 1) \in Seq(Int \X Int) /\ Len(SubSeq(P, 1, m - 1)) = m - 1
          /\ \A k \in 1..m - 1 : SubSeq(P, 1, m - 1)[k] = P[k]
      BY <1>2, FrontFacts
    <3>1. /\ O \in Seq(Int \X Int) /\ n = m - 1
          /\ \A k \in 1..m - 1 : O[k] = P[k]
      BY <2>1, <3>0, Zenon
    <3>2. m - 1 \in Nat /\ m - 1 >= 1
      BY <1>2
    <3>. QED
      BY <3>1, <3>2, Zenon
  <2>3. PartsOf(r) = {D} \cup {O[k] : k \in 1..n}
    <3>1. 1..m = {m} \cup (1..n)
      <4>1. ASSUME NEW k \in Int PROVE k \in 1..m <=> k = m \/ k \in 1..n
        <5>1. m \in Int /\ n = m - 1 /\ n >= 1
          BY <1>2, <2>2
        <5>. HIDE DEF m, n
        <5>. QED
          BY <5>1
      <4>. QED
        BY <4>1
    <3>. QED
      BY <2>1, <2>2, <3>1 DEF PartsOf
  <2>4. \A p \in PartsOf(r) : /\ p \in Int \X Int /\ p # r /\ Inside(p, r) /\ p[1] < p[2]
    BY <1>1 DEF Divides, Inside, PartsOf
  <2>5. ASSUME NEW j \in 1..m, NEW k \in 1..m, j < k PROVE P[j][2] <= P[k][1] /\ P[j] # P[k]
    <3>1. P[j][2] <= P[k][1]
      BY <1>1, <2>5 DEF Divides
    <3>2. P[j] \in Int \X Int /\ P[k] \in Int \X Int /\ P[j][1] < P[j][2]
      BY <1>1 DEF Divides
    <3>. QED
      BY <3>1, <3>2
  <2>6. \A p, q \in PartsOf(r) : p = q \/ Disjoint(p, q)
    <3>1. SUFFICES ASSUME NEW j \in 1..m, NEW k \in 1..m PROVE P[j] = P[k] \/ Disjoint(P[j], P[k])
      BY DEF PartsOf
    <3>2. j = k \/ j < k \/ k < j
      BY <1>2
    <3>. QED
      BY <3>2, <2>5 DEF Disjoint
  <2>7. \A k \in 1..n : O[k] # D
    BY <1>2, <2>1, <2>2, <2>5
  <2>8. /\ O[1][1] = r[1] /\ O[n][2] = D[1] /\ D[2] = r[2]
        /\ \A k \in 1..n - 1 : O[k][2] = O[k + 1][1]
    <3>1. /\ P[1][1] = r[1] /\ P[m][2] = r[2]
          /\ \A k \in 1..m - 1 : P[k][2] = P[k + 1][1]
      BY <1>1 DEF Divides
    <3>2. n + 1 = m /\ 1 \in 1..n /\ n \in 1..n
      BY <1>2, <2>2
    <3>3. \A k \in 1..n - 1 : k \in 1..n /\ k + 1 \in 1..n
      BY <2>2
    <3>. QED
      BY <3>1, <3>2, <3>3, <2>1, <2>2
  <2>9. algorithm \in Halving => n = 1
    BY <1>1, <2>2 DEF Divides
  <2>. QED
    BY <1>2, <1>4, <2>2, <2>3, <2>4, <2>6, <2>7, <2>8, <2>9 DEF Shares, PartsOf, Ranges!ToSet
<1>. QED
  BY <1>3, <1>4

-----------------------------------------------------------------------------
(***************************************************************************)
(* Sums, as sequences of numbers.                                          *)
(***************************************************************************)
LEMMA UptoFacts ==
    ASSUME NEW a \in Int, NEW b \in Int, a <= b
    PROVE  /\ Upto(a, b) \in Seq(Int) /\ Len(Upto(a, b)) = b - a
           /\ \A i \in 1..b - a : Upto(a, b)[i] = a + i - 1
<1>1. b - a \in Nat /\ \A i \in 1..b - a : a + i - 1 \in Int
  OBVIOUS
<1>. QED
  BY <1>1 DEF Upto

LEMMA UptoJoined ==
    ASSUME NEW a \in Int, NEW b \in Int, NEW c \in Int, a <= b, b <= c
    PROVE  Upto(a, b) \o Upto(b, c) = Upto(a, c)
<1> DEFINE s == Upto(a, b)
           t == Upto(b, c)
           u == Upto(a, c)
<1>1. /\ s \in Seq(Int) /\ Len(s) = b - a /\ \A i \in 1..b - a : s[i] = a + i - 1
      /\ t \in Seq(Int) /\ Len(t) = c - b /\ \A i \in 1..c - b : t[i] = b + i - 1
      /\ u \in Seq(Int) /\ Len(u) = c - a /\ \A i \in 1..c - a : u[i] = a + i - 1
  <2>1. a <= c
    OBVIOUS
  <2>. QED
    BY <2>1, UptoFacts
<1>. HIDE DEF s, t, u
<1>2. s \o t \in Seq(Int) /\ Len(s \o t) = c - a
  BY <1>1
<1>3. ASSUME NEW i \in 1..c - a PROVE (s \o t)[i] = u[i]
  <2>1. CASE i <= b - a
    BY <2>1, <1>1, ConcatProperties
  <2>2. CASE i > b - a
    <3>0. s \in Seq(Int) /\ t \in Seq(Int)
      BY <1>1
    <3>1. i > Len(s) /\ i \in 1..Len(s) + Len(t) /\ i - (b - a) \in 1..c - b
      BY <2>2, <1>1
    <3>2. (s \o t)[i] = t[i - Len(s)]
      BY <3>0, <3>1, ConcatProperties
    <3>. QED
      BY <1>1, <3>1, <3>2
  <2>. QED
    <3>1. i <= b - a \/ i > b - a
      BY <1>3
    <3>. QED
      BY <3>1, <2>1, <2>2
<1>4. s \o t = u
  BY <1>1, <1>2, <1>3, SeqEqual
<1>. QED
  BY <1>4 DEF s, t, u

LEMMA UptoOneMore ==
    ASSUME NEW a \in Int, NEW b \in Int, a <= b
    PROVE  Append(Upto(a, b), b) = Upto(a, b + 1)
<1> DEFINE s == Upto(a, b)
           u == Upto(a, b + 1)
<1>1. /\ s \in Seq(Int) /\ Len(s) = b - a /\ \A i \in 1..b - a : s[i] = a + i - 1
      /\ u \in Seq(Int) /\ Len(u) = b + 1 - a /\ \A i \in 1..b + 1 - a : u[i] = a + i - 1
  <2>1. a <= b + 1 /\ b + 1 \in Int
    OBVIOUS
  <2>. QED
    BY <2>1, UptoFacts
<1>. HIDE DEF s, u
<1>2. Append(s, b) \in Seq(Int) /\ Len(Append(s, b)) = b + 1 - a
  BY <1>1, SMTT(20)
<1>3. ASSUME NEW i \in 1..b + 1 - a PROVE Append(s, b)[i] = u[i]
  BY <1>1
<1>4. Append(s, b) = u
  BY <1>1, <1>2, <1>3, SeqEqual
<1>. QED
  BY <1>4 DEF s, u

LEMMA UptoSmall ==
    ASSUME NEW a \in Int
    PROVE  /\ Upto(a, a) = <<>> /\ Upto(a, a + 1) = <<a>>
           /\ \A b \in Int : a >= 0 /\ a <= b => /\ Upto(a, b) # Ranges!Thrown
                                                 /\ Upto(a, b) # Ranges!Terminated
<1>1. Upto(a, a) = <<>>
  BY UptoFacts, EmptySeq
<1>2. Upto(a, a + 1) = <<a>>
  <2>1. a <= a + 1 /\ a + 1 \in Int /\ (a + 1) - a = 1
    OBVIOUS
  <2>2. /\ Upto(a, a + 1) \in Seq(Int) /\ Len(Upto(a, a + 1)) = 1
        /\ Upto(a, a + 1)[1] = a
    <3>1. 1 \in 1..1
      OBVIOUS
    <3>2. /\ Upto(a, a + 1) \in Seq(Int) /\ Len(Upto(a, a + 1)) = (a + 1) - a
          /\ \A i \in 1..(a + 1) - a : Upto(a, a + 1)[i] = a + i - 1
      BY <2>1, UptoFacts
    <3>3. Upto(a, a + 1)[1] = a + 1 - 1
      BY <2>1, <3>1, <3>2
    <3>. QED
      BY <2>1, <3>2, <3>3
  <2>. QED
    BY <2>2
<1>3. ASSUME NEW b \in Int, a >= 0, a <= b
      PROVE  Upto(a, b) # Ranges!Thrown /\ Upto(a, b) # Ranges!Terminated
  <2>1. /\ Upto(a, b) \in Seq(Int) /\ Len(Upto(a, b)) = b - a
        /\ \A i \in 1..b - a : Upto(a, b)[i] = a + i - 1
    BY <1>3, UptoFacts
  <2>2. ASSUME NEW x \in Int, x < 0 PROVE Upto(a, b) # <<x>>
    <3>1. SUFFICES ASSUME Upto(a, b) = <<x>> PROVE FALSE
      OBVIOUS
    <3>2. Len(<<x>>) = 1 /\ <<x>>[1] = x
      OBVIOUS
    <3>3. b - a = 1 /\ Upto(a, b)[1] = a + 1 - 1
      BY <2>1, <3>1, <3>2
    <3>. QED
      BY <1>3, <2>2, <3>1, <3>2, <3>3
  <2>. QED
    BY <2>2 DEF Ranges!Thrown, Ranges!Terminated
<1>. QED
  BY <1>1, <1>2, <1>3

LEMMA UptoZero == Upto(0, 1) = <<0>>
<1>1. Upto(0, 0 + 1) = <<0>>
  BY UptoSmall
<1>2. 0 + 1 = 1
  OBVIOUS
<1>. QED
  BY <1>1, <1>2

-----------------------------------------------------------------------------
(***************************************************************************)
(* A step that changes one task.                                           *)
(***************************************************************************)
OneTask(r) == /\ UNCHANGED <<algorithm, vector>>
              /\ r \in DOMAIN task /\ DOMAIN task' = DOMAIN task
              /\ task' = [q \in DOMAIN task |-> task'[q]]
              /\ \A q \in DOMAIN task : q # r => task'[q] = task[q]
              /\ task'[r] \in TaskSet /\ task'[r].size = task[r].size

\* r has begun, or not, as before.
BegunAsBefore(r) == IsSplit(r)' <=> IsSplit(r)

LEMMA ExceptOne ==
    ASSUME RangeTypes, UNCHANGED <<algorithm, vector>>, NEW r \in DOMAIN task,
           NEW c \in TaskSet, c.size = task[r].size, task' = [task EXCEPT ![r] = c]
    PROVE  OneTask(r) /\ task'[r] = c
  BY DEF OneTask, RangeTypes

LEMMA SameParts ==
    ASSUME UNCHANGED <<algorithm, vector>>, NEW r, task'[r].size = task[r].size
    PROVE  /\ Ranges!IsShort(r)' = Ranges!IsShort(r) /\ Base(r)' = Base(r)
           /\ Parts(r)' = Parts(r) /\ PartsOf(r)' = PartsOf(r)
           /\ Ranges!Direct(r)' = Ranges!Direct(r) /\ Ranges!Others(r)' = Ranges!Others(r)
<1>1. Ranges!num_threads' = Ranges!num_threads /\ Root' = Root /\ Ranges!Root' = Ranges!Root
  BY DEF Ranges!num_threads, Ranges!Root, Root
<1>2. Ranges!Parts(r)' = Ranges!Parts(r)
  BY <1>1 DEF Ranges!Parts, Ranges!Halves, Ranges!Blocks, Ranges!Length
<1>3. Ranges!IsShort(r)' = Ranges!IsShort(r)
  BY <1>1 DEF Ranges!IsShort, Ranges!Length
<1>4. Base(r)' = Base(r)
  BY <1>1 DEF Base
<1>5. Ranges!Direct(r)' = Ranges!Direct(r) /\ Ranges!Others(r)' = Ranges!Others(r)
  BY <1>2 DEF Ranges!Direct, Ranges!Others
<1>. QED
  BY <1>2, <1>3, <1>4, <1>5 DEF Parts, PartsOf

LEMMA OneTaskParts ==
    ASSUME NEW r, OneTask(r), NEW q \in DOMAIN task
    PROVE  /\ q \in DOMAIN task' /\ task'[q].size = task[q].size
           /\ Ranges!IsShort(q)' = Ranges!IsShort(q) /\ Base(q)' = Base(q)
           /\ PartsOf(q)' = PartsOf(q)
           /\ Ranges!Direct(q)' = Ranges!Direct(q) /\ Ranges!Others(q)' = Ranges!Others(q)
<1>1. q \in DOMAIN task' /\ task'[q].size = task[q].size
  BY DEF OneTask
<1>. QED
  BY <1>1, SameParts DEF OneTask

LEMMA TypesStay ==
    ASSUME RangeTypes, NEW r, OneTask(r),
           applied' \in [DOMAIN vector -> Nat], done_flag' \in BOOLEAN
    PROVE  RangeTypes'
  BY DEF RangeTypes, OneTask, IsRange

LEMMA TreeStays ==
    ASSUME RangeTree, NEW r, OneTask(r), BegunAsBefore(r)
    PROVE  /\ RangeTree'
           /\ \A q \in DOMAIN task : IsSplit(q)' <=> IsSplit(q)
<1>1. ASSUME NEW q \in DOMAIN task
      PROVE  (IsSplit(q)' <=> IsSplit(q)) /\ PartsOf(q)' = PartsOf(q)
  <2>1. CASE q = r
    BY <2>1, OneTaskParts DEF BegunAsBefore
  <2>2. CASE q # r
    BY <2>2, OneTaskParts DEF IsSplit, OneTask
  <2>. QED
    BY <2>1, <2>2
<1>2. DOMAIN task' = DOMAIN task /\ Root' = Root
  BY DEF OneTask, Root, Ranges!Root
<1>3. \A p, q \in DOMAIN task : Under(p, q)' <=> Under(p, q)
  BY <1>1 DEF Under, Inside
<1>4. \A p, q \in DOMAIN task : Disjoint(p, q)' <=> Disjoint(p, q)
  BY DEF Disjoint
<1>. QED
  BY <1>1, <1>2, <1>3, <1>4 DEF RangeTree

LEMMA InsideUnder ==
    ASSUME RangesAssumption, RangeTypes, RangeTree,
           NEW q \in DOMAIN task, NEW r \in DOMAIN task, Inside(q, r), q # r
    PROVE  Under(q, r) /\ q[1] < q[2]
<1>1. IsRange(q) /\ IsRange(r)
  BY DEF RangeTypes
<1>2. q[1] < q[2]
  <2>1. CASE q # Root
    BY <2>1 DEF RangeTree
  <2>2. CASE q = Root
    BY <2>2, <1>1 DEF Root, Ranges!Root, IsRange, Inside
  <2>. QED
    BY <2>1, <2>2
<1>3. ~Disjoint(q, r)
  BY <1>1, <1>2 DEF Disjoint, Inside, IsRange
<1>4. ~Under(r, q)
  <2>1. SUFFICES ASSUME ~Ranges!IsShort(q), NEW p \in PartsOf(q), Inside(r, p) PROVE FALSE
    BY DEF Under, IsSplit
  <2>2. Shares(q, Ranges!Direct(q), Ranges!Others(q))
    BY <2>1, Shared
  <2>3. p \in Int \X Int /\ p # q /\ Inside(p, q)
    BY <2>2 DEF Shares
  <2>. QED
    BY <1>1, <2>1, <2>3 DEF Inside, IsRange
<1>. QED
  BY <1>2, <1>3, <1>4 DEF RangeTree

LEMMA DoneStays ==
    ASSUME RangeTypes, UNCHANGED vector,
           \A i \in DOMAIN vector : applied[i] = 1 => applied'[i] = 1,
           NEW a \in Int, NEW b \in Int, 1 <= a, b <= Len(vector) + 1, Done(a, b)
    PROVE  Done(a, b)'
<1>1. \A i \in a..b - 1 : i \in DOMAIN vector
  BY DEF RangeTypes
<1>. QED
  BY <1>1 DEF Done

LEMMA ControlStays ==
    ASSUME RangesAssumption, RangeTypes, UNCHANGED <<algorithm, vector>>, 
           NEW q \in DOMAIN task, q \in DOMAIN task', task'[q] = task[q], Control(q),
           \A w \in DOMAIN task : Ranges!Ended(w) => w \in DOMAIN task' /\ task'[w] = task[w],
           \A i \in DOMAIN vector : applied[i] = 1 => applied'[i] = 1,
           done_flag => done_flag'
    PROVE  Control(q)'
<1>1. /\ Ranges!IsShort(q)' = Ranges!IsShort(q) /\ Base(q)' = Base(q)
      /\ PartsOf(q)' = PartsOf(q)
      /\ Ranges!Direct(q)' = Ranges!Direct(q) /\ Ranges!Others(q)' = Ranges!Others(q)
  BY SameParts
<1>2. IsRange(q) /\ task[q] \in TaskSet
  BY DEF RangeTypes
<1>3. \A w \in DOMAIN task : Right(w) => Right(w)'
  BY DEF Right, Ranges!Ended, Ranges!Exists, Ranges!Thrown
<1>4. ASSUME Working(q) PROVE Working(q)'
  <2>1. Done(q[1], task[q].at)'
    BY <1>2, <1>4, DoneStays DEF Working, IsRange, TaskSet
  <2>. QED
    BY <1>1, <1>4, <2>1 DEF Working, Done, NoneFound, Upto
<1>5. ASSUME Starts(q) PROVE Starts(q)'
  BY <1>1, <1>5 DEF Starts
<1>6. ASSUME Getting(q) PROVE Getting(q)'
  <2>1. Shares(q, Ranges!Direct(q), Ranges!Others(q))
    BY <1>6, Shared DEF Getting
  <2>2. NextPart(q)' = NextPart(q)
    BY <1>1 DEF NextPart
  <2>3. NextPart(q) \in PartsOf(q) /\ NextPart(q) \in Int \X Int /\ Inside(NextPart(q), q)
        /\ NextPart(q)[1] < NextPart(q)[2]
    <3>1. task[q].got + 1 \in 1..Len(Ranges!Others(q))
      <4>1. task[q].got \in Nat
        BY <1>2, TaskFields
      <4>2. task[q].got < Len(Ranges!Others(q)) /\ Len(Ranges!Others(q)) \in Nat
        BY <1>6, <2>1 DEF Getting, Shares
      <4>. QED
        BY <4>1, <4>2
    <3>. QED
      BY <2>1, <3>1 DEF NextPart, Shares
  <2>4. algorithm # "find" => Done(q[1], NextPart(q)[1])'
    <3>1. PICK b \in Int : b = NextPart(q)[1] /\ b <= Len(vector) + 1
      BY <1>2, <2>3 DEF Inside, IsRange, RangeTypes
    <3>2. ASSUME Done(q[1], b) PROVE Done(q[1], b)'
      BY <1>2, <3>1, <3>2, DoneStays DEF IsRange
    <3>. QED
      BY <1>6, <3>1, <3>2, <2>2 DEF Getting, Done
  <2>5. Ranges!Direct(q) \in DOMAIN task /\ Ranges!Ended(Ranges!Direct(q))
    BY <1>6 DEF Getting, Right, Ranges!Ended, Ranges!Exists
  <2>6. Right(Ranges!Direct(q))' /\ task'[Ranges!Direct(q)] = task[Ranges!Direct(q)]
    BY <1>1, <1>3, <1>6, <2>5 DEF Getting, Right, Ranges!Ended, Ranges!Exists, Ranges!Thrown
  <2>. QED
    BY <1>1, <1>6, <2>2, <2>4, <2>6 DEF Getting, Upto, Done
<1>7. ASSUME Leaving(q) PROVE Leaving(q)'
  <2>1. Ranges!Ended(Ranges!Direct(q))'
    BY <1>1, <1>7 DEF Leaving, Ranges!Ended, Ranges!Exists
  <2>2. ASSUME algorithm = "find", task[q].result = <<q[2]>>, NEW p \in PartsOf(q)
        PROVE  Right(p)'
    BY <1>3, <1>7, <2>2 DEF Leaving, Right, Ranges!Ended, Ranges!Exists
  <2>. QED
    BY <1>1, <1>7, <2>1, <2>2 DEF Leaving
<1>8. ASSUME Outcome(q) PROVE Outcome(q)'
  <2>1. Done(q[1], q[2]) => Done(q[1], q[2])'
    BY <1>2, DoneStays DEF IsRange
  <2>. QED
    BY <1>1, <1>8, <2>1 DEF Outcome, Has, NoneFound, Upto, Ranges!Thrown
<1>9. Ranges!New(task[q].step, q, task[q].size)' = Ranges!New(task[q].step, q, task[q].size)
  BY DEF Ranges!New
<1>10. ASSUME AnswerKnown(q) PROVE AnswerKnown(q)'
  BY <1>1, <1>10 DEF AnswerKnown, Has, Ranges!Thrown
<1>. QED
  BY <1>4, <1>5, <1>6, <1>7, <1>8, <1>9, <1>10 DEF Control, Answered

\* Nothing that has ended has changed.
LEMMA OthersControl ==
    ASSUME RangesAssumption, RangeTypes, RangeControl, NEW r, OneTask(r),
           task[r].step # "ended", Control(r)',
           \A i \in DOMAIN vector : applied[i] = 1 => applied'[i] = 1,
           done_flag => done_flag'
    PROVE  RangeControl'
<1>1. \A w \in DOMAIN task : Ranges!Ended(w) => w \in DOMAIN task' /\ task'[w] = task[w]
  BY DEF OneTask, Ranges!Ended, Ranges!Exists
<1>2. ASSUME NEW q \in DOMAIN task, q # r PROVE Control(q)'
  BY <1>1, <1>2, ControlStays DEF OneTask, RangeControl
<1>. QED
  BY <1>2 DEF RangeControl, OneTask

LEMMA FlagStays ==
    ASSUME FlagSet, NEW r, OneTask(r), task[r].step # "ended",
           done_flag' => \/ done_flag
                         \/ /\ algorithm = "find"
                            /\ task'[r].step = "ended" /\ task'[r].result # <<r[2]>>
    PROVE  FlagSet'
  BY DEF FlagSet, OneTask, Ranges!Ended, Ranges!Exists

LEMMA AppliedStays ==
    ASSUME AppliedOnce, NEW r, OneTask(r), UNCHANGED applied,
           task[r].step \in {"store", "ended"} => task'[r].step \in {"store", "ended"},
           task[r].step \in {"work", "compare"} =>
              \/ task'[r].step \in {"store", "ended"}
              \/ task'[r].step \in {"work", "compare"} /\ task'[r].at = task[r].at
    PROVE  AppliedOnce'
<1>1. ASSUME NEW i, NEW q \in DOMAIN task, Ranges!IsShort(q),
             \/ task[q].step \in {"store", "ended"}
             \/ task[q].step \in {"work", "compare"} /\ i < task[q].at
      PROVE  /\ q \in DOMAIN task' /\ Ranges!IsShort(q)'
             /\ \/ task'[q].step \in {"store", "ended"}
                \/ task'[q].step \in {"work", "compare"} /\ i < task'[q].at
  BY <1>1, OneTaskParts DEF OneTask
<1>. QED
  BY <1>1 DEF AppliedOnce, OneTask

LEMMA NoneInsideStays ==
    ASSUME NoneInside, NEW r, OneTask(r), task[r].step # "ended",
           task[r].step = "deferred" =>
              \A x \in DOMAIN task : Ranges!Ended(x) => ~Inside(r, x),
           task'[r].step = "ended" =>
              \A q \in DOMAIN task : Inside(q, r) /\ q # r => task[q].step \in {"ended", "deferred"}
    PROVE  NoneInside'
<1>1. SUFFICES ASSUME NEW q \in DOMAIN task, NEW x \in DOMAIN task,
                      task'[x].step = "ended", Inside(q, x)
               PROVE  task'[q].step \in {"ended", "deferred"}
  BY DEF NoneInside, OneTask, Ranges!Ended, Ranges!Exists, Inside
<1>2. CASE x = r
  BY <1>1, <1>2 DEF OneTask
<1>3. CASE x # r
  <2>1. task[x].step = "ended"
    BY <1>1, <1>3 DEF OneTask
  <2>2. task[q].step \in {"ended", "deferred"}
    BY <1>1, <2>1 DEF NoneInside, Ranges!Ended, Ranges!Exists
  <2>3. q # r
    BY <1>1, <2>1, <2>2 DEF Ranges!Ended, Ranges!Exists
  <2>. QED
    BY <2>2, <2>3 DEF OneTask
<1>. QED
  BY <1>2, <1>3

LEMMA NothingInsideStays ==
    ASSUME RangesAssumption, RangeTypes, RangeTree, RangeControl, NoneInside, NothingInside,
           NEW r, OneTask(r), task[r].step # "ended",
           task[r].step = "deferred" => task'[r].step # "ended",
           algorithm = "find" /\ task'[r].step \in {"leave", "ended"} /\ task'[r].result = <<r[2]>> =>
              \A q \in DOMAIN task : Ranges!Ended(q) /\ Inside(q, r) => task[q].result = <<q[2]>>
    PROVE  NothingInside'
<1>1. SUFFICES ASSUME algorithm = "find", NEW q \in DOMAIN task, NEW x \in DOMAIN task,
                      task'[x].step \in {"leave", "ended"}, task'[x].result = <<x[2]>>,
                      task'[q].step = "ended", Inside(q, x)
               PROVE  task'[q].result = <<q[2]>>
  BY DEF NothingInside, OneTask, Ranges!Ended, Ranges!Exists, Inside, Answered
<1>2. CASE x = q
  BY <1>1, <1>2
<1>3. CASE x # q /\ x = r
  BY <1>1, <1>3 DEF OneTask, Ranges!Ended, Ranges!Exists
<1>4. CASE x # q /\ x # r /\ q # r
  BY <1>1, <1>4 DEF OneTask, Ranges!Ended, Ranges!Exists, NothingInside, Answered
<1>5. CASE x # q /\ q = r
  <2>1. task[x] = task'[x]
    BY <1>5 DEF OneTask
  <2>2. task[x].step # "ended"
    BY <1>1, <1>5 DEF NoneInside, Ranges!Ended, Ranges!Exists
  <2>3. Leaving(x) /\ ~Ranges!IsShort(x)
    BY <1>1, <2>1, <2>2 DEF RangeControl, Control, Leaving
  <2>4. PICK p \in PartsOf(x) : Inside(r, p)
    BY <1>1, <1>5, InsideUnder DEF Under
  <2>5. Right(p)
    BY <1>1, <2>1, <2>3, <2>4 DEF Leaving
  <2>. QED
    BY <1>1, <1>5, <2>4, <2>5 DEF NoneInside, Right, Ranges!Ended, Ranges!Exists
<1>. QED
  BY <1>2, <1>3, <1>4, <1>5

LEMMA OneTaskGoesOn ==
    ASSUME RangesAssumption, RangesGoOn, NEW r, OneTask(r), BegunAsBefore(r),
           task[r].step # "ended", Control(r)',
           applied' \in [DOMAIN vector -> Nat], AppliedOnce',
           \A i \in DOMAIN vector : applied[i] = 1 => applied'[i] = 1,
           done_flag' \in BOOLEAN, done_flag => done_flag',
           done_flag' => \/ done_flag
                         \/ /\ algorithm = "find"
                            /\ task'[r].step = "ended" /\ task'[r].result # <<r[2]>>,
           task[r].step = "deferred" =>
              /\ task'[r].step # "ended"
              /\ \A x \in DOMAIN task : Ranges!Ended(x) => ~Inside(r, x),
           task'[r].step = "ended" =>
              \A q \in DOMAIN task : Inside(q, r) /\ q # r => task[q].step \in {"ended", "deferred"},
           algorithm = "find" /\ task'[r].step \in {"leave", "ended"} /\ task'[r].result = <<r[2]>> =>
              \A q \in DOMAIN task : Ranges!Ended(q) /\ Inside(q, r) => task[q].result = <<q[2]>>
    PROVE  RangesGoOn'
<1>1. RangeTypes'
  BY TypesStay DEF RangesGoOn
<1>2. RangeTree'
  BY TreeStays DEF RangesGoOn
<1>3. RangeControl'
  BY OthersControl DEF RangesGoOn
<1>4. FlagSet'
  BY FlagStays DEF RangesGoOn
<1>5. NoneInside'
  BY NoneInsideStays DEF RangesGoOn
<1>6. NothingInside'
  BY NothingInsideStays DEF RangesGoOn
<1>. QED
  BY <1>1, <1>2, <1>3, <1>4, <1>5, <1>6 DEF RangesGoOn

\* The same where no element is dealt with.
LEMMA TaskGoesOn ==
    ASSUME RangesAssumption, RangesGoOn, NEW r, OneTask(r), BegunAsBefore(r),
           task[r].step \notin {"store", "ended", "deferred"}, Control(r)',
           UNCHANGED <<applied, done_flag>>,
           task[r].step \in {"work", "compare"} =>
              \/ task'[r].step = "ended"
              \/ task'[r].step \in {"work", "compare"} /\ task'[r].at = task[r].at,
           task'[r].step = "ended" =>
              \A q \in DOMAIN task : Inside(q, r) /\ q # r => task[q].step \in {"ended", "deferred"},
           algorithm = "find" /\ task'[r].step \in {"leave", "ended"} /\ task'[r].result = <<r[2]>> =>
              \A q \in DOMAIN task : Ranges!Ended(q) /\ Inside(q, r) => task[q].result = <<q[2]>>
    PROVE  RangesGoOn'
<1>1. AppliedOnce'
  BY AppliedStays DEF RangesGoOn
<1>2. applied' \in [DOMAIN vector -> Nat] /\ done_flag' \in BOOLEAN
  BY DEF RangesGoOn, RangeTypes
<1>. QED
  BY <1>1, <1>2, OneTaskGoesOn

LEMMA NoTaskInside ==
    ASSUME RangesAssumption, RangeTypes, RangeTree, NEW r \in DOMAIN task,
           ~IsSplit(r), NEW q \in DOMAIN task, Inside(q, r)
    PROVE  q = r
  BY InsideUnder DEF Under

LEMMA BecomesFacts ==
    ASSUME RangeTypes, UNCHANGED <<algorithm, vector>>, NEW r \in DOMAIN task,
           NEW step \in {"work", "compare", "store", "direct", "get", "leave", "ended"},
           NEW result \in Seq(Int),
           Ranges!Becomes(r, step, result)
    PROVE  /\ OneTask(r) /\ task'[r] = [task[r] EXCEPT !.step = step, !.result = result]
           /\ task'[r].step = step /\ task'[r].result = result
           /\ task'[r].at = task[r].at /\ task'[r].got = task[r].got /\ task'[r].sum = task[r].sum
<1> DEFINE c == [task[r] EXCEPT !.step = step, !.result = result]
<1>1. task[r] \in TaskSet
  BY DEF RangeTypes
<1>2. /\ c \in TaskSet /\ c.size = task[r].size /\ c.step = step /\ c.result = result
      /\ c.at = task[r].at /\ c.got = task[r].got /\ c.sum = task[r].sum
  BY <1>1 DEF TaskSet
<1>3. task' = [task EXCEPT ![r] = c]
  BY DEF Ranges!Becomes
<1>4. OneTask(r) /\ task'[r] = c
  BY <1>2, <1>3, ExceptOne
<1>. QED
  BY <1>2, <1>4

LEMMA BegunBefore ==
    ASSUME NEW r, OneTask(r), task'[r].step \notin Unbegun,
           task[r].step \notin Unbegun \/ Ranges!IsShort(r)
    PROVE  BegunAsBefore(r)
<1>1. Ranges!IsShort(r)' = Ranges!IsShort(r)
  BY OneTaskParts DEF OneTask
<1>. QED
  BY <1>1 DEF BegunAsBefore, IsSplit, OneTask

LEMMA BeginShort ==
    ASSUME RangesAssumption, RangesGoOn, UNCHANGED <<algorithm, vector, applied, done_flag>>,
           NEW r \in DOMAIN task, task[r].step = "begin", Ranges!IsShort(r),
           Ranges!Becomes(r, "work", Ranges!Initial(r))
    PROVE  RangesGoOn'
<1>1. IsRange(r) /\ RangeTypes /\ Control(r)
  BY DEF RangesGoOn, RangeTypes, RangeControl
<1>2. Ranges!Initial(r) = Upto(Base(r), r[1]) /\ Ranges!Initial(r) \in Seq(Int)
  <2>1. r[1] \in Int /\ Upto(r[1], r[1]) = <<>> /\ Upto(0, 1) = <<0>>
    <3>1. r[1] \in Int
      BY <1>1 DEF IsRange
    <3>2. Upto(r[1], r[1]) = <<>>
      BY <3>1, UptoSmall
    <3>. QED
      BY <3>1, <3>2, UptoZero
  <2>2. Root[1] = 1
    BY DEF Root, Ranges!Root
  <2>. QED
    BY <2>1, <2>2 DEF Ranges!Initial, Base, Root, InBlocks
<1>3. /\ OneTask(r) /\ task'[r].step = "work" /\ task'[r].at = task[r].at
      /\ task'[r].result = Upto(Base(r), r[1])
  BY <1>1, <1>2, BecomesFacts
<1>4. task[r].at = r[1]
  BY <1>1 DEF Control, Unbegun, Ranges!New
<1>5. Working(r)'
  <2>1. Ranges!IsShort(r)' /\ Base(r)' = Base(r)
    BY <1>3, OneTaskParts
  <2>2. r[1] \in Int /\ r[1] <= r[2] /\ \A i \in r[1]..r[1] - 1 : FALSE
    BY <1>1 DEF IsRange
  <2>. QED
    BY <1>3, <1>4, <2>1, <2>2 DEF Working, Done, NoneFound, Upto
<1>6. Control(r)'
  BY <1>3, <1>5 DEF Control, Unbegun, Answered
<1>7. BegunAsBefore(r)
  BY <1>3, BegunBefore DEF Unbegun
<1>. QED
  BY <1>3, <1>6, <1>7, TaskGoesOn

LEMMA WorkEndsStep ==
    ASSUME RangesAssumption, RangesGoOn, UNCHANGED <<algorithm, vector>>,
           NEW r \in DOMAIN task, Ranges!WorkEnds(r)
    PROVE  RangesGoOn'
<1>1. IsRange(r) /\ RangeTypes /\ RangeTree /\ Control(r) /\ task[r] \in TaskSet
  BY DEF RangesGoOn, RangeTypes, RangeControl
<1>2. task[r].step = "work" /\ task[r].at = r[2] /\ Working(r) /\ UNCHANGED <<applied, done_flag>>
  BY <1>1 DEF Ranges!WorkEnds, Ranges!At, Ranges!Exists, Control
<1>3. PICK result \in Seq(Int) :
         /\ Ranges!Becomes(r, "ended", result)
         /\ result = IF algorithm = "find" THEN <<r[2]>> ELSE task[r].result
  <2>1. <<r[2]>> \in Seq(Int) /\ task[r].result \in Seq(Int)
    BY <1>1 DEF TaskSet, IsRange
  <2>. QED
    BY <2>1 DEF Ranges!WorkEnds
<1>4. OneTask(r) /\ task'[r].step = "ended" /\ task'[r].result = result
  BY <1>1, <1>3, BecomesFacts
<1>5. BegunAsBefore(r) /\ ~IsSplit(r)
  BY <1>2, <1>4, BegunBefore DEF Working, Unbegun, IsSplit
<1>6. Outcome(r)'
  <2>1. Base(r)' = Base(r)
    BY <1>4, OneTaskParts
  <2>2. CASE algorithm = "find"
    BY <1>2, <1>3, <1>4, <2>2 DEF Outcome, Working, NoneFound
  <2>3. CASE algorithm # "find"
    BY <1>2, <1>3, <1>4, <2>1, <2>3 DEF Outcome, Working, Done, Upto
  <2>. QED
    BY <2>2, <2>3
<1>7. Control(r)'
  BY <1>4, <1>6 DEF Control, Unbegun
<1>8. \A q \in DOMAIN task : Inside(q, r) => q = r
  BY <1>1, <1>5, NoTaskInside
<1>. QED
  BY <1>2, <1>4, <1>5, <1>7, <1>8, TaskGoesOn DEF Ranges!Ended, Ranges!Exists

\* A comparison, or a call of f, for the next element of r.
LEMMA ElementApplied ==
    ASSUME RangesAssumption, RangesGoOn, UNCHANGED <<algorithm, vector>>,
           NEW r \in DOMAIN task, task[r].step \in {"work", "compare"}, task[r].at < r[2],
           NEW i, i = task[r].at, applied' = [applied EXCEPT ![i] = @ + 1]
    PROVE  /\ i \in DOMAIN vector /\ i \in Int /\ r[1] <= i /\ i + 1 <= r[2]
           /\ i \in r[1]..r[2] - 1
           /\ applied' \in [DOMAIN vector -> Nat] /\ applied[i] = 0 /\ applied'[i] = 1
           /\ \A j \in DOMAIN vector : j # i => applied'[j] = applied[j]
           /\ \A j \in DOMAIN vector : applied[j] = 1 => applied'[j] = 1
<1>1. IsRange(r) /\ RangeTypes /\ RangeTree /\ Working(r) /\ task[r] \in TaskSet
  BY DEF RangesGoOn, RangeTypes, RangeControl, Control
<1>2. i \in DOMAIN vector /\ i \in Int /\ r[1] <= i /\ i + 1 <= r[2] /\ i \in r[1]..r[2] - 1
  <2>1. i \in Int
    BY <1>1, TaskFields
  <2>2. r[1] <= i /\ i < r[2]
    BY <1>1 DEF Working
  <2>3. /\ r[1] \in Int /\ r[2] \in Int /\ 1 <= r[1] /\ r[2] <= Len(vector) + 1
        /\ Len(vector) \in Nat /\ DOMAIN vector = 1..Len(vector)
    BY <1>1 DEF IsRange, RangeTypes
  <2>. QED
    BY <2>1, <2>2, <2>3
<1>3. applied[i] = 0
  <2>1. SUFFICES ASSUME NEW q \in DOMAIN task, Ranges!IsShort(q), q[1] <= i, i < q[2],
                        \/ task[q].step \in {"store", "ended"}
                        \/ task[q].step \in {"work", "compare"} /\ i < task[q].at
                 PROVE  FALSE
    BY <1>2 DEF RangesGoOn, AppliedOnce
  <2>2. q # r
    BY <1>2, <2>1
  <2>3. ~IsSplit(q) /\ ~IsSplit(r)
    BY <1>1, <2>1 DEF IsSplit, Working
  <2>4. Disjoint(q, r)
    BY <1>1, <2>2, <2>3 DEF RangeTree, Under
  <2>5. IsRange(q)
    BY <1>1 DEF RangeTypes
  <2>. QED
    BY <1>1, <1>2, <2>1, <2>4, <2>5 DEF Disjoint, IsRange
<1>4. applied \in [DOMAIN vector -> Nat]
  BY <1>1 DEF RangeTypes
<1>. QED
  BY <1>2, <1>3, <1>4

LEMMA AppliedMore ==
    ASSUME RangeTypes, AppliedOnce, NEW r, OneTask(r), NEW i \in DOMAIN vector, i \in Int,
           Ranges!IsShort(r), r[1] <= i, i < r[2], applied'[i] = 1,
           \A j \in DOMAIN vector : j # i => applied'[j] = applied[j],
           task[r].step \in {"work", "compare"}, task[r].at = i,
           \/ task'[r].step \in {"store", "ended"}
           \/ task'[r].step = "work" /\ task'[r].at = i + 1
    PROVE  AppliedOnce'
<1>1. r \in DOMAIN task' /\ Ranges!IsShort(r)'
  BY OneTaskParts DEF OneTask
<1>2. ASSUME NEW j \in DOMAIN vector, j # i, NEW q \in DOMAIN task, Ranges!IsShort(q),
             q[1] <= j, j < q[2],
             \/ task[q].step \in {"store", "ended"}
             \/ task[q].step \in {"work", "compare"} /\ j < task[q].at
      PROVE  /\ q \in DOMAIN task' /\ Ranges!IsShort(q)'
             /\ \/ task'[q].step \in {"store", "ended"}
                \/ task'[q].step \in {"work", "compare"} /\ j < task'[q].at
  <2>1. CASE q # r
    BY <1>2, <2>1, OneTaskParts DEF OneTask
  <2>2. CASE q = r
    <3>1. j \in Int
      BY <1>2 DEF RangeTypes
    <3>. QED
      BY <1>1, <1>2, <2>2, <3>1
  <2>. QED
    BY <2>1, <2>2
<1>. QED
  BY <1>1, <1>2 DEF AppliedOnce, OneTask

\* The flag is set.
LEMMA LoopStops ==
    ASSUME RangesAssumption, RangesGoOn, UNCHANGED <<algorithm, vector, applied, done_flag>>,
           NEW r \in DOMAIN task, task[r].step = "work",
           algorithm = "find", done_flag, Ranges!Becomes(r, "ended", <<r[2]>>)
    PROVE  RangesGoOn'
<1>1. IsRange(r) /\ RangeTypes /\ RangeTree /\ Working(r)
  BY DEF RangesGoOn, RangeTypes, RangeControl, Control
<1>2. <<r[2]>> \in Seq(Int)
  BY <1>1 DEF IsRange
<1>3. OneTask(r) /\ task'[r].step = "ended" /\ task'[r].result = <<r[2]>>
  BY <1>1, <1>2, BecomesFacts
<1>4. BegunAsBefore(r) /\ ~IsSplit(r)
  BY <1>1, <1>3, BegunBefore DEF Working, Unbegun, IsSplit
<1>5. Control(r)'
  BY <1>3 DEF Control, Outcome, Unbegun
<1>6. \A q \in DOMAIN task : Inside(q, r) => q = r
  BY <1>1, <1>4, NoTaskInside
<1>. QED
  BY <1>3, <1>4, <1>5, <1>6, TaskGoesOn DEF Ranges!Ended, Ranges!Exists

LEMMA LoadStep ==
    ASSUME RangesAssumption, RangesGoOn, UNCHANGED <<algorithm, vector>>,
           NEW r \in DOMAIN task, Ranges!Load(r)
    PROVE  RangesGoOn'
<1>1. /\ algorithm = "find" /\ task[r].step = "work" /\ task[r].at < r[2]
      /\ UNCHANGED <<applied, done_flag>>
  BY DEF Ranges!Load, Ranges!At
<1>2. CASE done_flag
  BY <1>1, <1>2, LoopStops DEF Ranges!Load
<1>3. CASE ~done_flag
  <2>1. RangeTypes /\ Working(r) /\ task[r] \in TaskSet
    BY <1>1 DEF RangesGoOn, RangeTypes, RangeControl, Control
  <2>2. task[r].result \in Seq(Int)
    BY <2>1 DEF TaskSet
  <2>3. Ranges!Becomes(r, "compare", task[r].result)
    BY <1>3 DEF Ranges!Load
  <2>4. /\ OneTask(r) /\ task'[r].step = "compare" /\ task'[r].result = task[r].result
        /\ task'[r].at = task[r].at
    BY <2>1, <2>2, <2>3, BecomesFacts
  <2>5. Base(r)' = Base(r) /\ Ranges!IsShort(r)' = Ranges!IsShort(r)
    BY <2>4, OneTaskParts
  <2>6. Working(r)'
    BY <1>1, <2>1, <2>4, <2>5 DEF Working, Done, NoneFound, Upto
  <2>7. Control(r)'
    BY <1>1, <2>4, <2>6 DEF Control, Unbegun, Answered
  <2>8. BegunAsBefore(r)
    BY <1>1, <2>1, <2>4, BegunBefore DEF Working, Unbegun
  <2>. QED
    BY <1>1, <2>4, <2>7, <2>8, TaskGoesOn
<1>. QED
  BY <1>2, <1>3

\* An element that throws ends the task, or has the flag set first, as one that matches.
LEMMA LoopEnds ==
    ASSUME RangesAssumption, RangesGoOn, UNCHANGED <<algorithm, vector, done_flag>>,
           NEW r \in DOMAIN task, task[r].step \in {"work", "compare"}, task[r].at < r[2],
           NEW i, i = task[r].at, applied' = [applied EXCEPT ![i] = @ + 1],
           NEW step, step = IF algorithm = "find" THEN "store" ELSE "ended",
           NEW result, Ranges!Becomes(r, step, result),
           \/ vector[i] = "throw" /\ result = Ranges!Thrown
           \/ vector[i] = "match" /\ algorithm = "find" /\ result = <<i>>
    PROVE  RangesGoOn'
<1>1. IsRange(r) /\ RangeTypes /\ RangeTree /\ Working(r)
  BY DEF RangesGoOn, RangeTypes, RangeControl, Control
<1>2. /\ i \in DOMAIN vector /\ i \in Int /\ r[1] <= i /\ i + 1 <= r[2]
      /\ i \in r[1]..r[2] - 1
      /\ applied' \in [DOMAIN vector -> Nat] /\ applied[i] = 0 /\ applied'[i] = 1
      /\ \A j \in DOMAIN vector : j # i => applied'[j] = applied[j]
      /\ \A j \in DOMAIN vector : applied[j] = 1 => applied'[j] = 1
  BY ElementApplied
<1>3. result \in Seq(Int)
  <2>1. -1 \in Int
    OBVIOUS
  <2>2. <<-1>> \in Seq(Int) /\ <<i>> \in Seq(Int)
    BY <1>2, <2>1
  <2>. QED
    BY <2>2 DEF Ranges!Thrown
<1>4. OneTask(r) /\ task'[r].step = step /\ task'[r].result = result
  BY <1>1, <1>3, BecomesFacts
<1>5. BegunAsBefore(r) /\ ~IsSplit(r)
  BY <1>1, <1>4, BegunBefore DEF Working, Unbegun, IsSplit
<1>6. result # <<r[2]>>
  <2>1. result = <<-1>> \/ result = <<i>>
    BY DEF Ranges!Thrown
  <2>2. r[2] # -1 /\ r[2] # i
    BY <1>1, <1>2 DEF IsRange
  <2>3. <<-1>>[1] = -1 /\ <<i>>[1] = i /\ <<r[2]>>[1] = r[2]
    OBVIOUS
  <2>. QED
    BY <2>1, <2>2, <2>3
<1>7. Control(r)'
  <2>1. Outcome(r)'
    BY <1>2, <1>4 DEF Outcome, Has, Ranges!Thrown
  <2>2. Ranges!IsShort(r)'
    BY <1>1, <1>4, OneTaskParts DEF Working
  <2>3. algorithm = "find" => AnswerKnown(r)'
    BY <1>2, <1>4, <1>6, <2>2 DEF AnswerKnown, Has, Ranges!Thrown
  <2>. QED
    BY <1>4, <2>1, <2>3 DEF Control, Unbegun
<1>8. \A q \in DOMAIN task : Inside(q, r) => q = r
  BY <1>1, <1>5, NoTaskInside
<1>9. AppliedOnce'
  <2>1. i < r[2] /\ Ranges!IsShort(r) /\ AppliedOnce
    BY <1>1 DEF Working, RangesGoOn
  <2>. QED
    BY <1>1, <1>2, <1>4, <2>1, AppliedMore
<1>10. done_flag' \in BOOLEAN
  BY DEF RangesGoOn, RangeTypes
<1>. QED
  BY <1>2, <1>4, <1>5, <1>6, <1>7, <1>8, <1>9, <1>10, OneTaskGoesOn

LEMMA LoopGoesOn ==
    ASSUME RangesAssumption, RangesGoOn, UNCHANGED <<algorithm, vector, done_flag>>,
           NEW r \in DOMAIN task, task[r].step \in {"work", "compare"}, task[r].at < r[2],
           NEW i, i = task[r].at, applied' = [applied EXCEPT ![i] = @ + 1],
           vector[i] # "throw", ~(algorithm = "find" /\ vector[i] = "match"),
           Ranges!Passes(r)
    PROVE  RangesGoOn'
<1>1. IsRange(r) /\ RangeTypes /\ RangeTree /\ Working(r) /\ task[r] \in TaskSet
  BY DEF RangesGoOn, RangeTypes, RangeControl, Control
<1>2. /\ i \in DOMAIN vector /\ i \in Int /\ r[1] <= i /\ i + 1 <= r[2]
      /\ i \in r[1]..r[2] - 1
      /\ applied' \in [DOMAIN vector -> Nat] /\ applied[i] = 0 /\ applied'[i] = 1
      /\ \A j \in DOMAIN vector : j # i => applied'[j] = applied[j]
      /\ \A j \in DOMAIN vector : applied[j] = 1 => applied'[j] = 1
  BY ElementApplied
<1> DEFINE c == [task[r] EXCEPT !.step = "work", !.at = i + 1,
                                !.result = Append(task[r].result, i)]
<1>3. /\ c \in TaskSet /\ c.size = task[r].size /\ c.step = "work" /\ c.at = i + 1
      /\ c.result = Append(task[r].result, i)
  <2>1. Append(task[r].result, i) \in Seq(Int)
    BY <1>1, <1>2 DEF TaskSet
  <2>2. PICK seq \in Seq(Int) : seq = Append(task[r].result, i)
    BY <2>1
  <2>3. c = [task[r] EXCEPT !.step = "work", !.at = i + 1, !.result = seq]
    BY <2>2
  <2>4. PICK j \in Int : j = i + 1
    BY <1>2
  <2>. HIDE DEF c
  <2>5. c = [task[r] EXCEPT !.step = "work", !.at = j, !.result = seq]
    BY <2>3, <2>4
  <2>6. c \in TaskSet
    BY <1>1, <2>5 DEF TaskSet
  <2>7. c.size = task[r].size /\ c.step = "work" /\ c.at = j /\ c.result = seq
    BY <1>1, <2>5 DEF TaskSet
  <2>. QED
    BY <2>2, <2>4, <2>6, <2>7
<1>4. OneTask(r) /\ task'[r] = c
  <2>1. task' = [task EXCEPT ![r] = c]
    BY DEF Ranges!Passes
  <2>. HIDE DEF c
  <2>. QED
    BY <1>1, <1>3, <2>1, ExceptOne
<1>. HIDE DEF c
<1>5. BegunAsBefore(r)
  BY <1>1, <1>3, <1>4, BegunBefore DEF Working, Unbegun
<1>6. Base(r)' = Base(r) /\ Ranges!IsShort(r)' = Ranges!IsShort(r)
  BY <1>4, OneTaskParts
<1>7. task'[r].result = Upto(Base(r), i + 1)
  <2>1. Base(r) \in Int /\ Base(r) <= r[1]
    BY <1>1 DEF Base, IsRange
  <2>2. Base(r) <= i
    BY <1>1, <1>2, <2>1 DEF IsRange
  <2>3. task[r].result = Upto(Base(r), i)
    BY <1>1 DEF Working
  <2>. QED
    <3>1. Append(Upto(Base(r), i), i) = Upto(Base(r), i + 1)
      BY <1>2, <2>1, <2>2, UptoOneMore
    <3>. QED
      BY <1>3, <1>4, <2>3, <3>1, Zenon
<1>8. Done(r[1], i + 1)'
  <2>1. Done(r[1], i) /\ r[1] \in Int /\ 1 <= r[1] /\ r[2] <= Len(vector) + 1
    BY <1>1 DEF Working, IsRange
  <2>2. Done(r[1], i)'
    <3>1. i <= Len(vector) + 1
      BY <1>1, <1>2 DEF RangeTypes
    <3>. QED
      BY <1>1, <1>2, <2>1, <3>1, DoneStays
  <2>3. \A j \in r[1]..(i + 1) - 1 : j = i \/ j \in r[1]..i - 1
    BY <1>2, <2>1
  <2>. QED
    BY <1>2, <2>2, <2>3 DEF Done
<1>9. vector[i] \in {"match", "other", "throw"}
  BY <1>1, <1>2 DEF RangeTypes
<1>10. algorithm = "find" => NoneFound(r[1], i + 1)'
  <2>1. ASSUME algorithm = "find" PROVE NoneFound(r[1], i) /\ vector[i] = "other"
    BY <1>1, <1>9, <2>1 DEF Working
  <2>2. \A j \in r[1]..(i + 1) - 1 : j = i \/ j \in r[1]..i - 1
    BY <1>1, <1>2 DEF IsRange
  <2>. QED
    BY <2>1, <2>2 DEF NoneFound
<1>11. Working(r)'
  <2>1. task'[r].at = i + 1 /\ Ranges!IsShort(r)'
    BY <1>1, <1>3, <1>4, <1>6 DEF Working
  <2>2. r[1] <= i + 1 /\ i + 1 <= r[2]
    BY <1>1, <1>2 DEF IsRange
  <2>3. task'[r].result = Upto(Base(r)', task'[r].at)
    BY <1>6, <1>7, <2>1
  <2>4. Done(r[1], task[r].at)' /\ (algorithm' = "find" => NoneFound(r[1], task[r].at)')
    BY <1>8, <1>10, <2>1 DEF Done, NoneFound
  <2>. QED
    BY <2>1, <2>2, <2>3, <2>4 DEF Working, Upto
<1>12. Control(r)'
  BY <1>3, <1>4, <1>11 DEF Control, Unbegun, Answered
<1>13. AppliedOnce'
  <2>1. i < r[2] /\ Ranges!IsShort(r) /\ AppliedOnce
    BY <1>1 DEF Working, RangesGoOn
  <2>. QED
    BY <1>1, <1>2, <1>3, <1>4, <2>1, AppliedMore
<1>14. done_flag' \in BOOLEAN
  BY <1>1 DEF RangeTypes
<1>. QED
  BY <1>2, <1>3, <1>4, <1>5, <1>12, <1>13, <1>14, OneTaskGoesOn

LEMMA LoopTurnStep ==
    ASSUME RangesAssumption, RangesGoOn, UNCHANGED <<algorithm, vector>>,
           NEW r \in DOMAIN task, Ranges!LoopTurn(r)
    PROVE  RangesGoOn' \/ ProcessEnded'
<1> DEFINE i == task[r].at
<1>1. /\ algorithm # "find" /\ task[r].step = "work" /\ i < r[2]
      /\ applied' = [applied EXCEPT ![i] = @ + 1] /\ UNCHANGED done_flag
      /\ IF vector[i] = "throw" THEN Ranges!Throw(r) ELSE Ranges!Passes(r)
  BY DEF Ranges!LoopTurn, Ranges!At
<1>2. CASE vector[i] = "throw"
  <2>1. Ranges!Throw(r)
    BY <1>1, <1>2
  <2>2. CASE ~(algorithm = "accumulate" /\ Ranges!num_threads > 1)
    BY <1>1, <1>2, <2>1, <2>2, LoopEnds DEF Ranges!Throw
  <2>3. CASE algorithm = "accumulate" /\ Ranges!num_threads > 1
    <3>1. /\ i \in DOMAIN vector /\ applied'[i] = 1
          /\ \A j \in DOMAIN vector : j # i => applied'[j] = applied[j]
      BY <1>1, ElementApplied
    <3>2. \A j \in DOMAIN vector : applied'[j] = 0 \/ applied'[j] = 1
      BY <3>1 DEF RangesGoOn, AppliedOnce
    <3>3. task[Root] \in TaskSet
      BY DEF RangesGoOn, RangeTypes, RangeTree
    <3>4. /\ DOMAIN task' = {Root} /\ task'[Root].step = "ended"
          /\ task'[Root].result = Ranges!Terminated
      <4>1. task' = [q \in {Root} |-> [task[q] EXCEPT !.step = "ended", !.result = Ranges!Terminated]]
        BY <2>1, <2>3 DEF Ranges!Throw, Root
      <4>. QED
        BY <3>3, <4>1 DEF TaskSet
    <3>5. Root' = Root
      BY DEF Root, Ranges!Root
    <3>. QED
      BY <1>2, <2>3, <3>1, <3>2, <3>4, <3>5
         DEF ProcessEnded, Ranges!Positions, Ranges!Ended, Ranges!Exists, Ranges!Terminated
  <2>. QED
    BY <2>2, <2>3
<1>3. CASE vector[i] # "throw"
  BY <1>1, <1>3, LoopGoesOn
<1>. QED
  BY <1>2, <1>3

LEMMA CompareStep ==
    ASSUME RangesAssumption, RangesGoOn, UNCHANGED <<algorithm, vector>>,
           NEW r \in DOMAIN task, Ranges!Compare(r)
    PROVE  RangesGoOn'
<1> DEFINE i == task[r].at
<1>1. /\ task[r].step = "compare"
      /\ applied' = [applied EXCEPT ![i] = @ + 1] /\ UNCHANGED done_flag
      /\ CASE vector[i] = "match" -> Ranges!Becomes(r, "store", <<i>>)
           [] vector[i] = "throw" -> Ranges!Becomes(r, "store", Ranges!Thrown)
           [] OTHER -> Ranges!Passes(r)
  BY DEF Ranges!Compare, Ranges!At
<1>2. algorithm = "find" /\ i < r[2]
  BY <1>1 DEF RangesGoOn, RangeControl, Control
<1>3. CASE vector[i] = "match"
  <2>1. Ranges!Becomes(r, "store", <<i>>)
    BY <1>1, <1>3
  <2>. QED
    BY <1>1, <1>2, <1>3, <2>1, LoopEnds
<1>4. CASE vector[i] = "throw"
  <2>1. Ranges!Becomes(r, "store", Ranges!Thrown)
    BY <1>1, <1>4
  <2>. QED
    BY <1>1, <1>2, <1>4, <2>1, LoopEnds
<1>5. CASE vector[i] # "match" /\ vector[i] # "throw"
  <2>1. Ranges!Passes(r)
    BY <1>1, <1>5
  <2>. QED
    BY <1>1, <1>2, <1>5, <2>1, LoopGoesOn
<1>. QED
  BY <1>3, <1>4, <1>5

\* Others may have set the flag, and may have ended, since the comparison.
LEMMA StoreStep ==
    ASSUME RangesAssumption, RangesGoOn, UNCHANGED <<algorithm, vector>>,
           NEW r \in DOMAIN task, Ranges!Store(r)
    PROVE  RangesGoOn'
<1>1. /\ task[r].step = "store" /\ done_flag' = TRUE /\ UNCHANGED applied
      /\ Ranges!Becomes(r, "ended", task[r].result)
  BY DEF Ranges!Store, Ranges!At
<1>2. IsRange(r) /\ RangeTypes /\ RangeTree /\ AnswerKnown(r) /\ task[r] \in TaskSet /\ AppliedOnce
  BY <1>1 DEF RangesGoOn, RangeTypes, RangeControl, Control
<1>3. task[r].result \in Seq(Int)
  BY <1>2 DEF TaskSet
<1>4. OneTask(r) /\ task'[r].step = "ended" /\ task'[r].result = task[r].result
  BY <1>1, <1>2, <1>3, BecomesFacts
<1>5. BegunAsBefore(r) /\ ~IsSplit(r)
  BY <1>1, <1>2, <1>4, BegunBefore DEF AnswerKnown, Unbegun, IsSplit
<1>6. Control(r)'
  <2>1. Outcome(r)'
    BY <1>2, <1>4 DEF AnswerKnown, Outcome, Has, Ranges!Thrown
  <2>. QED
    BY <1>4, <2>1 DEF Control, Unbegun
<1>7. \A q \in DOMAIN task : Inside(q, r) => q = r
  BY <1>2, <1>5, NoTaskInside
<1>8. AppliedOnce'
  BY <1>1, <1>2, <1>4, AppliedStays
<1>9. applied' \in [DOMAIN vector -> Nat]
  BY <1>1, <1>2 DEF RangeTypes
<1>. QED
  BY <1>1, <1>2, <1>4, <1>5, <1>6, <1>7, <1>8, <1>9, OneTaskGoesOn DEF AnswerKnown

\* What is known of a part.
LEMMA PartFacts ==
    ASSUME RangesAssumption, RangesGoOn, NEW r \in DOMAIN task, IsSplit(r),
           NEW p \in PartsOf(r)
    PROVE  /\ p \in DOMAIN task /\ IsRange(p) /\ task[p] \in TaskSet /\ Control(p)
           /\ Inside(p, r) /\ p # r /\ p[1] < p[2]
<1>1. Shares(r, Ranges!Direct(r), Ranges!Others(r))
  BY Shared DEF IsSplit, RangesGoOn
<1>2. p \in DOMAIN task
  BY DEF RangesGoOn, RangeTree
<1>. QED
  BY <1>1, <1>2 DEF RangesGoOn, RangeTypes, RangeControl, Shares

LEMMA OneNumber ==
    \A a, b : <<a>> = <<b>> <=> a = b
<1>1. \A a : <<a>>[1] = a
  OBVIOUS
<1>. QED
  BY <1>1

LEMMA NotThrown ==
    ASSUME NEW a \in Int, a >= 0
    PROVE  <<a>> # Ranges!Thrown
  BY OneNumber DEF Ranges!Thrown

LEMMA BaseFacts ==
    ASSUME NEW r, IsRange(r)
    PROVE  Base(r) \in Int /\ 0 <= Base(r) /\ Base(r) <= r[1]
  BY DEF Base, IsRange

LEMMA OutcomeThrown ==
    ASSUME RangeTypes, NEW r \in DOMAIN task, IsRange(r), Outcome(r)
    PROVE  /\ task[r].result = Ranges!Thrown => Has(r, "throw")
           /\ task[r].result # Ranges!Thrown /\ algorithm # "find" =>
                 task[r].result = Upto(Base(r), r[2]) /\ Done(r[1], r[2])
<1>1. \A i \in r[1]..r[2] - 1 : <<i>> # Ranges!Thrown
  <2>1. \A i \in r[1]..r[2] - 1 : i \in Int /\ i >= 0
    BY DEF IsRange
  <2>. QED
    BY <2>1, NotThrown
<1>2. r[2] \in Int /\ r[2] >= 0 /\ <<r[2]>> # Ranges!Thrown
  BY NotThrown DEF IsRange
<1>3. Upto(Base(r), r[2]) # Ranges!Thrown
  <2>1. Base(r) \in Int /\ 0 <= Base(r) /\ Base(r) <= r[2]
    BY BaseFacts DEF IsRange
  <2>. QED
    BY <1>2, <2>1, UptoSmall
<1>. QED
  BY <1>1, <1>2, <1>3 DEF Outcome

LEMMA OutcomeFound ==
    ASSUME NEW r \in DOMAIN task, IsRange(r), Outcome(r), algorithm = "find"
    PROVE  /\ task[r].result = <<r[2]>> => done_flag \/ NoneFound(r[1], r[2])
           /\ task[r].result # <<r[2]>> =>
                 \/ task[r].result = Ranges!Thrown /\ Has(r, "throw")
                 \/ \E i \in r[1]..r[2] - 1 : vector[i] = "match" /\ task[r].result = <<i>>
<1>1. \A i \in r[1]..r[2] - 1 : <<i>> # <<r[2]>>
  <2>1. \A i \in r[1]..r[2] - 1 : i # r[2]
    BY DEF IsRange
  <2>. QED
    BY <2>1, OneNumber
<1>2. r[2] \in Int /\ r[2] >= 0 /\ <<r[2]>> # Ranges!Thrown
  BY NotThrown DEF IsRange
<1>. QED
  BY <1>1, <1>2 DEF Outcome

LEMMA DirectEndsStep ==
    ASSUME RangesAssumption, RangesGoOn, UNCHANGED <<algorithm, vector>>,
           NEW r \in DOMAIN task, Ranges!DirectEnds(r)
    PROVE  RangesGoOn'
<1> DEFINE D == Ranges!Direct(r)
           O == Ranges!Others(r)
           result == task[D].result
<1>1. /\ task[r].step = "direct" /\ Ranges!Ended(D) /\ UNCHANGED <<applied, done_flag>>
      /\ IF result = Ranges!Thrown \/ (algorithm = "find" /\ result # <<D[2]>>)
         THEN Ranges!Becomes(r, "leave", result) ELSE Ranges!Becomes(r, "get", result)
  BY DEF Ranges!DirectEnds, Ranges!At, Ranges!Exists
<1>2. IsRange(r) /\ RangeTypes /\ Starts(r) /\ ~Ranges!IsShort(r) /\ IsSplit(r)
  BY <1>1 DEF RangesGoOn, RangeTypes, RangeControl, Control, Starts, IsSplit, Unbegun
<1>3. Shares(r, D, O)
  BY <1>2, Shared
<1>4. D \in PartsOf(r)
  BY <1>3 DEF Shares
<1>5. /\ D \in DOMAIN task /\ IsRange(D) /\ task[D] \in TaskSet /\ Control(D)
      /\ Inside(D, r) /\ D # r /\ D[1] < D[2]
  BY <1>2, <1>4, PartFacts
<1>6. Outcome(D) /\ result \in Seq(Int)
  BY <1>1, <1>5 DEF Control, Answered, Ranges!Ended, TaskSet
<1>7. \A i \in D[1]..D[2] - 1 : i \in r[1]..r[2] - 1 /\ i # r[2]
  BY <1>2, <1>5 DEF Inside, IsRange
<1>8. CASE result = Ranges!Thrown \/ (algorithm = "find" /\ result # <<D[2]>>)
  <2>1. /\ OneTask(r) /\ task'[r].step = "leave" /\ task'[r].result = result
    BY <1>1, <1>2, <1>6, <1>8, BecomesFacts
  <2>2. \/ result = Ranges!Thrown /\ Has(D, "throw")
        \/ algorithm = "find" /\ \E i \in D[1]..D[2] - 1 : vector[i] = "match" /\ result = <<i>>
    BY <1>2, <1>5, <1>6, <1>8, OutcomeThrown, OutcomeFound
  <2>3. result # <<r[2]>>
    <3>1. r[2] \in Int /\ r[2] >= 0 /\ <<r[2]>> # Ranges!Thrown
      BY <1>2, NotThrown DEF IsRange
    <3>2. CASE \E i \in D[1]..D[2] - 1 : result = <<i>>
      <4>1. PICK i \in D[1]..D[2] - 1 : result = <<i>>
        BY <3>2
      <4>2. i # r[2]
        BY <1>7
      <4>. QED
        BY <4>1, <4>2, OneNumber, Zenon
    <3>. QED
      BY <2>2, <3>1, <3>2
  <2>4. Outcome(r)'
    BY <1>7, <2>1, <2>2 DEF Outcome, Has, Ranges!Thrown
  <2>5. Leaving(r)'
    <3>1. Ranges!IsShort(r)' = Ranges!IsShort(r) /\ Ranges!Direct(r)' = D
      BY <2>1, OneTaskParts DEF OneTask
    <3>2. Ranges!Ended(D)'
      BY <1>1, <1>5, <2>1, <3>1 DEF Ranges!Ended, Ranges!Exists, OneTask
    <3>. QED
      BY <1>2, <2>1, <2>3, <3>1, <3>2 DEF Leaving
  <2>6. Control(r)'
    BY <2>1, <2>4, <2>5 DEF Control, Unbegun
  <2>7. BegunAsBefore(r)
    BY <1>1, <2>1, BegunBefore DEF Unbegun
  <2>. QED
    BY <1>1, <2>1, <2>3, <2>6, <2>7, TaskGoesOn
<1>9. CASE ~(result = Ranges!Thrown \/ (algorithm = "find" /\ result # <<D[2]>>))
  <2>1. /\ OneTask(r) /\ task'[r].step = "get" /\ task'[r].result = result
        /\ task'[r].got = 0 /\ task'[r].sum = IF algorithm \in InBlocks THEN <<0>> ELSE <<>>
    <3>1. Ranges!Becomes(r, "get", result)
      BY <1>1, <1>9
    <3>2. /\ OneTask(r) /\ task'[r].step = "get" /\ task'[r].result = result
          /\ task'[r].got = task[r].got /\ task'[r].sum = task[r].sum
      BY <1>2, <1>6, <3>1, BecomesFacts, ZenonT(20)
    <3>. QED
      BY <1>2, <3>2 DEF Starts
  <2>2. /\ Ranges!IsShort(r)' = Ranges!IsShort(r) /\ Ranges!Direct(r)' = D
        /\ Ranges!Others(r)' = O
    BY <2>1, OneTaskParts DEF OneTask
  <2>3. Right(D)' /\ task'[D].result = result
    BY <1>1, <1>5, <1>9, <2>1, <2>2 DEF Right, Ranges!Ended, Ranges!Exists, OneTask, Ranges!Thrown
  <2>4. NextPart(r)' = O[1] /\ 0 < Len(O)
    <3>1. 0 + 1 = 1
      OBVIOUS
    <3>. QED
      BY <1>3, <2>1, <2>2, <3>1 DEF NextPart, Shares
  <2>5. algorithm \in InBlocks => <<0>> = Upto(0, O[1][1])
    <3>1. SUFFICES ASSUME algorithm \in InBlocks PROVE <<0>> = Upto(0, O[1][1])
      OBVIOUS
    <3>2. r = Root /\ Root[1] = 1 /\ algorithm # "find"
      BY <1>2, <3>1, ShortRanges DEF Root, Ranges!Root, InBlocks, Ranges!InBlocks
    <3>3. O[1][1] = 1
      BY <1>3, <3>2 DEF Shares
    <3>. QED
      BY <3>3, UptoZero
  <2>6. algorithm # "find" => Done(r[1], O[1][1])'
    <3>1. algorithm # "find" => O[1][1] = r[1]
      BY <1>3 DEF Shares
    <3>2. \A i \in r[1]..r[1] - 1 : FALSE
      BY <1>2 DEF IsRange
    <3>. QED
      BY <2>2, <3>1, <3>2 DEF Done
  <2>7. Getting(r)'
    <3>1. algorithm' = algorithm
      OBVIOUS
    <3>2. algorithm \in Halving => task'[r].got = 0 /\ task'[r].sum = <<>>
      BY <2>1, Algorithms
    <3>3. algorithm \in InBlocks => task'[r].sum = Upto(0, O[1][1])
      BY <2>1, <2>5
    <3>. QED
      BY <1>2, <2>1, <2>2, <2>3, <2>4, <2>6, <3>1, <3>2, <3>3
         DEF Getting, Halving, InBlocks, Ranges!Halving, Ranges!InBlocks, Upto, Done
  <2>8. Control(r)'
    BY <2>1, <2>7 DEF Control, Unbegun, Answered
  <2>9. BegunAsBefore(r)
    BY <1>1, <2>1, BegunBefore DEF Unbegun
  <2>. QED
    BY <1>1, <2>1, <2>8, <2>9, TaskGoesOn
<1>. QED
  BY <1>8, <1>9

LEMMA LeaveStep ==
    ASSUME RangesAssumption, RangesGoOn, UNCHANGED <<algorithm, vector>>,
           NEW r \in DOMAIN task, Ranges!Leave(r)
    PROVE  RangesGoOn'
<1>1. /\ task[r].step = "leave" /\ Ranges!Waited(r)
      /\ Ranges!Becomes(r, "ended", task[r].result)
      /\ done_flag' = (done_flag \/ (algorithm = "find" /\ task[r].result = Ranges!Thrown))
      /\ UNCHANGED applied
  BY DEF Ranges!Leave, Ranges!At, Ranges!Exists
<1>2. /\ IsRange(r) /\ RangeTypes /\ RangeTree /\ NoneInside /\ NothingInside
      /\ Leaving(r) /\ Outcome(r) /\ IsSplit(r) /\ task[r] \in TaskSet
  BY <1>1 DEF RangesGoOn, RangeTypes, RangeControl, Control, Leaving, IsSplit, Unbegun, Answered
<1>3. OneTask(r) /\ task'[r].step = "ended" /\ task'[r].result = task[r].result
  BY <1>1, <1>2, BecomesFacts DEF TaskSet
<1>4. Outcome(r)'
  <2>1. Base(r)' = Base(r)
    BY <1>3, OneTaskParts
  <2>. QED
    BY <1>1, <1>2, <1>3, <2>1 DEF Outcome, Has, NoneFound, Done, Upto, Ranges!Thrown
<1>5. Control(r)'
  BY <1>3, <1>4 DEF Control, Unbegun
<1>6. BegunAsBefore(r)
  BY <1>1, <1>3, BegunBefore DEF Unbegun
<1>7. Shares(r, Ranges!Direct(r), Ranges!Others(r))
  BY <1>2, Shared DEF IsSplit
<1>8. ASSUME NEW p \in PartsOf(r) PROVE Ranges!Ended(p) \/ task[p].step = "deferred"
  <2>1. CASE p = Ranges!Direct(r)
    BY <1>2, <2>1 DEF Leaving
  <2>2. CASE p # Ranges!Direct(r)
    <3>1. p \in Ranges!ToSet(Ranges!Others(r))
      BY <1>7, <2>2 DEF Shares, Ranges!ToSet
    <3>. QED
      BY <1>1, <3>1 DEF Ranges!Waited, Ranges!At
  <2>. QED
    BY <2>1, <2>2
<1>9. ASSUME NEW q \in DOMAIN task, Inside(q, r), q # r
      PROVE  task[q].step \in {"ended", "deferred"}
  <2>1. PICK p \in PartsOf(r) : Inside(q, p)
    BY <1>2, <1>9, InsideUnder DEF Under
  <2>2. p \in DOMAIN task
    BY <1>2, PartFacts
  <2>3. CASE Ranges!Ended(p)
    BY <1>2, <2>1, <2>2, <2>3 DEF NoneInside
  <2>4. CASE task[p].step = "deferred"
    <3>1. q = p
      BY <1>2, <2>1, <2>2, <2>4, NoTaskInside DEF IsSplit, Unbegun
    <3>. QED
      BY <2>4, <3>1
  <2>. QED
    BY <1>8, <2>3, <2>4
<1>10. ASSUME algorithm = "find", task'[r].result = <<r[2]>>,
              NEW q \in DOMAIN task, Ranges!Ended(q), Inside(q, r)
       PROVE  task[q].result = <<q[2]>>
  BY <1>1, <1>2, <1>3, <1>10 DEF NothingInside, Answered
<1>11. AppliedOnce'
  BY <1>1, <1>3, AppliedStays DEF RangesGoOn
<1>12. /\ applied' \in [DOMAIN vector -> Nat] /\ done_flag' \in BOOLEAN
       /\ done_flag => done_flag'
       /\ \A i \in DOMAIN vector : applied[i] = 1 => applied'[i] = 1
  BY <1>1, <1>2 DEF RangeTypes
<1>13. task[r].result = Ranges!Thrown => task'[r].result # <<r[2]>>
  BY <1>2, <1>3, NotThrown DEF IsRange
<1>. QED
  BY <1>1, <1>3, <1>5, <1>6, <1>9, <1>10, <1>11, <1>12, <1>13, OneTaskGoesOn

\* The part whose result get() waits for.
LEMMA NextPartFacts ==
    ASSUME RangesAssumption, RangesGoOn, NEW r \in DOMAIN task, task[r].step = "get"
    PROVE  /\ IsRange(r) /\ Getting(r) /\ IsSplit(r) /\ task[r] \in TaskSet
           /\ Shares(r, Ranges!Direct(r), Ranges!Others(r))
           /\ task[r].got + 1 \in 1..Len(Ranges!Others(r))
           /\ NextPart(r) \in PartsOf(r) /\ NextPart(r) # Ranges!Direct(r)
           /\ NextPart(r) \in DOMAIN task /\ IsRange(NextPart(r)) /\ task[NextPart(r)] \in TaskSet
           /\ Control(NextPart(r)) /\ Inside(NextPart(r), r) /\ NextPart(r) # r
           /\ NextPart(r)[1] < NextPart(r)[2]
           /\ Ranges!Direct(r) \in PartsOf(r)
<1>1. IsRange(r) /\ RangeTypes /\ Getting(r) /\ IsSplit(r) /\ task[r] \in TaskSet
  BY DEF RangesGoOn, RangeTypes, RangeControl, Control, Getting, IsSplit, Unbegun
<1>2. Shares(r, Ranges!Direct(r), Ranges!Others(r))
  BY <1>1, Shared DEF IsSplit
<1>3. task[r].got + 1 \in 1..Len(Ranges!Others(r))
  <2>1. task[r].got \in Nat
    BY <1>1 DEF TaskSet
  <2>2. task[r].got < Len(Ranges!Others(r)) /\ Len(Ranges!Others(r)) \in Nat
    BY <1>1, <1>2 DEF Getting, Shares
  <2>. QED
    BY <2>1, <2>2
<1>4. NextPart(r) \in PartsOf(r) /\ NextPart(r) # Ranges!Direct(r)
  BY <1>2, <1>3 DEF NextPart, Shares
<1>5. Ranges!Direct(r) \in PartsOf(r)
  BY <1>2 DEF Shares
<1>. QED
  BY <1>1, <1>2, <1>3, <1>4, <1>5, PartFacts

LEMMA GetRuns ==
    ASSUME RangesAssumption, RangesGoOn, UNCHANGED <<algorithm, vector, applied, done_flag>>,
           NEW r \in DOMAIN task, task[r].step = "get",
           NEW p, p = NextPart(r), task[p].step = "deferred",
           task' = [task EXCEPT ![p].step = "begin"]
    PROVE  RangesGoOn'
<1>1. RangeTypes /\ RangeTree /\ NoneInside
  BY DEF RangesGoOn
<1>2. /\ IsRange(r) /\ IsSplit(r) /\ Shares(r, Ranges!Direct(r), Ranges!Others(r))
      /\ p \in PartsOf(r) /\ p \in DOMAIN task /\ IsRange(p) /\ task[p] \in TaskSet
      /\ Control(p) /\ Inside(p, r) /\ p # r /\ p[1] < p[2]
  BY NextPartFacts
<1> DEFINE c == [task[p] EXCEPT !.step = "begin"]
<1>3. c \in TaskSet /\ c.size = task[p].size /\ c.step = "begin"
  BY <1>2 DEF TaskSet, Unbegun
<1>4. OneTask(p) /\ task'[p] = c
  <2>1. task' = [task EXCEPT ![p] = c]
    OBVIOUS
  <2>. HIDE DEF c
  <2>. QED
    BY <1>1, <1>2, <1>3, <2>1, ExceptOne
<1>5. Control(p)'
  <2>1. task[p] = Ranges!New("deferred", p, task[p].size)
    BY <1>2 DEF Control, Unbegun
  <2>2. c = Ranges!New("begin", p, task[p].size)
    BY <2>1 DEF Ranges!New
  <2>3. task'[p].step = "begin" /\ task'[p].size = task[p].size
    BY <1>3, <1>4
  <2>4. Ranges!New(task[p].step, p, task[p].size)' = Ranges!New("begin", p, task[p].size)
    BY <2>3 DEF Ranges!New
  <2>. QED
    BY <1>4, <2>2, <2>3, <2>4 DEF Control, Answered
<1>6. BegunAsBefore(p)
  BY <1>3, <1>4 DEF BegunAsBefore, IsSplit, Unbegun
<1>7. ASSUME NEW x \in DOMAIN task, Ranges!Ended(x) PROVE ~Inside(p, x)
  <2>1. SUFFICES ASSUME Inside(p, x) PROVE FALSE
    OBVIOUS
  <2>2. x # p /\ x # r /\ IsRange(x)
    BY <1>1, <1>7 DEF Ranges!Ended, RangeTypes
  <2>3. CASE Inside(r, x)
    BY <1>1, <1>7, <2>3 DEF NoneInside
  <2>4. CASE Under(x, r)
    <3>1. PICK s \in PartsOf(r) : Inside(x, s)
      BY <2>4 DEF Under
    <3>2. s \in Int \X Int /\ (s = p \/ Disjoint(s, p))
      BY <1>2, <3>1 DEF Shares
    <3>3. ~Disjoint(s, p)
      BY <1>2, <2>1, <2>2, <3>1, <3>2 DEF Disjoint, Inside, IsRange
    <3>4. x = p
      BY <1>2, <2>1, <2>2, <3>1, <3>2, <3>3 DEF Inside, IsRange
    <3>. QED
      BY <2>2, <3>4
  <2>5. CASE Disjoint(r, x)
    BY <1>2, <2>1, <2>2, <2>5 DEF Disjoint, Inside, IsRange
  <2>6. CASE Under(r, x)
    <3>1. PICK s \in PartsOf(x) : Inside(r, s) /\ IsSplit(x)
      BY <2>6 DEF Under
    <3>2. Inside(s, x) /\ IsRange(s)
      BY <3>1, PartFacts
    <3>3. Inside(r, x)
      BY <1>2, <2>2, <3>1, <3>2 DEF Inside, IsRange
    <3>. QED
      BY <2>3, <3>3
  <2>. QED
    BY <1>1, <2>2, <2>4, <2>5, <2>6 DEF RangeTree
<1>8. AppliedOnce'
  BY <1>4, AppliedStays DEF RangesGoOn
<1>9. /\ applied' \in [DOMAIN vector -> Nat] /\ done_flag' \in BOOLEAN
  BY <1>1 DEF RangeTypes
<1>. HIDE DEF c
<1>. QED
  BY <1>3, <1>4, <1>5, <1>6, <1>7, <1>8, <1>9, OneTaskGoesOn

LEMMA GetThrows ==
    ASSUME RangesAssumption, RangesGoOn, UNCHANGED <<algorithm, vector, applied, done_flag>>,
           NEW r \in DOMAIN task, task[r].step = "get",
           NEW p, p = NextPart(r), task[p].step = "ended", task[p].result = Ranges!Thrown,
           Ranges!Becomes(r, "leave", Ranges!Thrown)
    PROVE  RangesGoOn'
<1>1. /\ IsRange(r) /\ IsSplit(r) /\ Getting(r)
      /\ p \in DOMAIN task /\ IsRange(p) /\ Control(p) /\ Inside(p, r) /\ RangeTypes
  BY NextPartFacts DEF RangesGoOn
<1>2. Ranges!Thrown \in Seq(Int)
  <2>1. -1 \in Int
    OBVIOUS
  <2>2. <<-1>> \in Seq(Int)
    BY <2>1
  <2>. QED
    BY <2>2 DEF Ranges!Thrown
<1>3. OneTask(r) /\ task'[r].step = "leave" /\ task'[r].result = Ranges!Thrown
  BY <1>1, <1>2, BecomesFacts
<1>4. Has(r, "throw")
  <2>1. Has(p, "throw")
    BY <1>1, OutcomeThrown DEF Control, Answered
  <2>2. \A i \in p[1]..p[2] - 1 : i \in r[1]..r[2] - 1
    BY <1>1 DEF Inside, IsRange
  <2>. QED
    BY <2>1, <2>2 DEF Has
<1>5. Outcome(r)'
  BY <1>3, <1>4 DEF Outcome, Has, Ranges!Thrown
<1>6. task'[r].result # <<r[2]>>
  BY <1>1, <1>3, NotThrown DEF IsRange
<1>7. Leaving(r)'
  <2>1. Ranges!IsShort(r)' = Ranges!IsShort(r) /\ Ranges!Direct(r)' = Ranges!Direct(r)
    BY <1>3, OneTaskParts DEF OneTask
  <2>2. Ranges!Ended(Ranges!Direct(r))'
    BY <1>1, <1>3, <2>1 DEF Getting, Right, Ranges!Ended, Ranges!Exists, OneTask
  <2>. QED
    BY <1>1, <1>3, <1>6, <2>1, <2>2 DEF Leaving, Getting
<1>8. Control(r)'
  BY <1>3, <1>5, <1>7 DEF Control, Unbegun
<1>9. BegunAsBefore(r)
  BY <1>3, BegunBefore DEF Unbegun
<1>. QED
  BY <1>3, <1>6, <1>8, <1>9, TaskGoesOn

\* The element of the blocks that are done: there are others left.
LEMMA BlockRight ==
    ASSUME RangesAssumption, RangesGoOn, algorithm # "find",
           NEW p \in DOMAIN task, IsRange(p), Control(p),
           task[p].step = "ended", task[p].result # Ranges!Thrown
    PROVE  task[p].result = Upto(Base(p), p[2]) /\ Done(p[1], p[2])
  BY OutcomeThrown DEF RangesGoOn, Control, Answered

LEMMA DoneJoined ==
    ASSUME NEW a \in Int, NEW b \in Int, NEW c \in Int, Done(a, b), Done(b, c)
    PROVE  Done(a, c)
<1>1. \A i \in a..c - 1 : i \in a..b - 1 \/ i \in b..c - 1
  OBVIOUS
<1>. QED
  BY <1>1 DEF Done

LEMMA GetGoesOn ==
    ASSUME RangesAssumption, RangesGoOn, UNCHANGED <<algorithm, vector, applied, done_flag>>,
           NEW r \in DOMAIN task, task[r].step = "get",
           NEW p, p = NextPart(r), task[p].step = "ended", task[p].result # Ranges!Thrown,
           task[r].got + 1 < Len(Ranges!Others(r)),
           task' = [task EXCEPT ![r] = [@ EXCEPT !.got = task[r].got + 1,
                                                 !.sum = task[r].sum \o task[p].result]]
    PROVE  RangesGoOn'
<1> DEFINE D == Ranges!Direct(r)
           O == Ranges!Others(r)
           got == task[r].got
<1>1. /\ IsRange(r) /\ IsSplit(r) /\ Getting(r) /\ task[r] \in TaskSet
      /\ Shares(r, D, O) /\ got + 1 \in 1..Len(O)
      /\ p \in DOMAIN task /\ IsRange(p) /\ Control(p) /\ Inside(p, r) /\ RangeTypes /\ p # r
      /\ p[1] < p[2] /\ task[p] \in TaskSet
  BY NextPartFacts DEF RangesGoOn
<1>2. algorithm \in InBlocks /\ algorithm \notin Halving /\ algorithm # "find" /\ r = Root
  <2>1. algorithm \notin Halving
    <3>1. got \in Nat /\ Len(O) \in Nat /\ (algorithm \in Halving => Len(O) = 1)
      BY <1>1 DEF TaskSet, Shares
    <3>2. \A g, m \in Nat : g + 1 < m => m # 1
      OBVIOUS
    <3>3. got + 1 < Len(O)
      OBVIOUS
    <3>. QED
      BY <3>1, <3>2, <3>3, Zenon
  <2>2. algorithm \in InBlocks
    BY <1>1, <2>1 DEF RangeTypes
  <2>. QED
    BY <1>1, <2>1, <2>2, ShortRanges DEF Halving, Ranges!Halving, IsSplit
<1>3. PICK n \in Nat : n = got + 1
  <2>1. got \in Nat
    BY <1>1, TaskFields
  <2>. QED
    BY <2>1
<1>4. PICK following \in Int \X Int : following = O[n + 1] /\ following[1] = p[2]
  <2>1. Len(O) \in Nat /\ n < Len(O)
    BY <1>1, <1>3 DEF Shares
  <2>2. n \in 1..Len(O) - 1 /\ n + 1 \in 1..Len(O)
    BY <1>1, <1>3, <2>1
  <2>3. p = O[n] /\ O[n][2] = O[n + 1][1]
    BY <1>1, <1>2, <1>3, <2>2 DEF Shares, NextPart
  <2>4. O[n + 1] \in PartsOf(r)
    BY <1>1, <2>2 DEF Shares
  <2>. QED
    BY <1>1, <2>3, <2>4 DEF Shares
<1>5. task[p].result = Upto(p[1], p[2]) /\ Done(p[1], p[2])
  <2>1. Base(p) = p[1]
    BY <1>1, <1>2 DEF Base, InBlocks, Ranges!InBlocks
  <2>. QED
    BY <1>1, <1>2, <2>1, BlockRight
<1>6. PICK sum \in Seq(Int) : sum = task[r].sum \o task[p].result /\ sum = Upto(0, p[2])
  <2>1. task[r].sum = Upto(0, p[1])
    BY <1>1, <1>2 DEF Getting
  <2>2. PICK a \in Int, b \in Int : a = p[1] /\ b = p[2] /\ 1 <= a /\ a <= b
    <3>1. IsRange(p)
      BY <1>1
    <3>. QED
      BY <3>1 DEF IsRange
  <2>3. Upto(0, a) \o Upto(a, b) = Upto(0, b) /\ Upto(0, b) \in Seq(Int)
    <3>1. PICK zero \in Int : zero = 0
      OBVIOUS
    <3>2. zero <= a /\ a <= b /\ zero <= b
      BY <2>2, <3>1
    <3>3. Upto(zero, a) \o Upto(a, b) = Upto(zero, b)
      BY <2>2, <3>2, UptoJoined, Zenon
    <3>4. Upto(zero, b) \in Seq(Int)
      BY <2>2, <3>2, UptoFacts, Zenon
    <3>. QED
      BY <3>1, <3>3, <3>4, SMTT(20)
  <2>. QED
    BY <1>5, <2>1, <2>2, <2>3, Zenon
<1> DEFINE c == [task[r] EXCEPT !.got = n, !.sum = sum]
<1>7. /\ c \in TaskSet /\ c.size = task[r].size /\ c.step = "get" /\ c.got = n /\ c.sum = sum
      /\ c.result = task[r].result
  BY <1>1, <1>3, <1>6 DEF TaskSet
<1>8. OneTask(r) /\ task'[r] = c
  <2>1. task' = [task EXCEPT ![r] = c]
    BY <1>3, <1>6
  <2>. HIDE DEF c
  <2>. QED
    BY <1>1, <1>7, <2>1, ExceptOne
<1>. HIDE DEF c
<1>9. /\ Ranges!IsShort(r)' = Ranges!IsShort(r) /\ Ranges!Direct(r)' = D
      /\ Ranges!Others(r)' = O
  BY <1>8, OneTaskParts DEF OneTask
<1>10. NextPart(r)' = following
  BY <1>4, <1>7, <1>8, <1>9 DEF NextPart
<1>11. Done(r[1], p[2])
  <2>1. Done(r[1], p[1])
    BY <1>1, <1>2 DEF Getting
  <2>. QED
    BY <1>1, <1>5, <2>1, DoneJoined DEF IsRange
<1>12. Right(D)' /\ task'[D] = task[D]
  BY <1>1, <1>8, <1>9 DEF Getting, Right, Ranges!Ended, Ranges!Exists, OneTask, Ranges!Thrown
<1>13. Getting(r)'
  <2>1. n < Len(O)
    BY <1>3
  <2>2. task'[r].sum = Upto(0, following[1])
    BY <1>4, <1>6, <1>7, <1>8
  <2>3. Done(r[1], following[1])'
    BY <1>4, <1>11 DEF Done
  <2>. QED
    BY <1>1, <1>2, <1>7, <1>8, <1>9, <1>10, <1>12, <2>1, <2>2, <2>3
       DEF Getting, Upto, Done, Halving, InBlocks, Ranges!Halving, Ranges!InBlocks
<1>14. Control(r)'
  BY <1>7, <1>8, <1>13 DEF Control, Unbegun, Answered
<1>15. BegunAsBefore(r)
  BY <1>7, <1>8, BegunBefore DEF Unbegun
<1>. QED
  BY <1>7, <1>8, <1>14, <1>15, TaskGoesOn

\* The last result has been got.
LEMMA TaskLeaves ==
    ASSUME RangesAssumption, RangesGoOn, UNCHANGED <<algorithm, vector, applied, done_flag>>,
           NEW r \in DOMAIN task, task[r].step = "get",
           NEW result \in Seq(Int), Ranges!Becomes(r, "leave", result),
           (Base(r)' = Base(r) /\ task'[r].result = result) => Outcome(r)',
           algorithm = "find" /\ result = <<r[2]>> => \A p \in PartsOf(r) : Right(p)
    PROVE  RangesGoOn'
<1>1. /\ IsRange(r) /\ IsSplit(r) /\ Getting(r) /\ RangeTypes /\ RangeTree /\ NothingInside
  BY NextPartFacts DEF RangesGoOn
<1>2. OneTask(r) /\ task'[r].step = "leave" /\ task'[r].result = result
  BY <1>1, BecomesFacts
<1>3. /\ Ranges!IsShort(r)' = Ranges!IsShort(r) /\ Ranges!Direct(r)' = Ranges!Direct(r)
      /\ PartsOf(r)' = PartsOf(r) /\ Base(r)' = Base(r)
  BY <1>2, OneTaskParts DEF OneTask
<1>4. Outcome(r)'
  BY <1>2, <1>3
<1>5. \A w \in DOMAIN task : Right(w) => Right(w)'
  BY <1>2 DEF Right, Ranges!Ended, Ranges!Exists, Ranges!Thrown, OneTask
<1>6. Leaving(r)'
  <2>1. Right(Ranges!Direct(r)) /\ Ranges!Direct(r) \in DOMAIN task
    BY <1>1 DEF Getting, Right, Ranges!Ended, Ranges!Exists
  <2>2. Right(Ranges!Direct(r))'
    BY <1>3, <1>2, <2>1 DEF Right, Ranges!Ended, Ranges!Exists, Ranges!Thrown, OneTask
  <2>3. ASSUME algorithm = "find", result = <<r[2]>>, NEW p \in PartsOf(r) PROVE Right(p)'
    BY <1>5, <2>3 DEF Right, Ranges!Ended, Ranges!Exists
  <2>. QED
    BY <1>1, <1>2, <1>3, <2>2, <2>3 DEF Leaving, Right, Getting
<1>7. Control(r)'
  BY <1>2, <1>4, <1>6 DEF Control, Unbegun
<1>8. BegunAsBefore(r)
  BY <1>2, BegunBefore DEF Unbegun
<1>9. ASSUME algorithm = "find", result = <<r[2]>>, NEW q \in DOMAIN task,
             Ranges!Ended(q), Inside(q, r)
      PROVE  task[q].result = <<q[2]>>
  <2>1. q # r
    BY <1>9 DEF Ranges!Ended
  <2>2. PICK p \in PartsOf(r) : Inside(q, p)
    BY <1>1, <1>9, <2>1, InsideUnder DEF Under
  <2>3. Right(p)
    BY <1>9
  <2>. QED
    BY <1>1, <1>9, <2>2, <2>3 DEF NothingInside, Right, Answered, Ranges!Ended, Ranges!Exists
<1>. QED
  BY <1>2, <1>7, <1>8, <1>9, TaskGoesOn

LEMMA GetFinds ==
    ASSUME RangesAssumption, RangesGoOn, UNCHANGED <<algorithm, vector, applied, done_flag>>,
           NEW r \in DOMAIN task, task[r].step = "get", algorithm = "find",
           NEW p, p = NextPart(r), task[p].step = "ended", task[p].result # Ranges!Thrown,
           Ranges!Becomes(r, "leave", task[p].result)
    PROVE  RangesGoOn'
<1> DEFINE D == Ranges!Direct(r)
           O == Ranges!Others(r)
<1>1. /\ IsRange(r) /\ Getting(r) /\ Shares(r, D, O) /\ D \in PartsOf(r) /\ IsSplit(r)
      /\ p \in PartsOf(r) /\ p \in DOMAIN task /\ IsRange(p) /\ Control(p) /\ Inside(p, r)
      /\ RangeTypes /\ task[p] \in TaskSet /\ algorithm \in Halving
  BY NextPartFacts DEF RangesGoOn, Halving, Ranges!Halving
<1>2. D \in DOMAIN task /\ IsRange(D) /\ Control(D)
  BY <1>1, PartFacts
<1>3. /\ Len(O) = 1 /\ p = O[1] /\ D[1] = r[1] /\ D[2] = p[1] /\ p[2] = r[2]
      /\ PartsOf(r) = {D, p}
  <2>1. Len(O) = 1 /\ task[r].got = 0
    BY <1>1 DEF Shares, Getting
  <2>2. p = O[1] /\ {O[k] : k \in 1..1} = {O[1]}
    <3>1. 0 + 1 = 1 /\ \A k : k \in 1..1 <=> k = 1
      OBVIOUS
    <3>. QED
      BY <2>1, <3>1 DEF NextPart
  <2>. QED
    BY <1>1, <2>1, <2>2 DEF Shares
<1>4. Right(D) /\ task[D].result = <<D[2]>>
  BY <1>1 DEF Getting, Right
<1>5. task[p].result = <<r[2]>> => \A q \in PartsOf(r) : Right(q)
  BY <1>1, <1>3, <1>4 DEF Right, Ranges!Ended, Ranges!Exists
<1>6. ASSUME task'[r].result = task[p].result PROVE Outcome(r)'
  <2>1. CASE task[p].result = <<p[2]>>
    <3>1. done_flag \/ NoneFound(p[1], p[2])
      BY <1>1, <2>1, OutcomeFound DEF Control, Answered
    <3>2. done_flag \/ NoneFound(D[1], D[2])
      BY <1>2, <1>4, OutcomeFound DEF Control, Answered, Right, Ranges!Ended
    <3>3. \A i \in r[1]..r[2] - 1 : i \in p[1]..p[2] - 1 \/ i \in D[1]..D[2] - 1
      BY <1>1, <1>2, <1>3 DEF IsRange
    <3>4. done_flag \/ NoneFound(r[1], r[2])
      BY <3>1, <3>2, <3>3 DEF NoneFound
    <3>. QED
      BY <1>3, <1>6, <2>1, <3>4 DEF Outcome, NoneFound
  <2>2. CASE task[p].result # <<p[2]>>
    <3>1. PICK i \in p[1]..p[2] - 1 : vector[i] = "match" /\ task[p].result = <<i>>
      BY <1>1, <2>2, OutcomeFound DEF Control, Answered
    <3>2. i \in r[1]..r[2] - 1
      BY <1>1, <1>3 DEF IsRange, Inside
    <3>. QED
      BY <1>6, <3>1, <3>2 DEF Outcome
  <2>. QED
    BY <2>1, <2>2
<1>7. task[p].result \in Seq(Int)
  BY <1>1 DEF TaskSet
<1>. QED
  BY <1>5, <1>6, <1>7, TaskLeaves

LEMMA SumJoined ==
    ASSUME NEW a \in Int, NEW b \in Int, NEW c \in Int, NEW e \in Int, a <= b, b <= c, c <= e
    PROVE  /\ (Upto(a, b) \o Upto(b, c)) \o Upto(c, e) = Upto(a, e)
           /\ Upto(a, e) \in Seq(Int)
<1>1. Upto(a, b) \o Upto(b, c) = Upto(a, c)
  BY UptoJoined
<1>2. a <= c /\ a <= e
  OBVIOUS
<1>3. Upto(a, c) \o Upto(c, e) = Upto(a, e)
  BY <1>2, UptoJoined
<1>4. Upto(a, e) \in Seq(Int)
  BY <1>2, UptoFacts
<1>. QED
  BY <1>1, <1>3, <1>4, Zenon

LEMMA GetSums ==
    ASSUME RangesAssumption, RangesGoOn, UNCHANGED <<algorithm, vector, applied, done_flag>>,
           NEW r \in DOMAIN task, task[r].step = "get", algorithm # "find",
           NEW p, p = NextPart(r), task[p].step = "ended", task[p].result # Ranges!Thrown,
           ~(task[r].got + 1 < Len(Ranges!Others(r))),
           Ranges!Becomes(r, "leave", (task[r].sum \o task[p].result) \o task[r].result)
    PROVE  RangesGoOn'
<1> DEFINE D == Ranges!Direct(r)
           O == Ranges!Others(r)
<1>1. /\ IsRange(r) /\ Getting(r) /\ Shares(r, D, O) /\ D \in PartsOf(r) /\ IsSplit(r)
      /\ p \in PartsOf(r) /\ p \in DOMAIN task /\ IsRange(p) /\ Control(p) /\ Inside(p, r)
      /\ RangeTypes /\ task[p] \in TaskSet /\ task[r] \in TaskSet /\ p # r
      /\ task[r].got + 1 \in 1..Len(O) /\ p[1] < p[2]
  BY NextPartFacts DEF RangesGoOn
<1>2. D \in DOMAIN task /\ IsRange(D) /\ Control(D) /\ D # r /\ Inside(D, r)
  BY <1>1, PartFacts
<1>3. p = O[Len(O)] /\ p[2] = D[1] /\ D[2] = r[2]
  <2>1. \A g, m \in Nat : g + 1 \in 1..m /\ ~(g + 1 < m) => g + 1 = m
    OBVIOUS
  <2>2. task[r].got \in Nat /\ Len(O) \in Nat
    BY <1>1 DEF TaskSet, Shares
  <2>3. task[r].got + 1 = Len(O)
    BY <1>1, <2>1, <2>2, Zenon
  <2>. QED
    BY <1>1, <2>3 DEF Shares, NextPart
<1>4. /\ task[p].result = Upto(Base(p), p[2]) /\ Done(p[1], p[2])
      /\ task[r].result = Upto(Base(D), D[2]) /\ Done(D[1], D[2])
  BY <1>1, <1>2, BlockRight DEF Getting, Right, Ranges!Ended
<1>5. Base(D) = D[1]
  <2>1. D[1] # 1
    BY <1>1, <1>2, <1>3 DEF IsRange
  <2>2. algorithm \in InBlocks => r = Root
    BY <1>1, ShortRanges DEF IsSplit
  <2>. QED
    BY <1>2, <2>1, <2>2 DEF Base
<1>6. task[r].sum = Upto(Base(r), Base(p)) /\ Base(r) <= Base(p) /\ Base(p) <= p[1] /\ Base(r) \in Int /\ Base(p) \in Int
  <2>1. CASE algorithm \in Halving
    <3>1. Len(O) = 1 /\ p = O[1] /\ p[1] = r[1]
      BY <1>1, <1>3, <2>1 DEF Shares
    <3>2. algorithm \notin InBlocks
      BY <2>1, Algorithms
    <3>3. Base(p) = Base(r) /\ Base(r) \in Int /\ Base(p) <= p[1]
      BY <1>1, <3>1, <3>2, BaseFacts DEF Base
    <3>4. task[r].sum = <<>> /\ Upto(Base(r), Base(r)) = <<>>
      BY <1>1, <2>1, <3>3, UptoSmall DEF Getting
    <3>. QED
      BY <3>3, <3>4
  <2>2. CASE algorithm \in InBlocks
    <3>1. r = Root
      BY <1>1, <2>2, ShortRanges DEF IsSplit
    <3>2. algorithm # "accumulate_using_async"
      BY <2>2 DEF InBlocks, Ranges!InBlocks
    <3>3. Base(r) = 0 /\ Base(p) = p[1]
      BY <1>1, <2>2, <3>1, <3>2 DEF Base
    <3>4. task[r].sum = Upto(0, p[1])
      BY <1>1, <2>2 DEF Getting
    <3>. QED
      BY <1>1, <3>3, <3>4 DEF IsRange
  <2>. QED
    BY <1>1, <2>1, <2>2 DEF RangeTypes
<1>7. PICK result \in Seq(Int) : /\ result = (task[r].sum \o task[p].result) \o task[r].result
                                 /\ result = Upto(Base(r), r[2])
  <2>1. /\ p[2] \in Int /\ D[2] \in Int /\ Base(p) <= p[2] /\ p[2] <= D[2]
    BY <1>1, <1>2, <1>3, <1>6 DEF IsRange
  <2>2. PICK a \in Int, b \in Int, c \in Int, e \in Int :
           /\ a = Base(r) /\ b = Base(p) /\ c = p[2] /\ e = D[2] /\ a <= b /\ b <= c /\ c <= e
    BY <1>6, <2>1
  <2>3. /\ (Upto(a, b) \o Upto(b, c)) \o Upto(c, e) = Upto(a, e)
        /\ Upto(a, e) \in Seq(Int)
    <3>1. a <= b /\ b <= c /\ c <= e
      BY <2>2
    <3>. QED
      BY <3>1, SumJoined
  <2>4. /\ task[r].sum = Upto(a, b) /\ task[p].result = Upto(b, c) /\ task[r].result = Upto(c, e)
    BY <1>3, <1>4, <1>5, <1>6, <2>2
  <2>. QED
    BY <1>3, <2>2, <2>3, <2>4, Zenon
<1>8. Done(r[1], r[2])
  <2>1. Done(r[1], p[1])
    BY <1>1 DEF Getting
  <2>2. /\ p[1] \in Int /\ p[2] \in Int /\ r[1] \in Int /\ r[2] \in Int
    BY <1>1 DEF IsRange
  <2>3. Done(r[1], p[2])
    BY <1>4, <2>1, <2>2, DoneJoined
  <2>4. Done(p[2], r[2])
    BY <1>3, <1>4
  <2>. QED
    BY <2>2, <2>3, <2>4, DoneJoined
<1>9. ASSUME Base(r)' = Base(r), task'[r].result = result PROVE Outcome(r)'
  BY <1>7, <1>8, <1>9 DEF Outcome, Upto, Done
<1>10. Ranges!Becomes(r, "leave", result)
  BY <1>7
<1>. QED
  BY <1>9, <1>10, TaskLeaves

LEMMA GetStep ==
    ASSUME RangesAssumption, RangesGoOn, UNCHANGED <<algorithm, vector>>,
           NEW r \in DOMAIN task, Ranges!Get(r)
    PROVE  RangesGoOn'
<1> DEFINE p == NextPart(r)
<1>1. /\ task[r].step = "get" /\ UNCHANGED <<applied, done_flag>>
      /\ \/ task[p].step = "deferred" /\ task' = [task EXCEPT ![p].step = "begin"]
         \/ /\ task[p].step = "ended" /\ task[p].result = Ranges!Thrown
            /\ Ranges!Becomes(r, "leave", Ranges!Thrown)
         \/ /\ task[p].step = "ended" /\ task[p].result # Ranges!Thrown
            /\ IF task[r].got + 1 < Len(Ranges!Others(r))
               THEN task' = [task EXCEPT ![r] = [@ EXCEPT !.got = task[r].got + 1,
                                                         !.sum = task[r].sum \o task[p].result]]
               ELSE Ranges!Becomes(r, "leave",
                       IF algorithm = "find" THEN task[p].result
                       ELSE (task[r].sum \o task[p].result) \o task[r].result)
  BY DEF Ranges!Get, Ranges!At, Ranges!Ended, Ranges!Exists, NextPart
<1>2. CASE task[p].step = "deferred" /\ task' = [task EXCEPT ![p].step = "begin"]
  BY <1>1, <1>2, GetRuns
<1>3. CASE /\ task[p].step = "ended" /\ task[p].result = Ranges!Thrown
           /\ Ranges!Becomes(r, "leave", Ranges!Thrown)
  BY <1>1, <1>3, GetThrows
<1>4. CASE /\ task[p].step = "ended" /\ task[p].result # Ranges!Thrown
           /\ task[r].got + 1 < Len(Ranges!Others(r))
           /\ task' = [task EXCEPT ![r] = [@ EXCEPT !.got = task[r].got + 1,
                                                   !.sum = task[r].sum \o task[p].result]]
  BY <1>1, <1>4, GetGoesOn
<1>5. CASE /\ task[p].step = "ended" /\ task[p].result # Ranges!Thrown
           /\ ~(task[r].got + 1 < Len(Ranges!Others(r))) /\ algorithm = "find"
           /\ Ranges!Becomes(r, "leave", task[p].result)
  BY <1>1, <1>5, GetFinds
<1>6. CASE /\ task[p].step = "ended" /\ task[p].result # Ranges!Thrown
           /\ ~(task[r].got + 1 < Len(Ranges!Others(r))) /\ algorithm # "find"
           /\ Ranges!Becomes(r, "leave", (task[r].sum \o task[p].result) \o task[r].result)
  BY <1>1, <1>6, GetSums
<1>. QED
  BY <1>1, <1>2, <1>3, <1>4, <1>5, <1>6

-----------------------------------------------------------------------------
(***************************************************************************)
(* A task that leaves parts to others.                                     *)
(***************************************************************************)
Splits(r) ==
    /\ UNCHANGED <<algorithm, vector, applied, done_flag>>
    /\ r \in DOMAIN task /\ IsRange(r) /\ task[r].step = "begin" /\ ~Ranges!IsShort(r)
    /\ Shares(r, Ranges!Direct(r), Ranges!Others(r))
    /\ DOMAIN task' = DOMAIN task \cup PartsOf(r)
    /\ task' = [q \in DOMAIN task' |-> task'[q]]
    /\ task'[r] = [task[r] EXCEPT !.step = "direct"]
    /\ task'[r] \in TaskSet /\ task'[r].size = task[r].size /\ task'[r].step = "direct"
    /\ \A q \in DOMAIN task : q # r => task'[q] = task[q]
    /\ \A p \in PartsOf(r) : /\ p \notin DOMAIN task
                             /\ task'[p] \in TaskSet /\ task'[p].step \in Unbegun
                             /\ task'[p] = Ranges!New(task'[p].step, p, task'[p].size)

LEMMA NewTask ==
    ASSUME NEW step \in Unbegun, NEW p \in Int \X Int, NEW size \in Nat \ {0, 1}
    PROVE  /\ Ranges!New(step, p, size) \in TaskSet
           /\ Ranges!New(step, p, size).step = step /\ Ranges!New(step, p, size).size = size
<1>1. <<0>> \in Seq(Int) /\ <<>> \in Seq(Int) /\ p[1] \in Int
  OBVIOUS
<1>2. PICK sum \in Seq(Int) : sum = IF algorithm \in InBlocks THEN <<0>> ELSE <<>>
  BY <1>1
<1>3. PICK result \in Seq(Int) : result = <<>>
  BY <1>1
<1>4. Ranges!New(step, p, size) = [step |-> step, at |-> p[1], size |-> size, got |-> 0,
                                   sum |-> sum, result |-> result]
  BY <1>2, <1>3 DEF Ranges!New, InBlocks
<1>. QED
  BY <1>1, <1>4 DEF TaskSet

LEMMA BeginSplits ==
    ASSUME RangesAssumption, RangesGoOn, UNCHANGED <<algorithm, vector>>,
           NEW r \in DOMAIN task, Ranges!Begin(r), ~Ranges!IsShort(r)
    PROVE  Splits(r)
<1> DEFINE D == Ranges!Direct(r)
           c == [task[r] EXCEPT !.step = "direct"]
<1>1. /\ IsRange(r) /\ RangeTypes /\ RangeTree /\ task[r] \in TaskSet
      /\ task[r].step = "begin" /\ UNCHANGED <<applied, done_flag>>
  BY DEF RangesGoOn, RangeTypes, Ranges!Begin, Ranges!At
<1>2. /\ Shares(r, D, Ranges!Others(r)) /\ PartsOf(r) = Ranges!ToSet(Parts(r))
  BY <1>1, Shared
<1>3. PICK step \in Unbegun :
         task' = [p \in DOMAIN task \cup PartsOf(r) |->
                    CASE p = r                     -> c
                      [] p \in DOMAIN task \ {r}   -> task[p]
                      [] p = D                     -> Ranges!New("begin", p, Ranges!DirectSize(r))
                      [] OTHER                     -> Ranges!New(step, p, task[r].size)]
  BY <1>2 DEF Ranges!Begin, Parts, Unbegun
<1>4. ASSUME NEW p \in PartsOf(r)
      PROVE  /\ p \notin DOMAIN task /\ p # r /\ p \in Int \X Int
             /\ task'[p] \in TaskSet /\ task'[p].step \in Unbegun
             /\ task'[p] = Ranges!New(task'[p].step, p, task'[p].size)
  <2>1. p # r /\ p \in Int \X Int /\ Inside(p, r)
    BY <1>2 DEF Shares
  <2>2. p \notin DOMAIN task
    BY <1>1, <2>1, InsideUnder DEF Under, IsSplit, Unbegun
  <2>3. PICK mode \in Unbegun, size \in Nat \ {0, 1} : task'[p] = Ranges!New(mode, p, size)
    <3>1. Ranges!DirectSize(r) \in Nat \ {0, 1} /\ task[r].size \in Nat \ {0, 1}
      BY <1>1 DEF Ranges!DirectSize, RangesAssumption, TaskSet
    <3>2. CASE p = D
      <4>1. task'[p] = Ranges!New("begin", p, Ranges!DirectSize(r))
        BY <1>3, <2>1, <2>2, <3>2
      <4>. QED
        BY <3>1, <4>1 DEF Unbegun
    <3>3. CASE p # D
      <4>1. task'[p] = Ranges!New(step, p, task[r].size)
        BY <1>3, <2>1, <2>2, <3>3
      <4>. QED
        BY <3>1, <4>1
    <3>. QED
      BY <3>2, <3>3
  <2>. QED
    BY <2>1, <2>2, <2>3, NewTask
<1>5. DOMAIN task' = DOMAIN task \cup PartsOf(r) /\ task' = [q \in DOMAIN task' |-> task'[q]]
  BY <1>3
<1>6. c \in TaskSet /\ c.size = task[r].size /\ c.step = "direct"
  BY <1>1 DEF TaskSet
<1>7. task'[r] = c /\ \A q \in DOMAIN task : q # r => task'[q] = task[q]
  <2>0. D # r /\ D \notin DOMAIN task
    BY <1>2, <1>4 DEF Shares
  <2>. HIDE DEF c, D
  <2>1. task'[r] = c
    BY <1>3, <2>0
  <2>2. ASSUME NEW q \in DOMAIN task, q # r PROVE task'[q] = task[q]
    BY <1>3, <2>0, <2>2
  <2>. QED
    BY <2>1, <2>2
<1>. QED
  BY <1>1, <1>2, <1>4, <1>5, <1>6, <1>7 DEF Splits

LEMMA SplitTasks ==
    ASSUME RangesAssumption, RangesGoOn, NEW r, Splits(r)
    PROVE  /\ IsSplit(r)' /\ ~IsSplit(r)
           /\ \A q \in DOMAIN task :
                 /\ q \in DOMAIN task' /\ task'[q].size = task[q].size
                 /\ Ranges!IsShort(q)' = Ranges!IsShort(q) /\ PartsOf(q)' = PartsOf(q)
                 /\ q # r => (IsSplit(q)' <=> IsSplit(q))
           /\ \A p \in PartsOf(r) : ~IsSplit(p)'
<1>1. ASSUME NEW q \in DOMAIN task
      PROVE  /\ q \in DOMAIN task' /\ task'[q].size = task[q].size
             /\ Ranges!IsShort(q)' = Ranges!IsShort(q) /\ PartsOf(q)' = PartsOf(q)
  <2>1. q \in DOMAIN task' /\ task'[q].size = task[q].size
    BY DEF Splits
  <2>. QED
    BY <2>1, SameParts DEF Splits
<1>2. ASSUME NEW q \in DOMAIN task, q # r PROVE IsSplit(q)' <=> IsSplit(q)
  BY <1>1, <1>2 DEF IsSplit, Splits
<1>3. IsSplit(r)' /\ ~IsSplit(r)
  BY <1>1 DEF Splits, IsSplit, Unbegun
<1>4. \A p \in PartsOf(r) : ~IsSplit(p)'
  BY DEF Splits, IsSplit
<1>. QED
  BY <1>1, <1>2, <1>3, <1>4

LEMMA SplitTypes ==
    ASSUME RangesAssumption, RangesGoOn, NEW r, Splits(r)
    PROVE  RangeTypes'
<1>1. RangeTypes
  BY DEF RangesGoOn
<1>2. ASSUME NEW q \in DOMAIN task' PROVE IsRange(q) /\ task'[q] \in TaskSet
  <2>1. CASE q \in DOMAIN task
    BY <1>1, <2>1 DEF RangeTypes, Splits
  <2>2. CASE q \in PartsOf(r)
    <3>1. q \in Int \X Int /\ Inside(q, r) /\ q[1] < q[2]
      BY <2>2 DEF Splits, Shares
    <3>2. r[1] \in Int /\ r[2] \in Int /\ 1 <= r[1] /\ r[2] <= Len(vector) + 1 /\ Len(vector) \in Nat
      BY <1>1 DEF Splits, IsRange, RangeTypes
    <3>. QED
      BY <2>2, <3>1, <3>2 DEF Splits, IsRange, Inside
  <2>. QED
    BY <2>1, <2>2 DEF Splits
<1>. QED
  BY <1>1, <1>2 DEF RangeTypes, IsRange, Splits

\* How a new part lies to the other ranges.
LEMMA NewPart ==
    ASSUME RangesAssumption, RangesGoOn, NEW r, Splits(r), NEW p \in PartsOf(r),
           NEW x \in DOMAIN task, x # r
    PROVE  \/ Disjoint(p, x) /\ Disjoint(x, p) /\ ~Inside(p, x)
           \/ Inside(r, x) /\ Under(p, x)
<1>1. /\ p \in Int \X Int /\ Inside(p, r) /\ p[1] < p[2] /\ IsRange(r) /\ IsRange(x)
      /\ r \in DOMAIN task
  BY DEF Splits, Shares, RangesGoOn, RangeTypes
<1>2. CASE Disjoint(r, x)
  BY <1>1, <1>2 DEF Disjoint, Inside, IsRange
<1>3. CASE Under(r, x)
  <2>1. PICK s \in PartsOf(x) : IsSplit(x) /\ Inside(r, s)
    BY <1>3 DEF Under
  <2>2. IsRange(s) /\ Inside(s, x)
    BY <2>1, PartFacts
  <2>3. Inside(p, s) /\ Inside(r, x)
    BY <1>1, <2>1, <2>2 DEF Inside, IsRange
  <2>. QED
    BY <2>1, <2>3 DEF Under
<1>4. ~Under(x, r)
  BY SplitTasks DEF Under
<1>. QED
  BY <1>1, <1>2, <1>3, <1>4 DEF RangesGoOn, RangeTree

LEMMA SplitTree ==
    ASSUME RangesAssumption, RangesGoOn, NEW r, Splits(r)
    PROVE  RangeTree'
<1>1. RangeTree /\ Root' = Root /\ r \in DOMAIN task /\ DOMAIN task' = DOMAIN task \cup PartsOf(r)
  BY DEF RangesGoOn, Splits, Root, Ranges!Root
<1>2. /\ IsSplit(r)' /\ ~IsSplit(r)
      /\ \A q \in DOMAIN task : PartsOf(q)' = PartsOf(q) /\ (q # r => (IsSplit(q)' <=> IsSplit(q)))
      /\ \A p \in PartsOf(r) : ~IsSplit(p)'
  BY SplitTasks
<1>3. Shares(r, Ranges!Direct(r), Ranges!Others(r)) /\ \A p \in PartsOf(r) : p \notin DOMAIN task
  BY DEF Splits
<1>4. ASSUME NEW q \in DOMAIN task' \ {Root}
      PROVE  q[1] < q[2] /\ \E s \in DOMAIN task' : IsSplit(s)' /\ q \in PartsOf(s)'
  <2>1. CASE q \in DOMAIN task
    <3>1. PICK s \in DOMAIN task : q[1] < q[2] /\ IsSplit(s) /\ q \in PartsOf(s)
      BY <1>1, <1>4, <2>1 DEF RangeTree
    <3>. QED
      BY <1>1, <1>2, <3>1
  <2>2. CASE q \in PartsOf(r)
    <3>1. q[1] < q[2]
      BY <1>3, <2>2 DEF Shares
    <3>2. r \in DOMAIN task' /\ IsSplit(r)' /\ q \in PartsOf(r)'
      BY <1>1, <1>2, <2>2
    <3>. QED
      BY <3>1, <3>2, Zenon
  <2>. QED
    BY <1>1, <2>1, <2>2
<1>5. ASSUME NEW q \in DOMAIN task', IsSplit(q)' PROVE PartsOf(q)' \subseteq DOMAIN task'
  <2>1. CASE q \in DOMAIN task /\ q # r
    BY <1>1, <1>2, <1>5, <2>1 DEF RangeTree
  <2>2. CASE q = r
    BY <1>1, <1>2, <2>2
  <2>. QED
    BY <1>1, <1>2, <1>5, <2>1, <2>2
<1>6. ASSUME NEW q, NEW x \in DOMAIN task, Under(q, x) PROVE Under(q, x)'
  BY <1>2, <1>6 DEF Under, Inside
<1>7. ASSUME NEW p \in PartsOf(r), NEW x \in DOMAIN task'
      PROVE  p = x \/ (Disjoint(p, x) /\ Disjoint(x, p)) \/ Under(p, x)'
  <2>1. CASE x \in DOMAIN task /\ x # r
    BY <1>6, <2>1, NewPart
  <2>2. CASE x = r
    <3>1. r \in DOMAIN task /\ PartsOf(r)' = PartsOf(r) /\ Inside(p, p)
      <4>1. p \in Int \X Int
        BY <1>3 DEF Shares
      <4>2. Inside(p, p)
        BY <4>1 DEF Inside
      <4>. QED
        BY <1>1, <1>2, <4>2
    <3>. QED
      BY <1>2, <2>2, <3>1 DEF Under, Inside
  <2>3. CASE x \in PartsOf(r)
    BY <1>3, <2>3 DEF Shares
  <2>. QED
    BY <1>1, <2>1, <2>2, <2>3
<1>8. ASSUME NEW q \in DOMAIN task', NEW x \in DOMAIN task'
      PROVE  q = x \/ Disjoint(q, x) \/ Under(q, x)' \/ Under(x, q)'
  <2>1. CASE q \in DOMAIN task /\ x \in DOMAIN task
    BY <1>1, <1>6, <2>1 DEF RangeTree
  <2>2. CASE q \in PartsOf(r)
    BY <1>7, <2>2
  <2>3. CASE x \in PartsOf(r)
    BY <1>7, <2>3
  <2>. QED
    BY <1>1, <2>1, <2>2, <2>3
<1>. QED
  BY <1>1, <1>4, <1>5, <1>8 DEF RangeTree, Disjoint

LEMMA SplitControl ==
    ASSUME RangesAssumption, RangesGoOn, NEW r, Splits(r)
    PROVE  RangeControl'
<1>1. RangeTypes /\ RangeControl /\ UNCHANGED <<algorithm, vector, applied, done_flag>>
  BY DEF RangesGoOn, Splits
<1>2. \A w \in DOMAIN task : Ranges!Ended(w) => w \in DOMAIN task' /\ task'[w] = task[w]
  BY DEF Splits, Ranges!Ended, Ranges!Exists
<1>3. ASSUME NEW q \in DOMAIN task, q # r PROVE Control(q)'
  <2>1. Control(q) /\ q \in DOMAIN task' /\ task'[q] = task[q]
    BY <1>1, <1>3 DEF Splits, RangeControl
  <2>. QED
    BY <1>1, <1>2, <2>1, ControlStays
<1>4. Control(r)'
  <2>1. task[r] = Ranges!New("begin", r, task[r].size) /\ task[r] \in TaskSet
    BY <1>1 DEF Splits, RangeControl, Control, Unbegun, RangeTypes
  <2>2. task[r].got = 0 /\ task[r].sum = IF algorithm \in InBlocks THEN <<0>> ELSE <<>>
    BY <2>1 DEF Ranges!New, InBlocks
  <2>3. task'[r].got = task[r].got /\ task'[r].sum = task[r].sum /\ task'[r].step = "direct"
    BY <2>1 DEF Splits, TaskSet
  <2>4. ~Ranges!IsShort(r)'
    BY SplitTasks DEF Splits
  <2>5. Starts(r)'
    BY <1>1, <2>2, <2>3, <2>4 DEF Starts, InBlocks, Ranges!InBlocks
  <2>. QED
    BY <2>3, <2>5 DEF Control, Unbegun, Answered
<1>5. ASSUME NEW p \in PartsOf(r) PROVE Control(p)'
  <2>1. task'[p].step \in Unbegun /\ task'[p] = Ranges!New(task'[p].step, p, task'[p].size)
    BY DEF Splits
  <2>2. Ranges!New(task[p].step, p, task[p].size)' = Ranges!New(task'[p].step, p, task'[p].size)
    BY <1>1 DEF Ranges!New
  <2>. QED
    BY <2>1, <2>2 DEF Control, Unbegun, Answered
<1>. QED
  BY <1>3, <1>4, <1>5 DEF RangeControl, Splits

LEMMA SplitOthers ==
    ASSUME RangesAssumption, RangesGoOn, NEW r, Splits(r)
    PROVE  AppliedOnce' /\ FlagSet' /\ NoneInside' /\ NothingInside'
<1>1. /\ AppliedOnce /\ FlagSet /\ NoneInside /\ NothingInside
      /\ UNCHANGED <<algorithm, vector, applied, done_flag>>
  BY DEF RangesGoOn, Splits
<1>2. ASSUME NEW q \in DOMAIN task', task'[q].step \notin Unbegun \cup {"direct"}
      PROVE  q \in DOMAIN task /\ q # r /\ task'[q] = task[q]
  BY <1>2 DEF Splits
<1>3. ASSUME NEW q \in DOMAIN task, task[q].step # "begin"
      PROVE  q \in DOMAIN task' /\ task'[q] = task[q] /\ Ranges!IsShort(q)' = Ranges!IsShort(q)
  <2>1. q # r
    BY <1>3 DEF Splits
  <2>. QED
    BY <2>1, SplitTasks DEF Splits
<1>4. AppliedOnce'
  BY <1>1, <1>3 DEF AppliedOnce
<1>5. FlagSet'
  BY <1>1, <1>3 DEF FlagSet, Ranges!Ended, Ranges!Exists
<1>6. NoneInside'
  <2>1. SUFFICES ASSUME NEW q \in DOMAIN task', NEW x \in DOMAIN task',
                        task'[x].step = "ended", Inside(q, x)
                 PROVE  task'[q].step \in {"ended", "deferred"}
    BY DEF NoneInside, Ranges!Ended, Ranges!Exists, Inside
  <2>2. x \in DOMAIN task /\ x # r /\ task[x].step = "ended" /\ Ranges!Ended(x)
    BY <1>2, <2>1 DEF Unbegun, Ranges!Ended, Ranges!Exists
  <2>3. ~Inside(r, x)
    BY <1>1, <2>2 DEF NoneInside, Splits
  <2>4. CASE q \in DOMAIN task
    <3>1. task[q].step \in {"ended", "deferred"}
      BY <1>1, <2>1, <2>2, <2>4 DEF NoneInside
    <3>. QED
      BY <1>3, <2>4, <3>1
  <2>5. CASE q \in PartsOf(r)
    BY <2>1, <2>2, <2>3, <2>5, NewPart
  <2>. QED
    BY <2>1, <2>4, <2>5 DEF Splits
<1>7. NothingInside'
  <2>1. SUFFICES ASSUME algorithm = "find", NEW q \in DOMAIN task', NEW x \in DOMAIN task',
                        task'[x].step \in {"leave", "ended"}, task'[x].result = <<x[2]>>,
                        task'[q].step = "ended", Inside(q, x)
                 PROVE  task'[q].result = <<q[2]>>
    BY <1>1 DEF NothingInside, Ranges!Ended, Ranges!Exists, Inside, Answered
  <2>. QED
    BY <1>1, <1>2, <2>1 DEF NothingInside, Ranges!Ended, Ranges!Exists, Answered, Unbegun
<1>. QED
  BY <1>4, <1>5, <1>6, <1>7

LEMMA BeginStep ==
    ASSUME RangesAssumption, RangesGoOn, UNCHANGED <<algorithm, vector>>,
           NEW r \in DOMAIN task, Ranges!Begin(r)
    PROVE  RangesGoOn'
<1>1. CASE Ranges!IsShort(r)
  BY <1>1, BeginShort DEF Ranges!Begin, Ranges!At
<1>2. CASE ~Ranges!IsShort(r)
  BY <1>2, BeginSplits, SplitTypes, SplitTree, SplitControl, SplitOthers DEF RangesGoOn
<1>. QED
  BY <1>1, <1>2

-----------------------------------------------------------------------------
(***************************************************************************)
(* The invariant of the algorithms that cut a range into parts.            *)
(***************************************************************************)
LEMMA RangesStart ==
    ASSUME RangesAssumption, Ranges!Init
    PROVE  RangesGoOn
<1>1. /\ algorithm \in Halving \cup InBlocks
      /\ vector \in Seq({"match", "other", "throw"}) /\ Len(vector) \in Nat
      /\ task = [r \in {Root} |-> Ranges!New("begin", r, max_batch_size)]
      /\ applied = [i \in DOMAIN vector |-> 0] /\ done_flag = FALSE
  BY DEF Ranges!Init, RangesAssumption, Halving, InBlocks, Root
<1>2. /\ DOMAIN task = {Root} /\ task[Root] = Ranges!New("begin", Root, max_batch_size)
      /\ Root = <<1, Len(vector) + 1>>
  BY <1>1 DEF Root, Ranges!Root
<1>3. Root \in Int \X Int /\ IsRange(Root)
  BY <1>1, <1>2 DEF IsRange
<1>4. task[Root] \in TaskSet /\ task[Root].step = "begin" /\ task[Root].size = max_batch_size
  BY <1>2, <1>3, NewTask DEF RangesAssumption, Unbegun
<1>5. RangeTypes
  BY <1>1, <1>2, <1>3, <1>4 DEF RangeTypes
<1>6. RangeTree
  BY <1>2, <1>4 DEF RangeTree, IsSplit, Unbegun
<1>7. RangeControl
  BY <1>2, <1>4 DEF RangeControl, Control, Answered
<1>8. AppliedOnce /\ FlagSet
  BY <1>1 DEF AppliedOnce, FlagSet
<1>9. NoneInside /\ NothingInside
  BY <1>2, <1>4 DEF NoneInside, NothingInside, Ranges!Ended, Ranges!Exists
<1>. QED
  BY <1>5, <1>6, <1>7, <1>8, <1>9 DEF RangesGoOn

LEMMA RangesStep ==
    ASSUME RangesAssumption, RangesGoOn, Ranges!Next
    PROVE  RangesGoOn' \/ ProcessEnded'
<1>1. UNCHANGED <<algorithm, vector>>
  BY DEF Ranges!Next
<1>2. PICK r \in DOMAIN task : \/ Ranges!Begin(r) \/ Ranges!LoopTurn(r) \/ Ranges!WorkEnds(r)
                               \/ Ranges!Load(r) \/ Ranges!Compare(r) \/ Ranges!Store(r)
                               \/ Ranges!DirectEnds(r) \/ Ranges!Get(r) \/ Ranges!Leave(r)
  BY DEF Ranges!Next
<1>3. CASE Ranges!Begin(r)
  BY <1>1, <1>3, BeginStep
<1>4. CASE Ranges!LoopTurn(r)
  BY <1>1, <1>4, LoopTurnStep
<1>5. CASE Ranges!WorkEnds(r)
  BY <1>1, <1>5, WorkEndsStep
<1>6. CASE Ranges!DirectEnds(r)
  BY <1>1, <1>6, DirectEndsStep
<1>7. CASE Ranges!Get(r)
  BY <1>1, <1>7, GetStep
<1>8. CASE Ranges!Leave(r)
  BY <1>1, <1>8, LeaveStep
<1>9. CASE Ranges!Load(r)
  BY <1>1, <1>9, LoadStep
<1>10. CASE Ranges!Compare(r)
  BY <1>1, <1>10, CompareStep
<1>11. CASE Ranges!Store(r)
  BY <1>1, <1>11, StoreStep
<1>. QED
  BY <1>2, <1>3, <1>4, <1>5, <1>6, <1>7, <1>8, <1>9, <1>10, <1>11

\* When the process has ended no task does anything.
LEMMA NoneGoesOn == ProcessEnded => ~Ranges!Next
<1>1. SUFFICES ASSUME NEW r \in DOMAIN task, task[r].step = "ended",
                      \/ Ranges!Begin(r) \/ Ranges!LoopTurn(r) \/ Ranges!WorkEnds(r)
                      \/ Ranges!Load(r) \/ Ranges!Compare(r) \/ Ranges!Store(r)
                      \/ Ranges!DirectEnds(r) \/ Ranges!Get(r) \/ Ranges!Leave(r)
               PROVE  FALSE
  BY DEF ProcessEnded, Ranges!Next, Ranges!Ended
<1>. QED
  BY <1>1 DEF Ranges!Begin, Ranges!LoopTurn, Ranges!WorkEnds, Ranges!Load, Ranges!Compare,
              Ranges!Store, Ranges!DirectEnds, Ranges!Get,
              Ranges!Leave, Ranges!At

LEMMA RangesStutter ==
    ASSUME RangesGoOn \/ ProcessEnded, UNCHANGED rangeVars
    PROVE  RangesGoOn' \/ ProcessEnded'
<1>1. UNCHANGED <<algorithm, vector, task, applied, done_flag>>
  BY DEF rangeVars
<1>2. /\ \A r : Ranges!IsShort(r)' = Ranges!IsShort(r)
      /\ \A r : PartsOf(r)' = PartsOf(r) /\ Base(r)' = Base(r)
      /\ \A r : Ranges!Direct(r)' = Ranges!Direct(r) /\ Ranges!Others(r)' = Ranges!Others(r)
  BY <1>1, SameParts
<1>3. CASE ProcessEnded
  BY <1>1, <1>3 DEF ProcessEnded, Root, Ranges!Root, Ranges!Ended, Ranges!Exists,
                    Ranges!Positions, Ranges!Terminated
<1>4. CASE RangesGoOn
  <2>1. RangeTypes'
    BY <1>1, <1>4 DEF RangesGoOn, RangeTypes, IsRange
  <2>2. RangeTree'
    BY <1>1, <1>2, <1>4 DEF RangesGoOn, RangeTree, Root, Ranges!Root, Disjoint, Under, IsSplit, Inside
  <2>3. ASSUME NEW r \in DOMAIN task PROVE Control(r)'
    <3>1. NextPart(r)' = NextPart(r)
      BY <1>1, <1>2 DEF NextPart
    <3>2. Control(r)
      BY <1>4 DEF RangesGoOn, RangeControl
    <3>3. task[r] = Ranges!New(task[r].step, r, task[r].size) =>
             task'[r] = Ranges!New(task[r].step, r, task[r].size)'
      BY <1>1 DEF Ranges!New
    <3>4. Working(r) => Working(r)'
      BY <1>1, <1>2 DEF Working, Done, NoneFound, Upto
    <3>5. Starts(r) => Starts(r)'
      BY <1>1, <1>2 DEF Starts
    <3>6. \A p : Right(p)' <=> Right(p)
      BY <1>1 DEF Right, Ranges!Ended, Ranges!Exists, Ranges!Thrown
    <3>7. Right(Ranges!Direct(r))' <=> Right(Ranges!Direct(r))
      BY <1>1, <1>2 DEF Right, Ranges!Ended, Ranges!Exists, Ranges!Thrown
    <3>8. Getting(r) => Getting(r)'
      BY <1>1, <1>2, <3>1, <3>7 DEF Getting, Upto, Done
    <3>9. Leaving(r) => Leaving(r)'
      BY <1>1, <1>2, <3>6 DEF Leaving, Ranges!Ended, Ranges!Exists
    <3>10. Outcome(r) => Outcome(r)'
      BY <1>1, <1>2 DEF Outcome, Has, NoneFound, Done, Upto, Ranges!Thrown
    <3>11. AnswerKnown(r) => AnswerKnown(r)'
      BY <1>1, <1>2 DEF AnswerKnown, Has, Ranges!Thrown
    <3>. QED
      BY <1>1, <3>2, <3>3, <3>4, <3>5, <3>8, <3>9, <3>10, <3>11 DEF Control, Answered
  <2>4. AppliedOnce' /\ FlagSet' /\ NoneInside' /\ NothingInside'
    BY <1>1, <1>2, <1>4 DEF RangesGoOn, AppliedOnce, FlagSet, NoneInside, NothingInside, Answered,
                            Ranges!Ended, Ranges!Exists, Inside
  <2>. QED
    BY <1>1, <2>1, <2>2, <2>3, <2>4 DEF RangesGoOn, RangeControl
<1>. QED
  BY <1>3, <1>4

LEMMA RangesInvariant == AllSpec => []RangeInv
<1>. USE RangesAssumption
<1>1. AllInit => RangeInv
  BY RangesStart DEF AllInit, RangeInv
<1>2. RangeInv /\ [AllNext]_<<vars, rangeVars>> => RangeInv'
  <2>. SUFFICES ASSUME RangeInv, [AllNext]_<<vars, rangeVars>> PROVE RangeInv'
    OBVIOUS
  <2>1. CASE OnRanges
    <3>1. RangesGoOn \/ ProcessEnded
      BY <2>1 DEF RangeInv, OnRanges
    <3>2. RangesGoOn
      BY <2>1, <3>1, NoneGoesOn DEF OnRanges
    <3>. QED
      BY <2>1, <3>2, RangesStep DEF RangeInv, OnRanges
  <2>2. CASE UNCHANGED rangeVars
    <3>1. algorithm' = algorithm
      BY <2>2 DEF rangeVars
    <3>. QED
      BY <2>2, <3>1, RangesStutter DEF RangeInv
  <2>. QED
    BY <2>1, <2>2 DEF AllNext, OnSorter
<1>. QED
  BY <1>1, <1>2, PTL DEF AllSpec

LEMMA RightWhileGoingOn ==
    ASSUME RangesAssumption, RangesGoOn
    PROVE  Ranges!Answers
<1>1. /\ RangeTypes /\ RangeTree /\ RangeControl /\ AppliedOnce /\ FlagSet /\ NothingInside
      /\ Root = <<1, Len(vector) + 1>> /\ Root = Ranges!Root /\ Root[1] = 1
      /\ Root[2] = Len(vector) + 1 /\ Len(vector) \in Nat /\ DOMAIN vector = 1..Len(vector)
  BY DEF RangesGoOn, Root, Ranges!Root, RangeTypes
<1>2. \A i \in DOMAIN vector : applied[i] <= 1
  BY <1>1 DEF AppliedOnce
<1> DEFINE result == task[Root].result
           fails == result = Ranges!Thrown \/ result = Ranges!Terminated
           throws == Ranges!Positions("throw") # {}
           none == Ranges!Positions("other") = DOMAIN vector
           found == \E i \in Ranges!Positions("match") : result = <<i>>
           all == /\ Ranges!Positions("throw") = {}
                  /\ \A i \in DOMAIN vector : applied[i] = 1
                  /\ algorithm # "for_each" => result = [i \in 1..Len(vector) + 1 |-> i - 1]
<1>3. ASSUME Ranges!Ended(Root)
      PROVE  \/ fails /\ throws
             \/ ~fails /\ algorithm = "find" /\ result = <<Root[2]>> /\ none
             \/ ~fails /\ algorithm = "find" /\ result # <<Root[2]>> /\ found
             \/ ~fails /\ algorithm # "find" /\ all
  <2>1. Root \in DOMAIN task /\ IsRange(Root) /\ Outcome(Root) /\ Ranges!Result = result
    BY <1>1, <1>3 DEF Ranges!Ended, Ranges!Exists, RangeTypes, RangeControl, Control, Answered,
                      Ranges!Result
  <2>2. \A i : i \in Root[1]..Root[2] - 1 <=> i \in DOMAIN vector
    BY <1>1
  <2>3. CASE result = Ranges!Thrown
    <3>1. Ranges!Positions("throw") # {}
      BY <1>1, <2>1, <2>2, <2>3, OutcomeThrown DEF Has, Ranges!Positions
    <3>. QED
      BY <2>1, <2>3, <3>1
  <2>4. CASE result # Ranges!Thrown /\ algorithm = "find"
    <3>1. ASSUME NEW i \in Int, i >= 0 PROVE <<i>> # Ranges!Terminated
      BY <3>1, OneNumber DEF Ranges!Terminated
    <3>2. CASE result = <<Root[2]>>
      <4>1. result # Ranges!Terminated
        <5>1. Root[2] \in Int /\ Root[2] >= 0
          BY <1>1
        <5>. QED
          BY <3>1, <3>2, <5>1
      <4>2. ~done_flag
        <5>1. SUFFICES ASSUME NEW w \in DOMAIN task, Ranges!Ended(w), task[w].result # <<w[2]>>
                       PROVE  FALSE
          BY <1>1 DEF FlagSet
        <5>2. Inside(w, Root)
          BY <1>1 DEF RangeTypes, IsRange, Inside
        <5>. QED
          BY <1>1, <1>3, <2>1, <2>4, <3>2, <5>1, <5>2 DEF NothingInside, Answered, Ranges!Ended
      <4>3. NoneFound(Root[1], Root[2])
        BY <2>1, <2>4, <3>2, <4>2, OutcomeFound
      <4>4. Ranges!Positions("other") = DOMAIN vector
        BY <2>2, <4>3 DEF NoneFound, Ranges!Positions
      <4>. QED
        BY <2>1, <2>4, <3>2, <4>1, <4>4
    <3>3. CASE result # <<Root[2]>>
      <4>1. PICK i \in Root[1]..Root[2] - 1 : vector[i] = "match" /\ result = <<i>>
        BY <2>1, <2>4, <3>3, OutcomeFound
      <4>2. i \in Int /\ i >= 0 /\ i \in Ranges!Positions("match")
        BY <1>1, <2>2, <4>1 DEF Ranges!Positions
      <4>3. result # Ranges!Terminated
        BY <3>1, <4>1, <4>2
      <4>. QED
        BY <2>1, <2>4, <3>3, <4>1, <4>2, <4>3
    <3>. QED
      BY <3>2, <3>3
  <2>5. CASE result # Ranges!Thrown /\ algorithm # "find"
    <3>1. result = Upto(Base(Root), Root[2]) /\ Done(Root[1], Root[2])
      BY <1>1, <2>1, <2>5, OutcomeThrown
    <3>2. result # Ranges!Terminated
      <4>1. Base(Root) \in Int /\ 0 <= Base(Root) /\ Base(Root) <= Root[2] /\ Root[2] \in Int
        BY <1>1, <2>1, BaseFacts
      <4>. QED
        BY <3>1, <4>1, UptoSmall
    <3>3. Ranges!Positions("throw") = {} /\ \A i \in DOMAIN vector : applied[i] = 1
      BY <2>2, <3>1 DEF Done, Ranges!Positions
    <3>4. ASSUME algorithm # "for_each" PROVE result = [i \in 1..Len(vector) + 1 |-> i - 1]
      <4>1. algorithm = "accumulate_using_async" \/ algorithm \in InBlocks
        BY <1>1, <2>5, <3>4 DEF RangeTypes, Halving, Ranges!Halving
      <4>2. Base(Root) = 0
        BY <1>1, <4>1 DEF Base
      <4>3. /\ Root[2] - Base(Root) = Len(vector) + 1
            /\ \A i \in 1..Len(vector) + 1 : Base(Root) + i - 1 = i - 1
        BY <1>1, <4>2
      <4>. QED
        BY <3>1, <4>3 DEF Upto
    <3>. QED
      BY <2>1, <2>5, <3>2, <3>3, <3>4
  <2>. QED
    BY <2>3, <2>4, <2>5
<1>4. Ranges!Ended(Root) =>
         IF fails THEN throws
         ELSE IF algorithm = "find" THEN IF result = <<Root[2]>> THEN none ELSE found ELSE all
  <2>. HIDE DEF fails, throws, none, found, all, result
  <2>. QED
    BY <1>3
<1>5. Ranges!Result = result /\ (fails <=> result \in {Ranges!Thrown, Ranges!Terminated})
  BY <1>1 DEF Ranges!Result
<1>. QED
  BY <1>1, <1>2, <1>4, <1>5 DEF Ranges!Answers

LEMMA RightAtTheEnd == ProcessEnded => Ranges!Answers /\ Ranges!NoTaskLeft
<1>1. SUFFICES ASSUME ProcessEnded PROVE Ranges!Answers /\ Ranges!NoTaskLeft
  OBVIOUS
<1>2. Root = Ranges!Root /\ Ranges!Result = Ranges!Terminated /\ Ranges!Ended(Root) /\ DOMAIN task = {Root}
  BY <1>1 DEF ProcessEnded, Root, Ranges!Result
<1>3. Ranges!Positions("throw") # {} /\ \A i \in DOMAIN vector : applied[i] <= 1
  BY <1>1 DEF ProcessEnded
<1>4. Ranges!Answers
  <2>1. Ranges!Result \in {Ranges!Thrown, Ranges!Terminated}
    BY <1>2
  <2>. QED
    BY <1>3, <2>1 DEF Ranges!Answers
<1>. QED
  BY <1>2, <1>4 DEF Ranges!NoTaskLeft

(***************************************************************************)
(* parallel_find.h:10-25, parallel_accumulate_using_task.h:38-60: every    *)
(* algorithm deals with each element at most once; parallel_find returns   *)
(* the end only if nothing matches and nothing throws, and otherwise a     *)
(* match or an exception; the others deal with every element, in the order *)
(* of the blocks and with init once, or throw if an element does.          *)
(***************************************************************************)
THEOREM AnswersRight == AllSpec => []RightAnswers
<1>. USE RangesAssumption
<1>1. RangeInv => RightAnswers
  BY RightWhileGoingOn, RightAtTheEnd DEF RangeInv, RightAnswers
<1>. QED
  BY <1>1, RangesInvariant, PTL

(***************************************************************************)
(* parallel_find.h:39, parallel_accumulate_using_task.h:19-22: when the    *)
(* call is over all its tasks have ended, also when a part has thrown      *)
(* while others ran; those that the library has deferred never begin.      *)
(***************************************************************************)
THEOREM NoTaskOutlives == AllSpec => []NoTaskLeft
<1>1. ASSUME RangesGoOn PROVE Ranges!NoTaskLeft
  <2>1. SUFFICES ASSUME Ranges!Ended(Root), NEW q \in DOMAIN task
                 PROVE  Ranges!Ended(q) \/ Ranges!At(q, "deferred")
    BY DEF Ranges!NoTaskLeft, Root
  <2>2. Inside(q, Root) /\ Root \in DOMAIN task
    BY <1>1 DEF RangesGoOn, RangeTypes, RangeTree, IsRange, Inside, Root, Ranges!Root
  <2>. QED
    BY <1>1, <2>1, <2>2 DEF RangesGoOn, NoneInside, Ranges!Ended, Ranges!At, Ranges!Exists
<1>2. RangeInv => NoTaskLeft
  BY <1>1, RightAtTheEnd DEF RangeInv, NoTaskLeft
<1>. QED
  BY <1>2, RangesInvariant, PTL
=============================================================================
