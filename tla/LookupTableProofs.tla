------------------------- MODULE LookupTableProofs -------------------------
(***************************************************************************)
(* The lookup table keeps one pair for a key, what a search has found is   *)
(* still there when it is used, no threads wait for each other in a        *)
(* circle, and every operation, get_map included, is one step of the map   *)
(* AtomicMap, for any threads, keys, values, buckets and hash function.    *)
(***************************************************************************)
EXTENDS LookupTable, SequenceTheorems, WellFoundedInduction, TLAPS

\* The buckets t has locked for itself, and the one it shares.
HasLocked(t, b) == \/ pc[t] \in {"find", "act"} /\ call[t].op # "value_for" /\ b = Own(t)
                   \/ pc[t] = "map_lock" /\ b < at[t]
                   \/ pc[t] = "map_copy"
                   \/ pc[t] = "map_unlock" /\ b >= at[t]
Shares(t, b) == pc[t] \in {"find", "act"} /\ call[t].op = "value_for" /\ b = Own(t)

\* The mutexes say the same, and exclude each other.
LockInv == \A b \in Bucket, t \in Thread :
               /\ owner[b] = t <=> HasLocked(t, b)
               /\ t \in sharing[b] <=> Shares(t, b)
               /\ owner[b] = t => sharing[b] = {}

\* An operation on a key has its arguments, and get_map begins with the first bucket.
CallInv == \A t \in Thread :
               /\ pc[t] \in {"lock", "find", "act"} => call[t] \in CallOfKey
               /\ pc[t] \in {"idle", "lock", "find", "act"} => at[t] = 0

IInv == TypeOK /\ CallInv /\ LockInv /\ OnePairPerKey /\ EntryValid
-----------------------------------------------------------------------------
\* A call belongs to a bucket.
LEMMA OwnBucket ==
    ASSUME TypeOK, CallInv, NEW t \in Thread, pc[t] \in {"lock", "find", "act"}
    PROVE  call[t].key \in Key /\ Own(t) \in Bucket /\ Own(t) = get_bucket(call[t].key)
<1>1. call[t].key \in Key
  BY DEF CallInv, CallOfKey
<1>2. QED
  BY <1>1, TableAssumption DEF Own, get_bucket, Bucket

\* find_entry_for: the first entry with the key, or the end if there is none.
LEMMA FirstWithFacts ==
    ASSUME NEW pairs \in Seq(Key \X Value), NEW k
    PROVE  /\ FirstWith(pairs, k) \in 0..Len(pairs)
           /\ FirstWith(pairs, k) # 0 => pairs[FirstWith(pairs, k)][1] = k
           /\ FirstWith(pairs, k) = 0 => \A i \in 1..Len(pairs) : pairs[i][1] # k
<1> DEFINE I == {i \in 1..Len(pairs) : pairs[i][1] = k}
<1>1. FirstWith(pairs, k) = IF I # {} THEN Min(I) ELSE 0
  BY DEF FirstWith, SelectInSeq
<1>2. Len(pairs) \in Nat
  BY LenProperties
<1>3. ASSUME I # {} PROVE Min(I) \in I
  <2>1. I \subseteq Nat
    BY <1>2
  <2>2. PICK low \in I : \A i \in I : <<i, low>> \notin OpToRel(<, Nat)
    BY <1>3, <2>1, NatLessThanWellFounded, WFMin
  <2>3. ASSUME NEW i \in I PROVE low <= i
    <3>1. i \in Nat /\ low \in Nat
      BY <2>1, <2>2
    <3>2. ~(i < low)
      BY <2>2, <3>1 DEF OpToRel
    <3>3. QED
      BY <3>1, <3>2
  <2>4. QED
    BY <2>3 DEF Min
<1>4. QED
  BY <1>1, <1>2, <1>3

\* list::erase.
LEMMA RemoveAtFacts ==
    ASSUME NEW S, NEW s \in Seq(S), NEW i \in 1..Len(s)
    PROVE  /\ RemoveAt(s, i) \in Seq(S)
           /\ Len(RemoveAt(s, i)) = Len(s) - 1
           /\ \A j \in 1..Len(s) - 1 : RemoveAt(s, i)[j] = s[IF j < i THEN j ELSE j + 1]
<1> DEFINE front == SubSeq(s, 1, i - 1)
           back  == SubSeq(s, i + 1, Len(s))
<1>1. Len(s) \in Nat /\ \A j \in 1..Len(s) : s[j] \in S
  BY LenProperties
<1>2. /\ front \in Seq(S) /\ Len(front) = i - 1
      /\ \A j \in 1..i - 1 : front[j] = s[j]
  BY <1>1, SubSeqProperties
<1>3. /\ back \in Seq(S) /\ Len(back) = Len(s) - i
      /\ \A j \in 1..Len(s) - i : back[j] = s[j + i]
  BY <1>1, SubSeqProperties
<1> HIDE DEF front, back
<1>4. Len(front) + Len(back) = Len(s) - 1 /\ i - 1 \in Nat
  BY <1>1, <1>2, <1>3
<1>5. /\ front \o back \in Seq(S)
      /\ Len(front \o back) = Len(s) - 1
      /\ \A j \in 1..Len(s) - 1 :
            (front \o back)[j] = IF j <= i - 1 THEN front[j] ELSE back[j - (i - 1)]
  <2>1. /\ front \o back \in Seq(S)
        /\ Len(front \o back) = Len(front) + Len(back)
        /\ \A j \in 1..Len(front) + Len(back) :
              (front \o back)[j] = IF j <= Len(front) THEN front[j] ELSE back[j - Len(front)]
    BY <1>2, <1>3, ConcatProperties
  <2>2. QED
    BY <1>2, <1>4, <2>1
<1>6. RemoveAt(s, i) = front \o back
  BY DEF RemoveAt, front, back
<1>7. ASSUME NEW j \in 1..Len(s) - 1
      PROVE  (front \o back)[j] = s[IF j < i THEN j ELSE j + 1]
  <2>1. CASE j < i
    BY <1>1, <1>2, <1>5, <2>1
  <2>2. CASE ~(j < i)
    <3>1. j - (i - 1) \in 1..Len(s) - i /\ j - (i - 1) + i = j + 1
      BY <1>1, <2>2
    <3>2. QED
      BY <1>1, <1>3, <1>5, <2>2, <3>1
  <2>3. QED
    BY <2>1, <2>2
<1>8. QED
  BY <1>5, <1>6, <1>7
-----------------------------------------------------------------------------
\* One bucket: its keys belong there, and each has one pair.
InBucket(b, pairs) == /\ \A i \in 1..Len(pairs) : get_bucket(pairs[i][1]) = b
                      /\ \A i, j \in 1..Len(pairs) : pairs[i][1] = pairs[j][1] => i = j
Fits(b, pairs) == pairs \in Seq(Key \X Value) /\ InBucket(b, pairs)

\* What a list says of a key, and a list that says the same of all keys but one.
ValueIn(pairs, k) == IF FirstWith(pairs, k) = 0 THEN Nothing
                     ELSE pairs[FirstWith(pairs, k)][2]
Stores(old, new, k, v) ==
    \A q \in Key : ValueIn(new, q) = IF q = k THEN v ELSE ValueIn(old, q)

\* A list says of a key what any pair with the key holds.
LEMMA ValueInFacts ==
    ASSUME NEW b, NEW pairs, Fits(b, pairs), NEW k
    PROVE  /\ \A i \in 1..Len(pairs) : pairs[i][1] = k => ValueIn(pairs, k) = pairs[i][2]
           /\ (\A i \in 1..Len(pairs) : pairs[i][1] # k) => ValueIn(pairs, k) = Nothing
<1>1. /\ FirstWith(pairs, k) \in 0..Len(pairs)
      /\ FirstWith(pairs, k) # 0 => pairs[FirstWith(pairs, k)][1] = k
      /\ FirstWith(pairs, k) = 0 => \A i \in 1..Len(pairs) : pairs[i][1] # k
  BY FirstWithFacts DEF Fits
<1>2. Len(pairs) \in Nat
  BY LenProperties DEF Fits
<1>3. FirstWith(pairs, k) # 0 => FirstWith(pairs, k) \in 1..Len(pairs)
  BY <1>1, <1>2
<1>4. QED
  BY <1>1, <1>3 DEF Fits, InBucket, ValueIn

\* The table has one pair for a key if each bucket has.
LEMMA ByBucket ==
    ASSUME NEW d \in [Bucket -> Seq(Key \X Value)]
    PROVE  (\A b \in Bucket : InBucket(b, d[b])) <=>
               \A b, c \in Bucket : \A i \in DOMAIN d[b], j \in DOMAIN d[c] :
                   /\ get_bucket(d[b][i][1]) = b
                   /\ d[b][i][1] = d[c][j][1] => b = c /\ i = j
<1> DEFINE One == \A b, c \in Bucket : \A i \in DOMAIN d[b], j \in DOMAIN d[c] :
                      /\ get_bucket(d[b][i][1]) = b
                      /\ d[b][i][1] = d[c][j][1] => b = c /\ i = j
<1>1. \A b \in Bucket : DOMAIN d[b] = 1..Len(d[b])
  BY LenProperties
<1>2. One => \A b \in Bucket : InBucket(b, d[b])
  BY <1>1 DEF InBucket
<1>3. ASSUME \A b \in Bucket : InBucket(b, d[b]),
             NEW b \in Bucket, NEW c \in Bucket, NEW i \in DOMAIN d[b], NEW j \in DOMAIN d[c]
      PROVE  /\ get_bucket(d[b][i][1]) = b
             /\ d[b][i][1] = d[c][j][1] => b = c /\ i = j
  <2>1. i \in 1..Len(d[b]) /\ j \in 1..Len(d[c])
    BY <1>1
  <2>2. get_bucket(d[b][i][1]) = b /\ get_bucket(d[c][j][1]) = c
    BY <1>3, <2>1 DEF InBucket
  <2>3. QED
    BY <1>3, <2>1, <2>2 DEF InBucket
<1>4. QED
  BY <1>2, <1>3

\* found_entry->second = value.
LEMMA SecondOfPair ==
    ASSUME NEW p \in Key \X Value, NEW v \in Value
    PROVE  [p EXCEPT ![2] = v] = <<p[1], v>> /\ <<p[1], v>> \in Key \X Value
  OBVIOUS

\* bucket_type::add_or_update_mapping and remove_mapping on a list.
LEMMA BucketChanges ==
    ASSUME NEW b, NEW pairs \in Seq(Key \X Value), InBucket(b, pairs),
           NEW k \in Key, get_bucket(k) = b, NEW found, found = FirstWith(pairs, k)
    PROVE  /\ found = 0 =>
                  \A v \in Value : LET added == Append(pairs, <<k, v>>)
                                   IN  Fits(b, added) /\ Stores(pairs, added, k, v)
           /\ found # 0 =>
                  /\ \A v \in Value : LET updated == [pairs EXCEPT ![found][2] = v]
                                      IN  Fits(b, updated) /\ Stores(pairs, updated, k, v)
                  /\ LET left == RemoveAt(pairs, found)
                     IN  Fits(b, left) /\ Stores(pairs, left, k, Nothing)
<1> DEFINE n == Len(pairs)
<1>1. /\ found \in 0..n
      /\ found # 0 => pairs[found][1] = k
      /\ found = 0 => \A i \in 1..n : pairs[i][1] # k
  BY FirstWithFacts
<1>2. n \in Nat /\ \A i \in 1..n : pairs[i] \in Key \X Value
  BY LenProperties
<1>3. Fits(b, pairs)
  BY DEF Fits
<1>4. ASSUME found = 0, NEW v \in Value
      PROVE  LET added == Append(pairs, <<k, v>>)
             IN  Fits(b, added) /\ Stores(pairs, added, k, v)
  <2> DEFINE added == Append(pairs, <<k, v>>)
  <2>1. /\ added \in Seq(Key \X Value) /\ Len(added) = n + 1
        /\ \A i \in 1..n : added[i] = pairs[i]
        /\ added[n + 1] = <<k, v>>
    BY AppendProperties
  <2> HIDE DEF added
  <2>2. \A i \in 1..n + 1 : i = n + 1 \/ i \in 1..n
    BY <1>2
  <2>3. \A i \in 1..n + 1 : added[i][1] = IF i = n + 1 THEN k ELSE pairs[i][1]
    BY <1>2, <2>1
  <2>4. Fits(b, added)
    <3>1. \A i \in 1..n + 1 : get_bucket(added[i][1]) = b
      BY <2>2, <2>3 DEF InBucket
    <3>2. \A i \in 1..n : added[i][1] # k
      BY <1>1, <1>2, <1>4, <2>1
    <3>3. \A i, j \in 1..n + 1 : added[i][1] = added[j][1] => i = j
      BY <2>2, <2>3, <3>2 DEF InBucket
    <3>4. QED
      BY <2>1, <3>1, <3>3 DEF InBucket, Fits
  <2>5. ASSUME NEW q \in Key
        PROVE  ValueIn(added, q) = IF q = k THEN v ELSE ValueIn(pairs, q)
    <3>1. CASE q = k
      <4>1. n + 1 \in 1..n + 1 /\ added[n + 1][1] = q /\ added[n + 1][2] = v
        BY <1>2, <2>1, <3>1
      <4>2. ValueIn(added, q) = added[n + 1][2]
        BY <2>1, <2>4, <4>1, ValueInFacts
      <4>3. QED
        BY <3>1, <4>1, <4>2
    <3>2. CASE q # k /\ \A i \in 1..n : pairs[i][1] # q
      <4>1. \A i \in 1..n + 1 : added[i][1] # q
        BY <2>2, <2>3, <3>2
      <4>2. ValueIn(added, q) = Nothing
        BY <2>1, <2>4, <4>1, ValueInFacts
      <4>3. ValueIn(pairs, q) = Nothing
        BY <1>3, <3>2, ValueInFacts
      <4>4. QED
        BY <3>2, <4>2, <4>3
    <3>3. ASSUME q # k, NEW i \in 1..n, pairs[i][1] = q
          PROVE  ValueIn(added, q) = ValueIn(pairs, q)
      <4>1. i \in 1..Len(added) /\ added[i] = pairs[i] /\ added[i][1] = q
        BY <1>2, <2>1, <3>3
      <4>2. ValueIn(added, q) = pairs[i][2]
        BY <2>4, <4>1, ValueInFacts
      <4>3. QED
        BY <1>3, <3>3, <4>2, ValueInFacts
    <3>4. QED
      BY <3>1, <3>2, <3>3
  <2>6. QED
    BY <2>4, <2>5 DEF added, Stores
<1>5. ASSUME found # 0, NEW v \in Value
      PROVE  LET updated == [pairs EXCEPT ![found][2] = v]
             IN  Fits(b, updated) /\ Stores(pairs, updated, k, v)
  <2> DEFINE updated == [pairs EXCEPT ![found][2] = v]
  <2>1. updated = [pairs EXCEPT ![found] = <<k, v>>] /\ <<k, v>> \in Key \X Value
    <3>1. updated = [pairs EXCEPT ![found] = [pairs[found] EXCEPT ![2] = v]]
      OBVIOUS
    <3>2. pairs[found] \in Key \X Value /\ pairs[found][1] = k
      BY <1>1, <1>2, <1>5
    <3>3. QED
      BY <3>1, <3>2, SecondOfPair
  <2>2. found \in 1..n
    BY <1>1, <1>2, <1>5
  <2> HIDE DEF updated
  <2>3. /\ updated \in Seq(Key \X Value) /\ Len(updated) = n
        /\ \A i \in 1..n : updated[i] = IF i = found THEN <<k, v>> ELSE pairs[i]
    BY <2>1, <2>2, ExceptSeq
  <2>4. \A i \in 1..n : updated[i][1] = pairs[i][1]
    BY <1>1, <1>5, <2>3
  <2>5. Fits(b, updated)
    BY <2>3, <2>4 DEF InBucket, Fits
  <2>6. ASSUME NEW q \in Key
        PROVE  ValueIn(updated, q) = IF q = k THEN v ELSE ValueIn(pairs, q)
    <3>1. CASE q = k
      <4>1. updated[found][1] = q /\ updated[found][2] = v
        BY <2>2, <2>3, <3>1
      <4>2. QED
        BY <2>2, <2>3, <2>5, <3>1, <4>1, ValueInFacts
    <3>2. CASE q # k /\ \A i \in 1..n : pairs[i][1] # q
      <4>1. ValueIn(updated, q) = Nothing
        BY <2>3, <2>4, <2>5, <3>2, ValueInFacts
      <4>2. ValueIn(pairs, q) = Nothing
        BY <1>3, <3>2, ValueInFacts
      <4>3. QED
        BY <3>2, <4>1, <4>2
    <3>3. ASSUME q # k, NEW i \in 1..n, pairs[i][1] = q
          PROVE  ValueIn(updated, q) = ValueIn(pairs, q)
      <4>1. updated[i] = pairs[i]
        BY <1>1, <1>5, <2>3, <3>3
      <4>2. ValueIn(updated, q) = pairs[i][2]
        BY <2>3, <2>5, <3>3, <4>1, ValueInFacts
      <4>3. QED
        BY <1>3, <3>3, <4>2, ValueInFacts
    <3>4. QED
      BY <3>1, <3>2, <3>3
  <2>7. QED
    BY <2>5, <2>6 DEF updated, Stores
<1>6. ASSUME found # 0
      PROVE  LET left == RemoveAt(pairs, found)
             IN  Fits(b, left) /\ Stores(pairs, left, k, Nothing)
  <2> DEFINE left == RemoveAt(pairs, found)
             to(j) == IF j < found THEN j ELSE j + 1
  <2>1. found \in 1..n
    BY <1>1, <1>2, <1>6
  <2>2. /\ left \in Seq(Key \X Value) /\ Len(left) = n - 1
        /\ \A j \in 1..n - 1 : left[j] = pairs[to(j)]
    BY <2>1, RemoveAtFacts
  <2>3. /\ \A j \in 1..n - 1 : to(j) \in 1..n /\ to(j) # found
        /\ \A i, j \in 1..n - 1 : to(i) = to(j) => i = j
        /\ \A i \in 1..n : i # found => \E j \in 1..n - 1 : to(j) = i
    <3>1. \A j \in 1..n - 1 : to(j) \in 1..n /\ to(j) # found
      BY <1>2, <2>1
    <3>2. \A i, j \in 1..n - 1 : to(i) = to(j) => i = j
      BY <1>2, <2>1
    <3>3. ASSUME NEW i \in 1..n, i # found PROVE \E j \in 1..n - 1 : to(j) = i
      <4>1. CASE i < found
        BY <1>2, <2>1, <4>1
      <4>2. CASE i > found
        <5>1. i - 1 \in 1..n - 1 /\ to(i - 1) = i
          BY <1>2, <2>1, <4>2
        <5>2. QED
          BY <5>1
      <4>3. QED
        BY <1>2, <2>1, <3>3, <4>1, <4>2
    <3>4. QED
      BY <3>1, <3>2, <3>3
  <2> HIDE DEF left, to
  <2>4. \A i \in 1..n - 1 : get_bucket(left[i][1]) = b
    BY <2>2, <2>3 DEF InBucket
  <2>5. ASSUME NEW i \in 1..n - 1, NEW j \in 1..n - 1, left[i][1] = left[j][1]
        PROVE  i = j
    <3>1. pairs[to(i)][1] = pairs[to(j)][1]
      BY <2>2, <2>5
    <3>2. QED
      BY <2>3, <3>1 DEF InBucket
  <2>6. Fits(b, left)
    BY <2>2, <2>4, <2>5 DEF InBucket, Fits
  <2>7. ASSUME NEW q \in Key
        PROVE  ValueIn(left, q) = IF q = k THEN Nothing ELSE ValueIn(pairs, q)
    <3>1. CASE q = k
      <4>1. \A j \in 1..n - 1 : left[j][1] # q
        BY <1>1, <1>6, <2>1, <2>2, <2>3, <3>1 DEF InBucket
      <4>2. QED
        BY <2>2, <2>6, <3>1, <4>1, ValueInFacts
    <3>2. CASE q # k /\ \A i \in 1..n : pairs[i][1] # q
      <4>1. \A j \in 1..n - 1 : left[j][1] # q
        BY <2>2, <2>3, <3>2
      <4>2. ValueIn(left, q) = Nothing
        BY <2>2, <2>6, <4>1, ValueInFacts
      <4>3. ValueIn(pairs, q) = Nothing
        BY <1>3, <3>2, ValueInFacts
      <4>4. QED
        BY <3>2, <4>2, <4>3
    <3>3. ASSUME q # k, NEW i \in 1..n, pairs[i][1] = q
          PROVE  ValueIn(left, q) = ValueIn(pairs, q)
      <4>1. PICK j \in 1..n - 1 : to(j) = i
        BY <1>1, <1>6, <2>3, <3>3
      <4>2. left[j] = pairs[i] /\ j \in 1..Len(left) /\ left[j][1] = q
        BY <2>2, <3>3, <4>1
      <4>3. ValueIn(left, q) = pairs[i][2]
        BY <2>6, <4>2, ValueInFacts
      <4>4. QED
        BY <1>3, <3>3, <4>3, ValueInFacts
    <3>4. QED
      BY <3>1, <3>2, <3>3
  <2>8. QED
    BY <2>6, <2>7 DEF left, Stores
<1>7. QED
  BY <1>4, <1>5, <1>6
-----------------------------------------------------------------------------
\* An update puts one list in the place of another, and both fit the bucket.
LEMMA ListChanges ==
    ASSUME IInv, NEW t \in Thread, AddOrUpdateMapping(t) \/ RemoveMapping(t)
    PROVE  /\ Return(t) /\ pc[t] = "act" /\ Own(t) \in Bucket /\ call[t].op # "value_for"
           /\ \E list : /\ Fits(Own(t), list) /\ data' = [data EXCEPT ![Own(t)] = list]
                        /\ AddOrUpdateMapping(t) =>
                               Stores(data[Own(t)], list, call[t].key, call[t].value)
                        /\ RemoveMapping(t) =>
                               Stores(data[Own(t)], list, call[t].key, Nothing)
<1> DEFINE b == Own(t)
           k == call[t].key
<1>1. /\ Return(t) /\ pc[t] = "act" /\ call[t].op # "value_for"
      /\ AddOrUpdateMapping(t) => ~RemoveMapping(t)
  BY DEF AddOrUpdateMapping, RemoveMapping, Return, Goto
<1>2. b \in Bucket /\ k \in Key /\ get_bucket(k) = b
  BY <1>1, OwnBucket DEF IInv
<1>3. data[b] \in Seq(Key \X Value) /\ InBucket(b, data[b])
  BY <1>2, ByBucket DEF IInv, TypeOK, OnePairPerKey
<1>4. found_entry[t] = FirstWith(data[b], k)
  BY <1>1 DEF IInv, EntryValid
<1> HIDE DEF b, k
<1>5. CASE AddOrUpdateMapping(t)
  <2>1. call[t].value \in Value
    BY <1>1, <1>5 DEF AddOrUpdateMapping, IInv, CallInv, CallOfKey
  <2>2. \E list : /\ Fits(b, list) /\ data' = [data EXCEPT ![b] = list]
                  /\ Stores(data[b], list, k, call[t].value)
    <3>1. CASE found_entry[t] = 0
      <4> DEFINE list == Append(data[b], <<k, call[t].value>>)
      <4>1. Fits(b, list) /\ Stores(data[b], list, k, call[t].value)
        BY <1>2, <1>3, <1>4, <2>1, <3>1, BucketChanges
      <4>2. data' = [data EXCEPT ![b] = list]
        BY <1>5, <3>1 DEF AddOrUpdateMapping, b, k
      <4> HIDE DEF list
      <4>3. QED
        BY <4>1, <4>2
    <3>2. CASE found_entry[t] # 0
      <4> DEFINE list == [data[b] EXCEPT ![found_entry[t]][2] = call[t].value]
      <4>1. Fits(b, list) /\ Stores(data[b], list, k, call[t].value)
        BY <1>2, <1>3, <1>4, <2>1, <3>2, BucketChanges
      <4>2. data' = [data EXCEPT ![b] = list]
        BY <1>5, <3>2 DEF AddOrUpdateMapping, b, k
      <4> HIDE DEF list
      <4>3. QED
        BY <4>1, <4>2
    <3>3. QED
      BY <3>1, <3>2
  <2>3. QED
    BY <1>1, <1>2, <1>5, <2>2 DEF b, k
<1>6. CASE RemoveMapping(t)
  <2>1. \E list : /\ Fits(b, list) /\ data' = [data EXCEPT ![b] = list]
                  /\ Stores(data[b], list, k, Nothing)
    <3>1. CASE found_entry[t] = 0
      <4>1. data' = [data EXCEPT ![b] = data[b]]
        BY <1>6, <3>1 DEF RemoveMapping, IInv, TypeOK
      <4>2. Fits(b, data[b]) /\ Stores(data[b], data[b], k, Nothing)
        BY <1>3, <1>4, <3>1 DEF Fits, Stores, ValueIn
      <4>3. QED
        BY <4>1, <4>2
    <3>2. CASE found_entry[t] # 0
      <4>1. /\ Fits(b, RemoveAt(data[b], found_entry[t]))
            /\ Stores(data[b], RemoveAt(data[b], found_entry[t]), k, Nothing)
        BY <1>2, <1>3, <1>4, <3>2, BucketChanges
      <4>2. data' = [data EXCEPT ![b] = RemoveAt(@, found_entry[t])]
        BY <1>6, <3>2 DEF RemoveMapping, b
      <4>3. QED
        BY <4>1, <4>2
    <3>3. QED
      BY <3>1, <3>2
  <2>2. QED
    BY <1>1, <1>2, <1>6, <2>1 DEF b, k
<1>7. QED
  BY <1>5, <1>6

\* Locking and unlocking keep the types of the mutexes.
LEMMA MutexTypes ==
    ASSUME TypeOK, NEW t \in Thread, NEW b \in Bucket,
           LockUnique(t, b) \/ LockShared(t, b) \/ Unlock(t, b)
    PROVE  /\ owner' \in [Bucket -> Thread \cup {NoThread}]
           /\ sharing' \in [Bucket -> SUBSET Thread]
<1>1. CASE LockUnique(t, b)
  BY <1>1 DEF TypeOK, LockUnique
<1>2. CASE LockShared(t, b)
  BY <1>2 DEF TypeOK, LockShared
<1>3. CASE Unlock(t, b)
  BY <1>3 DEF TypeOK, Unlock
<1>4. QED
  BY <1>1, <1>2, <1>3

\* A turn of a loop of get_map stays within the buckets.
LEMMA TurnTypes ==
    ASSUME TypeOK, CallInv, NEW t \in Thread,
           NEW this \in {"map_lock", "map_copy", "map_unlock"},
           NEW following \in {"map_copy", "map_unlock", "idle"},
           Turn(t, this, following), call' = call
    PROVE  /\ at' \in [Thread -> Bucket]
           /\ pc' \in [Thread -> {"idle", "lock", "find", "act", "map_lock", "map_copy",
                                   "map_unlock"}]
           /\ CallInv'
<1>1. at' \in [Thread -> Bucket]
  <2>1. (IF AtLast(t) THEN 0 ELSE at[t] + 1) \in Bucket
    BY TableAssumption DEF TypeOK, AtLast, Bucket
  <2>2. QED
    BY <2>1 DEF TypeOK, Turn
<1>2. pc' = [pc EXCEPT ![t] = IF AtLast(t) THEN following ELSE this]
  BY DEF Turn, Goto
<1>3. AtLast(t) => at'[t] = 0
  BY DEF TypeOK, Turn
<1>4. \A u \in Thread \ {t} : at'[u] = at[u] /\ pc'[u] = pc[u]
  BY <1>2 DEF TypeOK, Turn
<1>5. pc' \in [Thread -> {"idle", "lock", "find", "act", "map_lock", "map_copy",
                           "map_unlock"}]
  BY <1>2 DEF TypeOK
<1>6. CallInv'
  <2> SUFFICES ASSUME NEW u \in Thread
               PROVE  /\ pc'[u] \in {"lock", "find", "act"} => call[u] \in CallOfKey
                      /\ pc'[u] \in {"idle", "lock", "find", "act"} => at'[u] = 0
    BY DEF CallInv
  <2>1. CASE u = t
    BY <1>2, <1>3, <2>1 DEF TypeOK
  <2>2. CASE u # t
    BY <1>4, <2>2 DEF CallInv
  <2>3. QED
    BY <2>1, <2>2
<1>7. QED
  BY <1>1, <1>5, <1>6

\* A step keeps the types.
LEMMA TypeStep == IInv /\ [Next]_vars => TypeOK' /\ CallInv'
<1> SUFFICES ASSUME IInv, [Next]_vars
             PROVE  TypeOK' /\ CallInv'
  OBVIOUS
<1> USE TableAssumption DEF IInv
<1>1. ASSUME NEW t \in Thread, NEW c \in CallOfKey, CallBucket(t, c)
      PROVE  TypeOK' /\ CallInv'
  BY <1>1 DEF TypeOK, CallInv, CallBucket, Goto, tableVars
<1>2. ASSUME NEW t \in Thread, CallMap(t)
      PROVE  TypeOK' /\ CallInv'
  BY <1>2 DEF TypeOK, CallInv, CallMap, Goto, tableVars
<1>3. ASSUME NEW t \in Thread, LockBucket(t)
      PROVE  TypeOK' /\ CallInv'
  <2>1. Own(t) \in Bucket
    BY <1>3, OwnBucket DEF LockBucket, Goto
  <2>2. owner' \in [Bucket -> Thread \cup {NoThread}] /\ sharing' \in [Bucket -> SUBSET Thread]
    BY <1>3, <2>1, MutexTypes DEF LockBucket
  <2>3. QED
    BY <1>3, <2>2 DEF TypeOK, CallInv, LockBucket, Goto
<1>4. ASSUME NEW t \in Thread, Find(t)
      PROVE  TypeOK' /\ CallInv'
  <2>1. Own(t) \in Bucket
    BY <1>4, OwnBucket DEF Find, Goto
  <2>2. FirstWith(data[Own(t)], call[t].key) \in Nat
    <3>1. data[Own(t)] \in Seq(Key \X Value)
      BY <2>1 DEF TypeOK
    <3>2. Len(data[Own(t)]) \in Nat
      BY <3>1, LenProperties
    <3>3. FirstWith(data[Own(t)], call[t].key) \in 0..Len(data[Own(t)])
      BY <3>1, FirstWithFacts
    <3>4. QED
      BY <3>2, <3>3
  <2>3. QED
    BY <1>4, <2>2 DEF TypeOK, CallInv, Find, Goto, tableVars
<1>5. ASSUME NEW t \in Thread, Return(t), data' \in [Bucket -> Seq(Key \X Value)]
      PROVE  TypeOK' /\ CallInv'
  <2>1. Own(t) \in Bucket
    BY <1>5, OwnBucket DEF Return, Goto
  <2>2. owner' \in [Bucket -> Thread \cup {NoThread}] /\ sharing' \in [Bucket -> SUBSET Thread]
    BY <1>5, <2>1, MutexTypes DEF Return
  <2>3. QED
    BY <1>5, <2>2 DEF TypeOK, CallInv, Return, Goto
<1>6. ASSUME NEW t \in Thread, ValueFor(t)
      PROVE  TypeOK' /\ CallInv'
  BY <1>5, <1>6 DEF ValueFor, TypeOK
<1>7. ASSUME NEW t \in Thread, AddOrUpdateMapping(t)
      PROVE  TypeOK' /\ CallInv'
  <2>1. data' \in [Bucket -> Seq(Key \X Value)]
    BY <1>7, ListChanges DEF TypeOK, Fits
  <2>2. QED
    BY <1>5, <1>7, <2>1 DEF AddOrUpdateMapping
<1>8. ASSUME NEW t \in Thread, RemoveMapping(t)
      PROVE  TypeOK' /\ CallInv'
  <2>1. data' \in [Bucket -> Seq(Key \X Value)]
    BY <1>8, ListChanges DEF TypeOK, Fits
  <2>2. QED
    BY <1>5, <1>8, <2>1 DEF RemoveMapping
<1>9. ASSUME NEW t \in Thread, MapLock(t)
       PROVE  TypeOK' /\ CallInv'
  <2>1. at[t] \in Bucket
    BY DEF TypeOK
  <2>2. owner' \in [Bucket -> Thread \cup {NoThread}] /\ sharing' \in [Bucket -> SUBSET Thread]
    BY <1>9, <2>1, MutexTypes DEF MapLock, NextBucket
  <2>3. QED
    BY <1>9, <2>2, TurnTypes DEF MapLock, TypeOK
<1>10. ASSUME NEW t \in Thread, MapCopy(t)
       PROVE  TypeOK' /\ CallInv'
  <2>1. at[t] \in Bucket /\ data[at[t]] \in Seq(Key \X Value)
    BY DEF TypeOK
  <2> DEFINE pairs == data[at[t]]
             map == Inserted(res[t], pairs)
  <2>2. map \in [Key -> Value \cup {Nothing}]
    <3> SUFFICES ASSUME NEW k \in Key, FirstWith(pairs, k) # 0
                 PROVE  pairs[FirstWith(pairs, k)][2] \in Value
      BY DEF TypeOK, Inserted
    <3>1. FirstWith(pairs, k) \in 1..Len(pairs)
      BY <2>1, FirstWithFacts, LenProperties
    <3>2. QED
      BY <2>1, <3>1, ElementOfSeq
  <2>3. res' \in [Thread -> [Key -> Value \cup {Nothing}]]
    <3> HIDE DEF map
    <3>1. NoMap \in [Key -> Value \cup {Nothing}]
      BY DEF NoMap
    <3>2. res' = [res EXCEPT ![t] = map] \/ res' = [res EXCEPT ![t] = NoMap]
      BY <1>10 DEF MapCopy, Copy, map
    <3>3. QED
      BY <2>2, <3>1, <3>2 DEF TypeOK
  <2>4. QED
    BY <1>10, <2>3, TurnTypes DEF MapCopy, tableVars, TypeOK
<1>11. ASSUME NEW t \in Thread, MapUnlock(t)
       PROVE  TypeOK' /\ CallInv'
  <2>1. at[t] \in Bucket
    BY DEF TypeOK
  <2>2. owner' \in [Bucket -> Thread \cup {NoThread}] /\ sharing' \in [Bucket -> SUBSET Thread]
    BY <1>11, <2>1, MutexTypes DEF MapUnlock
  <2>3. QED
    BY <1>11, <2>2, TurnTypes DEF MapUnlock, TypeOK
<1>12. ASSUME UNCHANGED vars
       PROVE  TypeOK' /\ CallInv'
  BY <1>12 DEF TypeOK, CallInv, vars, tableVars
<1>13. QED
  BY <1>1, <1>2, <1>3, <1>4, <1>6, <1>7, <1>8, <1>9, <1>10, <1>11, <1>12 DEF Next, Step
-----------------------------------------------------------------------------
\* A step keeps the books of the mutexes.
LEMMA LockStep == IInv /\ [Next]_vars => LockInv'
<1> SUFFICES ASSUME IInv, [Next]_vars
             PROVE  LockInv'
  OBVIOUS
<1> USE TableAssumption DEF IInv
<1>1. ASSUME NEW t \in Thread, NEW c \in CallOfKey, CallBucket(t, c)
      PROVE  LockInv'
  BY <1>1 DEF CallBucket, Goto, LockInv, HasLocked, Shares, Own, tableVars, TypeOK
<1>2. ASSUME NEW t \in Thread, CallMap(t)
      PROVE  LockInv'
  BY <1>2 DEF CallMap, Goto, LockInv, HasLocked, Shares, Own, tableVars, TypeOK, CallInv, Bucket
<1>3. ASSUME NEW t \in Thread, LockBucket(t)
      PROVE  LockInv'
  <2>1. Own(t) \in Bucket
    BY <1>3, OwnBucket DEF LockBucket, Goto
  <2>2. QED
    BY <1>3, <2>1 DEF LockBucket, LockUnique, LockShared, Goto, LockInv, HasLocked, Shares, Own, TypeOK
<1>4. ASSUME NEW t \in Thread, Find(t)
      PROVE  LockInv'
  BY <1>4 DEF Find, Goto, LockInv, HasLocked, Shares, Own, tableVars, TypeOK
<1>5. ASSUME NEW t \in Thread, Return(t)
      PROVE  LockInv'
  <2>1. Own(t) \in Bucket
    BY <1>5, OwnBucket DEF Return, Goto
  <2>2. QED
    BY <1>5, <2>1 DEF Return, Unlock, Goto, LockInv, HasLocked, Shares, Own, TypeOK
<1>6. ASSUME NEW t \in Thread, MapLock(t)
      PROVE  LockInv'
  <2>1. /\ at[t] \in Bucket /\ pc[t] = "map_lock"
        /\ owner[at[t]] = NoThread /\ sharing[at[t]] = {}
        /\ owner' = [owner EXCEPT ![at[t]] = t] /\ sharing' = sharing
    BY <1>6 DEF MapLock, NextBucket, Turn, LockUnique, Goto, TypeOK
  <2>2. \A u \in Thread \ {t}, b \in Bucket :
            (HasLocked(u, b)' <=> HasLocked(u, b)) /\ (Shares(u, b)' <=> Shares(u, b))
    BY <1>6 DEF MapLock, Turn, Goto, HasLocked, Shares, Own, TypeOK
  <2>3. \A b \in Bucket : /\ HasLocked(t, b)' <=> HasLocked(t, b) \/ b = at[t]
                          /\ ~Shares(t, b) /\ ~Shares(t, b)'
    BY <1>6, <2>1 DEF MapLock, Turn, AtLast, Goto, HasLocked, Shares, TypeOK, Bucket
  <2>4. QED
    BY <2>1, <2>2, <2>3 DEF LockInv, TypeOK
<1>7. ASSUME NEW t \in Thread, MapCopy(t)
      PROVE  LockInv'
  BY <1>7 DEF MapCopy, Turn, AtLast, Goto, LockInv, HasLocked, Shares, Own, TypeOK, Bucket, tableVars
<1>8. ASSUME NEW t \in Thread, MapUnlock(t)
       PROVE  LockInv'
  BY <1>8 DEF MapUnlock, Turn, AtLast, Unlock, Goto, LockInv, HasLocked, Shares, Own, TypeOK, Bucket
<1>9. ASSUME UNCHANGED vars
       PROVE  LockInv'
  BY <1>9 DEF vars, tableVars, LockInv, HasLocked, Shares, Own
<1>10. QED
  BY <1>1, <1>2, <1>3, <1>4, <1>5, <1>6, <1>7, <1>8, <1>9
     DEF Next, Step, ValueFor, AddOrUpdateMapping, RemoveMapping
-----------------------------------------------------------------------------
\* While t works on a bucket nobody else changes it.
LEMMA OthersWait ==
    ASSUME IInv, NEW t \in Thread, NEW u \in Thread, t # u,
           pc[t] \in {"find", "act"}, pc[u] = "act", call[u].op # "value_for"
    PROVE  Own(t) # Own(u)
<1>1. Own(t) \in Bucket /\ Own(u) \in Bucket
  BY OwnBucket DEF IInv
<1>2. owner[Own(u)] = u /\ sharing[Own(u)] = {}
  BY <1>1 DEF IInv, LockInv, HasLocked
<1>3. owner[Own(t)] = t \/ t \in sharing[Own(t)]
  BY <1>1 DEF IInv, LockInv, HasLocked, Shares
<1>4. QED
  BY <1>2, <1>3

\* A step keeps one pair for a key, and what was found.
LEMMA DataStep == IInv /\ [Next]_vars => OnePairPerKey' /\ EntryValid'
<1> SUFFICES ASSUME IInv, [Next]_vars
             PROVE  OnePairPerKey' /\ EntryValid'
  OBVIOUS
<1> USE DEF IInv
<1>1. ASSUME data' = data
      PROVE  OnePairPerKey'
  BY <1>1 DEF OnePairPerKey
<1>2. ASSUME NEW t \in Thread, NEW c \in CallOfKey, CallBucket(t, c)
      PROVE  OnePairPerKey' /\ EntryValid'
  BY <1>1, <1>2 DEF CallBucket, Goto, EntryValid, Own, tableVars, TypeOK
<1>3. ASSUME NEW t \in Thread, CallMap(t)
      PROVE  OnePairPerKey' /\ EntryValid'
  BY <1>1, <1>3 DEF CallMap, Goto, EntryValid, Own, tableVars, TypeOK
<1>4. ASSUME NEW t \in Thread, LockBucket(t)
      PROVE  OnePairPerKey' /\ EntryValid'
  BY <1>1, <1>4 DEF LockBucket, Goto, EntryValid, Own, TypeOK
<1>5. ASSUME NEW t \in Thread, Find(t)
      PROVE  OnePairPerKey' /\ EntryValid'
  BY <1>1, <1>5 DEF Find, Goto, EntryValid, Own, tableVars, TypeOK
<1>6. ASSUME NEW t \in Thread, ValueFor(t)
      PROVE  OnePairPerKey' /\ EntryValid'
  BY <1>1, <1>6 DEF ValueFor, Return, Goto, EntryValid, Own, TypeOK
<1>7. ASSUME NEW t \in Thread, AddOrUpdateMapping(t) \/ RemoveMapping(t)
      PROVE  OnePairPerKey' /\ EntryValid'
  <2>1. /\ Return(t) /\ pc[t] = "act" /\ Own(t) \in Bucket /\ call[t].op # "value_for"
        /\ \E list : Fits(Own(t), list) /\ data' = [data EXCEPT ![Own(t)] = list]
    BY <1>7, ListChanges
  <2>2. PICK list : Fits(Own(t), list) /\ data' = [data EXCEPT ![Own(t)] = list]
    BY <2>1
  <2>3. /\ data' \in [Bucket -> Seq(Key \X Value)]
        /\ \A b \in Bucket : InBucket(b, data'[b])
    BY <2>1, <2>2, ByBucket DEF TypeOK, Fits, OnePairPerKey
  <2>4. OnePairPerKey'
    BY <2>3, ByBucket DEF OnePairPerKey
  <2>5. EntryValid'
    <3> SUFFICES ASSUME NEW u \in Thread, pc'[u] = "act"
                 PROVE  found_entry'[u] = FirstWith(data'[Own(u)'], call'[u].key)
      BY DEF EntryValid
    <3>1. u # t /\ pc[u] = "act" /\ found_entry'[u] = found_entry[u] /\ call'[u] = call[u]
      BY <2>1 DEF Return, Goto, TypeOK
    <3>2. Own(u)' = Own(u) /\ Own(u) \in Bucket /\ Own(u) # Own(t)
      BY <2>1, <3>1, OthersWait, OwnBucket DEF Own
    <3>3. data'[Own(u)] = data[Own(u)]
      BY <2>2, <3>2 DEF TypeOK
    <3>4. QED
      BY <3>1, <3>2, <3>3 DEF EntryValid
  <2>6. QED
    BY <2>4, <2>5
<1>8. ASSUME NEW t \in Thread, MapLock(t) \/ MapCopy(t) \/ MapUnlock(t)
      PROVE  OnePairPerKey' /\ EntryValid'
  BY <1>1, <1>8 DEF MapLock, MapCopy, MapUnlock, Turn, Goto, EntryValid, Own, tableVars, TypeOK
<1>9. ASSUME UNCHANGED vars
      PROVE  OnePairPerKey' /\ EntryValid'
  BY <1>1, <1>9 DEF vars, tableVars, EntryValid, Own
<1>10. QED
  BY <1>2, <1>3, <1>4, <1>5, <1>6, <1>7, <1>8, <1>9 DEF Next, Step
-----------------------------------------------------------------------------
LEMMA Inductive == Spec => []IInv
<1>1. Init => IInv
  <2> SUFFICES ASSUME Init PROVE IInv
    OBVIOUS
  <2> USE TableAssumption DEF Init
  <2>1. TypeOK /\ CallInv
    <3>1. <<>> \in Seq(Key \X Value) /\ 0 \in Bucket
      BY EmptySeq DEF Bucket
    <3>2. QED
      BY <3>1 DEF TypeOK, CallInv, NoMap
  <2>2. LockInv
    BY DEF LockInv, HasLocked, Shares, Bucket
  <2>3. OnePairPerKey /\ EntryValid
    <3>1. \A b \in Bucket : InBucket(b, data[b])
      BY EmptySeq DEF InBucket
    <3>2. QED
      BY <2>1, <3>1, ByBucket DEF TypeOK, OnePairPerKey, EntryValid
  <2>4. QED
    BY <2>1, <2>2, <2>3 DEF IInv
<1>2. IInv /\ [Next]_vars => IInv'
  BY TypeStep, LockStep, DataStep DEF IInv
<1>3. QED
  BY <1>1, <1>2, PTL DEF Spec

\* threadsafe_lookup_table.h: variables keep their types, and the loops of get_map
\* stay within the buckets.
THEOREM TypeCorrect == Spec => []TypeOK
<1>1. IInv => TypeOK
  BY DEF IInv
<1>2. QED
  BY <1>1, Inductive, PTL

\* threadsafe_lookup_table.h: a key has one pair in the table, though a thread looks
\* for it in one step and adds it in another.
THEOREM KeysAreUnique == Spec => []OnePairPerKey
<1>1. IInv => OnePairPerKey
  BY DEF IInv
<1>2. QED
  BY <1>1, Inductive, PTL

\* threadsafe_lookup_table.h: the iterator that find_entry_for returned is still good
\* when it is used.
THEOREM EntriesStayValid == Spec => []EntryValid
<1>1. IInv => EntryValid
  BY DEF IInv
<1>2. QED
  BY <1>1, Inductive, PTL

\* threadsafe_lookup_table.h: no threads wait for each other in a circle, get_map
\* included.  Who waits to lock one bucket has locked none, and of those who lock all
\* of them the one that has come farthest waits for nobody.
THEOREM DeadlockFreedom == Spec => []NoCircularWait
<1>1. IInv => NoCircularWait
  <2> SUFFICES ASSUME IInv, NEW S \in SUBSET Thread, S # {},
                      \A t \in S : WaitsFor(t, S)
               PROVE  FALSE
    BY DEF NoCircularWait
  <2> USE TableAssumption DEF IInv
  <2>1. ASSUME NEW t \in S
        PROVE  \E u \in S : /\ pc[u] = "map_lock"
                            /\ pc[t] = "map_lock" => at[u] > at[t]
    <3> DEFINE b == IF pc[t] = "lock" THEN Own(t) ELSE at[t]
    <3>1. b \in Bucket /\ (owner[b] \in S \/ sharing[b] \cap S # {})
      BY OwnBucket DEF WaitsFor, NextBucket, TypeOK
    <3>2. PICK u \in S : owner[b] = u \/ u \in sharing[b]
      BY <3>1
    <3>3. pc[u] = "lock" \/ pc[u] = "map_lock"
      BY DEF WaitsFor
    <3>4. pc[u] = "map_lock" /\ b < at[u]
      BY <3>1, <3>2, <3>3 DEF LockInv, HasLocked, Shares
    <3>5. QED
      BY <3>4 DEF TypeOK, Bucket
  <2> DEFINE left == {num_buckets - at[t] : t \in {u \in S : pc[u] = "map_lock"}}
  <2>2. left # {} /\ left \subseteq Nat
    <3>1. left # {}
      BY <2>1
    <3>2. \A t \in Thread : num_buckets - at[t] \in Nat
      BY DEF TypeOK, Bucket
    <3>3. QED
      BY <3>1, <3>2
  <2>3. PICK low \in left : \A k \in left : <<k, low>> \notin OpToRel(<, Nat)
    BY <2>2, NatLessThanWellFounded, WFMin
  <2>4. PICK t \in S : pc[t] = "map_lock" /\ low = num_buckets - at[t]
    BY <2>3
  <2>5. PICK u \in S : pc[u] = "map_lock" /\ at[u] > at[t]
    BY <2>1, <2>4
  <2>6. num_buckets - at[u] \in left /\ num_buckets - at[u] < low
    <3>1. num_buckets - at[u] \in left
      BY <2>5
    <3>2. at[t] \in Int /\ at[u] \in Int /\ num_buckets \in Int
      BY DEF TypeOK, Bucket
    <3>3. QED
      BY <2>4, <2>5, <3>1, <3>2
  <2>7. QED
    BY <2>2, <2>3, <2>6 DEF OpToRel
<1>2. QED
  BY <1>1, Inductive, PTL
-----------------------------------------------------------------------------
(***************************************************************************)
(* The refinement.  get_map has seen what the table holds now, as far as   *)
(* it has copied: all buckets are its own until it unlocks them.           *)
(***************************************************************************)
CopiedSoFar(t) == [k \in Key |-> IF get_bucket(k) < at[t] THEN Contents[k] ELSE Nothing]
MapInv == \A t \in Thread : res[t] = IF pc[t] = "map_copy" THEN CopiedSoFar(t) ELSE NoMap

\* A key belongs to a bucket, and no other bucket has it.
LEMMA OnlyBucket ==
    ASSUME IInv, NEW k \in Key
    PROVE  /\ get_bucket(k) \in Bucket
           /\ Contents[k] = ValueIn(data[get_bucket(k)], k)
           /\ \A b \in Bucket : b # get_bucket(k) => FirstWith(data[b], k) = 0
<1>1. get_bucket(k) \in Bucket
  BY TableAssumption DEF get_bucket, Bucket
<1>2. Contents[k] = ValueIn(data[get_bucket(k)], k)
  BY DEF Contents, ValueIn
<1>3. ASSUME NEW b \in Bucket, FirstWith(data[b], k) # 0 PROVE b = get_bucket(k)
  <2>1. data[b] \in Seq(Key \X Value) /\ InBucket(b, data[b])
    BY ByBucket DEF IInv, TypeOK, OnePairPerKey
  <2>2. /\ FirstWith(data[b], k) \in 0..Len(data[b]) /\ Len(data[b]) \in Nat
        /\ data[b][FirstWith(data[b], k)][1] = k
    BY <1>3, <2>1, FirstWithFacts, LenProperties
  <2>3. FirstWith(data[b], k) \in 1..Len(data[b])
    BY <1>3, <2>2
  <2>4. QED
    BY <2>1, <2>2, <2>3 DEF InBucket
<1>4. QED
  BY <1>1, <1>2, <1>3

\* An update changes what the table says of one key.
LEMMA OneKeyChanges ==
    ASSUME IInv, NEW t \in Thread, NEW list, NEW v,
           Own(t) \in Bucket, Own(t) = get_bucket(call[t].key), call[t].key \in Key,
           data' = [data EXCEPT ![Own(t)] = list],
           Stores(data[Own(t)], list, call[t].key, v)
    PROVE  Contents' = [Contents EXCEPT ![call[t].key] = v]
<1> DEFINE k == call[t].key
           new(q) == data'[get_bucket(q)]
<1>1. Contents' = [q \in Key |-> ValueIn(new(q), q)]
  BY DEF Contents, ValueIn, get_bucket
<1>2. ASSUME NEW q \in Key
      PROVE  ValueIn(new(q), q) = IF q = k THEN v ELSE Contents[q]
  <2>1. get_bucket(q) \in Bucket /\ Contents[q] = ValueIn(data[get_bucket(q)], q)
    BY OnlyBucket
  <2>2. CASE get_bucket(q) = Own(t)
    BY <2>1, <2>2 DEF Stores, IInv, TypeOK
  <2>3. CASE get_bucket(q) # Own(t)
    BY <2>1, <2>3 DEF IInv, TypeOK
  <2>4. QED
    BY <2>2, <2>3
<1>3. Contents = [q \in Key |-> Contents[q]]
  BY DEF Contents
<1> HIDE DEF new
<1>4. QED
  BY <1>1, <1>2, <1>3

\* What the updates do to the abstract map.
LEMMA UpdateSteps ==
    ASSUME IInv, NEW t \in Thread, AddOrUpdateMapping(t) \/ RemoveMapping(t)
    PROVE  /\ call[t].key \in Key
           /\ AddOrUpdateMapping(t) =>
                  /\ call[t].value \in Value
                  /\ Contents' = [Contents EXCEPT ![call[t].key] = call[t].value]
           /\ RemoveMapping(t) => Contents' = [Contents EXCEPT ![call[t].key] = Nothing]
<1>1. /\ pc[t] = "act" /\ Own(t) \in Bucket
      /\ \E list : /\ data' = [data EXCEPT ![Own(t)] = list]
                   /\ AddOrUpdateMapping(t) =>
                          Stores(data[Own(t)], list, call[t].key, call[t].value)
                   /\ RemoveMapping(t) =>
                          Stores(data[Own(t)], list, call[t].key, Nothing)
  BY ListChanges
<1>2. call[t].key \in Key /\ Own(t) = get_bucket(call[t].key)
  BY <1>1, OwnBucket DEF IInv
<1>3. AddOrUpdateMapping(t) => call[t].value \in Value
  BY <1>1 DEF AddOrUpdateMapping, IInv, CallInv, CallOfKey
<1>4. QED
  BY <1>1, <1>2, <1>3, OneKeyChanges

\* get_map copies what the table holds now of the keys in one bucket more.
LEMMA CopyFacts ==
    ASSUME IInv, MapInv, NEW t \in Thread, MapCopy(t)
    PROVE  LET map == Inserted(res[t], data[at[t]]) IN
           /\ map = [k \in Key |-> IF get_bucket(k) <= at[t] THEN Contents[k] ELSE Nothing]
           /\ AtLast(t) => map = Contents
<1> DEFINE map == Inserted(res[t], data[at[t]])
<1>1. pc[t] = "map_copy" /\ at[t] \in Bucket /\ at[t] \in Int
  BY TableAssumption DEF MapCopy, Turn, Goto, IInv, TypeOK, Bucket
<1>2. res[t] = CopiedSoFar(t)
  BY <1>1 DEF MapInv
<1>3. ASSUME NEW k \in Key
      PROVE  /\ get_bucket(k) \in Bucket
             /\ map[k] = IF get_bucket(k) <= at[t] THEN Contents[k] ELSE Nothing
  <2>1. /\ get_bucket(k) \in Bucket /\ get_bucket(k) \in Int
        /\ Contents[k] = ValueIn(data[get_bucket(k)], k)
        /\ \A b \in Bucket : b # get_bucket(k) => FirstWith(data[b], k) = 0
    BY OnlyBucket, TableAssumption DEF Bucket
  <2>2. map[k] = IF res[t][k] = Nothing /\ FirstWith(data[at[t]], k) # 0
                 THEN ValueIn(data[at[t]], k) ELSE res[t][k]
    BY DEF Inserted, ValueIn
  <2>3. res[t][k] = IF get_bucket(k) < at[t] THEN Contents[k] ELSE Nothing
    BY <1>2 DEF CopiedSoFar
  <2>4. CASE get_bucket(k) = at[t]
    BY <1>1, <2>1, <2>2, <2>3, <2>4 DEF ValueIn
  <2>5. CASE get_bucket(k) # at[t]
    BY <1>1, <2>1, <2>2, <2>3, <2>5
  <2>6. QED
    BY <2>1, <2>4, <2>5
<1>4. map = [k \in Key |-> map[k]] /\ Contents = [k \in Key |-> Contents[k]]
  BY DEF Inserted, Contents
<1> HIDE DEF map
<1>5. map = [k \in Key |-> IF get_bucket(k) <= at[t] THEN Contents[k] ELSE Nothing]
  BY <1>3, <1>4
<1>6. ASSUME AtLast(t) PROVE map = Contents
  <2>1. \A k \in Key : get_bucket(k) <= at[t]
    BY <1>3, <1>6, TableAssumption DEF AtLast, Bucket
  <2>2. QED
    BY <1>4, <1>5, <2>1
<1>7. QED
  BY <1>5, <1>6 DEF map

\* A step keeps what get_map has copied equal to what the table holds.
LEMMA MapStep == IInv /\ MapInv /\ [Next]_vars => MapInv'
<1> SUFFICES ASSUME IInv, MapInv, [Next]_vars
             PROVE  MapInv'
  OBVIOUS
<1>1. ASSUME data' = data PROVE Contents' = Contents
  BY <1>1 DEF Contents
<1>2. ASSUME NEW t \in Thread, res' = res, data' = data,
             \A u \in Thread \ {t} : pc'[u] = pc[u] /\ at'[u] = at[u],
             pc[t] # "map_copy", pc'[t] # "map_copy"
      PROVE  MapInv'
  <2> SUFFICES ASSUME NEW u \in Thread
               PROVE  res'[u] = IF pc'[u] = "map_copy" THEN CopiedSoFar(u)' ELSE NoMap
    BY DEF MapInv, NoMap
  <2>1. CASE u = t
    BY <1>2, <2>1 DEF MapInv
  <2>2. CASE u # t
    BY <1>1, <1>2, <2>2 DEF MapInv, CopiedSoFar, get_bucket
  <2>3. QED
    BY <2>1, <2>2
<1>3. ASSUME NEW t \in Thread,
             \/ \E c \in CallOfKey : CallBucket(t, c)
             \/ CallMap(t) \/ LockBucket(t) \/ Find(t) \/ ValueFor(t)
      PROVE  MapInv'
  BY <1>2, <1>3 DEF CallBucket, CallMap, LockBucket, Find, ValueFor, Return, Goto, tableVars,
                    IInv, TypeOK
<1>4. ASSUME NEW t \in Thread, AddOrUpdateMapping(t) \/ RemoveMapping(t)
      PROVE  MapInv'
  <2>1. Return(t) /\ pc[t] = "act" /\ Own(t) \in Bucket /\ call[t].op # "value_for"
    BY <1>4, ListChanges
  <2>2. pc' = [pc EXCEPT ![t] = "idle"] /\ res' = res
    BY <2>1 DEF Return, Goto
  <2>3. owner[Own(t)] = t
    BY <2>1 DEF IInv, LockInv, HasLocked
  <2>4. ASSUME NEW u \in Thread PROVE pc[u] # "map_copy" /\ pc'[u] # "map_copy"
    BY <2>1, <2>2, <2>3 DEF IInv, LockInv, HasLocked, TypeOK
  <2>5. QED
    BY <2>2, <2>4 DEF MapInv, NoMap
<1>5. ASSUME NEW t \in Thread, MapLock(t) PROVE MapInv'
  <2>1. /\ pc[t] = "map_lock" /\ res' = res /\ data' = data
        /\ \A u \in Thread \ {t} : pc'[u] = pc[u] /\ at'[u] = at[u]
        /\ pc'[t] = IF AtLast(t) THEN "map_copy" ELSE "map_lock"
        /\ AtLast(t) => at'[t] = 0
    BY <1>5 DEF MapLock, Turn, Goto, IInv, TypeOK
  <2>2. CASE ~AtLast(t)
    BY <1>2, <2>1, <2>2
  <2>3. CASE AtLast(t)
    <3> SUFFICES ASSUME NEW u \in Thread
                 PROVE  res'[u] = IF pc'[u] = "map_copy" THEN CopiedSoFar(u)' ELSE NoMap
      BY DEF MapInv, NoMap
    <3>1. CASE u = t
      <4>1. \A k \in Key : ~(get_bucket(k) < 0)
        BY OnlyBucket, TableAssumption DEF Bucket
      <4>2. CopiedSoFar(t)' = NoMap
        BY <2>1, <2>3, <4>1 DEF CopiedSoFar, NoMap, get_bucket
      <4>3. QED
        BY <2>1, <2>3, <3>1, <4>2 DEF MapInv
    <3>2. CASE u # t
      BY <1>1, <2>1, <3>2 DEF MapInv, CopiedSoFar, get_bucket
    <3>3. QED
      BY <3>1, <3>2
  <2>4. QED
    BY <2>2, <2>3
<1>6. ASSUME NEW t \in Thread, MapCopy(t) PROVE MapInv'
  <2> DEFINE map == Inserted(res[t], data[at[t]])
  <2>1. /\ pc[t] = "map_copy" /\ data' = data
        /\ \A u \in Thread \ {t} : pc'[u] = pc[u] /\ at'[u] = at[u]
        /\ pc'[t] = IF AtLast(t) THEN "map_unlock" ELSE "map_copy"
        /\ ~AtLast(t) => at'[t] = at[t] + 1
        /\ res' = [res EXCEPT ![t] = IF AtLast(t) THEN NoMap ELSE map]
    BY <1>6 DEF MapCopy, Turn, Copy, Goto, tableVars, IInv, TypeOK
  <2>2. map = [k \in Key |-> IF get_bucket(k) <= at[t] THEN Contents[k] ELSE Nothing]
    BY <1>6, CopyFacts
  <2> HIDE DEF map
  <2> SUFFICES ASSUME NEW u \in Thread
               PROVE  res'[u] = IF pc'[u] = "map_copy" THEN CopiedSoFar(u)' ELSE NoMap
    BY DEF MapInv, NoMap
  <2>3. CASE u = t /\ AtLast(t)
    BY <2>1, <2>3 DEF IInv, TypeOK
  <2>4. CASE u = t /\ ~AtLast(t)
    <3>1. ASSUME NEW k \in Key
          PROVE  get_bucket(k) <= at[t] <=> get_bucket(k) < at[t] + 1
      <4>1. get_bucket(k) \in Bucket /\ at[t] \in Bucket
        BY OnlyBucket DEF IInv, TypeOK
      <4>2. get_bucket(k) \in Int /\ at[t] \in Int
        BY <4>1, TableAssumption DEF Bucket
      <4>3. QED
        BY <4>2
    <3>2. CopiedSoFar(t)' = map
      BY <1>1, <2>1, <2>2, <2>4, <3>1 DEF CopiedSoFar, get_bucket
    <3>3. QED
      BY <2>1, <2>4, <3>2 DEF IInv, TypeOK
  <2>5. CASE u # t
    <3>1. res'[u] = res[u]
      BY <2>1, <2>5 DEF IInv, TypeOK
    <3>2. QED
      BY <1>1, <2>1, <2>5, <3>1 DEF MapInv, CopiedSoFar, get_bucket
  <2>6. QED
    BY <2>3, <2>4, <2>5
<1>7. ASSUME NEW t \in Thread, MapUnlock(t) PROVE MapInv'
  <2>1. /\ pc[t] = "map_unlock" /\ res' = res /\ data' = data
        /\ \A u \in Thread \ {t} : pc'[u] = pc[u] /\ at'[u] = at[u]
        /\ pc'[t] # "map_copy"
    BY <1>7 DEF MapUnlock, Turn, Goto, IInv, TypeOK
  <2>2. QED
    BY <1>2, <2>1
<1>8. CASE UNCHANGED vars
  <2>1. Contents' = Contents
    BY <1>1, <1>8 DEF vars, tableVars
  <2>2. QED
    BY <1>8, <2>1 DEF vars, tableVars, MapInv, CopiedSoFar, NoMap, get_bucket
<1>9. QED
  BY <1>3, <1>4, <1>5, <1>6, <1>7, <1>8 DEF Next, Step

\* threadsafe_lookup_table.h implements AtomicMap: an operation on a key takes effect
\* as it returns, and get_map as it copies the last bucket, since what it has copied
\* before is still what the table holds.
THEOREM Refinement == Spec => ImplementsMap
<1>1. Init => Map!Init /\ MapInv
  <2> SUFFICES ASSUME Init PROVE Map!Init /\ MapInv
    OBVIOUS
  <2>1. \A k \in Key : FirstWith(data[get_bucket(k)], k) = 0
    <3> SUFFICES ASSUME NEW k \in Key PROVE FirstWith(data[get_bucket(k)], k) = 0
      OBVIOUS
    <3>1. data[get_bucket(k)] = <<>>
      BY TableAssumption DEF Init, get_bucket, Bucket
    <3>2. <<>> \in Seq(Key \X Value) /\ Len(<<>>) = 0
      BY EmptySeq
    <3>3. FirstWith(<<>>, k) \in 0..0
      BY <3>2, FirstWithFacts
    <3>4. QED
      BY <3>1, <3>3
  <2>2. Contents = NoMap
    BY <2>1 DEF Contents, NoMap
  <2>3. QED
    BY <2>2 DEF Init, Map!Init, Map!NoAnswer, MapInv, NoMap
<1>2. IInv /\ MapInv /\ [Next]_vars => [Map!Next]_(Map!mapVars)
  <2> SUFFICES ASSUME IInv, MapInv, [Next]_vars PROVE [Map!Next]_(Map!mapVars)
    OBVIOUS
  <2> USE DEF Map!Next, Map!mapVars
  <2>1. ASSUME data' = data PROVE Contents' = Contents
    BY <2>1 DEF Contents
  <2>2. ASSUME NEW t \in Thread, CallMap(t) \/ \E c \in CallOfKey : CallBucket(t, c)
        PROVE  Map!Next
    <3>1. data' = data /\ answer' = [answer EXCEPT ![t] = <<>>]
      BY <2>2 DEF CallMap, CallBucket, tableVars
    <3>2. Map!Call(t)
      BY <2>1, <3>1 DEF Map!Call, Map!NoAnswer
    <3>3. QED
      BY <3>2
  <2>3. ASSUME NEW t \in Thread, ValueFor(t) PROVE Map!Next
    <3>1. pc[t] = "act" /\ data' = data /\ call[t].key \in Key
          /\ Own(t) = get_bucket(call[t].key)
      BY <2>3, OwnBucket DEF ValueFor, Return, Goto, IInv
    <3>2. found_entry[t] = FirstWith(data[Own(t)], call[t].key)
      BY <3>1 DEF IInv, EntryValid
    <3>3. answer' = [answer EXCEPT ![t] = Contents[call[t].key]]
      BY <2>3, <3>1, <3>2 DEF ValueFor, Contents
    <3>4. Map!ValueFor(t, call[t].key)
      BY <2>1, <3>1, <3>3 DEF Map!ValueFor
    <3>5. QED
      BY <3>1, <3>4
  <2>4. ASSUME NEW t \in Thread, AddOrUpdateMapping(t) PROVE Map!Next
    <3>1. /\ call[t].key \in Key /\ call[t].value \in Value
          /\ Contents' = [Contents EXCEPT ![call[t].key] = call[t].value]
      BY <2>4, UpdateSteps
    <3>2. Map!AddOrUpdate(call[t].key, call[t].value)
      BY <2>4, <3>1 DEF AddOrUpdateMapping, Map!AddOrUpdate
    <3>3. QED
      BY <3>1, <3>2
  <2>5. ASSUME NEW t \in Thread, RemoveMapping(t) PROVE Map!Next
    <3>1. /\ call[t].key \in Key
          /\ Contents' = [Contents EXCEPT ![call[t].key] = Nothing]
      BY <2>5, UpdateSteps
    <3>2. Map!Remove(call[t].key)
      BY <2>5, <3>1 DEF RemoveMapping, Map!Remove
    <3>3. QED
      BY <3>1, <3>2
  <2>6. ASSUME NEW t \in Thread, MapCopy(t)
        PROVE  Map!Next \/ UNCHANGED Map!mapVars
    <3> DEFINE map == Inserted(res[t], data[at[t]])
    <3>1. /\ data' = data
          /\ answer' = IF AtLast(t) THEN [answer EXCEPT ![t] = map] ELSE answer
      BY <2>6 DEF MapCopy, Copy, tableVars
    <3>2. AtLast(t) => map = Contents
      BY <2>6, CopyFacts
    <3> HIDE DEF map
    <3>3. AtLast(t) => Map!GetMap(t)
      BY <2>1, <3>1, <3>2 DEF Map!GetMap
    <3>4. QED
      BY <2>1, <3>1, <3>3
  <2>7. ASSUME NEW t \in Thread, LockBucket(t) \/ Find(t) \/ MapLock(t) \/ MapUnlock(t)
        PROVE  UNCHANGED Map!mapVars
    BY <2>1, <2>7 DEF LockBucket, Find, MapLock, MapUnlock, tableVars
  <2>8. CASE UNCHANGED vars
    BY <2>1, <2>8 DEF vars, tableVars
  <2>9. QED
    BY <2>2, <2>3, <2>4, <2>5, <2>6, <2>7, <2>8 DEF Next, Step
<1>3. QED
  BY <1>1, <1>2, MapStep, Inductive, PTL DEF Spec, ImplementsMap
=============================================================================
