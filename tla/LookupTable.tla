---------------------------- MODULE LookupTable ----------------------------
(***************************************************************************)
(* Lock_based/threadsafe_lookup_table.h: a hash table of which every       *)
(* bucket is a list of pairs under a shared_mutex of its own.  Lookups     *)
(* share a bucket, updates have it to themselves, and get_map locks all    *)
(* buckets, the first to the last, before it copies any of them.           *)
(*                                                                         *)
(* An operation on a key locks the bucket, looks for the key, and does its *)
(* work on what it has found as it unlocks; each is an action, and so is   *)
(* each bucket that get_map locks, copies and unlocks.                     *)
(***************************************************************************)
EXTENDS SequencesExt

CONSTANTS Thread, Key, Value,
          Nothing,       \* the default value of a lookup
          NoThread,      \* no owner
          num_buckets,
          hasher         \* a number for every key

ASSUME TableAssumption == /\ num_buckets \in Nat \ {0}
                          /\ hasher \in [Key -> Nat]
                          /\ Nothing \notin Value
                          /\ NoThread \notin Thread

VARIABLES data,            \* the pairs of each bucket
          owner, sharing,  \* of the mutex of each bucket
          pc,
          call,            \* the operation and its arguments
          found_entry,     \* 0 for data.end()
          at,              \* the loop variable i of get_map
          res,             \* of get_map
          answer           \* what was returned, until the next call

tableVars == <<data, owner, sharing>>
vars == <<tableVars, pc, call, found_entry, at, res, answer>>

Bucket == 0..num_buckets - 1
get_bucket(k) == hasher[k] % num_buckets

NoMap == [k \in Key |-> Nothing]
NoCall == [op |-> "none"]
CallOfKey == [op : {"value_for", "remove"}, key : Key]
                 \cup [op : {"add"}, key : Key, value : Value]

Init == /\ data = [b \in Bucket |-> <<>>]
        /\ owner = [b \in Bucket |-> NoThread]
        /\ sharing = [b \in Bucket |-> {}]
        /\ pc = [t \in Thread |-> "idle"]
        /\ call = [t \in Thread |-> NoCall]
        /\ found_entry = [t \in Thread |-> 0]
        /\ at = [t \in Thread |-> 0]
        /\ res = [t \in Thread |-> NoMap]
        /\ answer = [t \in Thread |-> <<>>]
-----------------------------------------------------------------------------
(***************************************************************************)
(* The mutexes.                                                            *)
(***************************************************************************)
LockUnique(t, b) == /\ owner[b] = NoThread /\ sharing[b] = {}
                    /\ owner' = [owner EXCEPT ![b] = t]
                    /\ UNCHANGED sharing

LockShared(t, b) == /\ owner[b] = NoThread
                    /\ sharing' = [sharing EXCEPT ![b] = @ \cup {t}]
                    /\ UNCHANGED owner

Unlock(t, b) == /\ owner' = [owner EXCEPT ![b] = IF @ = t THEN NoThread ELSE @]
                /\ sharing' = [sharing EXCEPT ![b] = @ \ {t}]
-----------------------------------------------------------------------------
(***************************************************************************)
(* The operations on one key.                                              *)
(***************************************************************************)
Goto(t, from, to) == pc[t] = from /\ pc' = [pc EXCEPT ![t] = to]

CallBucket(t, c) ==
    /\ Goto(t, "idle", "lock")
    /\ call' = [call EXCEPT ![t] = c]
    /\ answer' = [answer EXCEPT ![t] = <<>>]
    /\ UNCHANGED <<tableVars, found_entry, at, res>>

\* The bucket that t works on.
Own(t) == get_bucket(call[t].key)

\* Mutant of LockBucket: updates share the bucket as well.
LockBucket_Shared(t) ==
    /\ Goto(t, "lock", "find")
    /\ LockShared(t, Own(t))
    /\ UNCHANGED <<data, call, found_entry, at, res, answer>>

LockBucket(t) ==
    /\ Goto(t, "lock", "find")
    /\ \/ call[t].op = "value_for" /\ LockShared(t, Own(t))
       \/ call[t].op # "value_for" /\ LockUnique(t, Own(t))
    /\ UNCHANGED <<data, call, found_entry, at, res, answer>>

\* The first entry of a list that has the key, or 0.
FirstWith(pairs, k) ==
    SelectInSeq(pairs, LAMBDA pair : pair[1] = k)

\* find_entry_for
Find(t) ==
    /\ Goto(t, "find", "act")
    /\ found_entry' = [found_entry EXCEPT ![t] = FirstWith(data[Own(t)], call[t].key)]
    /\ UNCHANGED <<tableVars, call, at, res, answer>>

\* The bucket is unlocked as the operation returns.
Return(t) ==
    /\ Goto(t, "act", "idle")
    /\ Unlock(t, Own(t))
    /\ call' = [call EXCEPT ![t] = NoCall]
    /\ found_entry' = [found_entry EXCEPT ![t] = 0]
    /\ UNCHANGED <<at, res>>

ValueFor(t) ==
    /\ call[t].op = "value_for"
    /\ Return(t)
    /\ answer' = [answer EXCEPT ![t] = IF found_entry[t] = 0 THEN Nothing
                                       ELSE data[Own(t)][found_entry[t]][2]]
    /\ UNCHANGED data

\* Mutant of AddOrUpdateMapping: a new pair is added whatever was found.
AddOrUpdateMapping_Always(t) ==
    /\ call[t].op = "add"
    /\ Return(t)
    /\ data' = [data EXCEPT ![Own(t)] = Append(@, <<call[t].key, call[t].value>>)]
    /\ UNCHANGED answer

AddOrUpdateMapping(t) ==
    /\ call[t].op = "add"
    /\ Return(t)
    /\ data' = [data EXCEPT ![Own(t)] =
                    IF found_entry[t] = 0 THEN Append(@, <<call[t].key, call[t].value>>)
                    ELSE [@ EXCEPT ![found_entry[t]][2] = call[t].value]]
    /\ UNCHANGED answer

RemoveMapping(t) ==
    /\ call[t].op = "remove"
    /\ Return(t)
    /\ data' = IF found_entry[t] = 0 THEN data
               ELSE [data EXCEPT ![Own(t)] = RemoveAt(@, found_entry[t])]
    /\ UNCHANGED answer
-----------------------------------------------------------------------------
(***************************************************************************)
(* get_map                                                                 *)
(***************************************************************************)
CallMap(t) ==
    /\ Goto(t, "idle", "map_lock")
    /\ answer' = [answer EXCEPT ![t] = <<>>]
    /\ UNCHANGED <<tableVars, call, found_entry, at, res>>

AtLast(t) == at[t] = num_buckets - 1

\* Mutant of Turn: the loop does not end before the index is out of range.
Turn_OffByOne(t, this, following) ==
    /\ Goto(t, this, IF at[t] = num_buckets THEN following ELSE this)
    /\ at' = [at EXCEPT ![t] = IF at[t] = num_buckets THEN 0 ELSE @ + 1]

\* A turn of a loop over the buckets, and where the thread is after the last.
Turn(t, this, following) ==
    /\ Goto(t, this, IF AtLast(t) THEN following ELSE this)
    /\ at' = [at EXCEPT ![t] = IF AtLast(t) THEN 0 ELSE @ + 1]

\* Mutant of NextBucket: one that is free goes first.
NextBucket_Free(t) ==
    LET Left == {b \in Bucket : owner[b] # t}
        Open == {b \in Left : owner[b] = NoThread /\ sharing[b] = {}}
    IN  CHOOSE b \in Left : Open # {} => b \in Open

\* The bucket that get_map locks next.
NextBucket(t) == at[t]

MapLock(t) ==
    /\ Turn(t, "map_lock", "map_copy")
    /\ LockUnique(t, NextBucket(t))
    /\ UNCHANGED <<data, call, found_entry, res, answer>>

\* res.insert of every pair of a list: a key that is there is left alone.
Inserted(map, pairs) ==
    [k \in Key |-> IF map[k] = Nothing /\ FirstWith(pairs, k) # 0
                   THEN pairs[FirstWith(pairs, k)][2] ELSE map[k]]

\* Bucket at[t] is copied; after the last, the map is what get_map returns.
Copy(t) ==
    LET map == Inserted(res[t], data[at[t]])
    IN  \/ ~AtLast(t) /\ res' = [res EXCEPT ![t] = map] /\ UNCHANGED answer
        \/ /\ AtLast(t)
           /\ answer' = [answer EXCEPT ![t] = map]
           /\ res' = [res EXCEPT ![t] = NoMap]

\* Mutant of MapCopy: each bucket is unlocked as soon as it is copied.
MapCopy_UnlockEach(t) ==
    /\ Turn(t, "map_copy", "map_unlock")
    /\ Copy(t)
    /\ Unlock(t, at[t])
    /\ UNCHANGED <<data, call, found_entry>>

MapCopy(t) ==
    /\ Turn(t, "map_copy", "map_unlock")
    /\ Copy(t)
    /\ UNCHANGED <<tableVars, call, found_entry>>

\* The destructor of locks.
MapUnlock(t) ==
    /\ Turn(t, "map_unlock", "idle")
    /\ Unlock(t, at[t])
    /\ UNCHANGED <<data, call, found_entry, res, answer>>
-----------------------------------------------------------------------------
Step(t) == \/ LockBucket(t) \/ Find(t)
           \/ ValueFor(t) \/ AddOrUpdateMapping(t) \/ RemoveMapping(t)
           \/ MapLock(t) \/ MapCopy(t) \/ MapUnlock(t)

Next == \E t \in Thread : \/ \E c \in CallOfKey : CallBucket(t, c)
                          \/ CallMap(t)
                          \/ Step(t)

Spec == Init /\ [][Next]_vars
-----------------------------------------------------------------------------
\* Variables hold values of their types; the loops stay within the buckets.
TypeOK ==
    /\ data \in [Bucket -> Seq(Key \X Value)]
    /\ owner \in [Bucket -> Thread \cup {NoThread}]
    /\ sharing \in [Bucket -> SUBSET Thread]
    /\ pc \in [Thread -> {"idle", "lock", "find", "act", "map_lock", "map_copy",
                          "map_unlock"}]
    /\ call \in [Thread -> CallOfKey \cup {NoCall}]
    /\ found_entry \in [Thread -> Nat]
    /\ at \in [Thread -> Bucket]
    /\ res \in [Thread -> [Key -> Value \cup {Nothing}]]

\* A key has one pair in the whole table, in the bucket it is looked for in,
\* although finding it and adding it are two steps of several threads.
OnePairPerKey ==
    \A b, c \in Bucket : \A i \in DOMAIN data[b], j \in DOMAIN data[c] :
        /\ get_bucket(data[b][i][1]) = b
        /\ data[b][i][1] = data[c][j][1] => b = c /\ i = j

\* What find_entry_for returned still holds when it is used: the entry is there
\* and has the key, or the key is not in the table.
EntryValid ==
    \A t \in Thread : pc[t] = "act" =>
        found_entry[t] = FirstWith(data[Own(t)], call[t].key)

\* t waits for a mutex that a thread of S has locked or shares.
WaitsFor(t, S) ==
    LET Held(b) == owner[b] \in S \/ sharing[b] \cap S # {} IN
        \/ pc[t] = "lock" /\ Held(Own(t))
        \/ pc[t] = "map_lock" /\ Held(NextBucket(t))

\* Threads that lock all buckets and threads that lock one never wait for each
\* other in a circle.
NoCircularWait ==
    \A S \in SUBSET Thread : S # {} => \E t \in S : ~WaitsFor(t, S)

(***************************************************************************)
(* Refinement.  The abstract map is what the lists hold.  An operation on  *)
(* a key takes effect as it returns, get_map when it copies the last       *)
(* bucket: what it copied before has not changed since.                    *)
(***************************************************************************)
Contents == [k \in Key |-> LET pairs == data[get_bucket(k)] IN
                           IF FirstWith(pairs, k) = 0 THEN Nothing
                           ELSE pairs[FirstWith(pairs, k)][2]]

Map == INSTANCE AtomicMap WITH map <- Contents

\* Every behaviour of the table is one of a map whose operations are atomic.
ImplementsMap == Map!Init /\ [][Map!Next]_(Map!mapVars)
=============================================================================
