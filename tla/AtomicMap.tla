----------------------------- MODULE AtomicMap -----------------------------
(***************************************************************************)
(* What a table shared by threads promises its callers: every operation    *)
(* takes effect at one instant between its call and its return, get_map    *)
(* too, which is a picture of the whole table at one time.                 *)
(***************************************************************************)
CONSTANTS Thread, Key, Value,
          Nothing      \* a key that is not in the table, a default value

VARIABLES map,
          answer       \* what a thread's operation returned, until its next

mapVars == <<map, answer>>

NoAnswer == <<>>

Init == /\ map = [k \in Key |-> Nothing]
        /\ answer = [t \in Thread |-> NoAnswer]

Call(t) == /\ answer' = [answer EXCEPT ![t] = NoAnswer]
           /\ UNCHANGED map

ValueFor(t, k) == /\ answer' = [answer EXCEPT ![t] = map[k]]
                  /\ UNCHANGED map

AddOrUpdate(k, v) == /\ map' = [map EXCEPT ![k] = v]
                     /\ UNCHANGED answer

Remove(k) == /\ map' = [map EXCEPT ![k] = Nothing]
             /\ UNCHANGED answer

GetMap(t) == /\ answer' = [answer EXCEPT ![t] = map]
             /\ UNCHANGED map

Next == \/ \E t \in Thread : Call(t) \/ GetMap(t)
        \/ \E t \in Thread, k \in Key : ValueFor(t, k)
        \/ \E k \in Key, v \in Value : AddOrUpdate(k, v)
        \/ \E k \in Key : Remove(k)
=============================================================================
