---------------------------- MODULE MemoryOrder ----------------------------
(***************************************************************************)
(* The small programs of the repository, in which what a thread may read   *)
(* hangs on the synchronisation alone: Atomic/*.cpp, and those of          *)
(* Sharing_data, ManageThreads and Synchronizing that share a variable     *)
(* under a mutex, a flag, a future or a join.                              *)
(*                                                                         *)
(* A program is a sequence of threads, a thread a sequence of accesses.    *)
(* The C++ memory model is modelled by views: a variable keeps all values  *)
(* it ever had, a thread may read any that is not older than one it knows  *)
(* of, and what a thread knows travels with the values it releases to the  *)
(* threads that acquire them.  A write goes to the end of its variable's   *)
(* modification order, which loses nothing here: two threads that store to *)
(* a variable synchronise, or one of them exchanges.  A load does not take *)
(* a value that is stored later; only in relaxed_demo.cpp could it.        *)
(***************************************************************************)
EXTENDS Integers, Sequences, FiniteSets

CONSTANTS Programs,         \* the programs to run
          number_of_items,  \* 20 in atomic_read_queue.cpp
          loop_count        \* 10 in relaxed_demo.cpp

ASSUME ProgramAssumption == number_of_items \in Nat /\ loop_count \in Nat

Variable == {"x", "y", "s"}

(***************************************************************************)
(* Accesses.  await is a loop that loads until the value is at least v,    *)
(* count is "if (x.load()) ++z", see keeps the value for the end; write,   *)
(* read, check and init are to a variable that is not atomic, and check    *)
(* jumps when it is set.                                                   *)
(***************************************************************************)
store(x, v, o) == [op |-> "store", x |-> x, v |-> v, order |-> o]
await(x, v, o) == [op |-> "await", x |-> x, v |-> v, order |-> o]
count(x, o)    == [op |-> "count", x |-> x, order |-> o]
see(x, o)      == [op |-> "see", x |-> x, order |-> o]
fence(o)       == [op |-> "fence", order |-> o]
write(x, v)    == [op |-> "write", x |-> x, v |-> v, order |-> "relaxed"]
read(x)        == [op |-> "read", x |-> x, order |-> "relaxed"]
init(x)        == [op |-> "init", x |-> x, order |-> "relaxed"]
check(x, to)   == [op |-> "check", x |-> x, to |-> to, order |-> "relaxed"]
lock(x)        == [op |-> "lock", x |-> x, free |-> {x}, order |-> "acquire"]
unlock(x)      == store(x, 0, "release")
take(x, o)     == [op |-> "take", x |-> x, order |-> o]
exchange(x, v, o) == [op |-> "exchange", x |-> x, v |-> v, order |-> o]
\* A read-modify-write that adds v to a value that allows it, or else goes to
\* another access, or waits when there is none.
add(x, v, when, to, o) == [op |-> "add", x |-> x, v |-> v, when |-> when, to |-> to, order |-> o]

\* A thread is started by one that has y, and joined by one that waits for s.
start     == store("y", 1, "release")
begin     == await("y", 1, "acquire")
finish    == add("s", 1, Int, 0, "release")
joined(n) == await("s", n, "acquire")

\* shared_mutex: 1 is a writer, 2 each reader.  std::lock takes l when r is free, too,
\* so that those who take both with it find r free.
lock_shared(x)   == add(x, 2, {2 * n : n \in 0..8}, 0, "acquire")
unlock_shared(x) == add(x, -2, Int, 0, "release")
std_lock(l, r)   == <<[lock(l) EXCEPT !.free = {l, r}], lock(r)>>
-----------------------------------------------------------------------------
(***************************************************************************)
(* The programs.  For the flags x and y, 0 is false and 1 is true.         *)
(***************************************************************************)
\* read_write_sequential.cpp, read_write_acquire_release.cpp
WritersAndReaders(o_write, o_read) ==
    << <<store("x", 1, o_write)>>,
       <<store("y", 1, o_write)>>,
       <<await("x", 1, o_read), count("y", o_read)>>,
       <<await("y", 1, o_read), count("x", o_read)>> >>

\* Mutant of Sequential: the loads only acquire.
Sequential_AcquireOnly == WritersAndReaders("seq_cst", "acquire")

Sequential == WritersAndReaders("seq_cst", "seq_cst")
AcquireRelease == WritersAndReaders("release", "acquire")

\* read_write_relaxed.cpp, where nobody looks at x and y; s is go.
ReadWriteRelaxed ==
    LET read_y_then_x == <<await("s", 1, "seq_cst")>> IN
    << <<store("s", 1, "seq_cst")>>,
       <<await("s", 1, "seq_cst"), store("x", 1, "relaxed"), store("y", 1, "relaxed")>>,
       read_y_then_x, read_y_then_x, read_y_then_x >>

\* acquire_release_and_relaxed_demo.cpp
AcquireReleaseAndRelaxed ==
    << <<store("x", 1, "relaxed"), store("y", 1, "release")>>,
       <<await("x", 1, "acquire"), count("y", "relaxed")>>,
       <<await("y", 1, "acquire"), count("x", "relaxed")>> >>

\* ordered_with_fence.cpp.  A load cannot release: it is a relaxed one.
OrderedWithFence ==
    << <<store("x", 1, "relaxed"), fence("release"), store("y", 1, "relaxed")>>,
       <<await("y", 1, "relaxed"), fence("acquire"), count("x", "relaxed")>> >>

\* ordering_on_nonatomic.cpp
OrderingOnNonatomic ==
    << <<write("x", 1), fence("release"), store("y", 1, "relaxed")>>,
       <<await("y", 1, "relaxed"), fence("acquire"), read("x"), count("x", "relaxed")>> >>

\* Mutant of Transitive: thread_2 waits for its own flag.
Transitive_WrongFlag ==
    << <<store("x", 1, "relaxed"), store("y", 1, "release")>>,
       <<await("s", 1, "acquire"), store("s", 1, "relaxed")>>,
       <<await("s", 1, "acquire"), count("x", "relaxed")>> >>

\* transitive.cpp: x is data, y is sync1, s is sync2.
Transitive ==
    << <<store("x", 1, "relaxed"), store("y", 1, "release")>>,
       <<await("y", 1, "acquire"), store("s", 1, "relaxed")>>,
       <<await("s", 1, "acquire"), count("x", "relaxed")>> >>

\* async_using_CAS.cpp: y is sync.
AsyncUsingCAS ==
    << <<store("y", 1, "relaxed")>>,
       <<exchange("y", 2, "acq_rel")>>,
       <<await("y", 2, "acquire")>> >>

\* atomic_read_queue.cpp: x is queue_data, y is count.
AtomicReadQueue ==
    LET consumer == <<take("y", "acquire"), read("x")>> IN
    << <<write("x", 1), store("y", number_of_items, "release")>>, consumer, consumer >>

\* Mutant of Spinlock: clear is relaxed.
Spinlock_RelaxedClear ==
    LET user == <<lock("y"), write("x", 1), store("y", 0, "relaxed")>> IN
    <<user, user, user>>

\* spinlock_mutex.cpp: threads that change x under the lock y.
Spinlock ==
    LET user == <<lock("y"), write("x", 1), store("y", 0, "release")>> IN
    <<user, user, user>>

\* foo of protect_initialization_bad.cpp: x is resource_ptr, y the mutex.
Initialization ==
    LET foo == <<lock("y"), init("x"), store("y", 0, "release"), read("x")>> IN
    <<foo, foo>>

\* The same without the lock for a first look: a data race, as the comment says.
DoubleChecked ==
    LET use == <<check("x", 5), lock("y"), init("x"), unlock("y"), read("x")>> IN
    <<use, use>>

\* protect_initialization_good.cpp: y is the once_flag, 1 while a thread initialises.
CallOnce ==
    LET foo == <<add("y", 1, {0}, 4, "acq_rel"), write("x", 1), store("y", 2, "release"),
                 await("y", 2, "acquire"), read("x")>> IN
    <<foo, foo, foo>>

\* protect_list.cpp: x is some_list, y some_mutex.
ProtectList ==
    LET add_to_list == <<lock("y"), read("x"), write("x", 1), unlock("y"), finish>>
        list_contains == <<lock("y"), read("x"), unlock("y"), finish>> IN
    << <<joined(3), read("x")>>, add_to_list, list_contains, add_to_list >>

\* shared_mutex_demo.cpp: x is entries, y entry_mutex.
DnsCache ==
    LET find_entry == <<lock_shared("y"), read("x"), unlock_shared("y")>>
        update_or_add_entry == <<lock("y"), write("x", 1), unlock("y")>> IN
    <<find_entry, find_entry, update_or_add_entry, update_or_add_entry>>

\* swap_obj.cpp: x and y are the mutexes of x1 and x2, s is what both protect.
swap(l, r) == std_lock(l, r) \o <<read("s"), write("s", 1), unlock(r), unlock(l)>>
SwapObj == <<swap("x", "y"), swap("y", "x"), swap("x", "y")>>

\* oops_again of pass_argu.cpp: the thread has a reference to data, x.
PassArgu == << <<write("x", 0), start, joined(1), read("x")>>,
               <<begin, read("x"), write("x", 1), finish>> >>

\* thread_id.cpp: x is master_thread.
ThreadId == LET algorithm == <<begin, read("x"), finish>> IN
            << <<write("x", 1), start, read("x"), joined(2)>>, algorithm, algorithm >>

\* shared_future_demo.cpp: y is 1 when the value x is set.
SharedFuture == LET foo == <<begin, read("x"), finish>> IN
                << <<write("x", 1), start, joined(2)>>, foo, foo >>

\* future_exception.cpp: x is the exception in some_promise, and s counts that it is
\* set and that the thread has ended.
FutureException == << <<start, joined(1), read("x"), joined(2)>>,
                      <<begin, write("x", 1), finish, finish>> >>

\* The accesses of loop_count turns of a loop, each of them some accesses long.
Repeat(turn(_), length) ==
    [i \in 1..length * loop_count |-> turn((i - 1) \div length)[((i - 1) % length) + 1]]

load_both == <<see("x", "relaxed"), see("y", "relaxed")>>

increment(var) == Repeat(LAMBDA i : load_both \o <<store(var, i + 1, "relaxed")>>, 3)
read_vals == Repeat(LAMBDA i : load_both, 2)

\* relaxed_demo.cpp, with two counters and one thread that only reads.
RelaxedDemo == <<increment("x"), increment("y"), read_vals>>

\* f, and g with its thread_guard, of detach_and_join.cpp: x is some_local_state,
\* which is gone after the join.
DetachAndJoin ==
    << <<write("x", 0), start, joined(1), write("x", -1)>>,
       <<begin>> \o Repeat(LAMBDA i : <<read("x"), write("x", i)>>, 2) \o <<finish>> >>

\* deadlock_demo.cpp: y is the box, 1 when the drum is taken and 2 the drumstick.  x
\* is written when a player has both; who gets one of them only begins again.
player == Repeat(LAMBDA i : <<add("y", 1, {0, 2}, 4 * i + 1, "acq_rel"),
                              add("y", 2, {0, 1}, 4 * i + 1, "acq_rel"),
                              write("x", i), store("y", 0, "release")>>, 4)
DeadlockDemo == <<player, player, player>>

Code == [sequential |-> Sequential, acquire_release |-> AcquireRelease,
         acquire_release_and_relaxed |-> AcquireReleaseAndRelaxed,
         read_write_relaxed |-> ReadWriteRelaxed,
         fence |-> OrderedWithFence, nonatomic |-> OrderingOnNonatomic,
         transitive |-> Transitive, cas |-> AsyncUsingCAS,
         read_queue |-> AtomicReadQueue, spinlock |-> Spinlock,
         initialization |-> Initialization, double_checked |-> DoubleChecked,
         call_once |-> CallOnce, protect_list |-> ProtectList, dns_cache |-> DnsCache,
         swap_obj |-> SwapObj, deadlock_demo |-> DeadlockDemo, pass_argu |-> PassArgu,
         thread_id |-> ThreadId, detach_and_join |-> DetachAndJoin,
         shared_future |-> SharedFuture, future_exception |-> FutureException,
         relaxed |-> RelaxedDemo]
-----------------------------------------------------------------------------
VARIABLES program,
          at,        \* the access each thread is at
          history,   \* the values of each variable, with what each releases
          view,      \* the oldest value of each variable a thread may read
          acquired,  \* what an acquire fence would add to view
          released,  \* what the last release fence found in view
          sc,        \* the oldest value of each that a seq_cst access may read
          z,
          got,       \* what a thread has seen or taken
          expected   \* the local variable of thread_2 in async_using_CAS.cpp

vars == <<program, at, history, view, acquired, released, sc, z, got, expected>>

Thread == DOMAIN Code[program]
Finished(t) == at[t] > Len(Code[program][t])
Access(t) == Code[program][t][at[t]]

Join(v, w) == [x \in Variable |-> IF v[x] > w[x] THEN v[x] ELSE w[x]]
Start == [x \in Variable |-> 1]

Init == /\ program \in Programs
        /\ at = [t \in Thread |-> 1]
        /\ history = [x \in Variable |-> <<[value |-> 0, view |-> Start]>>]
        /\ view = [t \in Thread |-> Start]
        /\ acquired = [t \in Thread |-> Start]
        /\ released = [t \in Thread |-> Start]
        /\ sc = Start
        /\ z = 0
        /\ got = [t \in Thread |-> <<>>]
        /\ expected = 1
-----------------------------------------------------------------------------
Acquiring(o) == o \in {"acquire", "acq_rel", "seq_cst"}
Releasing(o) == o \in {"release", "acq_rel", "seq_cst"}

\* What t knows before an access to x with this order.
Known(t, x, o) ==
    IF o = "seq_cst" /\ sc[x] > view[t][x] THEN [view[t] EXCEPT ![x] = sc[x]] ELSE view[t]

\* After an access to x, t goes on with this view.
Learn(t, x, o, new) ==
    /\ view' = [view EXCEPT ![t] = new]
    /\ sc' = IF o = "seq_cst" THEN [sc EXCEPT ![x] = new[x]] ELSE sc

\* The value t reads if it takes the i-th of x.
Load(t, x, i, o) ==
    LET new == [Known(t, x, o) EXCEPT ![x] = i]
        message == history[x][i]
    IN  /\ i \in Known(t, x, o)[x]..Len(history[x])
        /\ Learn(t, x, o, IF Acquiring(o) THEN Join(new, message.view) ELSE new)
        /\ acquired' = [acquired EXCEPT ![t] = Join(@, Join(new, message.view))]
        /\ UNCHANGED <<history, released>>

\* The new view of t, and what the new value of x releases.
Store(t, x, v, o) ==
    LET new == [Known(t, x, o) EXCEPT ![x] = Len(history[x]) + 1]
        carried == IF Releasing(o) THEN new ELSE [released[t] EXCEPT ![x] = new[x]]
    IN  /\ history' = [history EXCEPT ![x] = Append(@, [value |-> v, view |-> carried])]
        /\ Learn(t, x, o, new)
        /\ acquired' = [acquired EXCEPT ![t] = Join(@, new)]
        /\ UNCHANGED released

Last(x) == history[x][Len(history[x])]

\* A read-modify-write reads the last value, and passes on what that releases.
Modify(t, x, v, o) ==
    LET new == Join([Known(t, x, o) EXCEPT ![x] = Len(history[x]) + 1],
                    IF Acquiring(o) THEN Last(x).view ELSE Start)
        carried == Join(Last(x).view, IF Releasing(o) THEN new
                                      ELSE [released[t] EXCEPT ![x] = new[x]])
    IN  /\ history' = [history EXCEPT ![x] = Append(@, [value |-> v, view |-> carried])]
        /\ Learn(t, x, o, new)
        /\ acquired' = [acquired EXCEPT ![t] = Join(@, Join(new, Last(x).view))]
        /\ UNCHANGED released
-----------------------------------------------------------------------------
(***************************************************************************)
(* The accesses of a thread.                                               *)
(***************************************************************************)
Is(t, ops) == ~Finished(t) /\ Access(t).op \in ops
Goto(t, i) == at' = [at EXCEPT ![t] = i]
Advance(t) == Goto(t, at[t] + 1)

DoStore(t) ==
    /\ Is(t, {"store", "write"})
    /\ Store(t, Access(t).x, Access(t).v, Access(t).order)
    /\ Advance(t)
    /\ UNCHANGED <<z, got, expected>>

\* The loop ends, or goes round.
DoAwait(t) ==
    /\ Is(t, {"await"})
    /\ \E i \in DOMAIN history[Access(t).x] :
          /\ Load(t, Access(t).x, i, Access(t).order)
          /\ IF history[Access(t).x][i].value >= Access(t).v THEN Advance(t) ELSE UNCHANGED at
    /\ UNCHANGED <<z, got, expected>>

DoLoad(t) ==
    /\ Is(t, {"count", "see", "read", "check"})
    /\ \E i \in DOMAIN history[Access(t).x] :
          LET value == history[Access(t).x][i].value IN
          /\ Load(t, Access(t).x, i, Access(t).order)
          /\ z' = IF Access(t).op = "count" /\ value > 0 THEN z + 1 ELSE z
          /\ got' = IF Access(t).op = "see" THEN [got EXCEPT ![t] = Append(@, value)] ELSE got
          /\ CASE Access(t).op = "read" /\ program = "read_queue" -> Goto(t, 1)
               [] Access(t).op = "check" /\ value > 0 -> Goto(t, Access(t).to)
               [] OTHER -> Advance(t)
    /\ UNCHANGED expected

DoFence(t) ==
    /\ Is(t, {"fence"})
    /\ \/ Access(t).order = "acquire" /\ UNCHANGED released
          /\ view' = [view EXCEPT ![t] = acquired[t]]
       \/ Access(t).order = "release" /\ UNCHANGED view
          /\ released' = [released EXCEPT ![t] = view[t]]
    /\ Advance(t)
    /\ UNCHANGED <<history, acquired, sc, z, got, expected>>

\* test_and_set returns false. While it returns true it changes nothing.
DoLock(t) ==
    /\ Is(t, {"lock"})
    /\ \A m \in Access(t).free : Last(m).value = 0
    /\ Modify(t, Access(t).x, 1, Access(t).order)
    /\ Advance(t)
    /\ UNCHANGED <<z, got, expected>>

\* if (!resource_ptr) resource_ptr.reset(new some_resource)
DoInit(t) ==
    /\ Is(t, {"init"})
    /\ \E i \in view[t][Access(t).x]..Len(history[Access(t).x]) :
          \/ history[Access(t).x][i].value = 0 /\ Store(t, Access(t).x, 1, "relaxed")
          \/ history[Access(t).x][i].value = 1 /\ Load(t, Access(t).x, i, "relaxed")
    /\ Advance(t)
    /\ UNCHANGED <<z, got, expected>>

\* The thread that finds no such value goes elsewhere, or waits.
DoAdd(t) ==
    LET value == Last(Access(t).x).value IN
    /\ Is(t, {"add"})
    /\ \/ /\ value \in Access(t).when /\ Advance(t)
          /\ Modify(t, Access(t).x, value + Access(t).v, Access(t).order)
       \/ /\ value \notin Access(t).when /\ Access(t).to # 0 /\ Goto(t, Access(t).to)
          /\ UNCHANGED <<history, view, acquired, released, sc>>
    /\ UNCHANGED <<z, got, expected>>

\* Mutant of FetchSub: what is counted down may be an old value.
FetchSub_NotAtomic(t, x, i, o) == Modify(t, x, history[x][i].value - 1, o)

\* x.fetch_sub(1) when the i-th value of x is the last.
FetchSub(t, x, i, o) == i = Len(history[x]) /\ Modify(t, x, history[x][i].value - 1, o)

\* item_index is what fetch_sub returns; the loop ends when it is not positive.
DoTake(t) ==
    /\ Is(t, {"take"})
    /\ \E i \in view[t][Access(t).x]..Len(history[Access(t).x]) :
          LET item_index == history[Access(t).x][i].value IN
          /\ FetchSub(t, Access(t).x, i, Access(t).order)
          /\ \/ item_index <= 0 /\ Goto(t, Len(Code[program][t]) + 1) /\ UNCHANGED got
             \/ item_index > 0 /\ Advance(t) /\ got' = [got EXCEPT ![t] = Append(@, item_index)]
    /\ UNCHANGED <<z, expected>>

\* compare_exchange_strong: when it fails, expected becomes what was read.
DoExchange(t) ==
    /\ Is(t, {"exchange"})
    /\ \/ /\ Last(Access(t).x).value = expected
          /\ Modify(t, Access(t).x, Access(t).v, Access(t).order)
          /\ Advance(t)
          /\ UNCHANGED expected
       \/ \E i \in DOMAIN history[Access(t).x] :
             /\ history[Access(t).x][i].value # expected
             /\ Load(t, Access(t).x, i, "acquire")
             /\ expected' = history[Access(t).x][i].value
             /\ UNCHANGED at
    /\ UNCHANGED <<z, got>>

Step(t) == /\ \/ DoStore(t) \/ DoAwait(t) \/ DoLoad(t) \/ DoFence(t)
              \/ DoLock(t) \/ DoAdd(t) \/ DoInit(t) \/ DoTake(t) \/ DoExchange(t)
           /\ UNCHANGED program

\* main joins all threads and ends.
Done == /\ \A t \in Thread : Finished(t)
        /\ UNCHANGED vars

Next == (\E t \in Thread : Step(t)) \/ Done

Spec == Init /\ [][Next]_vars

\* The operating system runs the threads, and a loop does not read an old value
\* forever: a turn of it that reads one again changes nothing and is no step here.
FairSpec == Spec /\ WF_vars(\E t \in Thread : Step(t))
-----------------------------------------------------------------------------
Asserting == {"sequential", "acquire_release_and_relaxed", "fence", "nonatomic"}
Ended == \A t \in Thread : Finished(t)

(***************************************************************************)
(* What the programs come to: assert(z != 0) holds at the end of those     *)
(* that order their accesses enough (read_write_sequential.cpp:41,         *)
(* acquire_release_and_relaxed_demo.cpp:37, ordered_with_fence.cpp:33,     *)
(* ordering_on_nonatomic.cpp:33); a thread of relaxed_demo.cpp finds its   *)
(* own counter at the number of its turn, as printed there (:77); the      *)
(* consumers of atomic_read_queue.cpp take different items, and only items *)
(* that populate_queue has made; a resource is made once, by double-       *)
(* checked locking too if its racing read gives a value that was written.  *)
(***************************************************************************)
Outcomes ==
    /\ program \in Asserting /\ Ended => z # 0
    /\ program = "relaxed" =>
           \A t \in {1, 2} : \A i \in 1..Len(got[t]) \div 2 :
               got[t][2 * (i - 1) + t] = i - 1
    /\ program = "read_queue" =>
           \A t, u \in Thread : \A i \in DOMAIN got[t], j \in DOMAIN got[u] :
               /\ got[t][i] \in 1..number_of_items
               /\ got[t][i] = got[u][j] => t = u /\ i = j
    /\ program \in {"initialization", "double_checked", "call_once"} => Len(history["x"]) <= 2

(***************************************************************************)
(* No data race on a variable that is not atomic: who accesses it knows    *)
(* its last value, and no two threads are at accesses to it of which one   *)
(* writes.  Double-checked locking races, as its comment says              *)
(* (protect_initialization_bad.cpp:22).                                    *)
(***************************************************************************)
Plain(t) == Is(t, {"write", "read", "init", "check"})
Writes(t) == \/ Is(t, {"write"})
             \/ Is(t, {"init"}) /\ history[Access(t).x][view[t][Access(t).x]].value = 0
NoDataRace ==
    program # "double_checked" => \A t \in Thread : Plain(t) =>
        /\ view[t][Access(t).x] = Len(history[Access(t).x])
        /\ Writes(t) => ~\E u \in Thread \ {t} : Plain(u) /\ Access(u).x = Access(t).x

\* The programs end: what a loop waits for comes.  async_using_CAS.cpp is not
\* among them.
Ends == program # "cas" => <>Ended
=============================================================================
