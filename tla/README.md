# A TLA+ model of C--Concurrency

The repository holds data structures shared by threads, programs that synchronise
by locks, by condition variables or by memory order alone, parallel algorithms that
cut their input into tasks, and a cash machine made of three threads that send each
other messages.  This directory models the parts
with logic of their own, checks them with TLC on small instances and proves the
most important facts with TLAPS for every instance.  File names below are relative
to `src/`; everything was modelled from the code, since the repository has no
documentation besides comments, assertions and test programs.

Contents: 1. inventory, 2. the modules and the code, 3. the runs, 4. fairness,
5. the proofs, 6. disagreements found, 7. what is not modelled, 8. the plan.

## 1. Inventory

| Part | State | Operations | Interacts through | What is hard | What makes it correct |
|---|---|---|---|---|---|
| Two-lock queue, `Lock_based/threadsafe_queue.h` | linked nodes with a dummy at the end, `head`, `tail`, a mutex for each end, a condition variable | `push`, `try_pop`, `wait_and_pop` | the nodes, which both ends share in a short queue | the two ends meet; `notify_one` without the mutex that the waiter holds; node memory | no node touched by two threads at once, FIFO order, no lost wake-up |
| Single-lock queue, `Synchronizing/threadsafe_queue.h` | `std::queue`, a mutex, a condition variable | the same | the mutex | matching wake-ups and elements, spurious wake-ups, exceptions in a woken thread | FIFO order, nobody sleeps beside an element |
| Hierarchical mutex, `Sharing_data/hierarchical_mutex.h` | a level per mutex, the thread-local level, the level each mutex replaced | `lock`, `try_lock`, `unlock` | the wrapped mutexes, exceptions | saving and restoring levels through mutexes, equal levels | no circle of waiting threads, no mutex left locked |
| Cash machine, `Synchronizing/ATM/` | a queue per machine; the state function, PIN and amount of the machine; the balance of the bank | message handlers, one set for each state | messages only | late answers, cancels, messages no handler takes, shutdown | answers fit questions, no money appears, the program ends |
| Counted stack, `Lock_free/lock_free_stack1.h` | list of nodes, `threads_in_pop`, the list `to_be_deleted` | `push`, `pop`, reclaiming | three atomics and the `next` fields | deletion while others read, ABA, the empty stack | no node used after deletion, none leaked or deleted twice, LIFO |
| Hazard pointers and their stack, `Lock_free/hazard_pointer.cpp`, `lock_free_stack2.h` | an array of slots (owner, pointer), the reclaim list | claiming and freeing slots, `push`, `pop`, scanning, reclaiming | atomics | protection set after the load, scans slot by slot, threads that end | the same, and slots have one owner |
| Lookup table, `Lock_based/threadsafe_lookup_table.h` | buckets, each a list and a `shared_mutex` | `value_for`, `add_or_update_mapping`, `remove_mapping`, `get_map` | the bucket mutexes | `get_map` holds all buckets while it waits for the next; a snapshot of a moving table | operations atomic, no circle of waiting threads |
| Stack with shared pointers, `Lock_free/lock_free_stack3.h` | list of nodes held by `shared_ptr` | `push`, `pop` | `head` by `atomic_load` and `atomic_compare_exchange_weak` | a pop that still holds a node that has left and come back; `next` of a node rewritten by a failing comparison | LIFO |
| Stack with one mutex, `Sharing_data/threadsafe_stack.h` | `std::stack`, a mutex | `push`, `top`, three pops | the mutex | elements whose copies throw | LIFO, no element lost to an exception |
| Sorter, `Design/sorter.cpp` | a stack of chunks, a promise for each, the vector `threads`, `end_of_data` | `do_sort`, `try_sort_chunk`, `sort_thread`, the destructor | the chunks, the promises | everyone waits for chunks while sorting others on top of its own calls; `threads` tested and extended without a lock | lists sorted, somebody always works, the limit of threads, all threads joined |
| Parallel algorithms, `Design/parallel_*.h`, `ManageThreads/parallel_accumulate.cpp` | a range per task, the flag `done_flag`, futures or threads | `parallel_find`, `parallel_for_each`, two kinds of `parallel_accumulate` | futures, the flag, joins | early end of a search, exceptions in one task of many, deferred tasks, block bounds | the answer of the sequential algorithm, no task outlives the call |
| Programs by memory order, `Atomic/` | two or three atomics, plain data | stores, loads, fences, read-modify-writes | memory order | stale values, different orders for different readers | the assertions, no data race, ends |
| Lazy initialisation, locks, threads and futures in small programs, `Sharing_data/`, `ManageThreads/`, `Synchronizing/` | plain data under a mutex, a `shared_mutex`, two mutexes, a flag, a join or a future | two to four threads of a few accesses each | the lock, flag, join or future | who knows of which write, two locks in two orders | no data race, one initialisation, ends |
| List with a mutex per node, `Lock_based/threadsafe_list.h` | nodes and mutexes | `push_front`, `for_each`, `find_first_if`, `remove_if` | hand-over-hand locking | does not compile | - |
| List of pairs, `Sharing_data/threadsafe_list.cpp` | `std::list` of value and mutex | `insert`, `remove`, `traverse` | locks released before they are needed | races, a deadlock the code admits | - |
| Quick sort with one task per half, `Synchronizing/*quick_sort.h` | - | one recursive function | a future | nothing is shared | - |
| `C11_Features/`, `Timer.h`, `acout.h`, build files | - | - | - | nothing concurrent | - |

`PROJECT.json` lists forty hazards; thirty-seven have a property, the other three are
behaviours that the program has (`transitive.cpp:22`, `async_using_CAS.cpp:12`,
`lock_free_stack3.h:21`, see section 6).  Hazards that are left off that list, because nothing covers them or
because another of the same kind stands for them:

- not covered: an element whose move throws in the two-lock queue
  (`Lock_based/threadsafe_queue.h:46`); unlocking hierarchical mutexes out of order
  (`hierarchical_mutex.h:34`); `limits--` below zero (`hazard_pointer.cpp:116`); a
  table of no buckets (`threadsafe_lookup_table.h:67`) and the random engine shared
  by the threads of its test; the list `to_be_deleted` that grows while pops overlap
  without a pause (`lock_free_stack1.h:48`); a batch size of one, with which the
  halving never ends (`parallel_find.h:8`); the timeout of `cond_wait.cpp:15`;
- shown on purpose, or undefined: the uninitialised pointer of `consumed_demo.cpp:25`;
  a reference that outlives its variable (`detach_and_join.cpp:25`); the race of
  `stack_race_cond.cpp:19`; the removal of the wrong element and the deadlock of
  `Sharing_data/threadsafe_list.cpp:91` and `:129`; a load with
  `memory_order_release` (`ordered_with_fence.cpp:16`);
- allowed: an assertion that may fire and says so
  (`read_write_acquire_release.cpp:45`); consumers that leave before there is anything
  to take (`atomic_read_queue.cpp:23`);
- not a hazard as the code is: the order in which a thread that ends clears its hazard
  pointer and frees its slot (`hazard_pointer.cpp:43`), as the only client has cleared
  the pointer before.

## 2. The modules and the code

A module is a component: its variables are the fields of the class (or the locals
of a thread that outlive a step), an action is one stretch of code between two
accesses to something another thread may access.  Where code holds a mutex from
beginning to end, and touches nothing that is shared outside of it, the whole
operation is one action.  `pc` says where a thread is in its operation.  Every
definition that stands for code has its lines in `map` of `PROJECT.json`.
Definitions named `X_Something` are mutants: `X` with a plausible bug, used to see
that a property would notice it.

**Two-lock queue.** `ThreadsafeQueue` has one action per access to the list.
`push` is `PushAlloc` (the allocations, outside the lock), `PushLock`, `PushData`,
`PushLink`, `PushTail` (and unlocking) and `PushNotify`.  The pops are `PopBegin`,
`PopLock`, then `PopFound`, `TryPopEmpty` or `WaitPopEmpty` (the call of `get_tail`
and the comparison), `WaitBlock` (the atomic part of `wait`: unlock and sleep),
`WaitRelock`, and `PopHead` (unlink, unlock, delete).  The evaluation of the
predicate and going to sleep are two steps, because `push` does not hold
`head_mutex`: that is where a notification is lost.  Nodes are members of a finite
set that are reused at once when deleted, so that a dangling pointer meets new
contents.  The overloads of a pop that return a pointer and that fill a reference
share their actions.  `FifoQueue` is what a queue promises: `Push`, `Pop` and
`FindEmpty` as atomic steps.  Its `result` is the last answer given to anyone, so a
step of the detailed queue that answers wrongly is a wrong step of the abstract one.

**Single-lock queue.** `CondQueue`: `Push`, `TryPop`, `WaitAndPop` are whole
operations under the mutex; a blocked thread is in `waiters`, a notified one in
`woken` until it has the mutex again, when it finds an element (`WokenPop`), finds
none (`Rewait`) or fails to copy it (`WokenThrow`).  `lost` counts such failures.

**Hierarchical mutex.** `HierarchicalMutex`: `LockCheck` and `LockAcquire` are the
two halves of `lock`, between which a thread blocks; `TryLockAcquire`,
`TryLockFails`, `Unlock`, `Throw`.  The clients hold mutexes through `lock_guard`
as `hierarchical_mutex_example.cpp` does; `guards` is a thread's stack of them and
`Catch` an exception unwinding it.

**Cash machine.** `Messaging` is the queue and the chain of handlers: `Send`,
`Handle` (the next message has a type some handler takes), `Drop` (it has not).
`AtmMachine`, `BankMachine` and `InterfaceMachine` have one action per handler,
which includes everything the handler does; a state function that prints a prompt
when entered has the action `Prompt`.  `AtmSystem` instantiates the three on three
queues and adds the driver: keys, `q`, the three calls of `done` and the joins.
`done` only sends a `close_queue` message; each thread ends when it takes it.  A
message carries the one member the program looks at; account names are left out.
`abandoned` is a history variable: questions whose state a cancel has left.

**Stacks.** `LifoStack` is what a stack promises, `LinkedStack` the list, the memory
and `push`, the same code in the three stacks without locks.  `LockFreeStack` is
`lock_free_stack1.h`: `pop` from `PopEnter` to `PopCas`, then `try_reclaim` in its
branches (`ReclaimAlone`, `Exchange`, `RecheckAlone`, ... , `ChainCas`, `Leave`).
`HazardPointers` is the array of `hazard_pointer.cpp` with threads that come and go,
and `HazardStack` extends it by `lock_free_stack2.h` and the reclaim list:
`Protect` and `Validate` for the inner loop of `pop`, `LookOn`, `Protected`,
`Unprotected` for one comparison of the scan, `PopReclaim`, `Exchange` and
`ListReclaim` for what becomes of a node.  `compare_exchange_weak` may fail for no
reason (`PopRetry`, `PushRetry`).  A pop takes effect at its exchange, but returns
later: the refinement mapping of `HazardStack` gives the answer of a pop that has
its node and has not yet moved the element.  `crowded` is a history variable that
says whether more threads than slots have ever wanted one.  `SharedPtrStack` is
`lock_free_stack3.h`: a node lives while `head`, a node or a local pointer leads to
it (`Release` after each step), and a comparison that fails replaces the local
pointer.  An empty stack answers with an element, `NewElement`, the value of a new
`T`, and that is what the answer of an empty stack is in its refinement of
`LifoStack`.  Nothing keeps that value from being pushed, too (in the run it is one of
the two that are): a caller cannot tell the answer of an empty stack from an element
of the stack, and the refinement does not say that it can.  `ThreadsafeStack` is `threadsafe_stack.h`: the
copy of the top (`CopyTop`) and its removal (`Remove`) are two steps under the mutex,
and each copy may throw instead.  `Stacks` puts the four classes side by side: the
variable `class` says which one a behaviour is of, and the variables the class does
not have stand still.  The variables of `HazardStack` are its own, so that the run
checks the very properties that are proved; the other three share a second set
(`other_head` and so on).  `MCStacks` only gives the constants values.
`ImplementsStack` is the refinement of the stack with hazard pointers,
`OthersImplementStack` that of the others, each with the answer it gives when empty.
`next` of a node is a plain field in `lock_free_stack1.h`; the model reads and writes it
as a whole (see the end of section 7).

**Lookup table.** `LookupTable`: an operation on a key is a call, `LockBucket`,
`Find` and the work on what was found with the unlocking (`ValueFor`,
`AddOrUpdateMapping`, `RemoveMapping`).  `found_entry` is the iterator, as an index.
`get_map` locks (`MapLock`), copies (`MapCopy`) and unlocks (`MapUnlock`) one bucket
at a time.  `AtomicMap` is what the table promises; the abstract map is read off the
lists.

**Sorter.** `Sorter`: a list to be sorted is the set of its elements, as its order
is arbitrary; `Split` picks any element as the pivot, and the chunk of the smaller
ones goes by that pivot: `lower` is its data, `promise` its promise.  `stack[t]` is
the stack of `do_sort` calls in thread `t`, because a thread that waits for a chunk
sorts others on top of the call that waits, and a call that has a list for its caller
must not give it to the call that happens to be below (`Return`).  The test of
`threads.size()`, the start of the worker and the two ends of `push_back` are four
steps (`TestThreads`, `StartThread`, `PushBegin`, `PushBack`), since nothing protects
the vector; two threads at it at once set `raced`, which ends the behaviour, because
what the program does then is undefined.  `overtaken` is a history variable: some
thread has tested the size between the test and the `push_back` of another.  Turns of
`sort_thread` that find no chunk change nothing and are not steps.

**Parallel algorithms.** `ParallelAlgorithms`: five functions, named by the variable
`algorithm`, that differ in how they cut a range (`Parts`: halves or blocks), which
part they work on themselves (`Direct`) and what they do with the results.  A task
goes by its range; it begins, works through a short range element by element or
makes other tasks, and then waits for its own part, gets the results of the others in
order (`Get`) and leaves when those it must wait for have ended (`Waited`: a future of
`std::async` and `join_threads` wait in their destructors).  A turn of the loop is
one step (`LoopTurn`) where tasks share nothing but the elements.  In `parallel_find`
it is up to three, the load of the flag (`Load`), the comparison (`Compare`) and the
store in the flag (`Store`, also the one in `catch`), so that several tasks may have
passed the load when one of them matches or throws, and may then match or throw
themselves.  A load with `memory_order_acquire` may miss a store that has been made;
as the flag is set once and for all and a comparison shares nothing, such a load is
one that was made before the store.  The library may defer a
task, which then runs when its result is got, or never.  An element that throws ends
the task with `Thrown`, or the process where nobody catches it
(`parallel_accumulate.cpp`).  A sum is the sequence of what was added, so that a part
that is missing, doubled or out of order shows.  `Parallel` puts `Sorter` and these
algorithms side by side as `Stacks` does: where `algorithm` is `"quick_sort"` the
sorter goes on and the ranges stand still, else the other way round.  `Vectors` says
for each algorithm what its input may be.

**Programs by memory order.** `MemoryOrder` interprets small programs, written down
as sequences of accesses with the memory order the code gives them.  The memory is
the external part: a variable is the sequence of all values it has had (its
modification order), each with a *view*, the knowledge it releases; a thread has a
view, the oldest value of each variable it may still read; a load takes any value
not older than that, and an acquiring one joins the view found with the value; a
release fence, an acquire fence, read-modify-writes that carry on a release sequence
and `seq_cst` accesses are as the standard has them for programs in which a variable
is accessed with `seq_cst` always or never, which is the case here.  Two behaviours
of the standard are missing.  A load never takes a value that is stored later (load
buffering): only the threads of `relaxed_demo.cpp` could do this, and what is
checked of them, that each finds its own counter at its own value, does not depend
on it.  A store never goes into the middle of a modification order: that needs two
stores to one variable that are not synchronised, and no program has them.  A plain
variable is accessed like a relaxed one, and `NoDataRace` says that the access was
safe.  So it does not matter that the model gives a racing access some value: a
program that raced would be reported.

The programs that synchronise otherwise are written in the same accesses.  A mutex is
a flag that is taken and cleared, a `shared_mutex` a count of readers by twos, and
`std::lock` takes its two mutexes in one go or waits.  The start of a thread is a
release that it acquires (`start`, `begin`), its end a release that the join acquires
(`finish`, `joined`); a future is a flag.  The variable is what the lock, the join or
the future protects; what is in it (a list, a map, a string) is left out.

| Program | File |
|---|---|
| `Sequential`, `AcquireRelease` | `read_write_sequential.cpp`, `read_write_acquire_release.cpp` |
| `AcquireReleaseAndRelaxed` | `acquire_release_and_relaxed_demo.cpp` |
| `OrderedWithFence`, `OrderingOnNonatomic` | `ordered_with_fence.cpp`, `ordering_on_nonatomic.cpp` |
| `Transitive` (`data[5]` is one variable) | `transitive.cpp` |
| `AsyncUsingCAS` | `async_using_CAS.cpp` |
| `AtomicReadQueue` (the vector is one variable) | `atomic_read_queue.cpp` |
| `Spinlock` (three users) | `spinlock_mutex.cpp` |
| `RelaxedDemo` (two counters, one reader), `ReadWriteRelaxed` | `relaxed_demo.cpp`, `read_write_relaxed.cpp` |
| `Initialization` (`foo`, two callers), `DoubleChecked` | `Sharing_data/protect_initialization_bad.cpp` |
| `CallOnce` (three callers) | `Sharing_data/protect_initialization_good.cpp` |
| `ProtectList`, `DnsCache` | `Sharing_data/protect_list.cpp`, `shared_mutex_demo.cpp` |
| `SwapObj`, `DeadlockDemo` (three players) | `Sharing_data/swap_obj.cpp`, `deadlock_demo.cpp` |
| `PassArgu`, `ThreadId`, `DetachAndJoin` (`f` and `g`) | `ManageThreads/pass_argu.cpp`, `thread_id.cpp`, `detach_and_join.cpp` |
| `SharedFuture`, `FutureException` | `Synchronizing/shared_future_demo.cpp`, `future_exception.cpp` |

## 3. The runs

| Run | Instance | Distinct states | Question |
|---|---|---|---|
| `two_lock_queue` | 2 producers with a value each, 2 consumers, both pops, 3 nodes | 349551 | safety, FIFO refinement and progress of the two-lock queue |
| `two_lock_lost_wakeup` (violation) | 1 producer, 2 consumers, `wait_and_pop` only | - | can a consumer sleep for ever beside an element? |
| `cond_queue` | 3 threads, 2 values, 3 elements, 1 failing copy | 4399 | safety, refinement and wake-ups of the single-lock queue |
| `hierarchy` | 3 threads, 4 mutexes on 3 levels | 107303 | levels, exceptions, no circle |
| `atm_safety` | 8 keys, PINs of 2 digits, balance for one withdrawal | 2089420 | questions and answers, PINs, money |
| `atm_live` | 5 keys, PINs of 1 digit | 185506 | shutdown, answers to questions |
| `atm_denied` (violation) | 6 keys | - | does every withdrawal end? |
| `stacks` | 3 threads, 2 values; 2 slots and 2 nodes with hazard pointers, 3 nodes (elements) in the other three | 337227 | slots, memory, and the LIFO refinement of the four stacks |
| `counted_stack_empty` (violation) | 2 threads | - | is a pop of an empty stack safe? |
| `lookup_table` | 2 threads, 3 keys in 2 buckets, 2 values | 22987 | locks, iterators, atomicity of every operation |
| `memory_order` | all 23 programs, 8 items, 2 turns of each loop | 11115 | assertions, data races, ends |
| `parallel` | 4 elements to sort, 0, 2 or 3 cores; ranges of 0, 1 or 5 elements | 135490 | sorting, waiting, threads; answers and exceptions of the parallel algorithms |

**What the properties say.** The runs whose modules keep structured data have one type
invariant each; those of `HierarchicalMutex` and `HazardStack` are proved and not
among the properties of the runs.  The others:

- `MemorySafe`: what a push or a pop is about to touch is allocated, not null, and
  at the other end from what the other side touches.
- `ImplementsFifo`, `ImplementsStack`, `OthersImplementStack`, `ImplementsMap`: every step is a step of the
  abstract object or changes nothing its callers see.  What callers see of a pop of an
  empty stack is a null pointer, but for `lock_free_stack3.h`, where it is an element.
- `PushesGoOn`: pushes get done whatever consumers do with `head_mutex`.
  `ServedByLaterPush`: while pushes keep coming, nobody sleeps for ever beside an
  element.  `WaiterServed` is the same without the condition; it holds for the
  single-lock queue (when no copy throws) and fails for the two-lock queue.
- `EnoughWoken`: while threads are blocked, the elements are no more than the woken
  threads and the wake-ups lost to exceptions.
- `LevelsTracked`, `GuardsOwn`, `NoCircularWait`: the thread-local value is that of
  the newest mutex held, a mutex is locked exactly while a guard of its owner
  exists, and no set of threads waits for mutexes of itself.
- `ConfirmedPin`, `AnswersMatch`, `MoneyConserved`: the menu is reached by a confirmed
  PIN; one question is open at most;
  what is booked is what is handed out, will be, or was granted before a cancel.
  The last two name `abandoned`: after a cancel with an answer outstanding the
  program does lose money and can take the old answer for the answer to a new
  question.  `ShutsDown`, `QuestionsAnswered` are the liveness of it.
- `NoUseAfterFree`, `NodesAccounted` of the stack with hazard pointers: a node a pop
  has validated is allocated, and unchanged when it is compared with `head`; every
  allocated node is in exactly one place.  `CountedNodesSafe` says the same of the
  stack that counts the threads in `pop`, and that its counter is right.
- `SlotsOwned`, `ThrowsOnlyIfTooMany`: a slot belongs to the one thread that names
  it, a free one protects nothing; the exception is thrown only if at some time
  there were more threads than slots.
- `OnePairPerKey`, `EntryValid`, `NoCircularWait` of the table: one pair for a key;
  what a search found still holds when it is used; no circle of waiting threads,
  `get_map` included.
- `Outcomes`, `NoDataRace`, `Ends` of the programs: the assertions of four of them, the
  rows of `relaxed_demo.cpp`, consumers that take different items and only items that
  were made, a resource that is made once; whoever accesses a plain variable knows its
  last value and no other thread is at it when one writes; every program but
  `async_using_CAS.cpp` ends.
- `ListsSorted`: each promise is set to its own chunk, sorted, each waiting call gets
  its own higher part, and the result is the whole list in order.  `SomebodyWorks`: while
  the list is not sorted there is a chunk to take or a thread that can go on.
  `LimitKept`: more than `max_thread_count` workers run only after a thread has been
  overtaken.  `Reclaimed`: after the destructor every worker has ended.
- `RightAnswers`: a search that is stopped by the flag is not taken for one that has
  found nothing; every element is dealt with once, added once and in the order of the
  blocks, and an exception is not lost.  `NoTaskLeft`: when the call returns, no task
  that uses the caller's flag or elements is running.  `AllReturn`: every call of the
  sorter and of the algorithms returns, throws or ends the process, or has raced.

**The bounds, and why they are enough.** Two consumers and two producers are the
fewest with which a notification can go to the wrong thread and a push can wait for
another; three nodes are a dummy, an element and a node being pushed, so the queue is
empty, has one element, or is full of them, and a node is reused while another
thread remembers it.  Three threads in a stack are a pop that hesitates, one that
takes its node and one that brings the node back; two nodes are enough for that with
hazard pointers (three take minutes and show nothing new), and three nodes for the
chains of `to_be_deleted`.  Two slots for three threads make the exception happen.
Three threads and two mutexes of one level give circles of two and of three.  Three
keys in two buckets give a list of two pairs and a bucket that `get_map` has yet to
lock.  `MaxKeys` bounds the keys before `q`, `MaxAhead` how far the user types ahead,
`MaxLen` the queue of `CondQueue`, `MaxFaults` its failing copies; eight keys with
PINs of two digits are a complete session and the beginning of another one.  An
amount and a balance of one make the first withdrawal succeed and the second fail.
Four elements to be sorted, different or each value twice, give chunks of every size
from none to three, calls that wait on top of calls that wait, and more chunks than
workers; 2 cores leave room for
one worker, 3 for two, and 0 (unknown) wraps to `UINT_MAX`, here 1000.
Ranges of five are halved with a batch size of three (and of `default_size`, 2, where
the code forgets to pass the size on), which makes tasks of one and of two elements,
or cut into `hardware_threads`, 3, blocks of different lengths; 0 and 1 are the ends of
the scale.  At most three elements match or throw: one task succeeds or fails before,
or together with, one or two others.  Eight of the twenty items of `atomic_read_queue.cpp` let
the two consumers share the items in any way and leave the counter below zero.
Symmetry is used in runs without liveness only.

## 4. Fairness

`ThreadsafeQueue!FairSpec`, `CondQueue!FairSpec`: an operation that has begun goes
on when it can (weak fairness for each thread), because the operating system runs
every thread; nothing makes a thread begin an operation, and a condition variable
need not wake anyone spuriously.  `std::mutex` promises nobody a turn, so nothing
stronger is assumed.  `AtmSystem!FairSpec`: the three threads take the messages that
are there and `main` finishes what it has begun; the user need not press any key,
not even `q`. `Parallel!AllSpec`: every thread of the sorter runs; of the other
algorithms some task that can go on does.  `MemoryOrder!FairSpec`: the program as a
whole goes on, and a loop does not read an old value for ever, as the standard asks
of implementations (a store becomes visible in finite time); a turn of a loop that
learns nothing is not a step of the model; nor is a turn in which a thread finds a
lock taken.  In `deadlock_demo.cpp` this says that somebody gets drum and drumstick,
not that everyone does in time. The other specifications have no liveness property
and no fairness.

## 5. The proofs

All are for any sets of threads, nodes, values and so on, from the assumption named
in the module that declares the constants.

- `ThreadsafeQueueProofs`: `TypeCorrect`, `MemorySafety`, `Refinement`.  The invariant
  `IInv` adds to the types: which mutex is held where (`LockInv`); a node being pushed
  is known to its push alone (`PrivateInv`); the other allocated nodes are linked from
  `head` without branches, all but `tail` have a successor among them (`ListInv`);
  what a pop found out about `head` still holds (`TakeInv`).  `MemorySafe` alone is
  not inductive: that the successor of `head` is allocated after a pop follows only
  from the shape of the whole list.  For these two the shape is stated by successors,
  without a path from `head` to `tail`, so that no induction is needed. `Refinement`:
  the queue implements `FifoQueue`, as long as the memory is finite.  The order of the
  elements does need the path: `RouteInv` says that there is a sequence of different
  nodes of the list that leads along `next` from `head` to `tail` (`Route`), and
  `CallInv` that a call keeps its arguments.  The path is unique (`WayIsUnique`), so
  that `Contents`, which chooses a path, is the data along it.  A push makes the path
  longer by its new dummy when it moves `tail` (`RouteLonger`), a pop shorter by the
  first node when it moves `head` (`RouteShorter`); no other step changes it.
- `CondQueueProofs`: `TypeCorrect`, `NoLostWakeup` (`EnoughWoken` with the types is
  inductive; the steps are the counting of woken threads) and `Refinement`, that the
  queue implements `FifoQueue`, step by step.
- `HierarchicalMutexProofs`: `TypeCorrect`, `LevelsAreTracked`, `NoMutexLeaks`,
  `DeadlockFreedom`.  `IInv` adds that each mutex remembers the level below it on its
  owner's stack (`PreviousInv`) and that a waiting thread has passed the check with
  the value it still has (`WaitInv`).  A waiting thread wants a level below all it
  holds; in a set of threads that waits within itself the one that wants the lowest
  level would wait for a thread that wants a lower one still.
- `HazardStackProofs`, for any threads, values, number of slots and memory, as long as
  the memory is finite (`MemoryAssumption`).
  - The array: `ArrayTypes`, `ArraySlots`, `ArrayNoThrow` about `HpSpec`, the array with
    any client, and `SlotsHaveOneOwner`, `NoThrow` about the stack, which is one
    (`IsAClient`).  A search never sees the whole array at once, so that it finds a
    slot is not obvious.  Until there have been too many threads there is room ahead
    (`RoomAhead`): beyond slot `i` there are at most `max_hazard_pointers - i` threads,
    searching or settled, since a search passes a slot only if its owner stays there.
    For the last `i` this says that no search has come to the end.
  - The nodes: `TypeCorrect`, `NodesKept` (`NodesAccounted`).  `PlacesInv`: there is a
    sequence of nodes that is the list from `head` (`Chain`), and it, the reclaim list
    and the nodes of each thread share out the allocated nodes between them (`Apart`).
    Each action moves one node, or one list, from one place to another.
  - No use after free, no ABA: `NodesSafe` (`NoUseAfterFree`).  `GuardInv`, for a node
    that a pop has validated and not yet compared: it is allocated, it is not the new
    node of a push, and a thread that is about to delete it has not yet compared it
    with the hazard pointer of that pop (its `look` is no farther than the pop's slot).
    So it will find the pointer and put the node back.  When the pop validates, the
    node is `head`, hence on the stack and with nobody who could want to delete it.
    `NoUseAfterFree` itself says nothing of those who want to delete a node and is not
    inductive.
  - `Refinement`: the stack implements `LifoStack`.  The contents of the stack are the
    data of the `Chain` (`ContentsIs`); a push takes effect at its exchange, a pop at its
    exchange or when it has seen an empty stack twice.  That the exchange of a pop removes
    exactly the first element is `NoUseAfterFree`.
  - The list functions (`Segment`, `Contents`) are recursive functions: that they exist
    and have the values expected is shown by a least number for which they have not.

- `OtherStacksProofs`, for any threads and values and any finite memory:
  `CountedStackSafe`, `CountedRefinement`, `SharedPtrRefinement`, `LockingRefinement`,
  and `OthersRefinement` of the composition.  What `HazardStackProofs` says of lists
  holds for the lists of these stacks, too: `List` is an instance of that module.
  - The counted stack.  `CountingInv` says who is counted (`CountingControl`) and
    where every node is: there are sequences that are the list from `head`, the one
    from `to_be_deleted`, and the piece of a list each thread has taken, as far as it
    has followed it (`Piece`: a whole list after the exchange, a strand from `first`
    to `last` while it is put back), and these and the single nodes of the threads
    share out the allocated nodes between them (`CountingPlaced`).  Each action joins,
    parts or moves such pieces (`Joined`, `StrandJoins`).
  - `Relies`, for a node that a pop is about to read or has read: it is allocated, and
    no thread is about to delete it or to push it as new (`Doomed`); while it is on
    the stack its `next` is what the pop has read.  A thread deletes a node of its own
    when it has seen a counter of one, and then it is the only one in `pop`
    (`OnlyOne`).  The nodes of `to_be_deleted` that it has taken it deletes when the
    counter is one again *after* it has taken them: a pop that begins in between is
    counted, and one that begins later cannot find them, as they have left the stack.
    `CountedNodesSafe` does not say who is about to delete a node, and is not
    inductive.  That a node comes back to `head` with another `next` is excluded by
    the same: it would have to be deleted first.
  - The stack with shared pointers.  `SharedInv`: a node is not deleted while a
    thread has a pointer to it (`Shares`), so what `pop_cas` has read of `next` stays.
    `Release` keeps what `head` and the threads reach (`SharedReleased`).
  - The stack with one mutex.  `HeldInv`: what a pop has copied is the top until it
    removes it.

- `LookupTableProofs`: `TypeCorrect`, `KeysAreUnique`, `EntriesStayValid`,
  `DeadlockFreedom`.  `LockInv` says from `pc` and `at` which buckets a thread has
  locked or shares (`HasLocked`, `Shares`), and that the mutexes say the same and
  exclude each other; `CallInv` that an operation has its arguments.  With these,
  `OnePairPerKey` and `EntryValid` are inductive together: who adds a pair has found
  none with the key and has had the bucket to itself since.  In a set of threads that
  waits within itself somebody waits for a thread that itself waits, hence for one
  in `get_map`, as a thread that waits for the bucket of a key has locked none; and of
  those in `get_map` the one that has come farthest waits for a bucket that none of
  the others has reached.
  `Refinement`: the table implements `AtomicMap`.  An operation on a key takes effect
  in its last step.  `get_map` takes effect when it has copied the last bucket: what it
  has copied so far is what those buckets still hold, as they stay locked (`MapInv`).
  The map of `AtomicMap` is read off the lists by the first pair with a key, which is
  the only one.
- `AtmSystemProofs`: `TypeCorrect`, `OneQuestion`, `MenuNeedsPin`, `NoMoneyLost`, for
  any PIN, amount, opening balance and bounds.  The three queues are described by how
  many messages of a kind are in them, and the lemmas `SendFacts` and `TakeFacts` say
  what a message more or less does to that number.  `AnswersMatch` is inductive with
  the types. `PinInv`: while no cancel has left an answer behind, the PIN in the
  question, and the PIN that the answer is about, is the machine's, which does not
  change until the answer has come.  `MoneyInv`: there are numbers `b` of withdrawals
  the bank has booked and `i` of notes handed out, so that the balance and `issued`
  are what they say (`Ledger`), and `b` exceeds `i` plus what is promised or granted
  by no more than the questions that were abandoned (`Losses`).  `MoneyConserved` is
  not inductive: a request on its way to the bank becomes a loss if the user has
  cancelled meanwhile, so that requests have to be counted with the losses they may
  become.
- `ParallelProofs`, the sorter: `TypeCorrect`, `LimitIsKept`, `SortedResult`,
  `NoDeadlock`, `AllReclaimed`, for any finite set of elements, keys, limits and numbers
  of cores; `SorterSafe` says the same of `AllSpec`, the specification of the run.
  - The limit.  While nobody has been overtaken, one thread at most is between the test
    of the size and the end of `push_back` (`StoreInv`), so that the vector is as long as
    the number of workers, or by one shorter while that thread's worker is not yet in
    it.  To know that a thread that returns, helps or calls does not bring up an old
    call in the middle of these steps, the invariant says that all calls below the
    inmost one wait (`InnerInv`).
  - The result.  `SortInv`: a call has the list its caller or its promise wants
    (`Target`), and what it has so far of it is right for the step it is in (`Good`); an
    element that is still to be sorted has been no pivot yet (`Fresh`), and no two calls
    or chunks are to sort the same one (`Apart`), which is why a promise is set once and
    the list of a chunk stays as it was.
  - No deadlock.  A call waits for a chunk that is on the stack, being sorted, or sorted
    (`KeptInv`).  Pivots have ranks, in the order in which they were chosen, and in the
    calls of one thread, from the outside in, the pivots that are waited for and
    the chunks that are sorted rise (`RankInv`): a thread helps only with chunks made
    after its own.  If everybody waited, the thread that waits for the pivot of
    highest rank would wait for a chunk that another thread sorts in a call on
    top of which it waits for a pivot of a still higher rank.
  - The workers.  A worker ever started is in the vector, or a thread older than it, that
    has started it, is about to store it (`WorkersInv`).  If workers were missing when
    the destructor has joined all in the vector, the oldest of them would be about to
    be stored by `main`, which is in the destructor, or by a stored one, which has
    ended.
- `ParallelProofs`, the algorithms that cut a range into parts: `AnswersRight`,
  `NoTaskOutlives`, for any vectors, sizes of batches and blocks and numbers of cores.
  - The parts of a range are ranges, not empty but for that of an empty whole, and
    follow each other from its first to its last element (`ManyBlocks` for blocks,
    `TwoHalves` for halves, `Divided` for both).  So two tasks have ranges that are
    disjoint, or one lies in a part of the other (`RangeTree`), and each element is
    dealt with in one short range (`AppliedOnce`).
  - `RangeControl` is what a task knows in each of its steps, down to its answer
    (`Outcome`): an exception only if an element of its range throws, a match only where
    there is one, a sum of just its elements, in order (`Upto(a, b)`).  The future that it
    gets next begins where the sum so far ends.
  - A task of `parallel_find` answers "nothing" if nothing matches in its range *or
    the flag is set*, which is too little to know of the whole range.  `FlagSet`: who
    sets the flag has itself ended with something else.  `NothingInside`: if a task
    answers nothing, so did every task that has ended within its range.  `NoneInside`:
    nothing goes on in the range of a task that has ended, so none will do so later.
    The whole range contains all others; so if it answers nothing, the flag is not
    set, and nothing matches.  Between the comparison and the store a task has its
    answer, which is not "nothing" (`AnswerKnown`), while others go on as if there were
    none: they have loaded the flag before, or will load it unset; that does no harm,
    since the task that is about to set it lies in the whole range, which cannot end
    before it.  `Answers` speaks of the whole range only and is not
    inductive.
  - An exception that nobody catches ends the process (`ProcessEnded`): `RangeInv` is
    that, or all of the above, or that the behaviour is one of the sorter.

An induction over the length of a list, or over threads, is written as the choice of
a least counterexample in a set of natural numbers (`LeastNumber` and the like).

The assumptions are that sets of threads, elements, keys and nodes are finite where
the program has finitely many, that numbers are numbers (the keys of the sorter are
integers, `SorterAssumption`; amounts are not negative, `AtmAssumption`), and that
null is no node (`StacksAssumption` and others).  Nothing is assumed of the element
that a pop of an empty `lock_free_stack3.h` answers with.  The elements of a range match, throw or do
neither, and a batch has at least two elements, as with less the halving never ends
(`RangesAssumption`; the program has 1000000).  TLC evaluates all of them in the runs.

Model-checked only:

- All liveness (`PushesGoOn`, `ServedByLaterPush`, `WaiterServed`, `ShutsDown`,
  `QuestionsAnswered`, `Ends`, `AllReturn`), which is out of reach of the prover, as is
  everything about `ENABLED`.  So `Reclaimed` says nothing of whether the destructor
  gets through, and `NoDeadlock` is about conditions that are written out.
- `Outcomes` and `NoDataRace` of `MemoryOrder`.  They are about 23 given programs,
  each with a handful of threads and accesses, so that TLC checks all there is, but
  for the number of items of `atomic_read_queue.cpp` and of turns of the loops of
  `relaxed_demo.cpp`, `detach_and_join.cpp` and `deadlock_demo.cpp`.  There is no
  invariant for all of them: each program needs one of its own, with the views of each
  thread at each of its accesses.

## 6. Disagreements found

- **Lost wake-up** (`two_lock_lost_wakeup`).  `push` (`Lock_based/threadsafe_queue.h`)
  changes the queue and calls `notify_one` without `head_mutex`, under which
  `wait_and_pop` looks at the queue and goes to sleep.  A push in between notifies
  nobody.  `ServedByLaterPush` shows that later pushes make up for it.
- **Refused withdrawal** (`atm_denied`).  The bank answers `withdraw_denied`, for which
  the cash machine has no handler; it waits until the user cancels.
- **Pop of an empty stack** (`counted_stack_empty`).  With another pop running,
  `pop` of `lock_free_stack1.h` passes a null pointer on and writes through it.

Seen while modelling, without a run of their own:

- `transitive.cpp` stores `sync2` relaxed, so its assertions (`:28-34`) can fail:
  with `"transitive"` among the programs of `Asserting`, TLC finds `Outcomes` violated.
- `async_using_CAS.cpp` does not reset `expected`, so `thread_3` can wait for ever:
  without the exception for `"cas"`, TLC finds `Ends` violated.
- Double-checked locking races, as the comment in `protect_initialization_bad.cpp:22`
  says, so that the standard gives it no meaning; `NoDataRace` leaves it out.  `Outcomes`
  says of it only that the resource is made once *if* a read in a race gives one of the
  values that were written, as the model has it.
- `sorter.cpp` tests `threads.size()` and calls `push_back` in any thread without a
  lock (`:86-89`): a data race, and more threads than `max_thread_count`, also without
  the race, since a worker that is not stored yet may start another.  `LimitKept`
  holds only up to `overtaken`.
- `parallel_for_each.h` and `parallel_accumulate_using_async.h` do not pass
  `max_chunk_size` on to the part the caller works on itself, which has the default.
- `ordered_with_fence.cpp` releases with a load.
- `pop` of `lock_free_stack3.h` answers to an empty stack with `std::make_shared<T>()`
  (`:37`), where the other stacks without locks return a null pointer.  Its callers cannot
  tell that from an element `T()` of the stack, and the destructor of the class,
  `while (pop());` (`:19-23`), which takes a null pointer for the end, never ends.  The
  refinement shows the first: its answer for an empty stack is a value that may be
  pushed.  The second follows from the one expression: no path of `pop` returns null.

## 7. What is not modelled, and why

The table of the inventory and `components` of `PROJECT.json` list every file.  What
is left cannot be modelled faithfully, or has no behaviour to check:

- It does not compile or is commented out: `Lock_based/threadsafe_list.h` (`next` is
  a `unique_lock`, and which class was meant cannot be told),
  `Lock_free/lock_free_queue.h`, `pop_effcient` of `lock_free_stack2.h` with
  `delete_nodes_with_no_hazards_with_limit`, which only it calls, `empty()` of the
  two-lock queue, `cond_demo.cpp`.
- It is undefined from its first steps: `Sharing_data/threadsafe_list.cpp`, whose locks
  are gone before the list is changed; `stack_race_cond.cpp`; `oops` of
  `detach_and_join.cpp`; `consumed_demo.cpp`.
- One thread, or one library call: `C11_Features/`, `protect_oop.cpp`,
  `unique_lock_demos.cpp`, `launch.cpp`, `atomic_variables.cpp` and the like,
  `async_demos.cpp`, `spawn_task.h`, `wait_duration.cpp`.  No thread sets `done` in
  `cond_wait.cpp`; `main` of `packaged_task_demo.cpp` waits twice for one task.
- The quick sort of `Synchronizing/`: a recursive function whose tasks share nothing;
  what a partition and a concatenation come to is checked in `Sorter`.

Left out of modelled components: elements whose moves throw; the copy constructors,
which make an object that no other thread knows; unlocking hierarchical mutexes in
another order than a `lock_guard` does; `cancel_withdrawal`, which nobody sends; the
destructor of `lock_free_stack3.h`, which calls `pop` for ever (section 6), as any
thread of the model may; wording and printing.

What the models simplify, for a reader who relies on them:

- `next` in `lock_free_stack1.h` is a plain field, which `chain_pending_nodes` may write
  while a pop reads it.  By the letter that is a data race; the model takes the
  accesses as whole reads and writes, as the hardware does.
- `Withdraw` of the bank sends its answer and then books the amount (`bank_machine.h:46`,
  `:47`) in one step; nobody but the bank looks at the balance in between.
- In `MemoryOrder` a write after a read is not seen as a race if relaxed accesses alone
  order the two.  `std::lock` takes both mutexes at once, as it promises, so that `Ends`
  shows nothing of how it avoids deadlock; and the endless loops of `swap_obj.cpp` and
  `deadlock_demo.cpp` have a few turns.
- Weak fairness gives a thread that waits for a mutex its turn, if the mutex is free
  again and again in every state from some point on; the C++ standard promises less.
- `raced` is set only if two threads are at the vector of the sorter at the same time.
  Two accesses one after the other that nothing orders are a data race, too.  What
  `LimitKept`, `Reclaimed` and `AllReturn` say of the vector (`sorter.cpp:86`) is what
  remains true besides that race: they do not say that the limit holds, or that the
  program is well-defined, where threads meet there.

## 8. The plan

Done, in this order: the two queues, the hierarchical mutex, the cash machine, the
stacks without locks, the lookup table, the programs by memory order; then the stacks
with shared pointers and with one mutex, the sorter, the parallel algorithms, the
small programs of `Sharing_data`, `ManageThreads` and `Synchronizing`; the theorems
of section 5.

Next, models: moves that throw in the two-lock queue (a half-finished pop under a
`lock_guard`); a client of the hierarchical mutex that unlocks out of order; runs that
exhibit the failing assertion of `transitive.cpp` and the endless loop of
`async_using_CAS.cpp`; the hand-over-hand list, should it be made to compile.

Next, theorems: that a program all of whose accesses to a plain variable are made under
a mutex, or ordered by starts and joins, has no data race, for any such program of
`MemoryOrder` and any number of threads.
