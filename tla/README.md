# A TLA+ verification of the Multicore-Programming repository

The repository collects assignments on multicore programming in C and C++:
threads and semaphores (`a1`), bounded queues with locks and with atomics
(`a2`), lists, and a library of concurrent containers that they are compared
with (`a3`). This directory holds TLA+ models of its concurrent programs, TLC
configurations that check them on small instances, and proofs, checked by TLAPS,
of what holds for every instance.

Every definition is a translation of the code as it is, its races included.
Where a comment of the code promises more than the code does, a run finds the
violation (see *What the code does not do*). `PROJECT.json` says for every
definition which lines it models, and for every property which bug breaks it.

## The system

`AC` stands for `a3/AlgorithmCollection-master`.

| Component | Source | State | Operations | Talks to |
|---|---|---|---|---|
| Blocking queue | `a2/blocking2.cpp` (`block_q.cpp`: the same with tracing) | `head`, `tail`, array `A`, mutexes `Elock`, `Dlock` | `enq`, `deq`, `Print` | called by every thread of the bench |
| Non-blocking queue | `a2/nonblock_q.cpp` (`non_block2.cpp`: the same) | atomics `head`, `tail`, array `A` | `enq`, `deq`, `print` | called by every thread of the bench |
| Test bench | the rest of those four files | `_random`, `index`, `total_cals`, `test_bench` | `random_gen`, `threadFn`, `main` | calls the queue; threads share `index` and `total_cals` without a lock |
| Philosophers | `a1/phil_deadlock.c`; `philos.c` and `philosopher_1.c` without tickets | `food`, `phil_sem`, `chopstick[]`, mutex `food_lock` | `food_left`, `get_ticket`, `pick_chop`, `drop_chop`, `return_ticket` | neighbours share a chopstick, all share the tickets and the food |
| Condition variable | `a1/condvar.c` | `count`, `count_mutex`, `count_threshold_cv` | `inc_count`, `watch_count` | a signal from an incrementer to the watcher |
| Lists | `AC/list/*List.c` (five) | nodes with keys and pointers; one mutex, a mutex per node, marks, or flags, marks and backlinks | `add`, `delete`, `find` | called by the workers of a bench |
| Skiplists | `AC/list/*kiplist.c` (three) | towers of pointers; one mutex, recursive mutexes and the bits `marked`, `fullyLinked`, or marked pointers | `add`, `delete`, `find` | the same |
| Hash tables | `AC/hash/*Hash.c` (six) | chained buckets or arrays of entries, a count of the keys; one mutex, striped mutexes, one per bucket, or two arrays of them | `add`, `delete`, `find`, growing | the same |
| Linked queues | `AC/queue/*LockFreeQueue.c` (two) | a chain of nodes, two ends; counted pointers, or LL/SC with reference counts | `enq`, `deq` | the same |
| Benches of the collection | `AC/list/stub.c`, `AC/hash/stub.c`, `AC/queue/stub.c` | barrier and end counts with mutex and condition, `check[]`, statistics | `main`, `workbench`, `master_thread`, `worker_thread` | call a container, free it at the end |
| Other queues | `a2/nbq.cpp`, `blocking.cpp`, `blocking1.cpp`, `non_block*.cpp`, `queue.cpp` | as above | as above | not modelled |
| Prime search, array loop | `a1/prime_thread*.c`, `prime2thread.c`, `arrayloop.c` | bounds, results, a counter | thread functions | not modelled |
| Linked list | `a3/llist_stan.cpp` | a chain of nodes | insert, delete, search by position | not modelled |
| Lock-free list draft | `a3/List_head.h`, `List.h`, `llist_lf*.cpp` | - | - | marks are stubs, the constructor dereferences a null pointer, two files do not compile: there is no initial state to model from |
| Exercises and demos | the remaining files of `a1`, `a2`, `Basics`, `Hello`, `mcpeg` | none of interest | - | sequential, or calls into a library |

Hard behaviours: in the blocking queue an `enq` and a `deq` hold *different*
locks and touch the same two variables; in the non-blocking queue the tests for
full and empty and the claim of a slot are separate accesses; two counters of
the bench are incremented by everybody; the philosophers wait for one another in
a ring; a signal is lost when nobody waits for it and `pthread_cond_wait` may
return without one. In the collection, searches walk over links that change,
a pointer and its mark or count are loaded one after the other, tables grow
while others look up, a key is for a moment in two places or in none, and the
main thread may abort while workers run. Nothing is persisted and no messages
are sent, so crash recovery and lost messages do not arise.

What makes each component correct:

* bounded queues: linearizable, first in first out, at most `MAX_SIZE` elements,
  no element lost, duplicated or invented, stores inside the array, locks given back;
* benches: every thread leaves, with all calls counted and nothing used after it
  is freed; the verdict is right;
* philosophers: neighbours exclude each other, no deadlock, tickets and meals add up;
* condition variable: the wakeup is not lost, the update comes after the limit,
  the final count is the sum;
* lists, skiplists, tables, linked queues: linearizable (a set, a map, a FIFO
  queue); the structure is in order at every moment; calls return.

## Modules

### Queues, philosophers and the condition variable (`a1`, `a2`)

`BoundedQueue` is the abstract specification: a sequence of at most `Capacity`
elements, calls that take effect atomically between their start and their
return. An `enq` on a full queue and a `deq` on an empty one do nothing. Both
queues are compared with it by a refinement mapping.

`BlockingQueue` models `blocking2.cpp`. One step is one access to memory. The
threads are compiled with no optimisation (`a2/Makefile`), and the committed
binary shows that every read and write in the source is one load or store, and
that `head = tail = 0` and `tail = head = -1` store the right-hand variable,
read it back and store the left-hand one; so do `EnqFirst` and `DeqResetEnds`.
`pc[t]` names the access a thread performs next and `r[t]` is the register it
loaded last. `A[-1]` exists: it is the word before the array.

`NonBlockingQueue` models `nonblock_q.cpp`, one step per access to an atomic.
`A` maps the slots of the array (`Slots`) that were stored so far to their elements.
The counters never wrap, so an enq may claim a number that is no slot. Its store
(`StoreOutside`) hits whatever lies behind the array, and ends the behaviour: nothing
is claimed of what happens after it (`Overrun`). `lim` and `pos` are the values a call has loaded, which may be stale.
`SpuriousFailure` allows the failures that `compare_exchange_weak` permits.
The loads are `memory_order_relaxed`; the counters are changed only by
compare-and-swap and the machine is x86, where loads are not reordered with
loads, so an interleaving of accesses is what can be observed. The initial load
of `start` in `deq` (line 47) is overwritten before it is used and left out.

`TestBench` models `threadFn`, `random_gen` and the joins of `main`, for the
three ratios (`test_bench`), with a queue call that takes any time. `index++`
and `total_cals++` are a load and a store each. `k[t]` is the comparison a
thread is at: each comparison of `_random[index+tid]` reads `index` anew.
`Beyond` says what may be found behind the numbers, a new word at each comparison
(in the composed program it is the words of the queue, and `Foreign` behind the variables).
A thread that draws there may find no branch for ever; that is the one way in which
the bench may not end, and `EndsUnlessBehind` says that there is no other.

`BlockingBench` composes the two: `TestBench` and `BlockingQueue` are instances
over their shared memory. In the committed binary `_random` ends where `A`
begins and `A` where `index` begins; `Memory` says what `_random[j]` then reads.
`MCBench` runs the bench with a queue of which only the calls are known
(`which = "any"`) and the composed program (`which = "blocking"`).

`Philosophers` models `phil_deadlock.c`. Because `food` is touched under
`food_lock` only, and its holder waits for nothing, `FoodLeft` is one step.
Thinking, eating and `getchar` always end; `DropLeft` ends the meal.

`CondVar` models `condvar.c`. `pthread_cond_wait` gives the mutex up and starts
waiting in one step (`Test`), wakes by a signal (`Signal`) or without one
(`WakeSpuriously`), and takes the mutex again (`Reacquire`).

### Containers (`AC`)

`ThreadSteps` is what all containers share: threads that call, `pc` and local
variables (`my`), a memory (`heap`), and the abstract specification. `Effect`
says what a set, a map and a queue promise of one call. `configs` is a history
variable that runs this specification beside the code: it holds every abstract
container that the results so far allow, with the results of the calls that
have taken effect there and have not returned. When a call returns, the configurations
that explain its result are kept (`Answer`); none is left exactly when the
history is not linearizable. No linearization points have to be named, which
matters where they are not fixed (a `find` of the lazy list that fails).

A node is named by the number of the call that creates it; nodes are never
reused, as the code never frees one while it runs (`_FREE_` is not defined, and
in the LL/SC queue nodes never become `FREEABLE`). A key is stored with a value that
the key determines.

| Module | Code | One step is |
|---|---|---|
| `ListMemory` | nodes, chains, mutexes of nodes | |
| `CoarseGrainedSynchroList` | `CoarseGrainedSynchroList.c` | the lock; everything under it with the unlock |
| `FineGrainedSynchroList` | `FineGrainedSynchroList.c` | the taking of one mutex with what was done under the last |
| `LazySynchroList` | `LazySynchroList.c` | one access while no lock is held; the accesses that nobody else can see are joined |
| `NonBlockingList` | `NonBlockingList.c` | one access; a pointer and its mark are one word each. What a search has found (`pred`, and `next` when it starts again itself) outlives it |
| `LockFreeList` | `LockFreeList.c` (Fomitchev and Ruppert) | one access; the calls of `helpFlagged` and `helpMarked` are a stack of frames. A copy of a successor field loads two words, in an order the compiler chooses (`PointerFirst`) |
| `SkiplistMemory` | levels and towers | |
| `Skiplist` | `Skiplist.c` | the lock; everything under it with the unlock |
| `LazySkiplist` | `LazySkiplist.c`, `concurrent_skiplist.h` | one access, one lock |
| `LockFreeSkiplist` | `LockFreeSkiplist.c` | one access |
| `HashMemory` | mutexes of a table | |
| `Hash` | `Hash.c` | the lock; everything under it with the unlock |
| `StripedHash` | `StripedHash.c` | the hash; the lock; the bucket; the size; one lock of a resize |
| `RefinableHash` | `RefinableHash.c` | the same, and each stage of a resize |
| `CuckooHash` | `CuckooHash.c` | the lock; everything under it with the unlock |
| `OpenAddressHash` | `OpenAddressHash.c` | the same |
| `ConcurrentCuckooHash` | `ConcurrentCuckooHash.c` | one lock; everything under the two locks; each stage of `relocate` |
| `CASLockFreeQueue` | `CASLockFreeQueue.c` (Michael and Scott) | one access; count and pointer are loaded one after the other |
| `LLSCLockFreeQueue` | `LLSCLockFreeQueue.c` (Doherty, Herlihy, Luchangco and Moir) | one access |

Steps are joined only where no thread can tell: what is done under one mutex by
all users of the data, an unlock with the last access before it, and accesses to
a node that no other thread has seen yet. A loop that changes reference counts
until a compare-and-swap succeeds is its one successful change, since its failures change
nothing. The collection is compiled with `-g -Wall -D_X86_64_` and no
optimisation, so accesses are those of the source; its shared words are changed
by locked instructions or under a mutex, and x86 keeps the order of loads and the order of
stores.

A chained bucket of a table is the set of its keys: it is an ordered list that
only the holder of its mutex walks. The level of a new skiplist node is any
level. Each table and skiplist starts from several contents, so that two or three
calls make it grow, wrap, evict or unlink.

`MCLists`, `MCSkiplists`, `MCHashTables` and `MCQueues` choose in the initial
state which container a behaviour is about (`which`); `MCMaps` joins skiplists
and tables. A thread that uses memory that is not there, or whose `assert` fails, ends
in `crashed`; `Linearizable` says of every container that this does not happen.

Some of the containers are right only for callers that respect a condition. The
conditions are part of the run (`apart`):

| Container | Calls assumed | Because |
|---|---|---|
| `NonBlockingList` | a `delete` runs alone | the search stores `UNMARKED` into the nodes it passes, also into one just marked (119) |
| `LockFreeList` | `delete` not together with the others; `add` and `find` only of absent keys that no pending call names | `add` and `find` compare with the key of the predecessor, which is always smaller; pointer and flags are loaded one after the other (174); a `tryFlag` whose predecessor has another successor loops for ever (216) |
| `LockFreeList`, flags loaded first (`which = "lockfree_mark"`) | the same, and overlapping `delete`s are of the same key | `tryMark` uses the flags of one successor with the pointer of another (264-266), and helps to remove the tail: the assertion at 105 fails |
| `Skiplist` | `delete` of present keys | it answers true for absent ones, though its comment (229-236) says false |
| `LazySkiplist` | no `find` together with `add` or `delete` | `find` answers with the value of whatever node follows the predecessor by then, which may be another key's |
| `LockFreeSkiplist` | no `find`; `add` and `delete` not together | `find` starts one level above the highest, where the pointer is `NULL` (405-410) |
| `Hash`, `StripedHash`, `RefinableHash` | `delete` of present keys | the walk follows the `NULL` at the end of the bucket |
| `StripedHash` | no `find` together with `add` | `find` computes its bucket once and does not check it again after the lock |
| `RefinableHash` | the table grows with no other call pending | the mutexes that the new buckets use are destroyed with the old buckets (426) |
| `CuckooHash` | adds that fit after `Tries` resizes | `add` gives up after ten |
| `OpenAddressHash` | `add` of absent keys | it does not look for the key |
| `ConcurrentCuckooHash` | a list overflows with no other call on it | `relocate` reads the first key of a list without its mutex (456) |

The order in which `LockFreeList` loads the two words of a successor is the same for all
its copies. gcc with the flags of `Makefile.in` (no `-O`) loads the pointer first, and then
`delete`s of any keys may overlap, the assertion included; with the flags first, which C
permits as well, only `delete`s of one key may. The run has both.

The benches of the collection never call `find`, and their workers add and delete keys
of their own, each once, so they respect the conditions of `Skiplist`,
`LazySkiplist`, `Hash`, `StripedHash` and `OpenAddressHash`. They do not keep
deletes away from the adds of slower workers, nor a growing table to itself.
Behaviours without the conditions are explored too, with one call fewer, for the
properties that need none: `Ordered`, `LevelsNested` and, for lists,
`CallsReturn`.

### Benches of the collection

`Workbench` models `list/stub.c`: `workbench` creates master and workers, any of which
may fail; the workers meet at a barrier, put `item_num` keys each into the
container and take them out again; the last to come wakes the others; the
master waits until all have ended, frees the container, adds up and says OK or
FAILED; `workbench` joins and frees the statistics. What happens under
`begin_mtx` or `end_mtx` is one step. `WakeMaster` and `WakeWorker` are wakeups
without a signal. The container does each call at one instant. The runs above show
that only of callers that respect the conditions named there, so `Workbench` speaks of
containers without such a condition, or of benches that keep it. It is a sequence of
items: `Found` says where the item is that a worker asks for. `queue/stub.c`, where a
worker gets whatever comes first, is an instance of `Workbench` in `MCWorkbench`;
`HashWorkbench` is `hash/stub.c`, where the right
total is an `int` product that may overflow (`Wrapped`). Place 0 of `check[]`
is not used, and the arrays of `list/stub.c` and `hash/stub.c` have no place for one item
more: `Places` is the length of the array, and a bench whose items do not fit has no
initial state. `WorkbenchState` holds
the state and the properties of all three, `MCWorkbench` runs them.

The `MC...` modules give values to the constants, the `...Proofs` modules hold
the theorems. Definitions marked *mutant* are plausible bugs; they are used by
no specification. Each property is known to fail when the definition that
PROJECT.json names is replaced by its mutant.

## Runs

| Run | Instance | What it shows |
|---|---|---|
| `blocking_guarded` | 3 threads, 3 slots, 2 values | `TypeOK`; refinement of `BoundedQueue` while overlapping calls find the ends apart |
| `blocking_race` | 2 threads, 3 slots | violated: `EmptyMeansBothEnds` |
| `nonblocking_calls` | 3 threads, 2 slots, 5 calls | `SlotsAccounted`, `OverfullBound`, `FewCallsFit`; every call returns, up to the first store behind the array |
| `nonblocking_pair` | 3 threads, 3 slots, 5 calls, spurious failures | `HeadBehindTail` and refinement of `BoundedQueue` while no two enqs and no two deqs overlap, up to the first store behind the array |
| `bench` | 2 threads, 2 calls, 2:1, any words behind the numbers | `NeverOvercounted`, `BenchIsLongEnough`; whenever threads wait for a lock some call ends (`LocksGivenBack`); the bench ends unless the threads still in it draw behind the numbers for ever (`EndsUnlessBehind`) |
| `philosophers_tickets` | 5 philosophers, 4 tickets, 7 portions | exclusion, accounting, no deadlock; everybody leaves |
| `condvar_run` | the code's constants 10, 12, 125, spurious wakeups | no lost wakeup, final count, termination |
| `lists` | each list (`LockFreeList` for both orders of loads), 2 threads, 3 calls, 2 keys, every initial content | `Linearizable`, `ContentsExplained`, `Ordered`, `CallsReturn` |
| `maps` | each skiplist (2 levels, 2 keys) and table, 2 threads, 3 calls | `Linearizable`, `ContentsExplained`, `Ordered`, `LevelsNested`, `NoCopies`, `SizeCounts` |
| `queues` | each linked queue, 2 threads, 4 calls | `Linearizable`, `ContentsExplained`, `TailAfterHead` (every set of nodes that holds the head and with a node its successor holds the tail), `CallsReturn` |
| `queues_lockfree` | the same, 2 calls | violated: `LockFree` |
| `workbench` | the three benches, up to 3 workers and 3 items that fit into `check[]`, ints of 6 bits, spurious wakeups, failing `pthread_create` | `NobodyStartsEarly`, `NoUseAfterFree`, `EachItemOnce`, `RightVerdict`; the bench ends |

Why the bounds are enough. The bounded queue is interesting when it is full,
when it is empty, when it holds one element and when the ends wrap; two or three
slots reach all four, several times, because the blocking model does not bound the
number of calls. A third thread makes two of one kind compete while one of the
other kind runs. The counters of the non-blocking queue only grow, so its runs
bound the calls (`MaxCalls`): with two slots, three threads and five calls two
threads can pass the test for full together, elements are taken out while others are
put in, and an enq comes that finds room in the queue and none in the array. With three slots and five
calls the queue of `nonblocking_pair` fills up, drains and runs out of its array in turn. With `MAX_SIZE = 2`
a bench thread can set `total_cals` back and two
threads run past the array, far enough in the composed program to draw from `A`.
Where the queue is unknown, every class of words is behind the array, with those that select no branch. Five
philosophers are the code's own number; seven portions make each of them stop.

`MaxCalls` counts the calls of all threads together. In the containers three calls
are two that overlap and a third that has to make sense of what they have left;
contents of every kind are there from the start, so no calls are spent on
filling. Two keys give a node a neighbour, and a call that meets another at the
same node or next to it. Two levels tell a node that is linked below only from one
that is linked everywhere. The tables start one or two calls from
growing: nine keys in two buckets for the chained ones, three of four entries for
open addressing, lists one below `probe_size` for the concurrent cuckoo table;
`Tries` is 2 for the code's 10. The linked queues need four calls: two that find
a tail that lags and a dequeue of each. In the benches two or three items per worker make
the loops go round, three workers leave two asleep at the barrier, six items
overflow an `int` of six bits, and nine just fit into the `check[]` of `queue/stub.c`. `SumUpTo` and `Wrapped` do the code's arithmetic.

The runs of `NonBlockingQueue` switch deadlock checking off, because a run ends
when its calls are used up. Everywhere else a deadlock is an error; programs
that have ended stutter (`Joined`, `Done`). For the containers that makes the
absence of deadlock a result for every one of them, for callers of every kind, with one
exception: the instance of `ConcurrentCuckooHash` has two buckets. With four mutexes or
more, and the bench has 16, an `acquire` and an `aLock` may wait for one another (`ConcurrentCuckooHash.c:52`); no run covers that.

Fairness. `WF_vars(Step(t))` per thread: the operating system does not suspend a
thread that can run for ever. Nothing is assumed of mutexes and semaphores: weak
fairness lets a thread lose a contended lock again and again, and POSIX promises
no more. That is why `LocksGivenBack` says that *some* enqueuer gets on, and
`CallsReturn` that again and again no call is pending. Nobody is owed a spurious
wakeup or a spurious failure: in the liveness run of the non-blocking queue `SpuriousFailure`
is off (x86; the proofs do not depend on it), in those of the condition variable
and of the benches the sleepers have to be woken by the signal. `EverybodyLeaves`,
`EverybodyFinishes` and `CallsReturn` hold all the same because food, iterations and
calls run out. `CallsReturn` leaves out `LockFreeList`, whose `delete` may loop for
ever, and the LL/SC queue, which has a run of its own.

`GuardedSpec`, `OneDequeuerSpec` and `PairSpec` restrict the callers, not the
code, just as `apart` does: they state the condition under which the code is
right. One thread alone satisfies all three.

## What the code does not do

Two comments of the code are refuted by runs of their own:

* `blocking2.cpp:32` assumes that both ends are -1 when the queue is empty. The
  two locks do not protect that: an `enq` that meets the `deq` of the last
  element leaves one end at -1 for good (`blocking_race`).
* `LLSCLockFreeQueue.h:2` calls the queue lock-free. A `deq` that finds it empty
  loops while the version of `head` is the one it loaded, so it returns only
  when another `deq` has changed `head` (`queues_lockfree`).

The modules state some more properties that the code does not have and no run
checks, for the reader who wants to see a trace; put them in the place of the
invariants of the configuration named here.

* `WritesStayInArray` (`BlockingQueue_race.cfg`): an `enq` overtaken by the `deq` of
  the last element stores to `A[-1]`.
* `Bounded` (`NonBlockingQueue_calls.cfg`): two enqs that pass
  the test for full together overfill the queue that `nonblock_q.cpp:1` calls bounded
  (`OverfullBound` says by how much at most).
* `SlotsInArray` (the same): `nonblock_q.cpp:8` says that `MAX_SIZE` is the size of the array
  that stores the queue. Neither counter is wrapped around it, and the test for full compares
  their difference: once an element has been taken out, the queue accepts one more
  than the array has slots and stores it behind (41). `FewCallsFit` says how long it holds.
* `UpdatesAfterLimit` (`CondVar_run.cfg`): `condvar.c:6-9` says that the watcher
  modifies `count` when the limit is reached; `count` is modified before it is
  tested again, so a spurious wakeup adds 125 early.
* `TotalIsCalls`, `DrawsFromArray` (`MCBench.cfg`): the bench loses counts and
  draws behind its numbers.
* `NoDeadlock` with as many tickets as philosophers: `philos.c` deadlocks in
  spite of the nap of philosopher 1.
* `Linearizable` without `apart =>`, for the containers of the table of
  conditions above.

Seen while modelling, and outside the models: `ConcurrentCuckooHash.c:327` initialises
one mutex more than there are (`<=`); with the greatest number of threads and of items
`check[]` of `list/stub.c:55` and `hash/stub.c` has no element for the last key,
`queue/stub.c:43` has (`Places`); the
compare-and-swaps of an `ExitTag` cover eight of its twelve bytes, so `nlP` and
`toBeFreed` never change and no node is freed. The counts of keys in the
striped, refinable and concurrent tables are changed under different mutexes; the
models load and store them separately. Two crashes of `ConcurrentCuckooHash` (the first
key of an empty list, a resize that does not fit) are branches of the model that
the instance does not reach.

## Proofs

All theorems hold for every value of the constants that satisfies the named
`ASSUME`s of the modules (sizes are positive, thread sets are finite, a free
lock has no owner among the threads, `Null`, the dummy nodes and the sentinels of a list
have no number, and the keys have a smallest and a greatest, as `int`s do).

**`BlockingQueueProofs`.** `TypeCorrect`: the ends stay in `-1 .. MAX_SIZE-1`
however the calls overlap, so `A[-1]` is the *only* word outside the array that
can be hit. `ApartMakesItAQueue`: `GuardedSpec` implements `BoundedQueue`. The
abstract queue is the ring of elements from `head` to `tail` as its owners see
it (`QueueIs`), and the ring lemmas say what an element more or less makes of
it. The invariant beside `TypeOK` has five parts: a thread is in the body of
`enq` or `deq` exactly while it holds that lock (`LocksHeld`); an `enq` and a
`deq` in progress mean two elements or more (`Guard`); the ends are both -1 or
neither is, but for the middle of a chained assignment (`EndsAgree`); and what each of the two
has read and written so far (`EnqKnows`, `DeqKnows`). It is needed because the
registers and the half-done updates are what the next step goes by.
`ApartKeepsTheComments` follows: the comment at line 32 is then true and
`A[-1]` is left alone (`LoneStep`). `OneThreadHasAQueue` shows that a single
thread, as in `block_q.cpp`, needs no condition at all.

**`NonBlockingQueueProofs`.** `EverySlotHasOneOwner` (every slot below `tail` was
stored once or is about to be, by one thread), from the invariant that a
writer's slot lies below `tail`; `OverfillIsBounded`, where each thread that has passed
the test for full holds a credit of one element, and the credits and the
elements together never exceed `MAX_SIZE + |Threads| - 1`: the thread that
passes the test saw room, and head and tail only grow; `FewCallsStayInside`:
no enq claims a slot outside the array while there have been at most `MAX_SIZE` calls
(`CallsCover`: the numbers claimed and the enqs that are about to claim one are no more
than the calls); `TurnsKeepHeadBehind`,
where the only dequeuer's `end` is at least `head`; and `TurnsMakeItAQueue`:
`PairSpec` implements `BoundedQueue` up to the first store behind the array, which
with `FewCallsStayInside` does not come in so short a run. The abstract queue is the slots from
`head` to `tail`; an element is in it from the claim of its slot on, a step
before it is stored, because no `deq` reads the slot in between.

**`TestBenchProofs`.** `NothingCountedTwice` and `NobodyLeavesEarly`. The
property is not inductive: a thread between the load and the store of
`total_cals++` needs `reg[t] + |Counting| <= calls` (`RoomToCount`).
The two are carried over to the composed program (`ProgramCounts`) by the lemma
`ProgramRunsTheBench`: each of the program's steps is a step of the bench, or of the queue inside
a bench call, which the bench does not see; that a draw is one the bench allows
(`DrawnFromWords`) needs the type invariant of the queue, because `_random[j]`
may be a word of `A` or one of its ends. `BlockingQueueProofs` is instantiated
for this, with the bench's threads, and its lemmas are used by name.

**`PhilosophersProofs`.** Exclusion, tickets and meals from one inductive
invariant that adds who holds which chopstick (`Held`); and
`TicketsPreventDeadlock` for every `PHILOS` and every `Tickets < PHILOS`: if
nobody can move then everybody who waits for a left chopstick has a right
neighbour in the same position, so (`RingClosed`) all `PHILOS` philosophers
are inside, with fewer tickets. Going around the ring is an induction, done by
taking the smallest element of a set of naturals (`SmallestElement`).

**`CondVarProofs`.** `WakeupIsNeverLost`, for every number of incrementers, every
limit, and with or without spurious wakeups; inductive together with who
holds the mutex. `FinalCountCorrect`: the increments done are a set of pairs of
thread and iteration (`Counted`); `count` is its cardinality, and 125 more once
the watcher has woken up; when all have ended it is the whole product.

**`WorkbenchProofs`.** `BarrierHolds` and `FreedWhenDone`, for every number of
workers and items and every container, with wakeups that nobody asked for and
threads that cannot be created. Neither property is inductive. `Counted` ties
the two counters to the sets of workers that are in and through; a counter that
has reached `thread_num` therefore says that *all* are (`CountBelow`, by the
cardinality of an interval). `Barrier` and `MasterWaits` carry that on when
the counter is no longer looked at, and `FreedInTime` says what `main` knows
when it frees: it has joined everybody, or it has failed before it created the
last worker, so that all the others wait at the barrier and touch no statistics.
`ItemsTakenOnce`: an item that has been put in is in the container or checked
off, never both (`Checked`), the container holds none twice (`Distinct`), and it holds
as many as the workers have still to take out (`Credited`): each worker has a
credit for every item it has put in and not taken one out for. In the queue a
worker gets anybody's item, so only the numbers agree, and they suffice.
`ItemsAddUp`: the verdict is FAILED exactly if what the program holds to be the right
total (`Expected`) is not the sum of the items, so that in `list/stub.c` and
`queue/stub.c` it is OK. In every state what the workers have in `sum` is the sum of
the items that are checked off (`AddedUp`); `Sums` says that without recursion, with
the sums of the first k values as a function, so that one more value is one more
function (`SumsChange`) and not an induction. The fold by which `total` adds up is the
last of these sums (`FoldIsSum`, with the sums over every set of indices), and the
numbers from 1 to n add up to `SumUpTo(n)`. That `Expected` of `hash/stub.c` is
wrong exactly when the product overflows is what the run checks.

**`MCQueuesProofs`.** The two linked queues, for every number of threads and calls:
first the queue of Michael and Scott. `TailStaysAfterHead`: the head reaches the tail. `NobodyFollowsNull`: no
call ends in `crashed`. `LinksAreFinal`: a linked node stays linked and keeps its
successor, and head's count tells whether head has moved. "Reaches" is said
without recursion: every set of nodes that is closed under `next` and holds the
one holds the other. With that the induction along the list becomes four lemmas
about functions (`AddedNode`, `LinkedNode`, `OneFurther`, `OneLess`). The
invariant (`Inv`) says of the nodes that a linked one leads to linked ones only
and never back to itself (`Loopless`), and of a call what its local variables
still mean: while head's count is the one loaded (`SameHead`) and the two
pointers loaded differ (`Apart`), the tail is not at the head (`TailSeen`) and
the head has a successor (`NextSeen`). That is why `deq` may take a node out
after it has compared pointers of which one is old: were the tail at the head
by then, head would have moved, and the compare-and-swap of head and count fail.

`CASQueueIsLinearizable` and `CASQueueHoldsItsElements` are about what `enq` and
`deq` return and leave behind. The invariant is `Explaining`. The linked nodes have
an order (`Row`), in which those behind the head hold the contents (`Values`).
`Possible(p)` says that one of the `configs` becomes p when pending calls take
effect one after the other. An `enq` has taken effect when its node is linked
(`Swinging`), though it returns later; a `deq` that returns an element takes effect
in the compare-and-swap of head. A `deq` that finds the queue empty takes effect
when it loads a NULL successor of a head that has not moved, but whether it does it
learns only from the comparisons after that load. So the invariant holds a
`Possible` explanation for every choice F of the `deq`s that may have found the
queue empty (`Empties`), in which just those have taken effect and return 0. A link
lets one more call take effect in each of the explanations, a load of NULL lets the
`deq` do so or not, a move of head settles that a `deq` still before its first
comparison was not one of them, and a return (`FittingAnswer`) drops the
explanations in which the call would have got something else. `ValuesOK` adds that
the value a `deq` has read is still the one it takes out.

Three things are inductions, done with the least element of a set of numbers
(`LeastElement`, `UpTo`). `FoldExists` and `FoldIs` show that the fold with which
`ThreadSteps` lets calls take effect is what its recursion says; `ChainIsFold`
relates it to the line of calls in `Possible`; `AfterIsRest` shows that the
recursive `After`, which `show_queue` uses, has the values of the row as its only
solution.

`LLSCQueueIsExplained` is the same for the queue with load-linked and
store-conditional, so that `QueuesAreLinearizable` and `QueuesHoldTheirElements`
state both properties of the run without a condition. Here nothing that a call has
loaded must be doubted later, and one explanation at a time is enough
(`Explaining2`). The nodes are numbered in the order in which they were linked
(`Row2`), freed or not, and the version of an end is the number of the node that it
is at (`AtNode`): its current pointer is node version + 1, and the pointer that is
not current is either the node before it or already the one after it. So a call that
knows the version it has counted itself into knows its node for ever (`NodeSeen`),
and its successor once it has seen one (`NdSeen`). The compare-and-swap of `SC`
finds the predecessor of its node only if the version is still its own
(`SCSucceeds`): that is what the pair of pointers and `pred` are for, and the mutant
with a plain store shows it. An `enq` takes effect when its node is linked, a `deq`
that returns an element in the compare-and-swap of `SC`, before the version goes up.
In between the head is `Half` done, and the contents begin one node later
(`Taken`); `Attended` says that the thread that did the first half is still there to
do the second, so that between calls the head is not half done. A `deq` of
an empty queue takes effect when it loads NULL, and then can only return 0. The counts
and the exit tags, by which nodes would be freed, take no part in the argument: every
step that only changes those leaves all this as it is (`QuietStep`).

**`MCListsProofs`.** The three lists with mutexes (`Locked`: one mutex, a mutex per
node, and lazy deletion), for every number of threads, calls and keys and every content to start from:
`LockedListsAreLinearizable`, `LockedListsKeepTheirElements` and
`LockedListsAreSorted`, with strictly increasing keys. The argument has four parts.

* Walks. What a walk meets is said without recursion, as in `MCQueuesProofs`: the
  nodes that are in every set that has the first node and is closed under the
  pointers (`Reachable`). A list is `Sorted` when a rank goes up along the walk
  from the head and the walk stops at the tail only. `RanksGoUp`, `Around` and
  `SameRank` say that ranks tell nodes apart, and `NodeCreated`, `NodeInserted` and
  `NodeRemoved` what the three changes of a list do to the walk. The inductions
  along the list are choices of a node with the greatest or least rank.
* Places. `Place(p, k)` says that p is on the list and before k and its successor is
  not. There the list shows whether it has k (`PlaceShows`), and there `AddsNode`
  and `DropsNode` do what `add` and `delete` promise. In the first list the loop finds
  the place under the mutex (`PositionFound`). In the second, a thread that walks holds the
  mutex of `pred` (`Holding`), and that is enough: nobody else may change the
  successor of a node it does not hold (`OthersKeep`), so `curr` stays the
  successor of `pred` until the thread has `curr` as well.
* Explanations. In the first two lists a call can be taken to happen when it returns. So
  one of the `configs` always holds what the list holds, with no call in
  progress having taken effect (`Explained1`). `Answered` shows that a call that
  returns what a set would return keeps it so.
* Laziness. In the third list threads walk without mutexes, over nodes that may have
  been unlinked. The invariant (`LazyInv`) says of the memory that a node without
  a mark is on the list once it has been linked and that ranks go up from every node
  that was ever linked, so that a walk that has strayed gets back (`LazyMemory`); of a thread
  past its validation that the two nodes it holds are still neighbours (`LazyThread`,
  `Validated`). A `delete` removes its key for others when it sets the mark, one
  step before it unlinks the node and returns; so an explanation may or may not
  have let it take effect, for any choice of the `delete`s that are about to unlink (`Unlinking`).
  Where a `find` takes effect is not fixed at all. `WillFind` says that a
  node with its key and no mark is still ahead of it, in which case it will answer
  with the key; a `find` of which this is no longer true may have taken effect and
  found nothing, for any choice of those (`Present` has the keys that
  are not marked). `LazyExplained` says that all these choices are explained,
  and every step keeps it so: a mark adds choices, an answer settles one.

The first list needs one more fact, that the key of the tail is none of the keys:
its `delete` compares with that key (`CoarseInv`). `ThreadSteps` writes the orders of
pending calls with bijections and a fold over a set rather than with the sequences of
`SequencesExt`, because the prover carries a module's library through each of its instances.

Only model-checked:

* liveness (`LocksGivenBack`, `CallsReturn`, `EndsUnlessBehind`, `Ends`, `EverybodyLeaves`,
  `EverybodyFinishes`), which is out of the prover's reach together with `ENABLED`;
* `Linearizable`, `ContentsExplained` and `Ordered` of the lock-free lists and of the
  maps;
* `LevelsNested`, `NoCopies` and `SizeCounts`, which follow the levels of a skiplist
  recursively or add up a table.

## Not modelled

Output, timing and `clock()`; failures of `pthread_mutex_init`, `calloc` and
`new`; `int` overflow of the counters of `a2` (2^31 calls, the bench makes 10^6);
reordering by a compiler that optimises (the Makefiles do not); `init_*` and
`free_*` of the containers other than as the initial state and as the moment at which
`Workbench` frees them. `nbq.cpp`, the earlier queues, the prime searches, the array loop
and the linked list of `a3` have the status `not_modelled` in PROJECT.json
with their reasons, as have the drafts and the exercises.

## Plan

1. Done: the two bounded queues, their test bench, the composed program, the
   philosophers, the condition variable; the sixteen containers of the
   collection and their three benches; the proofs above.
2. `nbq.cpp`: its `deq` tests for empty inside the loop, which keeps `head` behind
   `tail` for any number of dequeuers, but reads the element before the claim.
   `non_block3.cpp`, `non_block4.cpp`, `blocking1.cpp` where they differ.
3. `ConcurrentCuckooHash` with four mutexes in each array: `acquire` takes one
   of the first array and then one of the second, `aLock` alternates between the two.
   `find` of `LockFreeSkiplist` as it is meant, beside what it does.
4. The prime searches and `arrayloop.c`: the range is divided without gap or
   overlap, results are not lost. `llist_stan.cpp` against a sequence.
5. Proofs: linearizability of the lock-free lists, for which the lemmas about `Possible`
   can be used again; the maps, where a key is in one list per bucket or in the lowest level.
