# Models of the core of GNU-R-QI

The repository collects code of many origins. What has state of its own, or an
algorithm that is hard to get right, is in two places: the D runtime and library
under `src/dmd` (the blocking objects of `core.sync`, the task pool of
`std.parallelism`, the message boxes of `std.concurrency`), and the C++ library
of GCC 11 under `src/c++/11` (waits on atomic objects, semaphores, futexes,
shared pointers, hash tables, sorting and searching, and the parallel algorithms).
This directory models them in TLA+, checks the models with TLC and proves the
most important facts with TLAPS.

Line numbers of D code are those of `src/dmd/druntime/import/core/sync/*.d` and
`src/dmd/phobos/std/*.d`; those of C++ code refer to `src/c++/11/bits`, `ext` and
`pstl`.

## 1. Inventory

| Part | State it keeps | Operations | Who uses it |
|---|---|---|---|
| `core.sync.rwmutex` | four counters (queued and active readers and writers), a common mutex, two condition variables | `lock`, `tryLock`, `tryLock(Duration)`, `unlock` of reader and writer | client threads |
| `core.sync.barrier` | `m_group`, `m_count`, a mutex and a condition variable | `wait` | client threads |
| `core.sync.event` | `m_initalized`, `m_state`, `m_manualReset`, pthread mutex and condition | `initialize`, `terminate`, `setIfInitialized`, `reset`, `wait` | the runtime and client threads |
| `core.sync.condition` | Posix: a `pthread_cond_t`. Windows: two semaphores, a critical section, three counters | `wait`, `wait(Duration)`, `notify`, `notifyAll` | rwmutex, barrier, the task pool, message boxes |
| `core.sync.semaphore`, `core.sync.mutex` | an object of the operating system | the usual | everything above |
| `std.parallelism` | a linked list of tasks, the pool's status, the status of each task, two mutexes with a condition variable each | `put`, `spinForce`, `yieldForce`, `workForce`, `stop`, `finish`, parallel loops, `executeInNewThread` | client threads and the pool's workers |
| `std.concurrency` | message boxes (local and shared lists, a size limit), links, owner, the registry of names, schedulers | `spawn`, `send`, `receive`, `register`, `setMaxMailboxSize`, clean-up of a thread | client threads |
| `core.thread` | the global list of threads, fibers, suspension counts | start, join, attach, detach, suspend all, resume all | the runtime |
| `core.gc` | an interface, a registry of collectors, options | registration | the runtime |
| the rest of druntime and phobos | none of its own, or the caller's data | sequential algorithms, bindings | everything |
| `atomic_wait.h`, `atomic_timed_wait.h` | pools with a version word and a count of waiters, found by hashing the address | `wait`, `wait_until`, `notify_one`, `notify_all` | atomics, semaphores, barriers and latches of C++20 |
| `semaphore_base.h` | a counter | acquire, try to acquire with or without a deadline, release | `counting_semaphore` |
| `atomic_futex.h` | a word whose top bit says that somebody waits | load when equal or not, with a deadline or without, store and notify | `future`, `promise` |
| `hashtable.h`, `hashtable_policy.h` | one list of nodes, an array of pointers into it, the policy's next threshold | insert, erase, rehash, clear, merge, move, swap | unordered containers |
| `shared_ptr_base.h` | two counters, the object | copy, release, `lock`, weak copies | `shared_ptr`, `weak_ptr` |
| `stl_algo.h`, `stl_algobase.h`, `stl_heap.h`, `stl_tempbuf.h` | the caller's range, a buffer that may be too small | sorting, heaps, partitions, rotations, merges, searches, permutations | callers |
| `pstl` | a tree of tasks with counts, an atomic variable, a buffer | parallel sort, merge, searches, reductions, scans | callers with an execution policy |
| the rest of `c++/11` | the caller's data | strings, streams, locales, random numbers, regular expressions, traits | callers |
| `renv/activate.R`, `.Rprofile` | the file system and environment variables | decides which renv to load, download, install | R at startup |
| `library.cpp`, R scripts under `matrix` | none | print or draw | nobody |
| `freebasic`, `objc`, `sanitizer`, `cmake-build-debug` | none | vendored headers, generated files | nobody |

How they interact: all of them share memory. Condition variables carry the
wakeups in D: the read-write mutex, the barrier, the task pool and the message
boxes wait on `core.sync.condition.Condition`, a thin layer over pthreads on Posix
and an algorithm of its own on Windows. Tasks of a pool run on the stack of
whoever starts them and may force other tasks there. In libstdc++ the semaphore
sits on the bare waits of `atomic_wait.h`, which end in the futex call of
Linux. The parallel algorithms give bodies to a scheduler (TBB) that decides how a
range is cut and who runs what.

What is hard about them:

* *Interleaving.* A thread that was woken must get the mutex again, and by then
  another may have changed what it waited for. Lock-free code reads a word, decides,
  and writes by compare and exchange; anything may happen in between.
* *Wakeups.* Each notification goes to whoever waits at that moment. Code that
  notifies one side only, skips a notification because nobody seems to
  wait, or returns on a path without notifying, can leave a thread asleep for good.
* *Timeouts and spurious wakeups.* A waiter may give up while the notification
  meant for it is under way.
* *Limits.* The number of a barrier's group wraps; the Windows condition variable
  purges its count of departed waiters at a limit; a message box is full.
* *Shutdown.* `finish` and `stop` race with `put` and with idle workers.
* *Nesting.* A thread that waits for a task may run another one meanwhile.
* *Failing steps.* Memory may run out in a rehash, in a parallel sort, or for the
  buffer of a merge: what was done so far must be undone, or done another way.
* *Unguarded loops.* The scans of a partition and the insertions of a sort have no
  bound; an element that was put in place before has to stop them.
* *Joining halves.* Results of halves that were cut anywhere, and run in any order,
  have to be right where the halves meet.

There is no persistence and no message loss in this code, so no model has
crashes or lost messages.

## 2. The modules

| Module | Models | Composes or uses |
|---|---|---|
| `RWLock` | the promise of a read-write mutex: who may be let in, under both policies | |
| `RWMutex` | `ReadWriteMutex` | implements `RWLock` |
| `GroupTravel` | the promise of a barrier: threads leave in full groups | |
| `Barrier` | `Barrier` | implements `GroupTravel` |
| `Event` | `Event` on Posix | |
| `WinCondition` | `Condition` on Windows | |
| `TaskPool` | workers, clients, tasks and the forces of `std.parallelism` | uses a sequence as the queue |
| `TaskList` | the doubly linked list that is this queue | carries the sequence as an auxiliary variable |
| `ParallelForeach` | a parallel foreach over a random access range, with `submitAndExecute` | abstracts from `TaskPool`: a worker takes the first task left, or none |
| `MessageBox` | the mailbox of `std.concurrency` | |
| `Links` | spawned threads, what they learn of each other's ends, the registry of names | a mailbox with notices only |
| `AtomicWait` | waits and notifications on atomic objects | |
| `Semaphore` | `__atomic_semaphore` | |
| `AtomicFutex` | `__atomic_futex_unsigned` on Linux | |
| `Hashtable` | `_Hashtable` with `_Power2_rehash_policy` | |
| `SharedCount` | `_Sp_counted_base` with its owners | |
| `Elements` | elements with a key and a tag, and moves that algorithms share | |
| `Introsort` | `sort`, `nth_element`, `partial_sort`, heaps | `Elements` |
| `StableSort` | `stable_sort`, `inplace_merge`, `stable_partition`, `partition`, `rotate` | `Elements` |
| `Searches` | searches, bounds, set operations, permutations | `Elements` |
| `ParallelSort` | stable and partial sort and merge on tasks of TBB | |
| `ParallelFind` | the searches that share an atomic variable | `Elements` |
| `ReducePatterns` | what is built on `parallel_reduce`, and the loops of `nth_element` and `rotate` | `Elements` |
| `ScanPatterns` | what is built on the strict scan: copies that select, removal, set operations | `Elements` |
| `ThreadsProofs` | theorems about `RWMutex` and `Links` | these |
| `TaskPoolProofs` | theorems about `TaskPool` | this |
| `SyncProofs` | theorems about `Barrier` and `WinCondition` | these |
| `BlockingProofs` | theorems about `Event`, `AtomicFutex`, `AtomicWait` and `Semaphore` | these |
| `PhobosProofs` | theorems about `TaskList`, `ParallelForeach` and `MessageBox` | these |
| `RecursiveDefinitions` | lemmas about recursive functions | |
| `LibraryProofs` | theorems about `SharedCount`, `ParallelSort` and `ParallelFind` | these, `RecursiveDefinitions` |
| `IntrosortProofs` | theorems about `Introsort` | this, `RecursiveDefinitions` |
| `MCSync`, `MCThreads`, `MCTaskPool`, `MCBlocking`, `MCLibrary`, `MCParallel` | the small instances; all but `MCTaskPool` put independent systems side by side | |

Definitions marked `Wrong:` in a module are mistaken variants of the definition
that follows them. They are not used by any specification; putting one in the
place of the right definition must break the property it is paired with in
`PROJECT.json`.

### RWMutex

Every method holds `m_commonMutex` except while it waits on a condition variable,
so one action is one stretch between two such points. `pc` says where a thread
is; the counters are the code's own. `ReaderEnter` is `lock` or either `tryLock`
that gets the lock at once; `ReaderQueue` is the path to the first wait,
`ReaderAcquire`, `ReaderWaitAgain` and `ReaderTimeout` what may follow a wakeup,
with the decrement that the code leaves to `scope(exit)`; and the same for
writers. A `tryLock` that fails at once changes nothing and is no action. The
shared and unshared versions of the methods are modelled as one. `m_policy` is
chosen in `Init`, as the constructor does. A thread holds one lock
at a time: the documentation does not allow or forbid more. `TimedWriters` says,
for each policy, which threads set deadlines for the write lock.

### Barrier

`wait` is `Arrive` or `Complete`, then `Leave` or `WaitAgain` after each wakeup.
`m_group` is a number below `GroupNumbers`, 2^32 in the code. A thread that is not
scheduled while 2^32 further groups pass would mistake the new group for its own.
`NotLapped` in `Next` excludes that, and is the only assumption; `NeverLapped` shows
that it is not needed at all when the barrier has as many users as its limit, and this
is proved rather than checked.

### Event

One action per method, and `wait` in up to three: before the sleep, the wakeup or
the timeout, and after it. `saw` is auxiliary: the waiters during whose wait the
event was signaled.

### WinCondition

`timedWait` and `notify_` step by step, one action per operation on a semaphore or
pass through `m_unblockLock`. A thread that blocks on a semaphore inside the
critical section is its owner meanwhile. `use` is one of the ways in which a
program may use the condition (who waits, and who with a timeout), chosen in `Init`.
`GoneLimit` stands for `int.max / 2`. The `assert` of line 496 is left out: it compares
the result of a successful `ReleaseSemaphore`, which is nonzero, with 0, so
that the purge works as modelled only where assertions are not compiled in.

### TaskPool and TaskList

Tasks run on top of what a thread was doing, so `stack` holds the calls of each
thread: the work loop, a job, a force, a join. The frame on top takes the steps; a
step is one critical section or one atomic access. `Needs` says which task a
task's function forces. A client puts tasks whose needs have been put, forces
tasks, and calls `stop` or `finish`. The queue is a sequence.

`TaskList` is the list itself, as four variables `head`, `tail`, `next`, `prev`. Each
action runs under the queue mutex. The auxiliary `queue` changes the way `TaskPool`
changes its queue, and `ListIsQueue` says that the links spell it out: this is
what entitles `TaskPool` to a sequence. `Delete` has the two cases of the
code, the tail of the list and everything else.

### ParallelForeach

One step per atomic access of `doIt`, per call of the body, and per look at a task by the
caller. The body may throw an `Exception` or an `Error` at any call; a `break` is an `Error`.
The caller has task 0; it runs that one, then those nobody has taken (`Help`), then waits
for each in turn, and returns (`caller`). An `Error` in a task it helps with leaves
`tryDeleteExecute` (`EndOwn`); `NothingLeftToHelp` shows why that does not happen.
A size_t has `IndexSize` values, and the index starts at the last of them. `Fits` assumes that the
products of index and unit size do not wrap: with work units of 2^63 elements, say, the code
would start over at 0 and call the body again for the same elements.

### MessageBox

What holds `m_lock` is one step; the lists that only the owner touches change in steps
of their own. `arrived` is what `get` has taken from the shared list and not yet
moved, which the code keeps in a local list while it scans. `Script` is what each
sender sends. A full box blocks the sender, throws, or ignores the message, as
`onMaxMsgs` says. Priority messages are a kind of their own, and so are the two `Notices` that a thread has ended:
one of a thread that the owner depends on, or of its owner, is handled whatever `receive` asks for ("linked"); `onLinkDeadMsg` returns
false for any other one ("unlinked"), which stays in `m_localBox` and counts as a message. What a
notice does to its reader is left to `Links`.

### Links

`_spawn` is two steps, the start of the thread and the entry in `links`, and the new
thread may run, and end, between them. `life` goes from "unborn" over "started" and
"running" to the steps of `cleanup`: the mailbox is closed, each link is told (`TellLink`),
the owner is told, the names are removed. Between these steps other threads do as they like.
`localBox` and `sharedBox` hold the notices of a mailbox, each as the thread that ended.
`HearLocal` and `TakeNotices` are a call of `receive` up to where it returns or throws; a
notice that nothing comes of stays in `localBox`, as in the code. `told` is auxiliary.
`register` holds the lock of the registry and not that of the mailbox, so `TestEntry` and
`AddEntry` are two steps. `Overwrite` is what `remove` leaves in an array whose new length
is dropped. `Settings` says which threads may be spawned and which names registered.

### AtomicWait, Semaphore, AtomicFutex

One step per atomic access or system call. The futex call compares and sleeps in
one step, or returns at once, as the kernel does; `EINTR` and deadlines
are steps that a sleeper may take. Objects of `AtomicWait` belong to one pool: those
of the size of a futex word (`Direct`) wait on their own address, the others on
the pool's version; `Sole` are those that one thread at most waits for, so that
`notify_one` is enough. Of the spinning in front of each wait only the last look is
modelled, since those before it changed nothing.

The semaphore's `local` has `__val`, the value under which it sleeps, and `__old`, the
one it compares. `issued` is auxiliary: what was released less what was used up. A program
that releases more than `SemMax` in all breaks the contract of
`counting_semaphore`; `MayRelease` leaves that out.

### Hashtable

A table is the head of its own list, as `_M_before_begin` is. Node operations follow the
code's order of pointer writes inside one action, since a table is used by one
thread. What may throw has an action for each outcome: the buckets are
allocated, or they are not and the policy is reset. `MaxLoad` is a
whole number, the hash code of a key is the key, and `FirstCount` stands for the 11 of
`_M_need_rehash`.

### SharedCount

`Strong` and `Weak` are places for pointers, and a place takes one atomic step at a time:
the decrement of the use count, the disposal, the decrement of the weak count, the
destruction. `lock` is a load followed by compare and exchange under `_S_atomic`, and an
increment that is undone under `_S_mutex`. `fromThis` is an object with a
`weak_ptr` to itself.

### Introsort, StableSort, Searches

Elements have a key, by which they are compared, and a tag, their place at the
beginning: so loss, doubling and the order of equal elements can be stated. A step of
`Introsort` is one round of a loop (a cut, one stop of both scans of the partition, one
insertion), with the recursion of `__introsort_loop` as a stack of frames.
The heap operations of `Introsort` are recursive functions: the hole of `__push_heap` and of
`__adjust_heap` goes through a set of places (`HolesUp`, `HolesDown`), one on each level, and
what is in each of them afterwards follows from the set.
`StableSort` and `Searches` compute the result of a call by recursive operators that
follow the code's recursion; the buffer that was obtained is part of the
input, and may be smaller than asked for. These two modules have no theorems, since the prover cannot
expand such operators. `ParallelSort` and `ParallelFind` write recursion as functions as `Introsort` does.

### ParallelSort, ParallelFind, ReducePatterns, ScanPatterns

`ParallelSort` has the tree of tasks: a step is the body of one task, or its return to
the parent (`TellParent`), in any order. The elements are in two arrays, the range and the buffer,
and slots that were moved from or never constructed are `Hollow` and `Raw`. A
body that fails to allocate cancels the group, and the tasks that are left are cancelled: they return to
their parents without a body (`CancelTask`). The last child of a parent frees itself through `_M_execute_data`, which only
`execute` sets, so one that was never executed (not `begun`) follows a null pointer, as does a task that has given
its parent away (`LosesWay`, `crashed`). The exception gets to the caller (`abandoned`) only if neither
happens. A body is one step, so one body at most fails. `ParallelFind` has the blocks of the range, each of which goes to its first hit
and exchanges it for the shared extremum, one atomic access at a time.
`ReducePatterns` folds a tree of halves, cut anywhere, joined or continued as TBB may do:
a call is one step, with the cuts chosen freely. `ScanPatterns` goes up and down the tree of
tiles; writes are kept with their places, so that two of them that meet are seen.

## 3. Runs

| Run | Instance | Shows |
|---|---|---|
| `Threads` | one of: a read-write mutex with 4 threads, both policies, deadlines for all but the writers of `PREFER_WRITERS`; 3 threads that spawn each other; 2 threads with 2 names | counters, no lost wakeup and all queued readers alerted (`WaitersInv`), implements `RWLock`, the preferred side is served; every end is known to whom it concerns, once, and no name leads to a thread that is gone (`LinksInv`, `EndIsTold`) |
| `RWMutexTimedWriter` | 3 threads, deadlines for all writers | **violation**, finding 1 |
| `RegistryNames` | 2 threads, 1 name | **violation**, finding 5 |
| `Sync` | one of: a barrier with 5 threads, groups of 3, 3 group numbers; a Windows condition with 4 threads that all wait without timeouts, or 1 waiter with timeouts and 3 notifiers, limit 3 | counts, implements `GroupTravel`, everybody leaves; no stolen notification, counters, gate and permits match (`GateInv`), the gate always opens again, timed waits return |
| `WinConditionTimeout` | 2 waiters, 1 with timeouts, 1 notifier | **violation**, finding 3 |
| `TaskPoolSafety` | 2 workers, 2 clients, 2 tasks, one needs the other, all kinds of force, `stop` and `finish` | each task runs once; no idle worker next to work, nobody sleeps through a shutdown (`PoolInv`) |
| `TaskPoolForces` | 2 workers, 1 client, a chain of 3 tasks that `yieldForce`, `finish` | forces return, tasks finish, `finish` drains the queue, returns, and all workers end |
| `TaskPoolSharedYield` | 1 worker, 2 clients, 1 task, `yieldForce` | **violation**, finding 2 |
| `BlockingObjects` | one of: an event with 3 threads; 2 waiters and a storer on 3 atomic objects; 2 acquirers and a releaser; 2 loaders and 2 publishers | nobody sleeps through the step that should wake it, tokens are conserved, who may go on does |
| `Library` | one of: the task list with 5 tasks; a mailbox with 2 senders and a notice that nobody handles; 2 hash tables and 5 nodes; 3 shared and 2 weak pointers; the sequential algorithms over all short inputs | the invariants of each (`ListIsQueue`, `BoxInv`, `TableInv`, `CountersInv`, `SortInv`, `StableInv`, `SearchInv`), senders get room, nothing leaks |
| `Parallel` | one of: the parallel sort, searches, reductions, scans over all short inputs; a parallel foreach with 2 workers | the tasks of a sort (`TasksInv`) and its elements (`ElementsInv`); results are those of the serial functions, but for `search_n` for no elements (`FindInv`, `ReduceInv`, `ScanInv`); the body runs once for each element, and for nobody when the foreach is over (`ForeachInv`) |
| `ParallelIntersection` | as `Parallel` | **violation**, finding 4 |

`Threads`, `Sync`, `BlockingObjects`, `Library` and `Parallel` put several independent systems in one
state space: `part` says which one a behaviour is about, and the others stay as
they began. Their state spaces add up rather than multiply.

A property that ends in `Inv` is the conjunction of the named invariants of its module,
each with a comment of its own.

**Why the bounds are enough.** Three threads make a reader, a writer, and a third
that queues behind them; four make two of one kind asleep at a time. Five threads in
groups of three let two of the next group gather while three of the last one have
not left. In a list, deletion differs at the front, at the end, and between two
others, which five tasks give in all orders. Two workers, two clients and two
tasks give every race for a task: worker, forcing thread, helping thread. Three
tasks in a chain are the fewest with which a helper can pick one that depends on
what it suspended. Four threads and a limit of three reach every branch of the Windows
condition variable: with four waiters signals are passed on twice, and a single waiter
that times out three times gets to the purge. A limit of two messages, of which the
notice of a thread that is not linked takes one for good, is full after the next, so that both senders of the mailbox block;
five messages in all are more than the four that `Bounded` allows in the box at a time. Three atomic objects are one of each
kind, with the two that share the pool's version; `MaxVersion` = 1 bounds how often that
word is bumped, and two values let a word return to what it was. Up to three tokens,
released one or two at a time, let an acquirer sleep next to a token that another
one was woken for. Five nodes with two pairs of equal keys and two keys that share
a bucket until there are four give buckets of none, one and several runs. Three
shared pointers leave two that race while a third is copied or disposed of. Three threads
make a tree of two levels, in which the middle one has an owner and a link, and ends while
either neighbour does; a thread ends once, so no more happens between two of them. Two names and
lists of up to two (`MaxListed`) let an unregistered name leave a duplicate of the other one behind.
A foreach with two workers has three tasks; two elements in units of one, and three in units of two
(`MCLoops`), give units that are full and cut short, and fewer units than threads; every thread counts
past the end once, which `IndexSize` = 16 leaves room for.

The constants of the algorithms are scaled down so that short inputs take the paths of long
ones: `Threshold` = 3 (`_S_threshold`, 16), depth limits 0, 1 and 4 (twice the logarithm),
`Chunk` = 2 (`_S_chunk_size`, 7), `FewInplace` = 3 (15, below which
`__inplace_stable_sort` inserts), `FirstCount` = 1 (11), `SortCutOff` = 2 (500), `MergeCutOff` = 3
(2000), `SetCutOff` = 3 (1000). Inputs have up to six elements for `sort` (`MaxLen`) and
the stable algorithms (`MaxRun`), four for heap operations (`QueueLen`), four and three for
searches and set operations (`MaxFirst`, `MaxSecond`), five and seven for the parallel sort,
which makes three levels of tasks with leaves of one and two elements, and
as in `Parallel.cfg` for the rest. All inputs over three keys (two in the parallel sort) are
initial states: two keys tell order, three tell ties next to order.

**Deadlock.** Checked except where a run may stop: in `Library` and
`Parallel` the algorithms end, tasks of the list are not put twice, and pointers and
messages are used up. At a Windows condition all threads may wait with nobody
left to notify, and threads of `Links` may all end: in `Sync` and `Threads` these states may repeat, so
that the check is about the barrier, the mutex, and threads that have not ended; in `WinConditionTimeout` the system stops after the fault.

**Fairness.** Weak fairness of the next step of each thread that is in a call: it
gets the mutex and is scheduled. For the read-write mutex also of unlocking (callers
give back what they took) and of deadlines, which pass. No fairness for calls:
nobody has to lock, wait, put, store, release or notify. None for spurious wakeups. The
Windows condition variable has strong fairness of each thread's step instead:
its semaphores queue those that wait, so a thread that can go on again and again
does. Everything else needs weak fairness only, since a woken thread stays able to run
until it does. The owner of a mailbox is also fair about receiving when it may receive
anything, and `SenderGetsRoom` assumes that in the end it does, and that there never are as many notices that nobody handles as the limit
allows messages (`NoticesBelowLimit`): otherwise the code leaves senders blocked, see section 4; threads of `Links` go on with what they have begun
(`_spawn`, `register`, `cleanup`) and call `receive` again and again, but nobody has to end; a pointer that has
begun to let go finishes, while nobody has to let go.

## 4. What the code and its documentation disagree on

1. *Queued readers are not alerted* (`RWMutexTimedWriter`, rwmutex.d:576). A writer
   whose deadline passes returns without a notification. Readers that queued behind
   it under `PREFER_WRITERS` sleep on, although rwmutex.d:61-63 says that they are
   alerted once no writers are present. `Reader.unlock` does not wake them either.
2. *A shared force sleeps on* (`TaskPoolSharedYield`, parallelism.d:1372). The
   thread that executes a task in `tryDeleteExecute` does not call `notifyWaiters`.
3. *A gate that stays closed* (`WinConditionTimeout`, condition.d:464). A timeout that
   races a notification may leave `m_blockLock` closed; waiters then block
   at the gate, before their timeout can begin.
4. *An intersection from the second range* (`ParallelIntersection`, algorithm_impl.h:3155).
   Elements in both ranges have to come from the first (stl_algo.h:5268), and
   come from the second when the beginning of the second one is skipped.
5. *A name that is taken along* (`RegistryNames`, concurrency.d:1172). `unregister` drops the shorter
   range that `remove` returns, so the thread's list keeps the name (or a second copy of its last one),
   and `unregisterMe` removes it at the end of the thread, whoever has it by then;
   concurrency.d:1125-1127 says that the names associated with the thread are unregistered.

The passing runs keep these apart: `Threads` gives no deadlines to the
writers of `PREFER_WRITERS`, `TaskPoolForces` has one forcing thread per task and does not help,
`Sync` has no timeouts where several threads wait, and `ScanInv` asks for
the right elements up to equality.

Noticed while modelling, and in the models as the code has it, without a run of its own:

* `Event.wait` returns true on a spurious wakeup (event.d:263, against 233).
* A helper of `workForce` may take on a task that needs the one it suspended
  (parallelism.d:667); a chain of three tasks then deadlocks.
* A mailbox may hold up to twice its limit: what the owner has taken over is not counted
  until it has looked at it. `close` and `setMaxMsgs` do not wake senders that wait for room.
* The notice of a thread that was spawned without a link throws nothing, and stays in the owner's
  local list for good (concurrency.d:2229-2231 takes it that `linkDead` throws if it is not handled).
  It counts toward the limit of the mailbox, which is "on the maximum number of user messages" (2045): with enough such
  threads the owner's mailbox is full for good, and whoever sends to it blocks. `SenderGetsRoom` has this as an assumption.
* `__platform_semaphore::_M_try_acquire_until` returns `_Clock::now() < __atime` after a timeout
  (semaphore_base.h:172). `__platform_wait_until` with another clock than the steady one returns
  false when it was woken in time (atomic_timed_wait.h:118-137). `_M_do_wait_until_v`
  (295) passes arguments that `_M_do_spin` does not take.
* The notification of a release goes to all waiters whatever was released, and
  semaphore_base.h:260 has a FIXME about that.
* The parallel `search_n` with a count below one returns the end (algorithm_impl.h:815), the serial one the beginning
  (stl_algo.h:262), which is what stl_algo.h:4189 says. `AnswersAsSerial` leaves this call out (`SeeksNone`). The parallel `is_sorted` builds on an or-search that may cancel the other blocks early.
* When memory runs out in the parallel sort, elements that are in the buffer are not moved
  back. A task that has made its continuation and then fails to get its child has already given
  its parent away (parallel_backend_tbb.h:555), and `finalize` follows a null
  pointer (`LosesWay`). So it does for the last child of a parent when that is cancelled before it was executed: `cancel` (625) does not
  set `_M_execute_data`, through which the child frees itself (652). Hence a sort in which memory runs out mostly crashes
  where it should throw `bad_alloc` (pstl/utils.h:31). `OnceEach` and `ChildrenCounted` say what holds until then.
* A copy assignment of a hash table that throws leaves buckets that are all null
  (hashtable.h:1277).

## 5. Proofs

All theorems hold for every value of the constants that meets the assumptions named
in the module: finitely many threads, tasks, senders and places for pointers; a positive limit and
at least two group numbers; a null that is no task; 0 among the values of a futex and of an atomic object;
positive updates of a semaphore; a main thread that nobody spawns, and a
`TidInit` that is no thread; among the limits of a mailbox a greatest one, as
among all values of a `size_t`; a foreach whose units, as often as they are claimed, sum up
to less than a `size_t` (`LoopsOK`); keys of elements that are numbers; lengths of ranges that are
naturals (`LengthsOK` in `Introsort`), a threshold of `sort` of 3 at least, and cut offs of the parallel sort that leave something on either side (`CutOffsOK`). None of them bounds how many there are.
The least element of a set of naturals (`Least`) comes from the well-foundedness of `<`, so nothing is assumed of it.

* `ThreadsProofs`, mutex: `TypeCorrect`, `CountersCorrect`, `ExclusionHolds`,
  `RWMutexImplementsLock`. The invariant is the type of `m_policy` and `pc`, `CountersMatch`
  and `MutualExclusion` together. The guards look at counters only, so exclusion
  is not inductive without `CountersMatch`; and `CountersMatch` needs no more. The
  lemmas say how a move of one thread, with others waking, changes the four
  cardinalities. For the refinement each action maps to one step of `RWLock`, or to
  a stutter when a sleeper wakes or goes back to sleep.
  `WaitersAlerted` is about lost wakeups. Its invariant says whom a sleeper counts on:
  a sleeping reader on a writer (`ReaderMinded`), a sleeping writer on whoever sent it to sleep, or
  on another writer that is awake already (`WriterMinded`); with it, each way out of a queue or of the lock has to
  leave somebody else behind, or alert the right side. Under `PREFER_WRITERS` this is true only without deadlines on write
  locks (`DeadlinesHarmless`, `WritersPatient`): a writer that gives up alerts nobody, which is finding 1.
* `SyncProofs`, barrier: `CountCorrect`, `NobodyLeftAsleep`, `BarrierImplementsTravel`,
  `FullGroupNeverLapped`. The invariant is `TypeOK`, `CountsTheGroup` and
  `ReleasedAwake`. When a group completes all its members become released: those
  that slept are woken, and the numbers differ since there are two at least.
  Those released before stay so by `NotLapped`.
* `SyncProofs`, Windows condition: `GateRight`. The invariant says who holds `m_unblockLock` and that what he has read
  under it is still so (`LockHeld`); that the gate `m_blockLock` has one owner at a time: the thread
  that passes it, all those to be unblocked together, or the last of these while it drains (`GateKept`);
  that while anybody is to be unblocked exactly one permit is in flight, later those that are to be
  drained, then none (`SignalsKept`); and that the counters sum up to the waiters (`Covered`).
  The parts need each other: a permit too many lets a waiter out too early, and then the gate has two
  owners. The theorem is `[](NoTimeoutRace => GateInv)`: nobody has a timeout, or one thread waits at a time.
  Otherwise the gate may stay closed (finding 3). The condition is on the use, not on the order of the steps.
* `PhobosProofs`, list: `TypeCorrect`, `ListCorrect`, `NoTaskLost`. The
  invariant is `TypeOK`, `ListIsQueue` and `NothingLost`. `NothingLost` is needed
  because `tail` is not cleared when the list runs empty: a task that is put must
  not meet itself there.
* `PhobosProofs`, foreach: `ForeachRight`. Three invariants build on each other. `JobsInv`: a task in progress has
  one thread, tasks end only when all were told to stop, and the caller goes through all tasks twice. `ClaimsFew`:
  while the loop goes on the index has been increased at most once for each element and once for each thread that stops; later
  each thread may claim once more. Hence `LoopsOK` suffices for no product or sum to wrap (`ClaimFits`), although
  the index itself starts at the largest value of a `size_t`, with the first claim taking it to 0. `UnitsInv`: the units below the index are apart,
  each element in them has been called, is in somebody's unit, or somebody has thrown; and all are told to stop only if
  the units are used up or somebody has thrown. At the end nobody is in a unit any more.
* `TaskPoolProofs`: `PoolRight`, `FinishRight`. The stack of each thread is well formed: calls wait at the place
  where they call, and only calls that may call each other do (`StacksRight`); so a task that helps out in the middle of a
  force of another one is still one frame with one task. `RunOnce` is proved as `OneRuns`: a task is in progress iff one
  frame of one stack works on it. A queued task is fresh and has a pool, and
  needs only what has been put before it (`QueueFresh`, `PutFirst`). For sleepers, `NotifiesDone` says that who is about to notify has published the
  result, and `WorkConserving` counts the workers that head for the queue: a put adds one task
  and wakes one worker, so the count has to go with each. `NothingCame` makes what a leaving worker has
  seen true for good. Cardinalities and sequences change by one element, which the lemmas state once for the three
  ways in which a stack changes (a call moves, calls, returns).
* `BlockingProofs`, event: `NobodySleepsThrough`. `SignaledAwake` needs the fact that an event
  which is not initialized has no waiters, since `initialize` may set the state.
* `BlockingProofs`, futex: `BitCovers`, `EndsRight`. The invariant is the type and
  `SleeperCovered` itself: a load sleeps only while the word is what it assumed and the bit
  is set, and only an exchange changes either, after which its publisher is in `storing`.
* `BlockingProofs`, atomic objects: `NotificationsArrive`. A change of an object that shares a pool entry is covered
  in two stages: first its notifier has yet to bump the version, and whoever goes to sleep until then finds it changed
  (`ExpectationStale`); then it looks at the count of waiters, which it may skip only if nobody is counted, and every
  waiter counts itself before it reads the version. `Expecting` says that no waiter expects a version of the future,
  `OneIsEnough` that one is woken alone only if it is the only one on a word of its own, and
  `VersionBounded` that the bumps under way stay within the bound that the model sets.
* `BlockingProofs`, semaphore: `TokensKept`, `NoTokenMissed`. The invariant is the type,
  `TokensConserved`, `EmptyWokenUp` and `SawToken`: who is about to compare and
  exchange has read a positive count. Without `SawToken` the counter might go below
  zero; its upper bound follows from `TokensConserved`, since the counter is part of
  what was released. `TokenStep` reduces each of the steps that move tokens to the change of
  one thread's place and a set of sleepers that wake.
* `LibraryProofs`, counters: `CountersRight`, `PhasesOnce`. The counters equal what refers to them; to this the invariant adds that
  a `lock` under way is covered by a `weak_ptr`, that it has seen a positive count if it is about to exchange, and that
  one that fails under the mutex is alone (`LockingCovered`): the code takes its increment
  back, and in between nobody must see it. Who drops the common weak reference finds the object disposed of
  (`DropsDisposed`), and who destroys the counters is the only one left (`DestroyerAlone`).
* `LibraryProofs`, tasks of the parallel sort: `SortTasksRight`. The invariant (`TreeInv`) has three parts. The family is a
  tree (`Tree`): a task that waits is a merge that was cut, its counter is positive, its children are inside it; a task without a parent is
  done, and there is one only after the group was cancelled. A counter is at least the number of children, and equal to it
  while nobody has lost a parent (`RefsMatch`). And two tasks are apart, in what they read and in what they write, or one waits and
  contains the other; what is inside a task that waits is inside one of its children (`Nested`). The last part is what
  makes `TasksApart` inductive: when the last child returns, the merge that waited becomes able to run with all of its
  slots, and nobody else may be in these. That somebody can run (`SomebodyCanRun`) takes the smallest task that
  waits: it has a child, which is smaller, since a cut leaves something on either side, and so does not wait. In a cancelled
group this says only that somebody is left to be cancelled, which may be a step that follows a null pointer; about a crash nothing is claimed. The cuts come from a binary search;
  that it stays in its range (`BoundInside`) holds for any keys.
* `RecursiveDefinitions`: `Recursion`. A function that is defined by `CHOOSE`, as recursive functions are, has
  the value its definition gives if there is such a function at all. The lemma shows that there is one when the definition
  looks only at arguments of smaller measure (`LooksBelow`), and `ByMeasure` is the induction for it. Both take sets and functions where the
  library's theorems take operators, so that the provers can instantiate them. `Chained` is the case where
  an argument refers to a single smaller one, which is all that loops need.
* `IntrosortProofs`: `SortRight`. First what the operators do. The places that a hole goes through form a path
  from parent to child (`HolesUpRight`, `HolesDownRight`), and the way up again is part of the way down (`WayBack`); hence each of `__push_heap`
  and `__adjust_heap` moves elements along the path and loses none but what was in the hole (`PushRefills`, `AdjustRefills`), and
  where everything below the hole was a heap the hole is the top of one afterwards (`AdjustMakesHeap`). From this come
  `__make_heap`, `__pop_heap`, `__sort_heap` and `__heap_select`, round by round; then insertion, with and without a guard.
  The invariant (`SortInd`) has a part for each of the algorithms. For `sort` and `nth_element` it is about splits: nothing from a place on is less than
  anything before it (`Split`). Both ends of each frame are splits (`FramesIn`), so what is rearranged within the innermost one disturbs no other
  frame (`FramesKept`), and where the scans of a partition meet there is one more (`CutRight`). The scans have no bound: what stops each is
  an element further on that is not less than the pivot, first the greatest of the three, then what was
  swapped last, and on the way down the pivot itself if nothing else (`Partitioning`). The final insertion has no bound beyond the first `Threshold` elements: there is a split
  among these (`LowSplit`), since the last frame that is left off begins at the first element and is no longer than that, and
  an insertion that moves down stops at it (`LowStops`). `ResultInOrder` is what splits on both sides of a place, or a heap of the least, mean in the end.
  Neither the stops nor the order is inductive without the splits.
* `LibraryProofs`, searches: `FindRight`. `BrickRight` says that a brick returns the best hit of its block, or the
  end of the block when there is none. The invariant has the cut of the range (`RangeCut`: the blocks are apart and leave nothing out)
  and for each block what `shared` owes to it (`Improving`, `Reporting`): a block that is done has no hit better than
  `shared`, and one that is about to exchange has a better hit than the value it has loaded. A block that is skipped
  since `shared` is better needs more when the search goes backward: `shared` is the hit of a block
  that was begun (`FoundBySome`), hence of another one, which lies behind. At the end `shared` is the best hit of all, and
  one lemma for each group of calls says that this is what the serial function returns. `includes` is
  left out: its bricks are binary searches and a merge, and were not attempted. So is `search_n` for no elements,
  where the two functions differ.
* `PhobosProofs`, mailbox: `BoxRight`. That what one sender sends of one kind is received in its order needs the order
  within and between all lists: what was received comes before `m_localBox`, this before what has arrived, this before
  `m_sharedBox` (`ListsInOrder`), with priority messages in lists of their own (`KindsApart`). It is not inductive without `Scanned`:
  when the owner looks at what arrives, `m_localBox` holds nothing that matches, else an arriving message would
  overtake it. `Counted` is why the limit is not kept but twice the limit is: messages that have arrived are
  not in `m_localMsgs` yet, and they are one boxful at most. Notices that nobody handles only make the box
  fuller: there are at most as many user messages in `m_localBox` as `m_localMsgs` says after an update. The lemmas are about lists: what concatenation,
  removal of an element and taking of all do to order and to the number of user messages, the latter by injections
  between sets of positions.
* `ThreadsProofs`, links: `LinksTyped`, `EndsKnown`, `NamesFresh`, together `LinksRight`. A notice comes only from a thread
  that has closed its mailbox (`NoticesReal`); a thread has its parent for its owner until
  it knows of the parent's end (`OwnerRight`); the owner of a living thread has it in
  `links` or `fresh`, or is about to tell it, or has put the notice into its mailbox
  (`OwnerKnows`); and an end that was told concerns the thread no more (`ToldPast`), hence
  nobody is told twice. What is due is not inductive without `OwnerKnows`: when the last one is
  told, the owner must not have missed a child that had not begun yet. For the names,
  `EntryOpen` says that between the two steps of `register` the lock of the registry keeps the
  thread, whose mailbox was tested before, from leaving the registry.

The inductive invariants were checked with TLC on the instances of section 3 before they were proved.

*Only model-checked.* Liveness (`PreferredServed`, `ReleasedLeaves`, `SignaledLeaves`,
`ForceReturns`, `TasksFinish`, `FinishReturns`, `GateReopens`, `TimedWaitReturns`,
`ChangeEndsWait`, `ReleaseWakes`, `SatisfiedReturns`, `SenderGetsRoom`, `NoLeak`, `EndIsTold`),
which is out of the prover's reach. All that is stated about `Hashtable`,
`StableSort`, `Searches`, `ReducePatterns` and `ScanPatterns`, whose
definitions are recursive operators. `ElementsInv`: that the parallel sort moves each element to its place needs, next to the
tree of tasks, an account of each slot of both arrays. `includes` in `ParallelFind`. Every other invariant and
refinement of section 3 is proved.

## 6. Not modelled

* `core.sync.semaphore`, `core.sync.mutex` and `Condition` on Posix: wrappers with no state of
  their own. What they do is part of the models that use them.
* `Event` on Windows: a kernel object.
* Of `std.parallelism`: parallel loops over input ranges, `amap`, `reduce`, `asyncBuf`, the round-robin
  buffer, `executeInNewThread`; in `TaskPool`, exceptions thrown by tasks.
* Of `std.concurrency`: schedulers and generators. Whether a notice is of a linked thread is a given in `MessageBox`, and
  `Links` has mailboxes with notices only.
* `core.thread` and renv: see the plan. Fibers (assembler), the collector interface (no collector in the tree).
* Of the modelled headers: builds without futexes and `__platform_semaphore`, which wrap a
  condition variable or a `sem_t`; allocators of hash tables, cached hash codes and the policy of
  primes; deleters and allocators; algorithms that are one plain loop; `__parallel_transform_scan`
  and the scan protocol inside TBB.
* The rest of `c++/11` (strings, streams, locales, random numbers, regular expressions, ranges,
  traits, special functions), of phobos and of druntime; the headers of other languages; scripts and generated files.

The implementation has 187,917 lines, nearly all of them the vendored headers of GCC 11. Most of that is
declarations, documentation comments, overloads, forwarding and templates that transform the caller's data in one go:
there is no state for a model to keep, and a definition for such a line would only repeat it.
The map covers the part that has an algorithm or a protocol to get wrong; a
share of 30 percent of all lines cannot be reached without mapping lines that no definition translates.

## 7. Plan

1. Done: `RWMutex`, `Barrier`, `Event`, `WinCondition`, `TaskPool`, `TaskList`, `MessageBox`,
   `AtomicWait`, `Semaphore`, `AtomicFutex`, `Hashtable`, `SharedCount`, `Introsort`,
   `StableSort`, `Searches`, `ParallelSort`, `ParallelFind`, `ReducePatterns`, `ScanPatterns`,
   `Links`, `ParallelForeach`, with the proofs above.
2. Proofs: done for the safety of all modules without recursive operators. Left are `ElementsInv`, `includes`, and
   the modules whose recursive operators could become functions, to which `RecursiveDefinitions` applies as it did to the heaps of `Introsort`: the links of `Hashtable` first.
3. `NewThreadTask`: `executeInNewThread` and the forces of a task with a pool of its own.
4. Nested readers of `RWMutex`; `ThreadRegistry`: `core.thread`'s list, start and join, suspension.
5. `RenvLoad`: the sequence of fallbacks of `renv/activate.R`.
