# TLA+ models of MoarVM

MoarVM is a virtual machine with native threads, a generational and parallel
garbage collector, a specializer that runs on a thread of its own, an event
loop thread and a debug server. This directory holds models of its concurrent
parts and of one intricate sequential data structure, the TLC configurations
that check them on small instances, and TLAPS proofs of the properties that
matter most. `PROJECT.json` lists for every definition the lines it stands for,
for every property a mutation of the code that breaks it, and the hazards the
properties were chosen for. All source paths below are relative to `src/src/`.

## The system's parts and how they interact

* **Threads and the collector.** Any thread that runs out of nursery becomes
  the *coordinator* of a collection; it stops the others by changing a status
  word, counts them with three vote counters, and *steals* the work of those
  that are blocked. All participants then move objects together, and pass
  references to each other's objects through *in-trays*. Every other part that
  can block (queues, mutexes, the event loop, the specializer) marks its
  thread blocked around the wait, so the collector meets all of them.
* **The debug server** is a thread that suspends and resumes others through
  the same status word.
* **The heap**: each thread has a nursery and a second generation (*gen2*) in
  pages of cells; a write barrier and a remembered set tie the two together.
* **The specializer's worker** receives logs from all threads, each of which
  has a quota of logs it may have under way.
* **The event loop** is one thread that owns all asynchronous tasks; others
  hand tasks, permits and cancellations to it through queues and wake it up.
* `fork` stops the worker and the event loop and starts them again.
* **Concurrent queues, mutexes and condition variables** are objects of the
  language; **hashes** are both objects of the language and used everywhere
  inside the VM.

| Part | Source | Modules |
|---|---|---|
| Collection of the whole VM by all threads | `gc/orchestrate.c`, `core/threads.c` | `GcState`, `GcMutator`, `GcOpening`, `GcRun`, composed in `GcOrchestrate` |
| its proofs | | `GcInv`, `GcMutatorProofs`, `GcOpeningProofs`, `GcSignalProofs`, `GcRunProofs`, `GcOrchestrateProofs` |
| Debug server: suspend and resume | `debug/debugserver.c`, `gc/orchestrate.c` | `GcDebug`, composed with `GcOrchestrate` |
| Objects, both generations, write barrier | `gc/collect.c`, `gc/gen2.c`, `gc/roots.c`, `gc/wb.h`, `gc/objectid.c`, `gc/orchestrate.c` | `Gen2`, `GcHeap` |
| Concurrent blocking queue | `6model/reprs/ConcBlockingQueue.c` | `ConcBlockingQueue`; abstract: `BlockingQueue` |
| Reentrant mutex, condition variable | `6model/reprs/ReentrantMutex.c`, `ConditionVariable.c` | `ReentrantMutex`, `ReentrantMutexProofs`; abstract: `HolderField` |
| Specialization log and worker | `spesh/log.c`, `spesh/worker.c`, `io/procops.c`, `profiler/instrument.c` | `SpeshWorker`, `SpeshWorkerProofs` |
| Event loop and its tasks | `io/eventloop.c`, `io/timers.c`, `io/signals.c`, `io/filewatchers.c`, `io/asyncsocket.c`, `io/procops.c` | `AsyncTask`, `SpawnTask`, `EventLoop` |
| String hash and its iterator | `core/str_hash_table.c`, `core/str_hash_table_funcs.h`, `6model/reprs/MVMHash.c`, `MVMIter.c` | `StrHashTable`; abstract: `Dictionary` |

Each `MC...` module instantiates a model for TLC.

## How the models correspond to the code

Variables keep the names of the C fields, and actions the names of functions
or of what a part of a function does.

**GcState, GcMutator, GcOpening, GcRun, GcOrchestrate.** One action is one step
of one thread between two accesses to shared state; `pc[t]` says where the
thread is. A critical section under `mutex_gc_orchestrate` is one step, because
each touches one counter or flag. `uv_cond_wait` is two steps, falling asleep
and testing the predicate again, and wakes up spuriously. `GcMutator` has user
code, sync points, blocking and unblocking, the start and end of a thread;
`GcOpening` has the coordinator's election, the wait for the previous run's
acknowledgements, the signalling and stealing, the start votes; `GcRun` has the
work on the objects (as in-trays that are empty or not), the finish votes, the
clearing of the in-trays, the sweep, the reset of every thread and the
acknowledgement. A panic of the code is a value of `panic`, after which nothing
happens. A thread whose context was destroyed under it may do anything, which
is the panic `freed_context`.

**GcDebug** adds the debug server's thread with its requests to suspend or to
resume one thread, and breakpoints, which suspend the thread that hits them.

**Gen2, GcHeap.** Objects have one reference each, an owner, a place (nursery,
nursery for the second time, gen2), an address that changes when they move, a
cell in gen2, and the two flags that matter (`MVM_CF_GEN2_LIVE`,
`MVM_CF_IN_GEN2_ROOT_LIST`). Threads allocate, drop and write references, ask
for object ids, publish objects through a global and end. The protocol of
`GcOrchestrate` is summarized to what it guarantees: a collection starts when
every thread has stopped, and a thread runs again as soon as its own nursery is
swept. Inside a collection every item of a worklist is a step, and the
participants interleave. The write barrier reads and stores the flag byte in
two steps, as the code does, since it may run next to another thread's sweep.

**ConcBlockingQueue** names a value by the node that carries it. The two locks
protect different fields, so a step ends at the first write another thread can
see without the lock.

**ReentrantMutex** has `holder_id` and `lock_count` next to the operating
system's mutex, and a condition variable whose wait gives up all levels of the
lock and restores them.

**SpeshWorker** has for each thread its log (as how full it is and whether it
was sent), its quota and its way through `send_log`; the worker as a loop over
its queue; fork; the instrumented profiler that waits for the worker's pause.

**AsyncTask, SpawnTask, EventLoop.** The loop thread, its three queues, the list
of active work with its free indices, the setup, permit and cancel functions of
each kind of task, and libuv's callbacks, which come in any order
(`HandleCloses`, timers, connections and the exit of a process are the
environment, modelled from how the code uses libuv). A process has a pipe for
stdout, for stderr, for both or for neither, or both merged; a pseudo terminal
is a process with a pipe for stdout, or with none when making it fails. Three
history variables are not in the code: `cancelled` and `late` (whose
cancellation was processed, and who emitted an event after that) and
`loop_threads` (how many were created and not joined).

**StrHashTable.** The control structure with its arrays of entries and of
metadata bytes is one record; the operators are the functions of
`str_hash_table.c`, and the actions are the operations of `MVMHash` and
`MVMIter`. The widths are constants, so that the limits can be reached with a
handful of keys: the real values are a byte of 8 bits, of which 5 start out as
hash, and 8 slots at least. A failed assertion or an `MVM_oops` sets the field
`oops`. A loop over slots is the least slot at which it stops.

## What the runs check

| Run | Instance | Result |
|---|---|---|
| `gc_safety` | 3 threads, one may exit, 2 collections, 1 batch of work | 570 thousand states |
| `gc_liveness` | 2 threads and the event loop, 1 collection | pass |
| `gc_destroyed_in_use` | 2 threads, 2 collections | violated, see below |
| `debug_safety` | 2 threads and the debug server, 1 collection, 2 requests | 538 thousand states |
| `debug_stop_the_world` | the same, 1 request | violated, see below |
| `heap` | 2 threads, one may end, 3 objects, pages of 2 cells, 4 operations, 2 collections | 1.5 million states |
| `heap_flag_race` | 2 threads, 3 objects, 3 operations, 2 collections | violated, see below |
| `cbq` | 3 threads, 3 nodes, 1 take each | 83 thousand states |
| `mutex` | 3 threads, 3 calls each | pass |
| `spesh` | 2 threads, one exits, 2 forks, quotas 1 and 2, logs of 2 entries | 248 thousand states |
| `eventloop` | each kind of task alone with several calls and most with a fork; a timer and a socket together | 83 thousand states |
| `strhash` | 7 keys, 4 of which have the same hash code, tables of 4 to 16 slots | 44 thousand states |

*gc_safety*: no thread runs user code while objects move (`StopTheWorld`);
every live thread is in exactly one participant's work (`WorkPartition`);
nobody runs before its own nursery is swept (`SweptBeforeResume`); nothing is
freed while an in-tray holds work (`NoLostWork`); two runs never overlap
(`RunsDoNotOverlap`); no sanity check panics (`SanityChecksHold`); a thread
that joins a run finds votes to take (`StartCountNeverZero`).

*gc_liveness*: every participant comes out of a run (`RunCompletes`), and
whoever wants to unblock gets to (`UnblockReturns`).

*debug_safety*: a suspended thread, and one whose work is stolen, never runs,
although three threads change the status word.

*heap*: nothing reachable is freed and no reference keeps an old address
(`NothingLostUnlessMarked`), the remembered set is complete and holds no freed
object (`Remembered`), no cell is handed out twice and the free lists are in
the order the next sweep relies on (`CellsRight`), and a full collection frees
all that was unreachable at its start (`FullIsPrecise`), save what lies in the
gen2 of a thread it destroys, which is handed over unswept
(`gc/orchestrate.c:218`) and left to the next one. The four hold as long as no full collection starts with a mark an earlier one has left; how a mark
can be left is what `heap_flag_race` shows.

*cbq*: the linked list stays intact under its two locks, peek never yields
NULL, the queue implements `BlockingQueue`, and no signal is lost. The result of
a thread is 0 before its first call and Null after a poll that found nothing, so
that such a poll is a step of `BlockingQueue`, allowed only when the queue is
empty, and not a stutter.

*mutex*: who holds the mutex and how often is right across waits, nobody is
mistaken for the holder, `holder_id` implements `HolderField`, and who wants the mutex
gets it.

*spesh*: a thread that holds a log has quota for it, quota is neither lost nor
made up, the assertions on the worker's thread hold with several forks at once,
profiling is switched between logs only, and a thread that waits for the
worker, in blocking mode or in fork, goes on.

*eventloop*: the list of active work and its free indices stay right, no index
leads to nothing, a cancelled task is silent even if it was cancelled before it
was set up, a pipe that is not merged with another is read exactly as long as
there are permits for it, there is never a second loop thread, and what is
handed over is taken up, also across a fork; fork returns; whoever cancels a
listening socket is told, once, when it has closed.

*strhash*: fetch finds a key exactly if it was bound and not deleted since
(`FindsWhatWasBound`); no insertion runs out of space, of distance or of bits,
or takes an emptied table for one without slots (`NeverOops`); and the hash implements `Dictionary`: an iterator hands out every
key once although keys are bound anew and the current key is deleted meanwhile
(`ActsAsDictionary`). The history variables `content` and `deleted` record what
was asked of the hash. The program is taken to keep the rule the comments give:
while it iterates it binds only keys that exist and deletes only the current one.

### Bounds

The bounds are constants, and the actions that consume them are guarded by
them. They were raised until the cases the hazards speak of happen: two
collections make a thread's end go through both stages of its destruction and
let a run meet the acknowledgements of the previous one; three threads give a
coordinator, a participant and a stolen or exiting thread at the same time; two
cells to a page give full pages and second pages with three objects; quota 1
makes a thread run out of it and have the worker restore its log; a timer
next to a socket makes an index be reused, and two calls per task a second
cancellation or permit. Four keys with one hash code reach the longest
distance of the smallest table, its extension in the next one, and growth
during a copy. Each property is broken by a mutation of the code it is about,
so none of them holds for lack of cases.

### Fairness

* `GcOrchestrate`: a thread that can take a step other than a choice of user
  code takes one in the end (`WF` of `Step(t)`): the operating system schedules
  every thread. Nobody has to allocate, exit or block. With its one collection
  `gc_liveness` does not wait for the acknowledgements of an earlier run; that
  wait is checked for safety only, in `gc_safety`.
* `ConcBlockingQueue`, `ReentrantMutex`: a thread inside an operation goes on;
  in the latter a holder unlocks in the end, without which nobody could promise
  anything to those who wait. The system's mutex need not be fair: that nobody
  starves rests on the bound on calls, after which the others are done.
* `SpeshWorker`: the worker and the threads inside a call go on. The profiler
  polls for a moment at which the worker pauses, with the mutex the worker
  signals under; that it meets one if they keep coming is strong fairness.
* `EventLoop`: users inside a call and the loop thread go on; a wakeup that was
  sent arrives if the loop keeps waiting for it, and a handle that is being
  closed is closed if the loop keeps running (`SF`), which is libuv's contract.

The runs of `heap`, `debug_safety`, `gc_safety` and `strhash` check safety
only, without fairness. Deadlock is checked for the collector, the debug
server and the hash; elsewhere the bounds, or a program that simply has nothing left to do,
make stopping legal.

## What is proved

TLAPS proves the following for every value of the constants: any number of
threads, collections, forks, any quota, any number of nested locks. The
assumptions are the named `ASSUME`s of `GcState`, `ReentrantMutex` and
`SpeshWorker`, which TLC evaluates in the runs.

**The collector** (`GcOrchestrateProofs`): `WorldStops` (`StopTheWorld`),
`RunsAreSerial` (`RunsDoNotOverlap`), `NoSanityPanic` (`SanityChecksHold`) and
`JoinsAnOpenRun` (`StartCountNeverZero`). None of these is inductive: that the
world is stopped depends on everybody having been counted, hence on what every
counter counts. The inductive invariant `IInv` (`GcInv`) ties each counter to a
set: `gc_start` to the interrupted threads that have yet to get ready
(`StartVotes`), `gc_finish` to the participants that have not voted
(`FinishVotesFit`), `gc_ack` to those that have not acknowledged (`AcksFit`); it
says which phases of different threads can coincide (`OneOpener`, `OpenerAlone`,
`OneCoordinator`), that after the signalling every listed thread takes part, is
stolen or has ended (`EverybodySignalled`, `EverybodyStopped`), and how a
thread's status fits where it is (`StatusFits`, `ListFits`, `SpawnFits`). There
is one lemma per action, in the module for the actions' phase; `Counting`
gathers the facts on cardinalities they use, and is proved from
`FiniteSetTheorems`. The proofs are about `GcOrchestrate` without the debugger,
with which `StopTheWorld` is false.

**The mutex** (`ReentrantMutexProofs`): `HolderOwnsAlways`,
`NobodySlipsInAlways`, `NumLocksRightAlways`, and that `holder_id` implements
`HolderField` (`HolderRefinesLock`). The invariant adds to the types who owns the
mutex at each place and what holder and count are there.

**The specialization log** (`SpeshWorkerProofs`): `QuotaCoversLogAlways`,
`SentLogNotWrittenAlways` (a thread writes to no log it has sent, which no run
checks), `WorkerAssertionsAlways` and `ProfilerBetweenLogsAlways`. `LogInv` says for each place in `send_log` whether
the thread has a log, whether it was sent and what quota is left, and that the
worker puts a log in place only for a thread that has none or is about to give
its log up: both sides change the quota and decide from the old value.
`ForkInv` says that who stops or joins the worker holds the event loop's mutex;
`WorkInv` that `spesh_working` covers the work.

Only model-checked: liveness, which needs fairness and ENABLED; the heap and
the event loop, whose invariants are about paths and queues of any length; the
blocking queue, whose list is defined by recursion; and the hash, whose growth
is a recursive operator. The first needs temporal reasoning and the others
induction over data, which the installed provers cannot do.

## Where the code and what is said of it disagree

Runs that are expected to be violated:

* `debug_stop_the_world`: a thread that was asked to suspend looks to
  `signal_one_thread` like one that already takes part (`gc/orchestrate.c:41`).
  It is neither counted nor stolen and runs on during the collection.
* `gc_destroyed_in_use`: a thread stores that it has exited before it marks
  itself blocked (`core/threads.c:113`), so two collections can destroy its
  context while it still uses it.
* `heap_flag_race`: the write barrier sets a flag with a plain read and store
  (`gc/roots.c:322`) while the owner of the object may still be sweeping and
  clear the mark in the same byte. A mark that survives makes the next full
  collection skip the object and free what only it refers to.

Noticed in the code while modelling it. No run states these, so they rest on
reading and not on a check, and no text promises otherwise but for the comment
quoted below:

* Collector: `gc_ack` becomes 0 before `in_gc` is cleared
  (`gc/orchestrate.c:307-313`), so the next run may have its `in_gc` cleared by
  the one before, and be without it from then on. A thread that unblocks
  (352) and the debug server's resume (`debug/debugserver.c:869`) then try
  again at once where they would have waited.
* Debug server: a request that is taken back lets a thread enter a run that
  has no votes (`gc/orchestrate.c:694`, `733`) or panic with "Invalid GC status
  observed while blocking thread" (328); the reply to a suspend request may
  come before the thread has stopped (`debug/debugserver.c:792`), and the loop
  spins on a thread that is already suspended (753); a resume may be lost
  between a thread's look at its status and its wait (`gc/orchestrate.c:700`);
  `had_suspend_request` is kept from one turn of the loop to the next (47).
* Heap: a thread that is destroyed in a full collection hands over its gen2
  unswept, marks included (`gc/orchestrate.c:218`), with the effect of a mark
  that survives; an object that another thread asked the id of gets a cell of
  that thread, and keeps an owner whose destruction makes a later full
  collection panic; objects that die in the nursery of a destroyed thread are
  not given to `gc_free`.
* Specializer: `send_log` counts the quota down to 0 (`spesh/log.c:47`) and
  stores NULL over its log afterwards (52). Between the two the worker may
  return quota and put a new log in place, which the store removes; the thread
  then logs nothing any more. A stopped worker leaves `spesh_working` set
  (`spesh/worker.c:308`), on which the profiler waits for good. The quota grows
  also when a request for an extra log is refused (`spesh/log.c:71`). The
  worker keeps the sender's context across allocations (`spesh/worker.c:277`).
* Event loop: of two merged pipes, only the one that used the last permit is
  stopped, where the comment says "stop reading if we run out"
  (`io/procops.c:697`); a permit that is processed before the setup is
  dropped (`io/eventloop.c:44`); cancelling a file watcher neither gives its
  index back nor notifies (`io/filewatchers.c:77`); cancelling a signal
  handler, a task that is not set up yet or a timer that has fired notifies
  nobody, and of two cancellers one is told; after a fork the data of timers
  and signal handlers refer to the context of the loop thread that has ended
  (`io/timers.c:24`); a write whose setup fails is never removed
  (`io/procops.c:368`).

## Not modelled, and why

* In the modelled parts: `MVM_gc_global_destruction`; thread ids and lifetime;
  suspending and resuming all threads, invocations by the debugger; STables,
  frames with a work area, finalizers, temporary roots, oversized objects, the
  sizing of nurseries; writes to processes, connections, reads and writes of
  sockets, UDP, `MVM_io_eventloop_destroy`, the arithmetic of timers; the
  collection of a mutex. They are independent of the properties checked, or
  would multiply states that already take minutes.
* Other hash tables (`fixkey`, `index`, `ptr`, `uni`): the same algorithm with
  other keys; cloning a hash, which copies the block of memory as it is;
  concurrent use of one hash, which the code only tries to detect.
* The specializer's optimizer, the interpreter and the JIT compiler: their
  correctness is about the meaning of a large instruction set.
* Dispatch programs, bytecode loading and validation, serialization: parsers
  and interpreters of formats.
* Strings and Unicode, big integers, native calls, synchronous I/O, profilers:
  data conversion, libraries and observers, without a protocol of their own.
* The semaphore: a wrapper without state.

The map covers a small share of the repository's lines, as most of these are
generated tables, instruction implementations and code generation.
