# TLA+ models of corekit

Models of the parts of corekit in which several threads or processes meet, the
runs that check them with TLC, and proofs that TLAPS checks. Line numbers refer
to the files under `src/`; `PROJECT.json` maps every definition to its lines.

## The system

| part | state | operations | what is hard |
|---|---|---|---|
| thread-pool executor (`task/thread_pool_executor.cpp`) | task queue, task states, serial-key mutexes, counters, workers | Submit, SubmitEx, SubmitWithKey, ParallelFor, Wait, WaitBatch, TryCancel, WaitAll, Reconfigure, Release; WorkerLoop | notifications outside the mutex, cancel against start, bookkeeping that throws, eviction of finished states, shutdown with tasks queued |
| task graph (`task/simple_task_graph.cpp`) | nodes, edges, the locals of a run | AddTask, AddDependency, AddDependencies, Validate, Clear, Run, RunWithExecutor | order of nodes, refused submissions in mid-level, failing nodes |
| shared-memory channel (`ipc/shared_memory_channel.cpp`) | ring and indices in shared memory, local outbox | OpenServer, OpenClient, Close, TrySend, TryRecv | two processes without locks, wrap-around, full ring |
| global and system allocator (`memory/global_allocator.cpp`, `system_allocator.cpp`) | current backend, live sizes, statistics | Configure, Allocate, Deallocate, ResetStats | switching backends while memory is in use |
| slab pool, system pool (`memory/slab_pool_impl.hpp`, `system_pool.cpp`) | blocks, free lists, budgets, child pools | Alloc, Free, Shrink, CreateChild, Configure | Shrink with slabs in use, budget races |
| object pool (`memory/basic_object_pool_impl.hpp`) | all and free objects, twice each | Reserve, Acquire, ReleaseObject, Trim, Clear | bookkeeping that fails half way |
| containers (`concurrent/`) | one container under one lock; a lock-free queue with a separate counter | push, pop, batch, clear | counter and queue apart |
| log manager (`log_manager.cpp`) | options, directories, sink with queue and worker | Init, Reload, Log, Shutdown | full queue, draining, failed Reload |
| files, JSON, XML, status, factories | none over time | wrappers | nothing for a model checker |

The task graph runs its nodes on an executor. The object pool, and the containers
through `global_stl_allocator.hpp`, take their memory from the global allocator. The
channel and the log manager stand alone.

## Modules

**ThreadPoolExecutor** models the whole executor. A step is one critical section
of `mu_`, one operation on a serial-key mutex, one notification sent after `mu_`
was released, or the end of a task's function. `pc[t]` says where thread `t` is in
its API call, `op`, `job`, `batch`, `at`, `left`, `limited` are the locals of that
call, and `wpc[w]` says where worker `w` is in `WorkerLoop`. `tasks_` is a set of
entries ordered by `seq`. The fields of the `TaskState` objects are the sets
`started`, `done`, `succeeded`, `canceled`. Waiters on `cv_` are modelled one by
one because `notify_one` chooses among them; the other two condition variables are
signalled with `notify_all` under the mutex, so waiting for them is a guard. Tasks may call back into their own
executor (`TaskCalls`).

Three short cuts. The range of `ParallelFor` is a number of chunks. The mutex of a serial
key exists from the start, where the code creates it when it first meets the key, under
`mu_`, and never removes it. And memory allocation fails in one place only, the one for
which the code has a handler: `done_ids_.push_back` in `MarkTaskDone` (`MarkThrows`), after
which the wrapper's handler marks the task again as failed (`Unwind`, then `Mark`) or, if
that fails too, WorkerLoop's own handler counts it (`LoopCatches`). `IsTaskSucceeded` and
`QueryStats` change nothing and are no actions; properties read the state they report.
`MCThreadPoolExecutor` gives TLC small sets of threads.

**ShmRing** models the ring between one sender and one receiver (the contract of
`i_channel.hpp:61` and `:72`), access by access: each load or store of an index, each
header and each 8-byte word of a payload is a step of its own. The release and
acquire orders of the code make such interleavings all that can happen. A local is
cleared after its last use, which only saves states. `Init` is the state after
OpenServer and OpenClient; in `ring_overflow`, where the ring has no bytes, it is the state
after OpenServer alone, since `MapAsClient` (line 448) refuses such a ring, and only what the
sender does counts there. Left out are the would-block and drop counters, which
only `GetStats` reads, and the branches for a tail shorter than a frame header, which
no index can reach because frames are multiples of 8 bytes. `Width` is the width of
`uint32_t` in `NextPow2`.

**FifoChannel** is what `IChannel` promises: accepted messages come out once, unchanged
and in order. `ShmRing!Channel` maps the ring to it: the queue is what was accepted
and not yet delivered.

**TaskGraph** models building, validating and running a graph. The executor is what
`RunInternal` sees of it: it accepts or refuses a node, runs accepted nodes in any
order, and is waited for node by node. Like the real one it may have forgotten a node
that has ended, and then `WaitBatch` fails and RunInternal returns at once (`WaitFails`).
Nodes it leaves behind that way hold pointers into its freed locals; what they do is
undefined, and the model follows the graph's thread again only when they are through.

**ThreadPoolExecutorProofs** and **ThreadPoolExecutorSafety** hold the theorems.

In each module an operator marked "mutant of X" is a plausible mistake in X; with it
in place of X the property it is paired with in `PROJECT.json` is violated.

## Runs

| run | checks | bounds |
|---|---|---|
| `executor_tasks` | SerialKeysExclusive, CanceledNeverRuns, StatesRetained | 2 clients, 2 workers, 2 tasks, one key, bounded and unbounded queue, one retained state, one failed allocation |
| `executor_queue` | TypeOK, NoTaskLostOrDuplicated, WorkConserving, StatsBalance, WaitAllWaitsForAll, ReleaseDrains | bounded and unbounded queue, two priorities, tasks that submit, two cancellations, two failed allocations |
| `executor_liveness` | AcceptedTasksFinish, CallsReturn | one client, 2 workers, 2 tasks that may share a key, a ParallelFor of up to 2 chunks, no failed allocation, no symmetry |
| `executor_parallel_for` | ParallelForBlocks | up to 3 chunks, a queue that may be full, room for all states, no failed allocation |
| `executor_parallel_for_retention` | ParallelForBlocks, violated | up to 3 chunks, one retained state |
| `executor_bookkeeping` | ResultIsFinal, violated | one task, one failed allocation |
| `ring_spsc` | TypeOK, NothingOverwritten, WrapHasRoom, FramesIntact, OutboxIsRest, EmptyRingAccepts, ImplementsChannel | 32-byte ring (exactly two largest frames), frames of 8 and 16 bytes, 7 messages |
| `ring_liveness` | PublishedIsReceived | the same ring, 5 messages |
| `ring_capacity_one` | EmptyRingAccepts, violated | capacity 1 |
| `ring_overflow` | OutboxIsRest, violated | a 6-bit size |
| `task_graph` | TypeOK, ValidateFindsCycles, DependenciesRespected, ConcurrencyCapped, NoNodeOutlivesRun, StatsTellWhatRan, ValidatedRunsThrough, RunReturns | all graphs of up to 3 nodes, caps 0, 1, 2 |
| `task_graph_fail_fast` | FailFastStops, violated | up to 2 nodes |

Distinct states, and the time with two workers: `executor_tasks` 1,313,034 (2 min),
`executor_queue` 531,180 (40 s), `executor_liveness` 175,865 (2 min), `executor_parallel_for`
567,566 (1 min), `ring_spsc` 572,125 (2.5 min), `ring_liveness` 59,965 (2 min), `task_graph`
69,275 (1.5 min).

What the bounds reach. Two workers race each other for tasks, keys and notifications
in every run of the executor. Two clients race each other only in `executor_tasks`; the
other runs have one client, whose calls race the workers and, in `executor_queue`, the
submissions of tasks. The theorems hold for any number of both. With 7 messages
the 32-byte ring fills up, the outbox reaches its limit of 4 and refuses a message,
and frames of two sizes put the indices at every word, so that wraps occur.
With three nodes a graph has chains, forks, joins and cycles. With one failed allocation a
successful task is marked twice; with two the exception leaves the task's wrapper.

What they do not reach. No run has more than two workers. In the runs tasks call back
only with Submit and SubmitEx, and in `executor_liveness` not at all: a task that waits for
its own executor may block for ever, so CallsReturn is a statement about tasks that
do not. That run has one client and few tasks. Two workers compete for a key in it, and the
one that has to wait gets on; with more than two a waiter could be overtaken again
and again, so the run says nothing about starvation on a key's mutex.
Indices of the ring do not come near 2^64.

Fairness. In the executor every thread that is in a call, and every worker, is scheduled
(weak fairness); functions return or throw; nobody has to make a call, and spurious
wake-ups need not happen. In the ring both processes carry on the call they are
in, and the receiver keeps polling and does not for ever use a buffer that it was
told is too small (strong fairness on a call with a large enough buffer). In the
task graph the run and the executor's workers go on.

## What the violations show

* **ParallelFor can return early.** `Wait` returns `kNotFound` for a finished task whose
  state was evicted, `WaitBatch` stops there, and `ParallelFor` returns while chunks run,
  although `iexecutor.hpp:102` says it blocks until all are complete. 65536 states are
  retained (`thread_pool_executor.cpp:20`), shared by all tasks. `RunInternal` of the task graph
  depends on `WaitBatch` in the same way: NoNodeOutlivesRun says that this is the only way in
  which it leaves nodes behind.
* **A successful task can turn into a failed one.** `MarkTaskDone` publishes the result before
  `done_ids_.push_back`; if that throws, the wrapper's handler marks the task again, as failed,
  although `iexecutor.hpp:129` and `:130` give that answer to tasks that threw or were canceled.
  Such a task may also stay in `states_` for good (StatesRetained bounds how many).
* **A ring of capacity 1 can get stuck.** A largest frame that does not fit in the tail
  needs the tail and itself; with one slot this can be more than the whole ring.
* **A ring above 2 GiB has no bytes.** `NextPow2` wraps to 0 after the check in `TotalBytes`; every
  message is then discarded with `kOk`, and no client can open the channel.
* **fail_fast looks at failures level by level**, not as soon as a node fails.

## Proofs

For every set of threads, keys, priorities, policies and capacities and every
`MaxRetained` > 0, and with any number of failed allocations (the ASSUMEs of ThreadPoolExecutor: finitely many threads, at least one worker):

* `TypeCorrect`: `TypeOK` always holds. `TypeOK` is not inductive by itself: that a
  finished task has a proper id depends on which tasks have one, so the
  inductive invariant adds `Assigned` (a thread that is submitting, and a worker in
  the wrapper of a SubmitEx task, have an id other than 0).
* `SerialKeysSafe`: `KeyInv` says who holds which key mutex from LockKey to UnlockKey, or until an exception
  releases it; two
  running tasks with one key would both hold it.
* `CancelSafe`: `CancelInv` says that what ran was started, that what succeeded ran, and that
  nothing canceled ran. It needs the single critical section that reads `canceled`
  and sets `started`.
* `TasksConserved`: `NoTaskLostOrDuplicated` is inductive over TypeOK; each of Accept, Pick and Finish
  moves one sequence number from one place to the next.
* `WaitAllSafe`: follows from it, with the two counters WaitAll reads.
* `NotifyOneSuffices`: while a worker sleeps, the queued tasks are at most as many as workers
  about to look at the queue plus notifications about to be sent.

Only model-checked: liveness (fairness and ENABLED are beyond the prover), the other
properties of the executor, the ring with its refinement, and the task graph.

## Plan

1. Ring: theorems for `NothingOverwritten` and, for capacity of at least 2, `EmptyRingAccepts`.
   Life cycle of the channel: OpenServer, OpenClient and Close with a crash between steps.
2. Memory: `GlobalAllocator` with `SystemAllocator` (live memory belongs to the current backend; a
   theorem), `SlabPool` with Shrink, budgets and child pools, `ObjectPool` with failing
   bookkeeping; one run for the three, which do not interact.
3. Log: the asynchronous sink (nothing queued is lost, blocked senders get on, the drop
   count is right) and Init, Reload, Shutdown.
4. Containers as implementations of one abstract bounded queue; the arithmetic
   of ParallelFor's ranges in fixed width.
5. Executor: theorems for `StatesRetained`, `StatsBalance` and `ReleaseDrains`, and an
   abstract executor that both `ThreadPoolExecutor` implements and `TaskGraph` uses.

Not modelled and not planned: files, JSON, XML, status values and factories (sequential
wrappers without state over time), and the third-party code under `3party/`.
