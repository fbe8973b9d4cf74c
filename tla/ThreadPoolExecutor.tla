------------------------- MODULE ThreadPoolExecutor -------------------------
(***************************************************************************)
(* The thread-pool executor, src/task/thread_pool_executor.cpp.            *)
(*                                                                         *)
(* Threads call the executor (Clients, and the pool's own Workers when a   *)
(* task calls back into its executor).  One step of the model is one       *)
(* critical section of mu_, one operation on a serial-key mutex, one       *)
(* notification sent after mu_ was released, or the end of a task's fn().  *)
(*                                                                         *)
(*   pc[t]     where thread t is in the API call op[t]                     *)
(*   job, batch, at, left, limited                                         *)
(*             the locals of that call: the task it submits, the ids it    *)
(*             waits for, which of them comes next, the chunks still to be *)
(*             submitted, and whether the wait has a timeout               *)
(*   wpc[w]    where worker w is in WorkerLoop and in the task's wrapper   *)
(*   tasks     tasks_, as a set: entries are appended with a growing seq   *)
(*             and erased in place, so seq is their order in the deque     *)
(*   started, done, succeeded, canceled                                    *)
(*             the fields of the TaskState objects, as sets of task ids;   *)
(*             the objects outlive their entry in states_ (shared_ptr)     *)
(*   states, pending_ids, done_ids                                         *)
(*             states_ (the ids it maps), pending_ids_, done_ids_          *)
(*                                                                         *)
(* Waiters on cv_ are modelled one by one, because cv_ is signalled with   *)
(* notify_one outside mu_.  idle_cv_ and TaskState::cv are signalled with  *)
(* notify_all under mu_ by every step that can make their predicate true,  *)
(* so waiting for them is a guard.                                         *)
(*                                                                         *)
(* Running out of memory is modelled where the code has a handler for it:  *)
(* done_ids_.push_back in MarkTaskDone, which runs inside the try block of *)
(* the task's wrapper, and again inside its handler.                       *)
(***************************************************************************)
EXTENDS Integers, Sequences, FiniteSets

CONSTANTS
  Clients,       \* threads of the program that use the executor
  Workers,       \* the threads of workers_
  None,          \* the owner of a free serial-key mutex
  Keys,          \* serial keys in use (0 is "no key" and not among them)
  Priorities,    \* priorities in use: kLow 0, kNormal 1, kHigh 2
  Policies,      \* policies the options may name
  Capacities,    \* queue capacities the options may name, 0 = unlimited
  MaxRetained,   \* max_retained_states_
  TaskCalls,     \* the calls that tasks make back into their executor
  MaxIds,        \* bound: task ids handed out before a new call may start
  MaxSeq,        \* bound: accepted tasks before another Submit may start
  MaxRejected,   \* bound: rejections before another Submit may be rejected
  MaxCanceled,   \* bound: successful TryCancel calls
  MaxBadAllocs,  \* bound: allocations that fail in MarkTaskDone
  MaxChunks,     \* bound: chunks of one ParallelFor
  MaxBatch       \* bound: ids in one WaitBatch

ASSUME ThreadsAssumption ==
  /\ IsFiniteSet(Workers) /\ Workers # {}
  /\ IsFiniteSet(Clients)
  /\ Clients \cap Workers = {}
  /\ None \notin Workers

ASSUME OptionsAssumption ==
  /\ Keys \subseteq Nat \ {0}
  /\ Priorities \subseteq 0..2
  /\ Policies \subseteq {"kFifo", "kPriority", "kFair", "kHybridFairPriority"}
  /\ Capacities \subseteq Nat
  /\ MaxRetained \in Nat \ {0}

ASSUME BoundsAssumption ==
  /\ MaxIds \in Nat /\ MaxSeq \in Nat /\ MaxRejected \in Nat
  /\ MaxCanceled \in Nat /\ MaxBadAllocs \in Nat /\ MaxChunks \in Nat /\ MaxBatch \in Nat

Threads == Clients \cup Workers

VARIABLES
  stopping, options, tasks, enqueue_seq, pending_tasks, active_workers, stats,
  next_task_id, states, pending_ids, done_ids,
  started, done, succeeded, canceled,
  key_mu,        \* key_mu[k]: the worker that holds the mutex of key k
  wpc, cur,      \* where each worker is, and the entry it took from tasks_
  pc, op, job, batch, at, left, limited,
  issued,        \* history: ids SubmitEx returned to its caller
  ran,           \* history: ids whose fn() was entered
  finished,      \* history: seqs of the tasks a worker is through with
  bad_allocs     \* history: allocations that failed in MarkTaskDone

queueVars == <<tasks, enqueue_seq, pending_tasks>>
idVars    == <<next_task_id, states, pending_ids>>
doneVars  == <<done_ids, done, succeeded, bad_allocs>>
workVars  == <<active_workers, started, key_mu, cur, ran, finished>>
callVars  == <<pc, op, job, batch, at, left, limited>>
vars == <<stopping, options, queueVars, idVars, doneVars, workVars, stats,
          canceled, wpc, callVars, issued>>

-----------------------------------------------------------------------------

Counters == {"submitted", "completed", "failed", "canceled", "rejected",
             "queue_depth", "queue_high_watermark"}

NoJob == [id |-> 0, priority |-> 1, key |-> 0]

NoTask == [id |-> 0, priority |-> 1, key |-> 0, seq |-> 0]

Init ==
  /\ stopping = FALSE
  /\ options \in [policy : Policies, queue_capacity : Capacities]
  /\ tasks = {} /\ enqueue_seq = 0 /\ pending_tasks = 0 /\ active_workers = 0
  /\ stats = [c \in Counters |-> 0]
  /\ next_task_id = 1
  /\ states = {} /\ pending_ids = {} /\ done_ids = <<>>
  /\ started = {} /\ done = {} /\ succeeded = {} /\ canceled = {}
  /\ key_mu = [k \in Keys |-> None]
  /\ wpc = [w \in Workers |-> "check"]
  /\ cur = [w \in Workers |-> NoTask]
  /\ pc = [t \in Threads |-> "none"] /\ op = [t \in Threads |-> "none"]
  /\ job = [t \in Threads |-> NoJob]
  /\ batch = [t \in Threads |-> <<>>] /\ at = [t \in Threads |-> 1]
  /\ left = [t \in Threads |-> 0] /\ limited = [t \in Threads |-> FALSE]
  /\ issued = {} /\ ran = {} /\ finished = {} /\ bad_allocs = 0

-----------------------------------------------------------------------------
(* Enqueue *)

QueueFull == options.queue_capacity > 0 /\ Cardinality(tasks) >= options.queue_capacity

AcceptUncounted(id, priority, key) ==    \* mutant of Accept: pending_tasks_ is not raised
  /\ ~stopping /\ ~QueueFull
  /\ enqueue_seq' = enqueue_seq + 1
  /\ tasks' = tasks \cup {[id |-> id, priority |-> priority, key |-> key, seq |-> enqueue_seq + 1]}
  /\ UNCHANGED pending_tasks
  /\ stats' = [stats EXCEPT !["submitted"] = @ + 1]

(* The task is queued. *)
Accept(id, priority, key) ==
  /\ ~stopping /\ ~QueueFull
  /\ enqueue_seq' = enqueue_seq + 1
  /\ tasks' = tasks \cup {[id |-> id, priority |-> priority, key |-> key, seq |-> enqueue_seq + 1]}
  /\ pending_tasks' = pending_tasks + 1
  /\ LET depth == Cardinality(tasks')
         high  == stats.queue_high_watermark
     IN  stats' = [stats EXCEPT !["submitted"] = @ + 1,
                                !["queue_depth"] = depth,
                                !["queue_high_watermark"] = IF depth > high THEN depth ELSE high]

(* Enqueue returns kInternalError (stopping) or kWouldBlock (queue full). *)
Refuse ==
  /\ \/ stopping /\ UNCHANGED stats
     \/ ~stopping /\ QueueFull /\ stats' = [stats EXCEPT !["rejected"] = @ + 1]
  /\ UNCHANGED queueVars

Asleep == {w \in Workers : wpc[w] = "sleep"}

NotifyNobody == UNCHANGED wpc            \* mutant of NotifyOne: the notification is lost

(* cv_.notify_one(), after mu_ was released. *)
NotifyOne ==
  IF Asleep = {} THEN UNCHANGED wpc
  ELSE \E w \in Asleep : wpc' = [wpc EXCEPT ![w] = "check"]

-----------------------------------------------------------------------------
(* The calls.  A client makes no call once the executor is being released; *)
(* a task may call until its fn() returns.                                 *)

MayCall(t, f) ==
  /\ pc[t] = "none"
  /\ \/ t \in Clients /\ ~stopping
     \/ t \in Workers /\ f \in TaskCalls /\ wpc[t] = "run"

(* Thread t is at p in a call of f, with these locals. *)
Enter(t, p, f, j, b, n, timed) ==
  /\ pc' = [pc EXCEPT ![t] = p]
  /\ op' = [op EXCEPT ![t] = f]
  /\ job' = [job EXCEPT ![t] = j]
  /\ batch' = [batch EXCEPT ![t] = b]
  /\ at' = [at EXCEPT ![t] = 1]
  /\ left' = [left EXCEPT ![t] = n]
  /\ limited' = [limited EXCEPT ![t] = timed]

GoTo(t, p) ==
  /\ pc' = [pc EXCEPT ![t] = p]
  /\ UNCHANGED <<op, job, batch, at, left, limited>>

Return(t) == Enter(t, "none", "none", NoJob, <<>>, 0, FALSE)

Submit(t) ==
  /\ MayCall(t, "Submit")
  /\ \/ /\ enqueue_seq < MaxSeq
        /\ Accept(0, 1, 0)
        /\ Enter(t, "notify", "Submit", NoJob, <<>>, 0, FALSE)
     \/ /\ stats.rejected < MaxRejected
        /\ Refuse
        /\ UNCHANGED callVars
  /\ UNCHANGED <<stopping, options, idVars, doneVars, workVars, canceled, wpc, issued>>

NextTaskId == next_task_id + 1

(* SubmitEx up to its call of Enqueue: the id, its state, its pending mark. *)
NewTask ==
  /\ next_task_id' = NextTaskId
  /\ states' = states \cup {next_task_id}
  /\ pending_ids' = pending_ids \cup {next_task_id}
  /\ UNCHANGED <<stopping, options, queueVars, doneVars, workVars, stats, canceled, wpc, issued>>

(* SubmitEx; SubmitWithKey is SubmitEx with priority 1 and a key. *)
SubmitEx(t, priority, key) ==
  /\ MayCall(t, "SubmitEx")
  /\ next_task_id <= MaxIds
  /\ NewTask
  /\ Enter(t, "enqueue", "SubmitEx", [id |-> next_task_id, priority |-> priority, key |-> key],
           <<>>, 0, FALSE)

Chunk == [id |-> next_task_id, priority |-> 1, key |-> 0]

(* ParallelFor over a range of n chunks submits the first of them ... *)
ParallelFor(t, n) ==
  /\ MayCall(t, "ParallelFor")
  /\ next_task_id <= MaxIds
  /\ NewTask
  /\ Enter(t, "enqueue", "ParallelFor", Chunk, <<>>, n - 1, FALSE)

(* ... and then the others, one after the other. *)
NextChunk(t) ==
  /\ pc[t] = "chunk"
  /\ NewTask
  /\ pc' = [pc EXCEPT ![t] = "enqueue"]
  /\ job' = [job EXCEPT ![t] = Chunk]
  /\ left' = [left EXCEPT ![t] = @ - 1]
  /\ UNCHANGED <<op, batch, at, limited>>

Enqueue(t) ==
  /\ pc[t] = "enqueue"
  /\ \/ Accept(job[t].id, job[t].priority, job[t].key) /\ GoTo(t, "notify")
     \/ Refuse /\ GoTo(t, "rollback")
  /\ UNCHANGED <<stopping, options, idVars, doneVars, workVars, canceled, wpc, issued>>

RollbackMark(id) ==                      \* mutant of RollbackTask: the state stays in states_
  pending_ids' = pending_ids \ {id} /\ UNCHANGED states

RollbackTask(id) ==
  states' = states \ {id} /\ pending_ids' = pending_ids \ {id}

GivesUp(t) == FALSE                      \* mutant of WaitsOnFailure: submitted chunks run on

(* A ParallelFor that could not submit a chunk waits for those it did. *)
WaitsOnFailure(t) == op[t] = "ParallelFor" /\ batch[t] # <<>>

(* Enqueue refused: SubmitEx forgets the task and reports the status. *)
Rollback(t) ==
  /\ pc[t] = "rollback"
  /\ RollbackTask(job[t].id)
  /\ IF WaitsOnFailure(t) THEN GoTo(t, "find") ELSE Return(t)
  /\ UNCHANGED <<stopping, options, queueVars, next_task_id, doneVars, workVars, stats,
                 canceled, wpc, issued>>

(* Enqueue accepted: notify, then return the id, or go on with ParallelFor. *)
Notify(t) ==
  /\ pc[t] = "notify"
  /\ NotifyOne
  /\ IF op[t] = "ParallelFor"
     THEN /\ pc' = [pc EXCEPT ![t] = IF left[t] > 0 THEN "chunk" ELSE "find"]
          /\ batch' = [batch EXCEPT ![t] = Append(@, job[t].id)]
          /\ UNCHANGED <<op, job, at, left, limited>>
     ELSE Return(t)
  /\ issued' = IF op[t] = "SubmitEx" THEN issued \cup {job[t].id} ELSE issued
  /\ UNCHANGED <<stopping, options, queueVars, idVars, doneVars, workVars, stats, canceled>>

(* Only the locals of the call change. *)
OnlyCall == UNCHANGED <<stopping, options, queueVars, idVars, doneVars, workVars, stats,
                        canceled, wpc, issued>>

(* Wait(id, timeout_ms); timed says that the timeout is not 0. *)
Wait(t, id, timed) ==
  /\ MayCall(t, "Wait")
  /\ Enter(t, "find", "Wait", NoJob, <<id>>, 0, timed)
  /\ OnlyCall

WaitBatch(t, ids, timed) ==
  /\ MayCall(t, "WaitBatch")
  /\ Enter(t, "find", "WaitBatch", NoJob, ids, 0, timed)
  /\ OnlyCall

(* First critical section of Wait: look the id up.  kNotFound ends the     *)
(* whole batch.                                                            *)
Find(t) ==
  /\ pc[t] = "find"
  /\ IF batch[t][at[t]] \in states
     THEN GoTo(t, "wait")
     ELSE Return(t)
  /\ OnlyCall

(* Second critical section of Wait: the task is done; next id of the batch. *)
Waited(t) ==
  /\ pc[t] = "wait"
  /\ batch[t][at[t]] \in done
  /\ IF at[t] < Len(batch[t])
     THEN /\ pc' = [pc EXCEPT ![t] = "find"]
          /\ at' = [at EXCEPT ![t] = @ + 1]
          /\ UNCHANGED <<op, job, batch, left, limited>>
     ELSE Return(t)
  /\ OnlyCall

(* kWouldBlock: wait_for expired before the task was done, or WaitBatch    *)
(* found no time left before the next id.                                  *)
Expire(t) ==
  /\ limited[t]
  /\ \/ pc[t] = "wait" /\ batch[t][at[t]] \notin done
     \/ pc[t] = "find" /\ op[t] = "WaitBatch"
  /\ Return(t)
  /\ OnlyCall

CancelUnlessDone(id) == id \notin done   \* mutant of Cancelable: a running task is canceled

Cancelable(id) == id \notin started \cup done

(* TryCancel that returns kOk; its other returns change nothing.  A second *)
(* call for the same id succeeds, and is counted, again.                   *)
TryCancel(t, id) ==
  /\ MayCall(t, "TryCancel")
  /\ id \in states /\ Cancelable(id)
  /\ stats.canceled < MaxCanceled
  /\ canceled' = canceled \cup {id}
  /\ stats' = [stats EXCEPT !["canceled"] = @ + 1]
  /\ UNCHANGED <<stopping, options, queueVars, idVars, doneVars, workVars, wpc, callVars, issued>>

WaitAll(t) ==
  /\ MayCall(t, "WaitAll")
  /\ Enter(t, "idle", "WaitAll", NoJob, <<>>, 0, FALSE)
  /\ OnlyCall

NobodyActive == active_workers = 0       \* mutant of Idle: queued tasks are not waited for

Idle == pending_tasks = 0 /\ active_workers = 0

WaitedAll(t) ==
  /\ pc[t] = "idle"
  /\ Idle
  /\ Return(t)
  /\ OnlyCall

Reconfigure(t, o) ==
  /\ MayCall(t, "Reconfigure")
  /\ options' = o
  /\ UNCHANGED <<stopping, queueVars, idVars, doneVars, workVars, stats, canceled, wpc, callVars, issued>>

(* Release deletes the executor: no other client is in a call, or will be. *)
Release(t) ==
  /\ MayCall(t, "Release")
  /\ t \in Clients /\ \A c \in Clients : pc[c] = "none"
  /\ stopping' = TRUE
  /\ Enter(t, "notifyall", "Release", NoJob, <<>>, 0, FALSE)
  /\ UNCHANGED <<options, queueVars, idVars, doneVars, workVars, stats, canceled, wpc, issued>>

NotifyAll(t) ==
  /\ pc[t] = "notifyall"
  /\ wpc' = [w \in Workers |-> IF w \in Asleep THEN "check" ELSE wpc[w]]
  /\ GoTo(t, "join")
  /\ UNCHANGED <<stopping, options, queueVars, idVars, doneVars, workVars, stats, canceled, issued>>

(* join() of every worker; after it the object is gone. *)
Join(t) ==
  /\ pc[t] = "join"
  /\ \A w \in Workers : wpc[w] = "exited"
  /\ GoTo(t, "released")
  /\ OnlyCall

-----------------------------------------------------------------------------
(* WorkerLoop *)

StepTo(w, from, to) == wpc[w] = from /\ wpc' = [wpc EXCEPT ![w] = to]

(* The predicate of cv_.wait is false. *)
Sleep(w) ==
  /\ StepTo(w, "check", "sleep")
  /\ ~stopping /\ tasks = {}
  /\ UNCHANGED <<stopping, options, queueVars, idVars, doneVars, workVars, stats, canceled, callVars, issued>>

(* A wait on a condition variable may end without a notification. *)
SpuriousWakeup(w) ==
  /\ StepTo(w, "sleep", "check")
  /\ UNCHANGED <<stopping, options, queueVars, idVars, doneVars, workVars, stats, canceled, callVars, issued>>

ExitOnStop == stopping                   \* mutant of MayExit: queued tasks are abandoned

MayExit == stopping /\ tasks = {}

Exit(w) ==
  /\ StepTo(w, "check", "exited")
  /\ MayExit
  /\ UNCHANGED <<stopping, options, queueVars, idVars, doneVars, workVars, stats, canceled, callVars, issued>>

(* The policy takes entry e before entry f. *)
Before(e, f) ==
  IF options.policy \in {"kFifo", "kFair"}
  THEN e.seq < f.seq
  ELSE e.priority > f.priority \/ (e.priority = f.priority /\ e.seq < f.seq)

(* PickNextTaskIndexLocked *)
PickNextTask(e) == e \in tasks /\ \A f \in tasks \ {e} : Before(e, f)

FirstStepOfAll(e) ==                     \* mutant of FirstStep: one wrapper for all tasks
  IF e.key # 0 THEN "lock" ELSE "claim"

(* The wrapper of a Submit task runs fn() at once; that of a SubmitEx task *)
(* first takes the key's mutex, if any, and then reads the task's state.   *)
FirstStep(e) == IF e.id = 0 THEN "run" ELSE IF e.key # 0 THEN "lock" ELSE "claim"

Pick(w) ==
  /\ \E e \in tasks :
       /\ PickNextTask(e)
       /\ StepTo(w, "check", FirstStep(e))
       /\ tasks' = tasks \ {e}
       /\ cur' = [cur EXCEPT ![w] = e]
  /\ active_workers' = active_workers + 1
  /\ UNCHANGED <<stopping, options, enqueue_seq, pending_tasks, idVars, doneVars, started, key_mu,
                 ran, finished, stats, canceled, callVars, issued>>

KeyIgnored(k) == TRUE                    \* mutant of KeyFree: the serial lock is not taken

(* SubmitEx creates the mutex of a key when it first meets the key, under  *)
(* mu_, and nothing removes it: here every key has one from the start.     *)
KeyFree(k) == key_mu[k] = None

LockKey(w) ==
  /\ StepTo(w, "lock", "claim")
  /\ KeyFree(cur[w].key)
  /\ key_mu' = [key_mu EXCEPT ![cur[w].key] = w]
  /\ UNCHANGED <<stopping, options, queueVars, idVars, doneVars, active_workers, started, cur, ran,
                 finished, stats, canceled, callVars, issued>>

(* canceled is read and started is set in one critical section. *)
Claim(w) ==
  LET id == cur[w].id IN
  /\ StepTo(w, "claim", IF id \in canceled THEN "skipped" ELSE "run")
  /\ started' = started \cup {id}
  /\ ran' = IF id \in canceled THEN ran ELSE ran \cup {id}
  /\ UNCHANGED <<stopping, options, queueVars, idVars, doneVars, active_workers, key_mu, cur, finished,
                 stats, canceled, callVars, issued>>

ReleasedKey(w) == [k \in Keys |-> IF k = cur[w].key THEN None ELSE key_mu[k]]

FnReturns(w) ==
  /\ StepTo(w, "run", "returned")
  /\ pc[w] = "none"
  /\ UNCHANGED <<stopping, options, queueVars, idVars, doneVars, workVars, stats, canceled, callVars, issued>>

(* fn() throws: unwinding releases the serial lock before the handler runs. *)
FnThrows(w) ==
  /\ StepTo(w, "run", "threw")
  /\ pc[w] = "none"
  /\ key_mu' = ReleasedKey(w)
  /\ UNCHANGED <<stopping, options, queueVars, idVars, doneVars, active_workers, started, cur, ran,
                 finished, stats, canceled, callVars, issued>>

(* ++stats_.completed or ++stats_.failed, as the wrapper's outcome says. *)
Outcome(how) ==
  [stats EXCEPT !["completed"] = IF how = "returned" THEN @ + 1 ELSE @,
                !["failed"]    = IF how = "threw" THEN @ + 1 ELSE @]

SuccessesCounted(how, id) ==             \* mutant of Counted: failures are not counted
  IF id \in canceled \/ how = "threw" THEN stats ELSE Outcome(how)

Counted(how, id) == IF id \in canceled THEN stats ELSE Outcome(how)

(* The ids MarkTaskDone drops from the front of done_ids_ after appending id. *)
Overflow(id) ==
  IF Len(done_ids) >= MaxRetained THEN Len(done_ids) + 1 - MaxRetained ELSE 0

(* First part of MarkTaskDone: the task is done, and its result is set. *)
Settle(w) ==
  LET id == cur[w].id IN
  /\ done' = done \cup {id}
  /\ succeeded' = IF wpc[w] = "returned" THEN succeeded \cup {id} ELSE succeeded \ {id}
  /\ pending_ids' = pending_ids \ {id}

MarkTaskDone(w) ==
  LET id   == cur[w].id
      kept == Append(done_ids, id)
      over == Overflow(id)
  IN  IF id \in states
      THEN /\ Settle(w)
           /\ done_ids' = SubSeq(kept, over + 1, Len(kept))
           /\ states' = states \ {old \in done' : \E i \in 1..over : kept[i] = old}
           /\ stats' = Counted(wpc[w], id)
           /\ UNCHANGED bad_allocs
      ELSE UNCHANGED <<done, succeeded, pending_ids, done_ids, states, stats, bad_allocs>>

(* The wrapper of a SubmitEx task ends with MarkTaskDone, still under the  *)
(* serial lock unless fn() threw; that of a Submit task only counts.       *)
Mark(w) ==
  /\ wpc[w] \in {"skipped", "returned", "threw"}
  /\ wpc' = [wpc EXCEPT ![w] = IF cur[w].key # 0 /\ wpc[w] # "threw" THEN "unlock" ELSE "finish"]
  /\ IF cur[w].id = 0
     THEN stats' = Outcome(wpc[w]) /\ UNCHANGED <<states, pending_ids, doneVars>>
     ELSE MarkTaskDone(w)
  /\ UNCHANGED <<stopping, options, queueVars, next_task_id, workVars, canceled, callVars, issued>>

(* MarkTaskDone has settled the task when done_ids_.push_back throws.  The *)
(* wrapper's handler will mark the task again, as failed; if it is the     *)
(* handler's call that throws, the exception leaves the wrapper.           *)
MarkThrows(w) ==
  /\ wpc[w] \in {"skipped", "returned", "threw"} /\ cur[w].id \in states
  /\ bad_allocs < MaxBadAllocs /\ bad_allocs' = bad_allocs + 1
  /\ Settle(w)
  /\ wpc' = [wpc EXCEPT ![w] = IF wpc[w] = "threw" THEN "escaped" ELSE "unwind"]
  /\ UNCHANGED <<stopping, options, queueVars, next_task_id, states, done_ids, workVars, stats,
                 canceled, callVars, issued>>

(* Unwinding releases the serial lock before the handler runs. *)
Unwind(w) ==
  /\ StepTo(w, "unwind", "threw")
  /\ key_mu' = ReleasedKey(w)
  /\ UNCHANGED <<stopping, options, queueVars, idVars, doneVars, active_workers, started, cur, ran,
                 finished, stats, canceled, callVars, issued>>

(* WorkerLoop's own handler. *)
LoopCatches(w) ==
  /\ StepTo(w, "escaped", "finish")
  /\ stats' = [stats EXCEPT !["failed"] = @ + 1]
  /\ UNCHANGED <<stopping, options, queueVars, idVars, doneVars, workVars, canceled, callVars, issued>>

UnlockKey(w) ==
  /\ StepTo(w, "unlock", "finish")
  /\ key_mu' = ReleasedKey(w)
  /\ UNCHANGED <<stopping, options, queueVars, idVars, doneVars, active_workers, started, cur, ran,
                 finished, stats, canceled, callVars, issued>>

(* Last critical section of the loop's body. *)
Finish(w) ==
  /\ StepTo(w, "finish", "check")
  /\ active_workers' = active_workers - 1
  /\ pending_tasks' = IF pending_tasks > 0 THEN pending_tasks - 1 ELSE pending_tasks
  /\ stats' = [stats EXCEPT !["queue_depth"] = Cardinality(tasks)]
  /\ finished' = finished \cup {cur[w].seq}
  /\ cur' = [cur EXCEPT ![w] = NoTask]
  /\ UNCHANGED <<stopping, options, tasks, enqueue_seq, idVars, doneVars, started, key_mu, ran,
                 canceled, callVars, issued>>

-----------------------------------------------------------------------------

StartCall(t) ==
  \/ Submit(t)
  \/ \E p \in Priorities, k \in Keys \cup {0} : SubmitEx(t, p, k)
  \/ \E n \in 1..MaxChunks : ParallelFor(t, n)
  \/ \E id \in issued, timed \in BOOLEAN : Wait(t, id, timed)
  \/ \E n \in 2..MaxBatch : \E ids \in [1..n -> issued], timed \in BOOLEAN : WaitBatch(t, ids, timed)
  \/ \E id \in issued : TryCancel(t, id)
  \/ WaitAll(t)
  \/ \E o \in [policy : Policies, queue_capacity : Capacities] : Reconfigure(t, o)
  \/ Release(t)

InCall(t) ==
  \/ NextChunk(t) \/ Enqueue(t) \/ Rollback(t) \/ Notify(t)
  \/ Find(t) \/ Waited(t) \/ Expire(t) \/ WaitedAll(t)
  \/ NotifyAll(t) \/ Join(t)

Work(w) ==
  \/ Sleep(w) \/ Exit(w) \/ Pick(w) \/ LockKey(w) \/ Claim(w)
  \/ FnReturns(w) \/ FnThrows(w) \/ Mark(w) \/ MarkThrows(w) \/ Unwind(w) \/ LoopCatches(w)
  \/ UnlockKey(w) \/ Finish(w)

(* Nothing is left once the executor is released. *)
Released == \E c \in Clients : pc[c] = "released"

Terminated == Released /\ UNCHANGED vars

Next ==
  \/ \E t \in Threads : StartCall(t) \/ InCall(t)
  \/ \E w \in Workers : Work(w) \/ SpuriousWakeup(w)
  \/ Terminated

Spec == Init /\ [][Next]_vars

(* Threads are scheduled, a call that was begun is carried on, and every   *)
(* fn() returns or throws.  Nobody is obliged to make a call.              *)
Fairness ==
  /\ \A t \in Threads : WF_vars(InCall(t))
  /\ \A w \in Workers : WF_vars(Work(w))

FairSpec == Spec /\ Fairness

-----------------------------------------------------------------------------
(* Properties *)

Ids == Nat \ {0}

Entries == [id : Nat, priority : 0..2, key : Keys \cup {0}, seq : Nat]

Jobs == [id : Nat, priority : 0..2, key : Keys \cup {0}]

CallPoints == {"none", "enqueue", "rollback", "notify", "chunk", "find", "wait", "idle",
               "notifyall", "join", "released"}

Operations == {"none", "Submit", "SubmitEx", "ParallelFor", "Wait", "WaitBatch", "WaitAll",
               "Release"}

WorkPoints == {"check", "sleep", "lock", "claim", "run", "skipped", "returned", "threw",
               "unwind", "escaped", "unlock", "finish", "exited"}

(* The executor's fields hold values of their types. *)
TypeOK ==
  /\ stopping \in BOOLEAN
  /\ options \in [policy : Policies, queue_capacity : Capacities]
  /\ tasks \subseteq Entries /\ IsFiniteSet(tasks)
  /\ enqueue_seq \in Nat /\ pending_tasks \in Nat /\ active_workers \in Int
  /\ stats \in [Counters -> Nat]
  /\ next_task_id \in Ids
  /\ states \subseteq Ids /\ pending_ids \subseteq Ids /\ done_ids \in Seq(Ids)
  /\ started \subseteq Ids /\ done \subseteq Ids /\ succeeded \subseteq Ids
  /\ canceled \subseteq Ids
  /\ key_mu \in [Keys -> Workers \cup {None}]
  /\ wpc \in [Workers -> WorkPoints]
  /\ cur \in [Workers -> Entries]
  /\ pc \in [Threads -> CallPoints] /\ op \in [Threads -> Operations]
  /\ job \in [Threads -> Jobs] /\ batch \in [Threads -> Seq(Ids)]
  /\ at \in [Threads -> Nat] /\ left \in [Threads -> Int] /\ limited \in [Threads -> BOOLEAN]
  /\ issued \subseteq Ids /\ ran \subseteq Ids /\ finished \subseteq Nat /\ bad_allocs \in Nat

Busy == {w \in Workers : wpc[w] \notin {"check", "sleep", "exited"}}

Queued == {e.seq : e \in tasks}

InHand == {cur[w].seq : w \in Busy}

(* Every task Enqueue accepted is in the queue, or in the hands of exactly *)
(* one worker, or through; pending_tasks_ and active_workers_ count them.  *)
(* No task is lost, and none is run by two workers.                        *)
NoTaskLostOrDuplicated ==
  /\ 1..enqueue_seq = Queued \cup InHand \cup finished
  /\ Queued \cap InHand = {} /\ finished \cap (Queued \cup InHand) = {}
  /\ \A e, f \in tasks : e.seq = f.seq => e = f
  /\ \A v, w \in Busy : cur[v].seq = cur[w].seq => v = w
  /\ active_workers = Cardinality(Busy)
  /\ pending_tasks = Cardinality(tasks) + Cardinality(Busy)

(* When WaitAll may return, every task accepted so far is through          *)
(* (iexecutor.hpp:122).                                                    *)
WaitAllWaitsForAll == Idle => finished = 1..enqueue_seq

(* Release waits for every accepted task before the object goes            *)
(* (iexecutor.hpp:68).                                                     *)
ReleaseDrains == Released => finished = 1..enqueue_seq /\ pending_ids = {}

(* Tasks with the same serial key do not run at the same time              *)
(* (iexecutor.hpp:40).                                                     *)
SerialKeysExclusive ==
  \A v, w \in Workers :
    (v # w /\ wpc[v] = "run" /\ wpc[w] = "run" /\ cur[v].key # 0) => cur[v].key # cur[w].key

(* A task that TryCancel canceled is never run and never reported as       *)
(* successful, however TryCancel races the worker that takes the task.     *)
CanceledNeverRuns == canceled \cap (ran \cup succeeded) = {}

(* While a worker sleeps in cv_.wait there are at least as many awake      *)
(* workers without a task, or notifications about to be sent, as there are *)
(* queued tasks: one notify_one per Enqueue is enough.                     *)
WorkConserving ==
  Asleep # {} =>
    Cardinality(tasks) <= Cardinality({w \in Workers : wpc[w] = "check"})
                          + Cardinality({t \in Threads : pc[t] = "notify"})

(* Tasks in the hands of a worker that has not counted them yet. *)
Uncounted ==
  {w \in Busy : wpc[w] \notin {"unlock", "finish"} /\ cur[w].id \notin canceled \cap done}

(* Every accepted task is counted: as completed, as failed, or as skipped  *)
(* because it was canceled.  None is counted twice, unless it was canceled *)
(* and two allocations failed when it was marked: then WorkerLoop's own    *)
(* handler counts it as failed too.  stats_.canceled counts the calls of   *)
(* TryCancel that succeeded, two of which may be for one task, so it is no *)
(* less than the number of canceled tasks: the counters that QueryStats    *)
(* reports never account for fewer tasks than were accepted.               *)
StatsBalance ==
  LET sum == stats.completed + stats.failed + Cardinality(canceled \cap done)
             + Cardinality(tasks) + Cardinality(Uncounted)
  IN  /\ stats.submitted = enqueue_seq
      /\ enqueue_seq <= sum /\ 2 * (sum - enqueue_seq) <= bad_allocs
      /\ Cardinality(canceled) <= stats.canceled

(* The ids that still wait for MarkTaskDone. *)
Outstanding ==
  {job[t].id : t \in {u \in Threads : pc[u] \in {"enqueue", "rollback"}}}
  \cup {e.id : e \in {f \in tasks : f.id # 0}}
  \cup {cur[w].id : w \in {v \in Busy : wpc[v] \in {"lock", "claim", "run", "skipped", "returned", "threw"}
                                        /\ cur[v].id \notin done \cup {0}}}

(* The ids whose states await eviction. *)
Recorded == {done_ids[i] : i \in DOMAIN done_ids}

(* states_ holds the state of every task that is not done, and of at most  *)
(* max_retained_states_ tasks that are: no state is dropped too early, and *)
(* none is leaked by a refused submission.  The one leak there is: a task  *)
(* that MarkTaskDone could not record stays in states_, at the price of    *)
(* one failed allocation each.                                             *)
StatesRetained ==
  /\ pending_ids = Outstanding
  /\ pending_ids \cap done = {}
  /\ Recorded \subseteq done /\ Len(done_ids) <= MaxRetained
  /\ pending_ids \cup Recorded \subseteq states
  /\ LET leaked == states \ (pending_ids \cup Recorded)
     IN  leaked \subseteq done /\ Cardinality(leaked) <= bad_allocs

(* A task that is done stays done, and what IsTaskSucceeded says of it     *)
(* never changes: true for a task that completed, false for one that threw *)
(* or was canceled (iexecutor.hpp:128-130).                                *)
ResultIsFinal ==
  [][\A id \in done : id \in done' /\ (id \in succeeded' <=> id \in succeeded)]_<<done, succeeded>>

(* ParallelFor returns only when every chunk it submitted is done          *)
(* (iexecutor.hpp:102, "the call blocks until all chunks are complete").   *)
ParallelForBlocks ==
  [][\A t \in Threads : (op[t] = "ParallelFor" /\ op'[t] # "ParallelFor") =>
       \A i \in DOMAIN batch[t] : batch[t][i] \in done]_callVars

(* Every accepted task is eventually through.  The bounds let no more be    *)
(* accepted than the sequence numbers named here.                           *)
AcceptedTasksFinish ==
  \A s \in 1..(MaxSeq + MaxIds + MaxChunks) : (s <= enqueue_seq) ~> (s \in finished)

(* Every call returns, Wait without a timeout and WaitAll included, and    *)
(* Release comes to its end.                                               *)
CallsReturn ==
  \A t \in Clients : (pc[t] # "none") ~> (pc[t] \in {"none", "released"})

=============================================================================
