---------------------- MODULE ThreadPoolExecutorProofs ----------------------
(***************************************************************************)
(* Theorems about ThreadPoolExecutor, for any number of clients, workers,  *)
(* keys and tasks.                                                         *)
(***************************************************************************)
EXTENDS ThreadPoolExecutor, TLAPS, SequenceTheorems, FiniteSetTheorems

USE ThreadsAssumption, OptionsAssumption, BoundsAssumption

-----------------------------------------------------------------------------
(* Type correctness *)

(* What Accept leaves in the queue and the counters has the right types. *)
LEMMA AcceptType ==
  ASSUME TypeOK, NEW id \in Nat, NEW p \in 0..2, NEW k \in Keys \cup {0}, Accept(id, p, k)
  PROVE  /\ tasks' \subseteq Entries /\ IsFiniteSet(tasks')
         /\ enqueue_seq' \in Nat /\ pending_tasks' \in Nat
         /\ stats' \in [Counters -> Nat]
<1>1. IsFiniteSet(tasks')
  BY FS_AddElement DEF Accept, TypeOK
<1>2. Cardinality(tasks') \in Nat
  BY <1>1, FS_CardinalityType
<1>3. stats' \in [Counters -> Nat]
  <2>1. stats \in [Counters -> Nat]
    BY DEF TypeOK
  <2>2. stats.queue_high_watermark \in Nat /\ stats["submitted"] \in Nat
    BY <2>1 DEF Counters
  <2> DEFINE depth == Cardinality(tasks')
             high  == IF depth > stats.queue_high_watermark THEN depth ELSE stats.queue_high_watermark
             sum   == stats["submitted"] + 1
  <2>3. stats' = [stats EXCEPT !["submitted"] = sum, !["queue_depth"] = depth,
                               !["queue_high_watermark"] = high]
    BY DEF Accept
  <2>4. depth \in Nat /\ high \in Nat /\ sum \in Nat
    BY <1>2, <2>2
  <2> HIDE DEF depth, high, sum
  <2>5. QED
    BY <2>1, <2>3, <2>4
<1>4. tasks' \subseteq Entries /\ enqueue_seq' \in Nat /\ pending_tasks' \in Nat
  BY DEF Accept, TypeOK, Entries
<1>5. QED
  BY <1>1, <1>3, <1>4

(* So does what Refuse leaves there. *)
LEMMA RefuseType ==
  ASSUME TypeOK, Refuse
  PROVE  UNCHANGED <<tasks, enqueue_seq, pending_tasks>> /\ stats' \in [Counters -> Nat]
BY DEF Refuse, TypeOK, queueVars, Counters

CallTypeOK ==
  /\ pc \in [Threads -> CallPoints] /\ op \in [Threads -> Operations]
  /\ job \in [Threads -> Jobs] /\ batch \in [Threads -> Seq(Ids)]
  /\ at \in [Threads -> Nat] /\ left \in [Threads -> Int] /\ limited \in [Threads -> BOOLEAN]

(* Entering a call sets the locals to values of their types. *)
LEMMA EnterType ==
  ASSUME TypeOK, NEW t \in Threads, NEW p \in CallPoints, NEW f \in Operations, NEW j \in Jobs,
         NEW b \in Seq(Ids), NEW n \in Int, NEW timed \in BOOLEAN, Enter(t, p, f, j, b, n, timed)
  PROVE  CallTypeOK'
BY DEF TypeOK, CallTypeOK, Enter

(* Moving on within a call keeps the types. *)
LEMMA GoToType ==
  ASSUME TypeOK, NEW t \in Threads, NEW p \in CallPoints, GoTo(t, p)
  PROVE  CallTypeOK'
BY DEF TypeOK, CallTypeOK, GoTo

(* The job of a thread that submits nothing is a job. *)
LEMMA NoJobType == NoJob \in Jobs
BY DEF NoJob, Jobs

(* Returning from a call resets its locals to values of their types. *)
LEMMA ReturnType ==
  ASSUME TypeOK, NEW t \in Threads, Return(t)
  PROVE  CallTypeOK'
<1>1. "none" \in CallPoints /\ "none" \in Operations /\ <<>> \in Seq(Ids) /\ FALSE \in BOOLEAN
  BY DEF CallPoints, Operations
<1>2. QED
  BY <1>1, NoJobType, EnterType, 0 \in Int DEF Return

(* A step that changes only the locals of a call keeps the types. *)
LEMMA OnlyCallType == ASSUME TypeOK, CallTypeOK', OnlyCall PROVE TypeOK'
BY DEF TypeOK, CallTypeOK, OnlyCall, queueVars, idVars, doneVars, workVars

(* A new task id, its state and its pending mark have the right types. *)
LEMMA NewTaskType == ASSUME TypeOK, CallTypeOK', NewTask PROVE TypeOK'
BY DEF TypeOK, CallTypeOK, NewTask, NextTaskId, Ids, queueVars, idVars, doneVars, workVars

(* Only the tasks of Submit go without an id: SubmitEx has one from its    *)
(* first critical section on, and only its wrapper locks, claims or skips. *)
Assigned ==
  /\ \A t \in Threads :
       (pc[t] \in {"enqueue", "rollback"} \/ (pc[t] = "notify" /\ op[t] # "Submit"))
         => job[t].id # 0
  /\ \A w \in Workers : wpc[w] \in {"lock", "claim", "skipped"} => cur[w].id # 0

(* Beginning a call keeps the types. *)
LEMMA StartCallType == ASSUME TypeOK, NEW t \in Threads, StartCall(t) PROVE TypeOK'
<1>0. <<>> \in Seq(Ids) /\ FALSE \in BOOLEAN /\ 0 \in Int
  OBVIOUS
<1>1. CASE Submit(t)
  <2>1. CASE Accept(0, 1, 0) /\ Enter(t, "notify", "Submit", NoJob, <<>>, 0, FALSE)
    <3>1. CallTypeOK'
      BY <1>0, <2>1, NoJobType, EnterType DEF CallPoints, Operations
    <3>2. QED
      <4>1. /\ tasks' \subseteq Entries /\ IsFiniteSet(tasks')
            /\ enqueue_seq' \in Nat /\ pending_tasks' \in Nat
            /\ stats' \in [Counters -> Nat]
        <5>1. 0 \in Nat /\ 1 \in 0..2 /\ 0 \in Keys \cup {0}
          OBVIOUS
        <5>2. QED
          BY <2>1, <5>1, AcceptType
      <4>2. QED
        BY <1>1, <3>1, <4>1 DEF Submit, TypeOK, CallTypeOK, idVars, doneVars, workVars
  <2>2. CASE Refuse /\ UNCHANGED callVars
    BY <1>1, <2>2, RefuseType DEF Submit, TypeOK, callVars, idVars, doneVars, workVars
  <2>3. QED
    BY <1>1, <2>1, <2>2 DEF Submit
<1>2. ASSUME NEW p \in Priorities, NEW k \in Keys \cup {0}, SubmitEx(t, p, k)
      PROVE  TypeOK'
  <2>1. [id |-> next_task_id, priority |-> p, key |-> k] \in Jobs
    BY DEF TypeOK, Ids, Jobs
  <2>2. CallTypeOK'
    BY <1>0, <1>2, <2>1, EnterType DEF SubmitEx, CallPoints, Operations
  <2>3. QED
    BY <1>2, <2>2, NewTaskType DEF SubmitEx
<1>3. ASSUME NEW n \in 1..MaxChunks, ParallelFor(t, n)
      PROVE  TypeOK'
  <2>1. Chunk \in Jobs /\ n - 1 \in Int
    BY DEF TypeOK, Ids, Jobs, Chunk
  <2>2. CallTypeOK'
    BY <1>0, <1>3, <2>1, EnterType DEF ParallelFor, CallPoints, Operations
  <2>3. QED
    BY <1>3, <2>2, NewTaskType DEF ParallelFor
<1>4. ASSUME NEW id \in issued, NEW timed \in BOOLEAN, Wait(t, id, timed)
      PROVE  TypeOK'
  <2> DEFINE b == <<id>>
  <2>1. b \in Seq(Ids)
    BY DEF TypeOK
  <2>2. CallTypeOK'
    <3>1. "find" \in CallPoints /\ "Wait" \in Operations
      BY DEF CallPoints, Operations
    <3>2. Enter(t, "find", "Wait", NoJob, b, 0, timed)
      BY <1>4 DEF Wait
    <3> HIDE DEF b
    <3>3. QED
      BY <1>0, <2>1, <3>1, <3>2, NoJobType, EnterType
  <2>3. QED
    BY <1>4, <2>2, OnlyCallType DEF Wait
<1>5. ASSUME NEW n \in 2..MaxBatch, NEW ids \in [1..n -> issued], NEW timed \in BOOLEAN,
             WaitBatch(t, ids, timed)
      PROVE  TypeOK'
  <2>1. ids \in Seq(Ids)
    <3>1. n \in Nat /\ ids \in [1..n -> Ids]
      BY DEF TypeOK
    <3>2. QED
      BY <3>1, SeqDef
  <2>2. CallTypeOK'
    BY <1>0, <1>5, <2>1, NoJobType, EnterType DEF WaitBatch, CallPoints, Operations
  <2>3. QED
    BY <1>5, <2>2, OnlyCallType DEF WaitBatch
<1>6. ASSUME NEW id \in issued, TryCancel(t, id)
      PROVE  TypeOK'
  <2>1. stats' \in [Counters -> Nat]
    <3>1. stats \in [Counters -> Nat] /\ stats["canceled"] + 1 \in Nat
      BY DEF TypeOK, Counters
    <3>2. stats' = [stats EXCEPT !["canceled"] = stats["canceled"] + 1]
      BY <1>6 DEF TryCancel
    <3>3. QED
      BY <3>1, <3>2
  <2>2. QED
    BY <1>6, <2>1 DEF TryCancel, TypeOK, callVars, queueVars, idVars, doneVars, workVars
<1>7. CASE WaitAll(t)
  <2>1. CallTypeOK'
    BY <1>0, <1>7, NoJobType, EnterType DEF WaitAll, CallPoints, Operations
  <2>2. QED
    BY <1>7, <2>1, OnlyCallType DEF WaitAll
<1>8. ASSUME NEW o \in [policy : Policies, queue_capacity : Capacities], Reconfigure(t, o)
      PROVE  TypeOK'
  BY <1>8 DEF Reconfigure, TypeOK, callVars, queueVars, idVars, doneVars, workVars
<1>9. CASE Release(t)
  <2>1. CallTypeOK'
    BY <1>0, <1>9, NoJobType, EnterType DEF Release, CallPoints, Operations
  <2>2. QED
    BY <1>9, <2>1 DEF Release, TypeOK, CallTypeOK, queueVars, idVars, doneVars, workVars
<1>10. QED
  BY <1>1, <1>2, <1>3, <1>4, <1>5, <1>6, <1>7, <1>8, <1>9 DEF StartCall

(* Carrying a call on keeps the types. *)
LEMMA InCallType == ASSUME TypeOK, Assigned, NEW t \in Threads, InCall(t) PROVE TypeOK'
<1>1. CASE NextChunk(t)
  <2>1. Chunk \in Jobs /\ "enqueue" \in CallPoints
    BY DEF TypeOK, Ids, Jobs, Chunk, CallPoints
  <2>2. CallTypeOK'
    BY <1>1, <2>1 DEF NextChunk, TypeOK, CallTypeOK
  <2>3. QED
    BY <1>1, <2>2, NewTaskType DEF NextChunk
<1>2. CASE Enqueue(t)
  <2>1. CASE Accept(job[t].id, job[t].priority, job[t].key) /\ GoTo(t, "notify")
    <3>1. job[t].id \in Nat /\ job[t].priority \in 0..2 /\ job[t].key \in Keys \cup {0}
      BY DEF TypeOK, Jobs
    <3>2. CallTypeOK'
      BY <2>1, GoToType DEF CallPoints
    <3>3. QED
      BY <1>2, <2>1, <3>1, <3>2, AcceptType
      DEF Enqueue, TypeOK, CallTypeOK, idVars, doneVars, workVars
  <2>2. CASE Refuse /\ GoTo(t, "rollback")
    <3>1. CallTypeOK'
      BY <2>2, GoToType DEF CallPoints
    <3>2. QED
      BY <1>2, <2>2, <3>1, RefuseType
      DEF Enqueue, TypeOK, CallTypeOK, idVars, doneVars, workVars
  <2>3. QED
    BY <1>2, <2>1, <2>2 DEF Enqueue
<1>3. CASE Rollback(t)
  <2>1. CallTypeOK'
    BY <1>3, GoToType, ReturnType DEF Rollback, CallPoints
  <2>2. QED
    BY <1>3, <2>1 DEF Rollback, RollbackTask, TypeOK, CallTypeOK, queueVars, doneVars, workVars
<1>4. CASE Notify(t)
  <2>1. wpc' \in [Workers -> WorkPoints]
    <3>1. "check" \in WorkPoints /\ wpc \in [Workers -> WorkPoints]
      BY DEF TypeOK, WorkPoints
    <3>2. QED
      BY <1>4, <3>1 DEF Notify, NotifyOne, Asleep
  <2>2. op[t] # "Submit" => job[t].id \in Ids
    BY <1>4 DEF Notify, TypeOK, Assigned, Jobs, Ids
  <2>3. CallTypeOK'
    <3>1. CASE op[t] = "ParallelFor"
      <4>1. Append(batch[t], job[t].id) \in Seq(Ids)
        BY <2>2, <3>1 DEF TypeOK
      <4>2. "chunk" \in CallPoints /\ "find" \in CallPoints
        BY DEF CallPoints
      <4>3. QED
        <5>0. pc \in [Threads -> CallPoints] /\ batch \in [Threads -> Seq(Ids)]
          BY DEF TypeOK
        <5>1. pc' \in [Threads -> CallPoints]
          <6>1. pc' = [pc EXCEPT ![t] = IF left[t] > 0 THEN "chunk" ELSE "find"]
            BY <1>4, <3>1 DEF Notify
          <6>2. QED
            BY <4>2, <5>0, <6>1
        <5>2. batch' \in [Threads -> Seq(Ids)]
          <6>1. batch' = [batch EXCEPT ![t] = Append(batch[t], job[t].id)]
            BY <1>4, <3>1 DEF Notify
          <6>2. QED
            BY <4>1, <5>0, <6>1
        <5>3. QED
          BY <1>4, <3>1, <5>1, <5>2 DEF Notify, TypeOK, CallTypeOK
    <3>2. CASE op[t] # "ParallelFor"
      BY <1>4, <3>2, ReturnType DEF Notify
    <3>3. QED
      BY <3>1, <3>2
  <2>4. issued' \subseteq Ids
    BY <1>4, <2>2 DEF Notify, TypeOK
  <2>5. QED
    BY <1>4, <2>1, <2>3, <2>4
    DEF Notify, TypeOK, CallTypeOK, queueVars, idVars, doneVars, workVars
<1>5. CASE Find(t) \/ Expire(t) \/ WaitedAll(t) \/ Join(t)
  <2>1. CallTypeOK'
    BY <1>5, GoToType, ReturnType DEF Find, Expire, WaitedAll, Join, CallPoints
  <2>2. QED
    BY <1>5, <2>1, OnlyCallType DEF Find, Expire, WaitedAll, Join
<1>6. CASE Waited(t)
  <2>1. CASE at[t] < Len(batch[t])
    <3>1. "find" \in CallPoints
      BY DEF CallPoints
    <3>2. CallTypeOK'
      <4>1. pc' \in [Threads -> CallPoints]
        <5>1. pc \in [Threads -> CallPoints]
          BY DEF TypeOK
        <5>2. pc' = [pc EXCEPT ![t] = "find"]
          BY <1>6, <2>1 DEF Waited
        <5>3. QED
          BY <3>1, <5>1, <5>2
      <4>2. at' \in [Threads -> Nat]
        <5>1. at \in [Threads -> Nat] /\ at[t] + 1 \in Nat
          BY DEF TypeOK
        <5>2. at' = [at EXCEPT ![t] = at[t] + 1]
          BY <1>6, <2>1 DEF Waited
        <5>3. QED
          BY <5>1, <5>2
      <4>3. QED
        BY <1>6, <2>1, <4>1, <4>2 DEF Waited, TypeOK, CallTypeOK
    <3>3. QED
      BY <1>6, <3>2, OnlyCallType DEF Waited
  <2>2. CASE ~(at[t] < Len(batch[t]))
    BY <1>6, <2>2, OnlyCallType, ReturnType DEF Waited
  <2>3. QED
    BY <2>1, <2>2
<1>7. CASE NotifyAll(t)
  <2>1. CallTypeOK'
    BY <1>7, GoToType DEF NotifyAll, CallPoints
  <2>2. wpc' \in [Workers -> WorkPoints]
    BY <1>7 DEF NotifyAll, TypeOK, WorkPoints
  <2>3. QED
    BY <1>7, <2>1, <2>2 DEF NotifyAll, TypeOK, CallTypeOK, queueVars, idVars, doneVars, workVars
<1>8. QED
  BY <1>1, <1>2, <1>3, <1>4, <1>5, <1>6, <1>7 DEF InCall

(* Counting an outcome keeps the counters natural. *)
LEMMA OutcomeType == ASSUME TypeOK, NEW how PROVE Outcome(how) \in [Counters -> Nat]
<1> DEFINE c == IF how = "returned" THEN stats["completed"] + 1 ELSE stats["completed"]
           f == IF how = "threw" THEN stats["failed"] + 1 ELSE stats["failed"]
<1>1. stats \in [Counters -> Nat]
  BY DEF TypeOK
<1>2. c \in Nat /\ f \in Nat
  BY <1>1 DEF Counters
<1>3. Outcome(how) = [stats EXCEPT !["completed"] = c, !["failed"] = f]
  BY DEF Outcome
<1> HIDE DEF c, f
<1>4. QED
  BY <1>1, <1>2, <1>3

(* What MarkTaskDone leaves behind has the right types. *)
LEMMA MarkTaskDoneType ==
  ASSUME TypeOK, NEW w \in Workers, cur[w].id # 0, MarkTaskDone(w)
  PROVE  /\ states' \subseteq Ids /\ pending_ids' \subseteq Ids /\ done_ids' \in Seq(Ids)
         /\ done' \subseteq Ids /\ succeeded' \subseteq Ids /\ stats' \in [Counters -> Nat]
         /\ bad_allocs' \in Nat
<1> DEFINE id   == cur[w].id
           kept == Append(done_ids, id)
           over == Overflow(id)
<1>1. id \in Ids
  BY DEF TypeOK, Entries, Ids
<1>2. kept \in Seq(Ids) /\ over \in Nat /\ Len(kept) \in Nat /\ over <= Len(kept)
  BY <1>1 DEF TypeOK, Overflow
<1>3. SubSeq(kept, over + 1, Len(kept)) \in Seq(Ids)
  <2>1. \A i \in (over + 1)..Len(kept) : kept[i] \in Ids
    BY <1>2
  <2>2. QED
    BY <1>2, <2>1, SubSeqProperties
<1>4. Counted(wpc[w], id) \in [Counters -> Nat]
  BY OutcomeType DEF Counted, TypeOK
<1>5. CASE id \in states
  <2>1. done' = done \cup {id} /\ pending_ids' = pending_ids \ {id} /\ bad_allocs' = bad_allocs
    BY <1>5 DEF MarkTaskDone, Settle
  <2>2. succeeded' = succeeded \cup {id} \/ succeeded' = succeeded \ {id}
    BY <1>5 DEF MarkTaskDone, Settle
  <2>3. done_ids' = SubSeq(kept, over + 1, Len(kept)) /\ stats' = Counted(wpc[w], id)
    BY <1>5 DEF MarkTaskDone
  <2>4. states' \subseteq states
    BY <1>5 DEF MarkTaskDone
  <2>5. /\ states \subseteq Ids /\ pending_ids \subseteq Ids /\ done \subseteq Ids
        /\ succeeded \subseteq Ids /\ bad_allocs \in Nat
    BY DEF TypeOK
  <2> HIDE DEF id, kept, over
  <2>6. /\ states' \subseteq Ids /\ pending_ids' \subseteq Ids /\ done' \subseteq Ids
        /\ succeeded' \subseteq Ids /\ bad_allocs' \in Nat
    BY <1>1, <2>1, <2>2, <2>4, <2>5, Zenon
  <2>7. done_ids' \in Seq(Ids) /\ stats' \in [Counters -> Nat]
    BY <1>3, <1>4, <2>3, Zenon
  <2>8. QED
    BY <2>6, <2>7
<1>6. CASE id \notin states
  BY <1>6 DEF MarkTaskDone, TypeOK
<1>7. QED
  BY <1>5, <1>6

(* A step of a worker keeps the types. *)
LEMMA WorkType == ASSUME TypeOK, Assigned, NEW w \in Workers, Work(w) \/ SpuriousWakeup(w) PROVE TypeOK'
<1>0. ASSUME NEW from, NEW to \in WorkPoints, StepTo(w, from, to)
      PROVE  wpc' \in [Workers -> WorkPoints]
  BY <1>0 DEF StepTo, TypeOK
<1>a. CallTypeOK /\ (UNCHANGED callVars => CallTypeOK')
  BY DEF TypeOK, CallTypeOK, callVars
<1>1. CASE Sleep(w) \/ SpuriousWakeup(w) \/ Exit(w) \/ FnReturns(w)
  <2>1. wpc' \in [Workers -> WorkPoints]
    BY <1>0, <1>1 DEF Sleep, SpuriousWakeup, Exit, FnReturns, WorkPoints
  <2>2. QED
    BY <1>1, <1>a, <2>1 DEF Sleep, SpuriousWakeup, Exit, FnReturns, TypeOK, CallTypeOK, queueVars,
       idVars, doneVars, workVars
<1>2. CASE Pick(w)
  <2>1. PICK e \in tasks : /\ StepTo(w, "check", FirstStep(e))
                           /\ tasks' = tasks \ {e}
                           /\ cur' = [cur EXCEPT ![w] = e]
    BY <1>2 DEF Pick
  <2>2. FirstStep(e) \in WorkPoints
    BY DEF FirstStep, WorkPoints
  <2>3. wpc' \in [Workers -> WorkPoints] /\ cur' \in [Workers -> Entries]
    BY <1>0, <2>1, <2>2 DEF TypeOK
  <2>4. tasks' \subseteq Entries /\ IsFiniteSet(tasks')
    <3>1. tasks \subseteq Entries /\ IsFiniteSet(tasks) /\ tasks' \subseteq tasks
      BY <2>1 DEF TypeOK
    <3>2. QED
      BY <3>1, FS_Subset
  <2>5. QED
    BY <1>2, <1>a, <2>3, <2>4 DEF Pick, TypeOK, CallTypeOK, idVars, doneVars
<1>3. CASE LockKey(w)
  <2>1. wpc' \in [Workers -> WorkPoints]
    BY <1>0, <1>3 DEF LockKey, WorkPoints
  <2>2. key_mu' \in [Keys -> Workers \cup {None}]
    BY <1>3 DEF LockKey, TypeOK
  <2>3. QED
    BY <1>3, <1>a, <2>1, <2>2 DEF LockKey, TypeOK, CallTypeOK, queueVars, idVars, doneVars
<1>4. CASE Claim(w)
  <2>1. wpc' \in [Workers -> WorkPoints]
    BY <1>0, <1>4 DEF Claim, WorkPoints
  <2>2. cur[w].id \in Ids
    BY <1>4 DEF Claim, StepTo, Assigned, TypeOK, Entries, Ids
  <2>3. started' \subseteq Ids /\ ran' \subseteq Ids
    BY <1>4, <2>2 DEF Claim, TypeOK
  <2>4. QED
    BY <1>4, <1>a, <2>1, <2>3 DEF Claim, TypeOK, CallTypeOK, queueVars, idVars, doneVars
<1>5. CASE FnThrows(w) \/ UnlockKey(w) \/ Unwind(w)
  <2>1. wpc' \in [Workers -> WorkPoints]
    BY <1>0, <1>5 DEF FnThrows, UnlockKey, Unwind, WorkPoints
  <2>2. key_mu' \in [Keys -> Workers \cup {None}]
    BY <1>5 DEF FnThrows, UnlockKey, Unwind, ReleasedKey, TypeOK
  <2>3. QED
    BY <1>5, <1>a, <2>1, <2>2
    DEF FnThrows, UnlockKey, Unwind, TypeOK, CallTypeOK, queueVars, idVars, doneVars
<1>6. CASE Mark(w)
  <2>1. wpc' \in [Workers -> WorkPoints]
    <3>1. "unlock" \in WorkPoints /\ "finish" \in WorkPoints
      BY DEF WorkPoints
    <3>2. QED
      BY <1>6, <3>1 DEF Mark, TypeOK
  <2>2. /\ states' \subseteq Ids /\ pending_ids' \subseteq Ids /\ done_ids' \in Seq(Ids)
        /\ done' \subseteq Ids /\ succeeded' \subseteq Ids /\ stats' \in [Counters -> Nat]
        /\ bad_allocs' \in Nat
    <3>1. CASE cur[w].id = 0
      <4>1. stats' = Outcome(wpc[w]) /\ UNCHANGED <<states, pending_ids, doneVars>>
        BY <1>6, <3>1 DEF Mark
      <4>2. stats' \in [Counters -> Nat]
        BY <4>1, OutcomeType
      <4>3. QED
        BY <4>1, <4>2 DEF TypeOK, doneVars
    <3>2. CASE cur[w].id # 0
      BY <1>6, <3>2, MarkTaskDoneType DEF Mark
    <3>3. QED
      BY <3>1, <3>2
  <2>3. QED
    BY <1>6, <1>a, <2>1, <2>2 DEF Mark, TypeOK, CallTypeOK, queueVars, workVars
<1>7. CASE Finish(w)
  <2>1. wpc' \in [Workers -> WorkPoints]
    BY <1>0, <1>7 DEF Finish, WorkPoints
  <2>2. stats' \in [Counters -> Nat]
    <3>1. Cardinality(tasks) \in Nat /\ stats \in [Counters -> Nat]
      BY FS_CardinalityType DEF TypeOK
    <3>2. QED
      BY <1>7, <3>1 DEF Finish
  <2>3. cur' \in [Workers -> Entries] /\ finished' \subseteq Nat
    <3>1. NoTask \in Entries
      BY DEF NoTask, Entries
    <3>2. cur[w].seq \in Nat
      BY DEF TypeOK, Entries
    <3>3. cur' = [cur EXCEPT ![w] = NoTask] /\ finished' = finished \cup {cur[w].seq}
      BY <1>7 DEF Finish
    <3>4. cur \in [Workers -> Entries] /\ finished \subseteq Nat
      BY DEF TypeOK
    <3>5. QED
      BY <3>1, <3>2, <3>3, <3>4
  <2>4. QED
    BY <1>7, <1>a, <2>1, <2>2, <2>3 DEF Finish, TypeOK, CallTypeOK, idVars, doneVars
<1>8. CASE MarkThrows(w)
  <2>1. wpc' \in [Workers -> WorkPoints]
    <3>1. "unwind" \in WorkPoints /\ "escaped" \in WorkPoints
      BY DEF WorkPoints
    <3>2. QED
      BY <1>8, <3>1 DEF MarkThrows, TypeOK
  <2>2. pending_ids' \subseteq Ids /\ done' \subseteq Ids /\ succeeded' \subseteq Ids
    BY <1>8 DEF MarkThrows, Settle, TypeOK
  <2>3. bad_allocs' \in Nat
    BY <1>8 DEF MarkThrows, TypeOK
  <2>4. QED
    BY <1>8, <1>a, <2>1, <2>2, <2>3 DEF MarkThrows, TypeOK, CallTypeOK, queueVars, workVars
<1>9. CASE LoopCatches(w)
  <2>1. wpc' \in [Workers -> WorkPoints]
    BY <1>0, <1>9 DEF LoopCatches, WorkPoints
  <2>2. stats' \in [Counters -> Nat]
    BY <1>9 DEF LoopCatches, TypeOK, Counters
  <2>3. QED
    BY <1>9, <1>a, <2>1, <2>2
    DEF LoopCatches, TypeOK, CallTypeOK, queueVars, idVars, doneVars, workVars
<1>10. QED
  BY <1>1, <1>2, <1>3, <1>4, <1>5, <1>6, <1>7, <1>8, <1>9 DEF Work

(* A call changes nothing of the workers, except that it may wake them. *)
LEMMA CallFrame ==
  ASSUME TypeOK, NEW t \in Threads, StartCall(t) \/ InCall(t)
  PROVE  /\ UNCHANGED <<active_workers, started, key_mu, cur, ran, finished, done_ids, done, succeeded>>
         /\ wpc' \in [Workers -> WorkPoints]
         /\ \A w \in Workers : wpc'[w] = wpc[w] \/ (wpc[w] = "sleep" /\ wpc'[w] = "check")
<1> USE DEF workVars, doneVars, OnlyCall
<1>0. wpc \in [Workers -> WorkPoints] /\ "check" \in WorkPoints
  BY DEF TypeOK, WorkPoints
<1>1. CASE StartCall(t)
  BY <1>0, <1>1 DEF StartCall, Submit, SubmitEx, ParallelFor, NewTask, Wait, WaitBatch, TryCancel,
     WaitAll, Reconfigure, Release
<1>2. CASE Notify(t)
  BY <1>0, <1>2 DEF Notify, NotifyOne, Asleep
<1>3. CASE NotifyAll(t)
  BY <1>0, <1>3 DEF NotifyAll, Asleep
<1>4. CASE NextChunk(t) \/ Enqueue(t) \/ Rollback(t) \/ Find(t) \/ Waited(t) \/ Expire(t)
           \/ WaitedAll(t) \/ Join(t)
  BY <1>0, <1>4 DEF NextChunk, NewTask, Enqueue, Rollback, Find, Waited, Expire, WaitedAll, Join
<1>5. QED
  BY <1>1, <1>2, <1>3, <1>4 DEF InCall

(* The locals of the other threads. *)
OthersSame(t) == \A u \in Threads \ {t} : pc'[u] = pc[u] /\ op'[u] = op[u] /\ job'[u] = job[u]

(* Entering a call changes the locals of the caller only. *)
LEMMA EnterLocal ==
  ASSUME TypeOK, NEW t \in Threads, NEW p, NEW f, NEW j, NEW b, NEW n, NEW timed,
         Enter(t, p, f, j, b, n, timed)
  PROVE  pc'[t] = p /\ op'[t] = f /\ job'[t] = j /\ OthersSame(t)
BY DEF TypeOK, Enter, OthersSame

(* So does moving on within a call. *)
LEMMA GoToLocal ==
  ASSUME TypeOK, NEW t \in Threads, NEW p, GoTo(t, p)
  PROVE  pc'[t] = p /\ op'[t] = op[t] /\ job'[t] = job[t] /\ OthersSame(t)
BY DEF TypeOK, GoTo, OthersSame

(* Returning from a call leaves the caller in none. *)
LEMMA ReturnLocal ==
  ASSUME TypeOK, NEW t \in Threads, Return(t)
  PROVE  pc'[t] = "none" /\ op'[t] = "none" /\ job'[t] = NoJob /\ OthersSame(t)
BY EnterLocal DEF Return

(* A thread that begins a call and is submitting a task has its id. *)
LEMMA StartCallLocal ==
  ASSUME TypeOK, NEW t \in Threads, StartCall(t)
  PROVE  /\ OthersSame(t)
         /\ \/ pc'[t] = pc[t] /\ op'[t] = op[t] /\ job'[t] = job[t]
            \/ pc'[t] = "notify" /\ op'[t] = "Submit"
            \/ pc'[t] = "enqueue" /\ job'[t].id = next_task_id /\ NewTask
            \/ pc'[t] \in {"find", "idle", "notifyall"}
<1>1. CASE UNCHANGED callVars
  BY <1>1 DEF callVars, OthersSame
<1>2. CASE Enter(t, "notify", "Submit", NoJob, <<>>, 0, FALSE)
  BY <1>2, EnterLocal
<1>3. ASSUME NEW p \in Priorities, NEW k \in Keys \cup {0}, SubmitEx(t, p, k)
      PROVE  OthersSame(t) /\ pc'[t] = "enqueue" /\ job'[t].id = next_task_id /\ NewTask
  <2> DEFINE j == [id |-> next_task_id, priority |-> p, key |-> k]
  <2>1. Enter(t, "enqueue", "SubmitEx", j, <<>>, 0, FALSE) /\ NewTask
    BY <1>3 DEF SubmitEx
  <2>2. j.id = next_task_id
    OBVIOUS
  <2> HIDE DEF j
  <2>3. QED
    BY <2>1, <2>2, EnterLocal
<1>4. ASSUME NEW n \in 1..MaxChunks, ParallelFor(t, n)
      PROVE  OthersSame(t) /\ pc'[t] = "enqueue" /\ job'[t].id = next_task_id /\ NewTask
  <2>1. Enter(t, "enqueue", "ParallelFor", Chunk, <<>>, n - 1, FALSE) /\ NewTask
    BY <1>4 DEF ParallelFor
  <2>2. Chunk.id = next_task_id
    BY DEF Chunk
  <2>3. QED
    BY <2>1, <2>2, EnterLocal
<1>5. ASSUME NEW p \in {"find", "idle", "notifyall"}, NEW f, NEW b, NEW timed,
             Enter(t, p, f, NoJob, b, 0, timed)
      PROVE  OthersSame(t) /\ pc'[t] \in {"find", "idle", "notifyall"}
  BY <1>5, EnterLocal
<1>6. QED
  BY <1>1, <1>2, <1>3, <1>4, <1>5 DEF StartCall, Submit, Wait, WaitBatch, TryCancel, WaitAll,
     Reconfigure, Release

(* A thread that carries a call on keeps the task it submits. *)
LEMMA InCallLocal ==
  ASSUME TypeOK, NEW t \in Threads, InCall(t)
  PROVE  /\ OthersSame(t)
         /\ \/ pc[t] = "chunk" /\ pc'[t] = "enqueue" /\ job'[t].id = next_task_id /\ NewTask
            \/ pc[t] = "enqueue" /\ pc'[t] \in {"notify", "rollback"} /\ op'[t] = op[t] /\ job'[t] = job[t]
            \/ pc'[t] \in {"none", "chunk", "find", "wait", "join", "released"}
<1>1. CASE NextChunk(t)
  BY <1>1 DEF NextChunk, Chunk, TypeOK, OthersSame
<1>2. CASE Enqueue(t)
  BY <1>2, GoToLocal DEF Enqueue
<1>3. CASE Notify(t)
  <2>1. CASE op[t] = "ParallelFor"
    BY <1>3, <2>1 DEF Notify, TypeOK, OthersSame
  <2>2. CASE op[t] # "ParallelFor"
    BY <1>3, <2>2, ReturnLocal DEF Notify
  <2>3. QED
    BY <2>1, <2>2
<1>4. CASE Waited(t)
  <2>1. CASE at[t] < Len(batch[t])
    BY <1>4, <2>1 DEF Waited, TypeOK, OthersSame
  <2>2. CASE ~(at[t] < Len(batch[t]))
    BY <1>4, <2>2, ReturnLocal DEF Waited
  <2>3. QED
    BY <2>1, <2>2
<1>5. CASE Rollback(t) \/ Find(t) \/ Expire(t) \/ WaitedAll(t) \/ NotifyAll(t) \/ Join(t)
  BY <1>5, GoToLocal, ReturnLocal DEF Rollback, Find, Expire, WaitedAll, NotifyAll, Join
<1>6. QED
  BY <1>1, <1>2, <1>3, <1>4, <1>5 DEF InCall

(* A step of a worker changes that worker only, and no call. *)
LEMMA WorkFrame ==
  ASSUME TypeOK, NEW w \in Workers, Work(w) \/ SpuriousWakeup(w)
  PROVE  /\ UNCHANGED callVars
         /\ \A v \in Workers \ {w} : wpc'[v] = wpc[v] /\ cur'[v] = cur[v]
<1> USE DEF StepTo, TypeOK, workVars
<1>1. CASE Pick(w)
  BY <1>1 DEF Pick
<1>2. CASE Mark(w) \/ MarkThrows(w)
  BY <1>2 DEF Mark, MarkThrows
<1>3. CASE Finish(w)
  BY <1>3 DEF Finish
<1>4. CASE Sleep(w) \/ SpuriousWakeup(w) \/ Exit(w) \/ LockKey(w) \/ FnReturns(w) \/ FnThrows(w)
           \/ UnlockKey(w) \/ Unwind(w) \/ LoopCatches(w)
  BY <1>4 DEF Sleep, SpuriousWakeup, Exit, LockKey, FnReturns, FnThrows, UnlockKey, Unwind, LoopCatches
<1>5. CASE Claim(w)
  BY <1>5 DEF Claim
<1>6. QED
  BY <1>1, <1>2, <1>3, <1>4, <1>5 DEF Work

(* Every step keeps the ids assigned. *)
LEMMA AssignedStep == ASSUME TypeOK, Assigned, [Next]_vars PROVE Assigned'
<1>0. next_task_id # 0
  BY DEF TypeOK, Ids
<1>1. ASSUME NEW t \in Threads, StartCall(t) \/ InCall(t)
      PROVE  Assigned'
  <2>1. \A w \in Workers : wpc'[w] \in {"lock", "claim", "skipped"} => cur'[w].id # 0
    BY <1>1, CallFrame DEF Assigned
  <2>2. (pc'[t] \in {"enqueue", "rollback"} \/ (pc'[t] = "notify" /\ op'[t] # "Submit"))
          => job'[t].id # 0
    BY <1>0, <1>1, StartCallLocal, InCallLocal DEF Assigned
  <2>3. OthersSame(t)
    BY <1>1, StartCallLocal, InCallLocal
  <2>4. QED
    BY <2>1, <2>2, <2>3 DEF Assigned, OthersSame
<1>2. ASSUME NEW w \in Workers, Work(w) \/ SpuriousWakeup(w)
      PROVE  Assigned'
  <2>1. wpc'[w] \in {"lock", "claim", "skipped"} => cur'[w].id # 0
    BY <1>2 DEF Assigned, TypeOK, Work, SpuriousWakeup, Sleep, Exit, Pick, FirstStep, LockKey, Claim,
       FnReturns, FnThrows, Mark, MarkThrows, Unwind, LoopCatches, UnlockKey, Finish, StepTo, workVars
  <2>2. QED
    BY <1>2, <2>1, WorkFrame DEF Assigned, callVars
<1>3. CASE UNCHANGED vars
  BY <1>3 DEF Assigned, vars, callVars, workVars
<1>4. QED
  BY <1>1, <1>2, <1>3 DEF Next, Terminated

(* The executor's fields always hold values of their types, however its    *)
(* callers and workers interleave.                                         *)
THEOREM TypeCorrect == Spec => []TypeOK
<1>1. Init => TypeOK /\ Assigned
  <2> SUFFICES ASSUME Init PROVE TypeOK /\ Assigned
    OBVIOUS
  <2>1. NoTask \in Entries /\ NoJob \in Jobs /\ <<>> \in Seq(Ids)
    BY DEF NoTask, Entries, NoJob, Jobs
  <2>2. IsFiniteSet(tasks)
    BY FS_EmptySet DEF Init
  <2>3. "none" \in CallPoints /\ "none" \in Operations /\ "check" \in WorkPoints
    BY DEF CallPoints, Operations, WorkPoints
  <2>4. TypeOK
    <3>1. /\ key_mu \in [Keys -> Workers \cup {None}] /\ stats \in [Counters -> Nat]
          /\ wpc \in [Workers -> WorkPoints] /\ cur \in [Workers -> Entries]
      BY <2>1, <2>3 DEF Init
    <3>2. /\ pc \in [Threads -> CallPoints] /\ op \in [Threads -> Operations]
          /\ job \in [Threads -> Jobs] /\ batch \in [Threads -> Seq(Ids)]
      BY <2>1, <2>3 DEF Init
    <3>3. /\ at \in [Threads -> Nat] /\ left \in [Threads -> Int]
          /\ limited \in [Threads -> BOOLEAN] /\ next_task_id \in Ids /\ done_ids \in Seq(Ids)
      BY <2>1 DEF Init, Ids
    <3>0. stopping \in BOOLEAN /\ options \in [policy : Policies, queue_capacity : Capacities]
      BY Zenon DEF Init
    <3>4. /\ tasks \subseteq Entries /\ enqueue_seq \in Nat /\ pending_tasks \in Nat
          /\ active_workers \in Int /\ states \subseteq Ids /\ pending_ids \subseteq Ids
      BY DEF Init
    <3>5. /\ started \subseteq Ids /\ done \subseteq Ids /\ succeeded \subseteq Ids
          /\ canceled \subseteq Ids /\ issued \subseteq Ids /\ ran \subseteq Ids /\ finished \subseteq Nat
          /\ bad_allocs \in Nat
      BY DEF Init
    <3>6. QED
      BY <2>2, <3>0, <3>1, <3>2, <3>3, <3>4, <3>5 DEF TypeOK
  <2>5. Assigned
    BY DEF Init, Assigned
  <2>6. QED
    BY <2>4, <2>5
<1>2. TypeOK /\ Assigned /\ [Next]_vars => TypeOK' /\ Assigned'
  <2> SUFFICES ASSUME TypeOK, Assigned, [Next]_vars PROVE TypeOK'
    BY AssignedStep
  <2>1. CASE UNCHANGED vars
    BY <2>1 DEF TypeOK, vars, queueVars, idVars, doneVars, workVars, callVars
  <2>2. QED
    BY <2>1, StartCallType, InCallType, WorkType DEF Next, Terminated
<1>3. QED
  BY <1>1, <1>2, PTL DEF Spec

=============================================================================
