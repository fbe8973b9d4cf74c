---------------------- MODULE ThreadPoolExecutorSafety ----------------------
(***************************************************************************)
(* Safety theorems about ThreadPoolExecutor: serial keys, cancellation,    *)
(* the fate of accepted tasks, and the wake-up of workers.                 *)
(***************************************************************************)
EXTENDS ThreadPoolExecutorProofs

(* What a call does to the queue: nothing, or one Accept of a task that    *)
(* has a key only if it has an id.                                         *)
LEMMA CallQueue ==
  ASSUME TypeOK, Assigned, NEW t \in Threads, StartCall(t) \/ InCall(t)
  PROVE  \/ UNCHANGED <<tasks, enqueue_seq, pending_tasks>>
         \/ \E id \in Nat, p \in 0..2, k \in Keys \cup {0} :
              /\ Accept(id, p, k) /\ (id = 0 => k = 0)
              /\ pc[t] # "notify" /\ pc'[t] = "notify" /\ OthersSame(t)
<1> USE DEF queueVars, OnlyCall
<1>1. CASE Submit(t)
  <2>1. CASE Accept(0, 1, 0) /\ Enter(t, "notify", "Submit", NoJob, <<>>, 0, FALSE)
    <3>1. 0 \in Nat /\ 1 \in 0..2 /\ 0 \in Keys \cup {0}
      OBVIOUS
    <3>2. pc[t] # "notify" /\ pc'[t] = "notify" /\ OthersSame(t)
      BY <1>1, <2>1, EnterLocal DEF Submit, MayCall
    <3>3. QED
      BY <2>1, <3>1, <3>2
  <2>2. CASE Refuse
    BY <2>2 DEF Refuse
  <2>3. QED
    BY <1>1, <2>1, <2>2 DEF Submit
<1>2. CASE Enqueue(t)
  <2>1. CASE Accept(job[t].id, job[t].priority, job[t].key) /\ GoTo(t, "notify")
    <3>1. job[t].id \in Nat /\ job[t].priority \in 0..2 /\ job[t].key \in Keys \cup {0}
      BY DEF TypeOK, Jobs
    <3>2. job[t].id # 0
      BY <1>2 DEF Enqueue, Assigned
    <3>3. pc[t] # "notify" /\ pc'[t] = "notify" /\ OthersSame(t)
      BY <1>2, <2>1, GoToLocal DEF Enqueue
    <3>4. QED
      BY <2>1, <3>1, <3>2, <3>3
  <2>2. CASE Refuse
    BY <2>2 DEF Refuse
  <2>3. QED
    BY <1>2, <2>1, <2>2 DEF Enqueue
<1>3. CASE StartCall(t) /\ ~Submit(t)
  BY <1>3 DEF StartCall, SubmitEx, ParallelFor, NewTask, Wait, WaitBatch, TryCancel, WaitAll,
     Reconfigure, Release
<1>4. CASE InCall(t) /\ ~Enqueue(t)
  BY <1>4 DEF InCall, NextChunk, NewTask, Rollback, Notify, Find, Waited, Expire, WaitedAll,
     NotifyAll, Join
<1>5. QED
  BY <1>1, <1>2, <1>3, <1>4

-----------------------------------------------------------------------------
(* Serial keys *)

(* A worker holds its key's mutex from LockKey to UnlockKey, FnThrows or   *)
(* Unwind, and a task without an id has no key.                            *)
KeyInv ==
  /\ \A e \in tasks : e.id = 0 => e.key = 0
  /\ \A w \in Workers : wpc[w] = "lock" => cur[w].key # 0
  /\ \A w \in Workers :
       (wpc[w] \in {"claim", "run", "skipped", "returned", "unwind", "unlock"} /\ cur[w].key # 0)
         => key_mu[cur[w].key] = w

(* Every step keeps the mutexes with their holders. *)
LEMMA KeyStep == ASSUME TypeOK, Assigned, KeyInv, [Next]_vars PROVE KeyInv'
<1>1. ASSUME NEW t \in Threads, StartCall(t) \/ InCall(t)
      PROVE  KeyInv'
  <2>1. \A e \in tasks' : e.id = 0 => e.key = 0
    BY <1>1, CallQueue DEF KeyInv, Accept
  <2>2. QED
    BY <1>1, <2>1, CallFrame DEF KeyInv
<1>2. ASSUME NEW w \in Workers, Work(w) \/ SpuriousWakeup(w)
      PROVE  KeyInv'
  <2>0. \A v \in Workers \ {w} : wpc'[v] = wpc[v] /\ cur'[v] = cur[v]
    BY <1>2, WorkFrame
  <2>1. CASE Sleep(w) \/ SpuriousWakeup(w) \/ Exit(w) \/ LoopCatches(w) \/ Finish(w)
    <3>1. tasks' = tasks /\ key_mu' = key_mu /\ wpc'[w] \in {"sleep", "check", "exited", "finish"}
      BY <2>1 DEF Sleep, SpuriousWakeup, Exit, LoopCatches, Finish, StepTo, TypeOK, queueVars, workVars
    <3>2. QED
      BY <2>0, <3>1 DEF KeyInv
  <2>2. CASE Pick(w)
    <3>1. PICK e \in tasks : /\ StepTo(w, "check", FirstStep(e))
                             /\ tasks' = tasks \ {e}
                             /\ cur' = [cur EXCEPT ![w] = e]
      BY <2>2 DEF Pick
    <3>2. wpc'[w] = FirstStep(e) /\ cur'[w] = e /\ key_mu' = key_mu
      BY <2>2, <3>1 DEF StepTo, TypeOK, Pick
    <3>3. QED
      BY <2>0, <3>1, <3>2 DEF KeyInv, FirstStep
  <2>3. CASE LockKey(w)
    <3>1. /\ wpc[w] = "lock" /\ wpc'[w] = "claim" /\ tasks' = tasks /\ cur' = cur
          /\ key_mu[cur[w].key] = None
          /\ key_mu' = [key_mu EXCEPT ![cur[w].key] = w]
      BY <2>3 DEF LockKey, KeyFree, StepTo, TypeOK, queueVars
    <3>2. cur[w].key \in Keys
      BY <3>1 DEF KeyInv, TypeOK, Entries
    <3>3. key_mu'[cur[w].key] = w /\ \A k \in Keys \ {cur[w].key} : key_mu'[k] = key_mu[k]
      BY <3>1, <3>2 DEF TypeOK
    <3>4. ASSUME NEW v \in Workers, wpc'[v] \in {"claim", "run", "skipped", "returned", "unwind", "unlock"},
                 cur'[v].key # 0
          PROVE  key_mu'[cur'[v].key] = v
      <4>1. CASE v = w
        BY <3>1, <3>3, <4>1
      <4>2. CASE v # w
        <5>1. key_mu[cur[v].key] = v
          BY <2>0, <3>4, <4>2 DEF KeyInv
        <5>2. cur[v].key # cur[w].key
          BY <3>1, <5>1, ThreadsAssumption
        <5>3. cur[v].key \in Keys
          BY <2>0, <3>4, <4>2 DEF TypeOK, Entries
        <5>4. QED
          BY <2>0, <3>3, <4>2, <5>1, <5>2, <5>3
      <4>3. QED
        BY <4>1, <4>2
    <3>5. QED
      BY <2>0, <3>1, <3>4 DEF KeyInv
  <2>4. CASE Claim(w) \/ FnReturns(w) \/ Mark(w) \/ MarkThrows(w)
    <3>1. /\ wpc[w] \in {"claim", "run", "skipped", "returned", "threw"}
          /\ wpc'[w] \in {"run", "skipped", "returned", "unwind", "escaped", "unlock", "finish"}
          /\ wpc[w] = "threw" => wpc'[w] \in {"escaped", "finish"}
          /\ tasks' = tasks /\ cur' = cur /\ key_mu' = key_mu
      BY <2>4 DEF Claim, FnReturns, Mark, MarkThrows, StepTo, TypeOK, queueVars, workVars
    <3>2. QED
      BY <2>0, <3>1 DEF KeyInv
  <2>5. CASE FnThrows(w) \/ UnlockKey(w) \/ Unwind(w)
    <3>1. /\ wpc[w] \in {"run", "unwind", "unlock"} /\ wpc'[w] \in {"threw", "finish"}
          /\ tasks' = tasks /\ cur' = cur
          /\ key_mu' = [k \in Keys |-> IF k = cur[w].key THEN None ELSE key_mu[k]]
      BY <2>5 DEF FnThrows, UnlockKey, Unwind, ReleasedKey, StepTo, TypeOK, queueVars
    <3>2. ASSUME NEW v \in Workers, wpc'[v] \in {"claim", "run", "skipped", "returned", "unwind", "unlock"},
                 cur'[v].key # 0
          PROVE  key_mu'[cur'[v].key] = v
      <4>1. v # w
        BY <3>1, <3>2
      <4>2. key_mu[cur[v].key] = v /\ cur[v].key \in Keys
        BY <2>0, <3>2, <4>1 DEF KeyInv, TypeOK, Entries
      <4>3. cur[v].key # cur[w].key
        BY <3>1, <3>2, <4>1, <4>2 DEF KeyInv
      <4>4. QED
        BY <3>1, <4>2, <4>3
    <3>3. QED
      BY <2>0, <3>1, <3>2 DEF KeyInv
  <2>6. QED
    BY <1>2, <2>1, <2>2, <2>3, <2>4, <2>5 DEF Work
<1>3. CASE UNCHANGED vars
  BY <1>3 DEF KeyInv, vars, queueVars, workVars
<1>4. QED
  BY <1>1, <1>2, <1>3 DEF Next, Terminated

(* The types and the assigned ids hold throughout. *)
LEMMA Base == Spec => [](TypeOK /\ Assigned)
<1>1. Init => Assigned
  BY DEF Init, Assigned
<1>2. TypeOK /\ Assigned /\ [Next]_vars => Assigned'
  BY AssignedStep
<1>3. QED
  BY <1>1, <1>2, TypeCorrect, PTL DEF Spec

(* Two tasks with the same serial key never run at the same time, whatever *)
(* the number of workers and whichever of them pick the tasks.             *)
THEOREM SerialKeysSafe == Spec => []SerialKeysExclusive
<1>1. Init => KeyInv
  BY DEF Init, KeyInv
<1>2. TypeOK /\ Assigned /\ KeyInv /\ [Next]_vars => KeyInv'
  BY KeyStep
<1>3. KeyInv => SerialKeysExclusive
  BY DEF KeyInv, SerialKeysExclusive
<1>4. QED
  BY <1>1, <1>2, <1>3, Base, PTL DEF Spec

-----------------------------------------------------------------------------
(* Cancellation *)

(* fn() is entered only after started was set, and only by a task that was *)
(* not canceled then; only a task whose fn() was entered succeeds.         *)
CancelInv ==
  /\ ran \subseteq started /\ succeeded \subseteq ran
  /\ \A w \in Workers : (wpc[w] \in {"run", "returned"} /\ cur[w].id # 0) => cur[w].id \in ran
  /\ canceled \cap ran = {}

(* Every step keeps what was canceled apart from what ran. *)
LEMMA CancelStep == ASSUME TypeOK, Assigned, CancelInv, [Next]_vars PROVE CancelInv'
<1>1. ASSUME NEW t \in Threads, StartCall(t) \/ InCall(t)
      PROVE  CancelInv'
  <2>1. canceled' = canceled \/ \E id \in issued : TryCancel(t, id)
    <3>1. CASE StartCall(t)
      BY <3>1 DEF StartCall, Submit, SubmitEx, ParallelFor, NewTask, Wait, WaitBatch, WaitAll,
         Reconfigure, Release, OnlyCall
    <3>2. CASE InCall(t)
      BY <3>2 DEF InCall, NextChunk, NewTask, Enqueue, Rollback, Notify, Find, Waited, Expire,
         WaitedAll, NotifyAll, Join, OnlyCall
    <3>3. QED
      BY <1>1, <3>1, <3>2
  <2>2. canceled' \cap ran = {}
    BY <2>1 DEF TryCancel, Cancelable, CancelInv
  <2>3. QED
    BY <1>1, <2>2, CallFrame DEF CancelInv
<1>2. ASSUME NEW w \in Workers, Work(w) \/ SpuriousWakeup(w)
      PROVE  CancelInv'
  <2>0. \A v \in Workers \ {w} : wpc'[v] = wpc[v] /\ cur'[v] = cur[v]
    BY <1>2, WorkFrame
  <2>1. CASE Claim(w)
    BY <2>0, <2>1 DEF Claim, StepTo, CancelInv, TypeOK, doneVars
  <2>2. CASE Mark(w) \/ MarkThrows(w)
    <3>1. /\ wpc'[w] \in {"unlock", "finish", "unwind", "escaped"}
          /\ UNCHANGED <<ran, started, canceled>>
      BY <2>2 DEF Mark, MarkThrows, TypeOK, workVars
    <3>2. succeeded' \subseteq ran
      <4>1. CASE succeeded' = succeeded
        BY <4>1 DEF CancelInv
      <4>2. CASE Settle(w) /\ cur[w].id # 0
        BY <4>2 DEF Settle, CancelInv
      <4>3. CASE Mark(w)
        BY <4>1, <4>2, <4>3 DEF Mark, MarkTaskDone, doneVars
      <4>4. CASE MarkThrows(w)
        BY <4>2, <4>4 DEF MarkThrows, TypeOK, Ids
      <4>5. QED
        BY <2>2, <4>3, <4>4
    <3>3. QED
      BY <2>0, <3>1, <3>2 DEF CancelInv
  <2>3. CASE Pick(w)
    <3>1. PICK e \in tasks : StepTo(w, "check", FirstStep(e)) /\ cur' = [cur EXCEPT ![w] = e]
      BY <2>3 DEF Pick
    <3>2. wpc'[w] = FirstStep(e) /\ cur'[w] = e
      BY <3>1 DEF StepTo, TypeOK
    <3>3. UNCHANGED <<ran, started, succeeded, canceled>>
      BY <2>3 DEF Pick, doneVars
    <3>4. QED
      BY <2>0, <3>2, <3>3 DEF CancelInv, FirstStep
  <2>4. CASE Sleep(w) \/ SpuriousWakeup(w) \/ Exit(w) \/ LockKey(w) \/ FnReturns(w) \/ FnThrows(w)
             \/ Unwind(w) \/ LoopCatches(w) \/ UnlockKey(w) \/ Finish(w)
    <3>1. UNCHANGED <<ran, started, succeeded, canceled>>
      BY <2>4 DEF Sleep, SpuriousWakeup, Exit, LockKey, FnReturns, FnThrows, Unwind, LoopCatches,
         UnlockKey, Finish, doneVars, workVars
    <3>2. wpc'[w] \in {"run", "returned"} => wpc[w] = "run" /\ cur'[w] = cur[w]
      BY <2>4 DEF Sleep, SpuriousWakeup, Exit, LockKey, FnReturns, FnThrows, Unwind, LoopCatches,
         UnlockKey, Finish, StepTo, TypeOK, workVars
    <3>3. QED
      BY <2>0, <3>1, <3>2 DEF CancelInv
  <2>5. QED
    BY <1>2, <2>1, <2>2, <2>3, <2>4 DEF Work
<1>3. CASE UNCHANGED vars
  BY <1>3 DEF CancelInv, vars, workVars, doneVars
<1>4. QED
  BY <1>1, <1>2, <1>3 DEF Next, Terminated

(* A task for which TryCancel returned kOk never runs and is never         *)
(* reported as successful, in every race of TryCancel with the worker that *)
(* takes the task.                                                         *)
THEOREM CancelSafe == Spec => []CanceledNeverRuns
<1>1. Init => CancelInv
  BY DEF Init, CancelInv
<1>2. TypeOK /\ Assigned /\ CancelInv /\ [Next]_vars => CancelInv'
  BY CancelStep
<1>3. CancelInv => CanceledNeverRuns
  BY DEF CancelInv, CanceledNeverRuns
<1>4. QED
  BY <1>1, <1>2, <1>3, Base, PTL DEF Spec

-----------------------------------------------------------------------------
(* The fate of accepted tasks *)

(* NoTaskLostOrDuplicated speaks of the queue, of the busy workers and of  *)
(* what they hold; a step that leaves these alone keeps it.                *)
LEMMA TasksFrame ==
  ASSUME NoTaskLostOrDuplicated,
         UNCHANGED <<tasks, enqueue_seq, pending_tasks, active_workers, finished, Busy>>,
         \A w \in Busy : cur'[w] = cur[w]
  PROVE  NoTaskLostOrDuplicated'
BY DEF NoTaskLostOrDuplicated, Queued, InHand

(* A call leaves the busy workers busy, with what they hold. *)
LEMMA CallBusy ==
  ASSUME TypeOK, NEW t \in Threads, StartCall(t) \/ InCall(t)
  PROVE  Busy' = Busy /\ cur' = cur
BY CallFrame DEF Busy

(* The busy workers are finitely many. *)
LEMMA BusyFinite == IsFiniteSet(Busy) /\ Cardinality(Busy) \in Nat
<1>1. Busy \subseteq Workers
  BY DEF Busy
<1>2. QED
  BY <1>1, ThreadsAssumption, FS_Subset, FS_CardinalityType

(* Accepting a task adds it to the queue under a new sequence number. *)
LEMMA AcceptTask ==
  ASSUME TypeOK, NoTaskLostOrDuplicated, NEW id \in Nat, NEW p \in 0..2, NEW k \in Keys \cup {0},
         Accept(id, p, k), UNCHANGED <<active_workers, finished, cur, Busy>>
  PROVE  NoTaskLostOrDuplicated'
<1> DEFINE e == [id |-> id, priority |-> p, key |-> k, seq |-> enqueue_seq + 1]
<1>1. /\ tasks' = tasks \cup {e} /\ enqueue_seq' = enqueue_seq + 1
      /\ pending_tasks' = pending_tasks + 1
  BY DEF Accept
<1>2. e.seq = enqueue_seq + 1
  OBVIOUS
<1> HIDE DEF e
<1>3. enqueue_seq \in Nat /\ enqueue_seq + 1 \notin 1..enqueue_seq
      /\ 1..(enqueue_seq + 1) = (1..enqueue_seq) \cup {enqueue_seq + 1}
  BY DEF TypeOK
<1>4. Queued' = Queued \cup {enqueue_seq + 1} /\ InHand' = InHand
  BY <1>1, <1>2 DEF Queued, InHand
<1>5. enqueue_seq + 1 \notin Queued \cup InHand \cup finished
  BY <1>3 DEF NoTaskLostOrDuplicated
<1>6. e \notin tasks
  BY <1>2, <1>5 DEF Queued
<1>7. Cardinality(tasks') = Cardinality(tasks) + 1 /\ Cardinality(tasks) \in Nat
  BY <1>1, <1>6, FS_AddElement, FS_CardinalityType DEF TypeOK
<1>8. \A f, g \in tasks' : f.seq = g.seq => f = g
  BY <1>1, <1>2, <1>5 DEF NoTaskLostOrDuplicated, Queued
<1>9. pending_tasks' = Cardinality(tasks') + Cardinality(Busy')
  BY <1>1, <1>7, BusyFinite DEF NoTaskLostOrDuplicated
<1>10. /\ 1..enqueue_seq' = Queued' \cup InHand' \cup finished'
       /\ Queued' \cap InHand' = {} /\ finished' \cap (Queued' \cup InHand') = {}
  <2>1. /\ 1..enqueue_seq = Queued \cup InHand \cup finished
        /\ Queued \cap InHand = {} /\ finished \cap (Queued \cup InHand) = {}
    BY DEF NoTaskLostOrDuplicated
  <2>2. 1..enqueue_seq' = Queued' \cup InHand' \cup finished'
    BY <1>1, <1>3, <1>4, <1>5, <2>1
  <2>3. Queued' \cap InHand' = {}
    BY <1>1, <1>3, <1>4, <1>5, <2>1
  <2>4. finished' \cap (Queued' \cup InHand') = {}
    BY <1>1, <1>3, <1>4, <1>5, <2>1
  <2>5. QED
    BY <2>2, <2>3, <2>4
<1>11. QED
  BY <1>8, <1>9, <1>10 DEF NoTaskLostOrDuplicated

(* Pick moves a task from the queue into the hands of an idle worker. *)
LEMMA PickTask ==
  ASSUME TypeOK, NoTaskLostOrDuplicated, NEW w \in Workers, Pick(w)
  PROVE  NoTaskLostOrDuplicated'
<1>1. PICK e \in tasks : /\ StepTo(w, "check", FirstStep(e))
                         /\ tasks' = tasks \ {e}
                         /\ cur' = [cur EXCEPT ![w] = e]
  BY DEF Pick
<1>2. wpc[w] = "check" /\ wpc'[w] \in {"run", "lock", "claim"} /\ cur'[w] = e
  BY <1>1 DEF StepTo, FirstStep, TypeOK
<1>3. \A v \in Workers \ {w} : wpc'[v] = wpc[v] /\ cur'[v] = cur[v]
  BY WorkFrame DEF Work
<1>4. w \notin Busy /\ Busy' = Busy \cup {w}
  BY <1>2, <1>3 DEF Busy
<1>5. /\ active_workers' = active_workers + 1
      /\ UNCHANGED <<enqueue_seq, pending_tasks, finished>>
  BY DEF Pick
<1>6. Queued = Queued' \cup {e.seq} /\ e.seq \notin Queued'
  BY <1>1 DEF Queued, NoTaskLostOrDuplicated
<1>7. InHand' = InHand \cup {e.seq} /\ e.seq \notin InHand
  <2>1. \A v \in Busy : cur'[v] = cur[v]
    BY <1>3, <1>4 DEF Busy
  <2>2. e.seq \notin InHand
    BY DEF NoTaskLostOrDuplicated, Queued
  <2>3. QED
    BY <1>2, <1>4, <2>1, <2>2 DEF InHand
<1>8. /\ Cardinality(tasks') = Cardinality(tasks) - 1
      /\ Cardinality(Busy') = Cardinality(Busy) + 1
      /\ Cardinality(tasks) \in Nat
  BY <1>1, <1>4, BusyFinite, FS_AddElement, FS_RemoveElement, FS_CardinalityType DEF TypeOK
<1>9. \A u, v \in Busy' : cur'[u].seq = cur'[v].seq => u = v
  <2>1. \A v \in Busy : cur'[v] = cur[v] /\ cur[v].seq # e.seq
    BY <1>3, <1>4, <1>7 DEF Busy, InHand
  <2>2. \A u, v \in Busy : cur[u].seq = cur[v].seq => u = v
    BY DEF NoTaskLostOrDuplicated
  <2>3. SUFFICES ASSUME NEW u \in Busy', NEW v \in Busy', cur'[u].seq = cur'[v].seq PROVE u = v
    OBVIOUS
  <2>4. CASE u = w
    BY <1>2, <1>4, <2>1, <2>3, <2>4
  <2>5. CASE v = w
    BY <1>2, <1>4, <2>1, <2>3, <2>5
  <2>6. CASE u # w /\ v # w
    BY <1>4, <2>1, <2>2, <2>3, <2>6
  <2>7. QED
    BY <2>4, <2>5, <2>6
<1>10. /\ 1..enqueue_seq' = Queued' \cup InHand' \cup finished'
       /\ Queued' \cap InHand' = {} /\ finished' \cap (Queued' \cup InHand') = {}
  <2>1. /\ 1..enqueue_seq = Queued \cup InHand \cup finished
        /\ Queued \cap InHand = {} /\ finished \cap (Queued \cup InHand) = {}
    BY DEF NoTaskLostOrDuplicated
  <2>2. 1..enqueue_seq' = Queued' \cup InHand' \cup finished'
    BY <1>5, <1>6, <1>7, <2>1
  <2>3. Queued' \cap InHand' = {}
    BY <1>5, <1>6, <1>7, <2>1
  <2>4. finished' \cap (Queued' \cup InHand') = {}
    BY <1>5, <1>6, <1>7, <2>1
  <2>5. QED
    BY <2>2, <2>3, <2>4
<1>11. /\ active_workers' = Cardinality(Busy')
       /\ pending_tasks' = Cardinality(tasks') + Cardinality(Busy')
  BY <1>5, <1>8, BusyFinite DEF NoTaskLostOrDuplicated
<1>12. \A f, g \in tasks' : f.seq = g.seq => f = g
  BY <1>1 DEF NoTaskLostOrDuplicated
<1>13. QED
  BY <1>9, <1>10, <1>11, <1>12 DEF NoTaskLostOrDuplicated

(* Finish takes a task from a worker's hands for good. *)
LEMMA FinishTask ==
  ASSUME TypeOK, NoTaskLostOrDuplicated, NEW w \in Workers, Finish(w)
  PROVE  NoTaskLostOrDuplicated'
<1>1. wpc[w] = "finish" /\ wpc'[w] = "check"
  BY DEF Finish, StepTo, TypeOK
<1>2. \A v \in Workers \ {w} : wpc'[v] = wpc[v] /\ cur'[v] = cur[v]
  BY WorkFrame DEF Work
<1>3. w \in Busy /\ Busy' = Busy \ {w}
  BY <1>1, <1>2 DEF Busy
<1>4. /\ active_workers' = active_workers - 1
      /\ pending_tasks' = IF pending_tasks > 0 THEN pending_tasks - 1 ELSE pending_tasks
      /\ finished' = finished \cup {cur[w].seq}
      /\ UNCHANGED <<tasks, enqueue_seq>>
  BY DEF Finish
<1>5. InHand = InHand' \cup {cur[w].seq} /\ cur[w].seq \notin InHand'
  <2>1. \A v \in Busy' : cur'[v] = cur[v] /\ cur[v].seq # cur[w].seq
    BY <1>2, <1>3 DEF Busy, NoTaskLostOrDuplicated
  <2>2. QED
    BY <1>3, <2>1 DEF InHand
<1>6. /\ Cardinality(Busy') = Cardinality(Busy) - 1 /\ Cardinality(Busy) \in Nat
      /\ Cardinality(Busy) # 0 /\ Cardinality(tasks) \in Nat
  <2>1. IsFiniteSet(Busy) /\ Cardinality(Busy) \in Nat /\ Cardinality(tasks) \in Nat
    BY BusyFinite, FS_CardinalityType DEF TypeOK
  <2>2. Cardinality(Busy') = Cardinality(Busy) - 1
    BY <1>3, <2>1, FS_RemoveElement
  <2>3. Cardinality(Busy) # 0
    BY <1>3, <2>1, FS_EmptySet
  <2>4. QED
    BY <2>1, <2>2, <2>3
<1>7. /\ active_workers' = Cardinality(Busy')
      /\ pending_tasks' = Cardinality(tasks') + Cardinality(Busy')
  BY <1>4, <1>6 DEF NoTaskLostOrDuplicated
<1>8. Queued' = Queued
  BY <1>4 DEF Queued
<1>9. /\ 1..enqueue_seq' = Queued' \cup InHand' \cup finished'
      /\ Queued' \cap InHand' = {} /\ finished' \cap (Queued' \cup InHand') = {}
  <2>1. /\ 1..enqueue_seq = Queued \cup InHand \cup finished
        /\ Queued \cap InHand = {} /\ finished \cap (Queued \cup InHand) = {}
    BY DEF NoTaskLostOrDuplicated
  <2>2. 1..enqueue_seq' = Queued' \cup InHand' \cup finished'
    BY <1>4, <1>5, <1>8, <2>1
  <2>3. Queued' \cap InHand' = {}
    BY <1>4, <1>5, <1>8, <2>1
  <2>4. finished' \cap (Queued' \cup InHand') = {}
    BY <1>4, <1>5, <1>8, <2>1
  <2>5. QED
    BY <2>2, <2>3, <2>4
<1>10. \A u, v \in Busy' : cur'[u].seq = cur'[v].seq => u = v
  <2>1. \A v \in Busy' : v \in Busy /\ cur'[v] = cur[v]
    BY <1>2, <1>3 DEF Busy
  <2>2. QED
    BY <2>1 DEF NoTaskLostOrDuplicated
<1>11. \A f, g \in tasks' : f.seq = g.seq => f = g
  BY <1>4 DEF NoTaskLostOrDuplicated
<1>12. QED
  BY <1>7, <1>9, <1>10, <1>11 DEF NoTaskLostOrDuplicated

(* No step loses or duplicates a task. *)
LEMMA TaskStep ==
  ASSUME TypeOK, Assigned, NoTaskLostOrDuplicated, [Next]_vars
  PROVE  NoTaskLostOrDuplicated'
<1>1. ASSUME NEW t \in Threads, StartCall(t) \/ InCall(t)
      PROVE  NoTaskLostOrDuplicated'
  <2>1. UNCHANGED <<active_workers, finished, cur, Busy>>
    BY <1>1, CallBusy, CallFrame
  <2>2. CASE UNCHANGED <<tasks, enqueue_seq, pending_tasks>>
    BY <2>1, <2>2, TasksFrame
  <2>3. ASSUME NEW id \in Nat, NEW p \in 0..2, NEW k \in Keys \cup {0}, Accept(id, p, k)
        PROVE  NoTaskLostOrDuplicated'
    BY <2>1, <2>3, AcceptTask
  <2>4. QED
    BY <1>1, <2>2, <2>3, CallQueue
<1>2. ASSUME NEW w \in Workers, Work(w) \/ SpuriousWakeup(w)
      PROVE  NoTaskLostOrDuplicated'
  <2>0. \A v \in Workers \ {w} : wpc'[v] = wpc[v]
    BY <1>2, WorkFrame
  <2>1. CASE Sleep(w) \/ SpuriousWakeup(w) \/ Exit(w) \/ LockKey(w) \/ Claim(w) \/ FnReturns(w)
             \/ FnThrows(w) \/ Mark(w) \/ MarkThrows(w) \/ Unwind(w) \/ LoopCatches(w) \/ UnlockKey(w)
    <3>1. UNCHANGED <<tasks, enqueue_seq, pending_tasks, active_workers, finished, cur>>
      BY <2>1 DEF Sleep, SpuriousWakeup, Exit, LockKey, Claim, FnReturns, FnThrows, Mark, MarkThrows,
         Unwind, LoopCatches, UnlockKey,
         queueVars, workVars
    <3>2. w \in Busy <=> w \in Busy'
      BY <2>1 DEF Sleep, SpuriousWakeup, Exit, LockKey, Claim, FnReturns, FnThrows, Mark, MarkThrows,
         Unwind, LoopCatches, UnlockKey,
         StepTo, TypeOK, Busy
    <3>3. Busy' = Busy
      BY <2>0, <3>2 DEF Busy
    <3>4. QED
      BY <3>1, <3>3, TasksFrame
  <2>2. QED
    BY <1>2, <2>1, PickTask, FinishTask DEF Work
<1>3. CASE UNCHANGED vars
  <2>1. UNCHANGED <<tasks, enqueue_seq, pending_tasks, active_workers, finished, Busy, cur>>
    BY <1>3 DEF vars, queueVars, workVars, Busy
  <2>2. QED
    BY <2>1, TasksFrame
<1>4. QED
  BY <1>1, <1>2, <1>3 DEF Next, Terminated

(* Every accepted task is queued, in the hands of exactly one worker, or   *)
(* through, and the executor's two counters count exactly these, for any   *)
(* number of workers, clients and tasks.                                   *)
THEOREM TasksConserved == Spec => []NoTaskLostOrDuplicated
<1>1. Init => NoTaskLostOrDuplicated
  <2> SUFFICES ASSUME Init PROVE NoTaskLostOrDuplicated
    OBVIOUS
  <2>1. Busy = {} /\ tasks = {} /\ finished = {} /\ enqueue_seq = 0
    BY DEF Init, Busy
  <2>2. Cardinality(Busy) = 0 /\ Cardinality(tasks) = 0
    BY <2>1, FS_EmptySet
  <2>3. Queued = {} /\ InHand = {} /\ 1..enqueue_seq = {}
    BY <2>1 DEF Queued, InHand
  <2>4. QED
    BY <2>1, <2>2, <2>3 DEF Init, NoTaskLostOrDuplicated
<1>2. TypeOK /\ Assigned /\ NoTaskLostOrDuplicated /\ [Next]_vars => NoTaskLostOrDuplicated'
  BY TaskStep
<1>3. QED
  BY <1>1, <1>2, Base, PTL DEF Spec

(* When WaitAll may return, every task accepted until then is through. *)
THEOREM WaitAllSafe == Spec => []WaitAllWaitsForAll
<1>1. TypeOK /\ NoTaskLostOrDuplicated => WaitAllWaitsForAll
  <2> SUFFICES ASSUME TypeOK, NoTaskLostOrDuplicated, Idle PROVE finished = 1..enqueue_seq
    BY DEF WaitAllWaitsForAll
  <2>1. Cardinality(Busy) = 0 /\ Cardinality(tasks) = 0
    BY BusyFinite, FS_CardinalityType DEF Idle, NoTaskLostOrDuplicated, TypeOK
  <2>2. Busy = {} /\ tasks = {}
    BY <2>1, BusyFinite, FS_EmptySet DEF TypeOK
  <2>3. QED
    BY <2>2 DEF NoTaskLostOrDuplicated, Queued, InHand
<1>2. QED
  BY <1>1, TypeCorrect, TasksConserved, PTL

-----------------------------------------------------------------------------
(* The wake-up of workers *)

Checking == {w \in Workers : wpc[w] = "check"}

Notifying == {t \in Threads : pc[t] = "notify"}

(* Both are finite. *)
LEMMA WakersFinite ==
  /\ IsFiniteSet(Checking) /\ Cardinality(Checking) \in Nat
  /\ IsFiniteSet(Notifying) /\ Cardinality(Notifying) \in Nat
<1>1. IsFiniteSet(Threads)
  BY ThreadsAssumption, FS_Union DEF Threads
<1>2. Checking \subseteq Workers /\ Notifying \subseteq Threads
  BY DEF Checking, Notifying
<1>3. QED
  BY <1>1, <1>2, ThreadsAssumption, FS_Subset, FS_CardinalityType

(* Enough workers are awake, or about to be woken, for the queued tasks. *)
EnoughAwake == Cardinality(tasks) <= Cardinality(Checking) + Cardinality(Notifying)

(* Every step keeps enough workers awake. *)
LEMMA WakeStep ==
  ASSUME TypeOK, TypeOK', Assigned, WorkConserving, [Next]_vars
  PROVE  WorkConserving'
<1>0. Asleep # {} => EnoughAwake
  BY DEF WorkConserving, EnoughAwake, Checking, Notifying
<1>a. /\ Cardinality(tasks) \in Nat /\ Cardinality(Checking) \in Nat /\ Cardinality(Notifying) \in Nat
      /\ IsFiniteSet(tasks) /\ IsFiniteSet(Checking) /\ IsFiniteSet(Notifying)
  BY WakersFinite, FS_CardinalityType DEF TypeOK
<1> SUFFICES ASSUME Asleep' # {} PROVE EnoughAwake'
  BY DEF WorkConserving, EnoughAwake, Checking, Notifying
<1>1. ASSUME NEW t \in Threads, StartCall(t) \/ InCall(t)
      PROVE  EnoughAwake'
  <2>1. CASE Notify(t)
    <3>1. Asleep # {}
      BY <2>1 DEF Notify, NotifyOne, Asleep
    <3>2. PICK w \in Asleep : wpc' = [wpc EXCEPT ![w] = "check"]
      BY <2>1, <3>1 DEF Notify, NotifyOne
    <3>3. w \notin Checking /\ Checking' = Checking \cup {w}
      BY <3>2 DEF Checking, Asleep, TypeOK
    <3>4. t \in Notifying /\ Notifying' = Notifying \ {t}
      BY <2>1, InCallLocal DEF Notify, Notifying, OthersSame, InCall
    <3>5. /\ Cardinality(Checking') = Cardinality(Checking) + 1
          /\ Cardinality(Notifying') = Cardinality(Notifying) - 1
      BY <1>a, <3>3, <3>4, FS_AddElement, FS_RemoveElement
    <3>6. tasks' = tasks
      BY <2>1 DEF Notify, queueVars
    <3>7. QED
      BY <1>0, <1>a, <3>1, <3>5, <3>6 DEF EnoughAwake
  <2>2. CASE NotifyAll(t)
    BY <2>2 DEF NotifyAll, Asleep
  <2>3. CASE ~Notify(t) /\ ~NotifyAll(t)
    <3>1. wpc' = wpc
      BY <1>1, <2>3 DEF StartCall, Submit, SubmitEx, ParallelFor, NewTask, Wait, WaitBatch, TryCancel,
         WaitAll, Reconfigure, Release, OnlyCall, InCall, NextChunk, Enqueue, Rollback, Find, Waited,
         Expire, WaitedAll, Join
    <3>2. Asleep # {} /\ Checking' = Checking
      BY <3>1 DEF Asleep, Checking
    <3>3. CASE UNCHANGED <<tasks, enqueue_seq, pending_tasks>>
      <4>1. pc[t] # "notify"
        BY <1>1, <2>3 DEF StartCall, Submit, SubmitEx, ParallelFor, Wait, WaitBatch, TryCancel, WaitAll,
           Reconfigure, Release, MayCall, InCall, NextChunk, Enqueue, Rollback, Find, Waited, Expire,
           WaitedAll, Join
      <4>2. OthersSame(t)
        BY <1>1, StartCallLocal, InCallLocal
      <4>3. Notifying \subseteq Notifying'
        BY <4>1, <4>2 DEF Notifying, OthersSame
      <4>4. IsFiniteSet(Notifying')
        <5>1. IsFiniteSet(Threads)
          BY ThreadsAssumption, FS_Union DEF Threads
        <5>2. Notifying' \subseteq Threads
          BY DEF Notifying
        <5>3. QED
          BY <5>1, <5>2, FS_Subset
      <4>5. Cardinality(Notifying) <= Cardinality(Notifying') /\ Cardinality(Notifying') \in Nat
        BY <4>3, <4>4, FS_Subset, FS_CardinalityType
      <4>6. QED
        BY <1>0, <1>a, <3>2, <3>3, <4>5 DEF EnoughAwake
    <3>4. ASSUME NEW id \in Nat, NEW p \in 0..2, NEW k \in Keys \cup {0}, Accept(id, p, k),
                 pc[t] # "notify", pc'[t] = "notify", OthersSame(t)
          PROVE  EnoughAwake'
      <4>1. t \notin Notifying /\ Notifying' = Notifying \cup {t}
        BY <3>4 DEF Notifying, OthersSame
      <4>2. Cardinality(Notifying') = Cardinality(Notifying) + 1
        BY <1>a, <4>1, FS_AddElement
      <4>3. Cardinality(tasks') <= Cardinality(tasks) + 1 /\ Cardinality(tasks') \in Nat
        <5> DEFINE e == [id |-> id, priority |-> p, key |-> k, seq |-> enqueue_seq + 1]
        <5>1. tasks' = tasks \cup {e}
          BY <3>4 DEF Accept
        <5> HIDE DEF e
        <5>2. IsFiniteSet(tasks')
          BY DEF TypeOK
        <5>3. Cardinality(tasks') = Cardinality(tasks) \/ Cardinality(tasks') = Cardinality(tasks) + 1
          BY <1>a, <5>1, FS_AddElement
        <5>4. QED
          BY <1>a, <5>2, <5>3, FS_CardinalityType
      <4>4. QED
        BY <1>0, <1>a, <3>2, <4>2, <4>3 DEF EnoughAwake
    <3>5. QED
      BY <1>1, <3>3, <3>4, CallQueue
  <2>4. QED
    BY <1>1, <2>1, <2>2, <2>3
<1>2. ASSUME NEW w \in Workers, Work(w) \/ SpuriousWakeup(w)
      PROVE  EnoughAwake'
  <2>0. /\ \A v \in Workers \ {w} : wpc'[v] = wpc[v]
        /\ Notifying' = Notifying
    BY <1>2, WorkFrame DEF callVars, Notifying
  <2>1. CASE Sleep(w) \/ Exit(w)
    <3>1. tasks' = {}
      BY <2>1 DEF Sleep, Exit, MayExit, queueVars
    <3>2. Cardinality(tasks') = 0
      BY <3>1, FS_EmptySet
    <3>3. Cardinality(Checking') \in Nat
      <4>1. Checking' \subseteq Workers
        BY DEF Checking
      <4>2. QED
        BY <4>1, ThreadsAssumption, FS_Subset, FS_CardinalityType
    <3>4. QED
      BY <1>a, <2>0, <3>2, <3>3 DEF EnoughAwake
  <2>2. CASE Pick(w)
    <3>1. PICK e \in tasks : StepTo(w, "check", FirstStep(e)) /\ tasks' = tasks \ {e}
      BY <2>2 DEF Pick
    <3>2. w \in Checking /\ Checking' = Checking \ {w} /\ Asleep # {}
      <4>1. wpc[w] = "check" /\ wpc'[w] \notin {"check", "sleep"}
        BY <3>1 DEF StepTo, FirstStep, TypeOK
      <4>2. QED
        BY <2>0, <4>1 DEF Checking, Asleep
    <3>3. /\ Cardinality(Checking') = Cardinality(Checking) - 1
          /\ Cardinality(tasks') = Cardinality(tasks) - 1
      BY <1>a, <3>1, <3>2, FS_RemoveElement
    <3>4. QED
      BY <1>0, <1>a, <2>0, <3>2, <3>3 DEF EnoughAwake
  <2>3. CASE SpuriousWakeup(w) \/ Finish(w)
    <3>1. w \notin Checking /\ Checking' = Checking \cup {w} /\ Asleep # {}
      <4>1. wpc[w] # "check" /\ wpc'[w] = "check"
        BY <2>3 DEF SpuriousWakeup, Finish, StepTo, TypeOK
      <4>2. QED
        BY <2>0, <4>1 DEF Checking, Asleep
    <3>2. Cardinality(Checking') = Cardinality(Checking) + 1
      BY <1>a, <3>1, FS_AddElement
    <3>3. tasks' = tasks
      BY <2>3 DEF SpuriousWakeup, Finish, queueVars
    <3>4. QED
      BY <1>0, <1>a, <2>0, <3>1, <3>2, <3>3 DEF EnoughAwake
  <2>4. CASE LockKey(w) \/ Claim(w) \/ FnReturns(w) \/ FnThrows(w) \/ Mark(w) \/ MarkThrows(w)
             \/ Unwind(w) \/ LoopCatches(w) \/ UnlockKey(w)
    <3>1. tasks' = tasks
      BY <2>4 DEF LockKey, Claim, FnReturns, FnThrows, Mark, MarkThrows, Unwind, LoopCatches, UnlockKey,
         queueVars
    <3>2. wpc[w] \notin {"check", "sleep"} /\ wpc'[w] \notin {"check", "sleep"}
      BY <2>4 DEF LockKey, Claim, FnReturns, FnThrows, Mark, MarkThrows, Unwind, LoopCatches, UnlockKey,
         StepTo, TypeOK
    <3>3. Checking' = Checking /\ Asleep' = Asleep
      BY <2>0, <3>2 DEF Checking, Asleep
    <3>4. QED
      BY <1>0, <2>0, <3>1, <3>3 DEF EnoughAwake
  <2>5. QED
    BY <1>2, <2>1, <2>2, <2>3, <2>4 DEF Work
<1>3. CASE UNCHANGED vars
  BY <1>0, <1>3 DEF vars, queueVars, callVars, EnoughAwake, Checking, Notifying, Asleep
<1>4. QED
  BY <1>1, <1>2, <1>3 DEF Next, Terminated

(* One notify_one per accepted task, sent after mu_ was released, is       *)
(* enough for any number of workers: no worker oversleeps a queued task    *)
(* that no awake worker, and no notification under way, accounts for.      *)
THEOREM NotifyOneSuffices == Spec => []WorkConserving
<1>1. Init => WorkConserving
  BY DEF Init, WorkConserving, Asleep
<1>2. TypeOK /\ TypeOK' /\ Assigned /\ WorkConserving /\ [Next]_vars => WorkConserving'
  BY WakeStep
<1>3. QED
  BY <1>1, <1>2, Base, PTL DEF Spec

=============================================================================
