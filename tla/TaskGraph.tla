------------------------------ MODULE TaskGraph ------------------------------
(***************************************************************************)
(* The task graph, src/task/simple_task_graph.cpp: one thread builds a     *)
(* graph of nodes and runs it, inline or on an executor, level by level.   *)
(*                                                                         *)
(* The executor is what RunInternal sees of it: SubmitEx accepts a task or *)
(* refuses it (its queue is full, perhaps of other clients' tasks), the    *)
(* workers run accepted tasks in any order, and WaitBatch waits for the    *)
(* tasks of the level one by one.  The executor forgets finished tasks, so *)
(* that WaitBatch may come back with kNotFound for one that has ended,     *)
(* with the tasks after it still queued or running (ThreadPoolExecutor     *)
(* shows how).                                                             *)
(***************************************************************************)
EXTENDS Integers, Sequences, FiniteSets, SequencesExt

CONSTANTS
  MaxNodes,      \* bound: nodes of a graph
  MaxEdges,      \* bound: dependencies of a graph
  Caps           \* values of max_concurrency, 0 = unlimited

ASSUME BoundsAssumption == MaxNodes \in Nat /\ MaxEdges \in Nat /\ Caps \subseteq Nat

VARIABLES
  nodes, edges, next_id,
  pc,            \* where RunInternal is
  executor,      \* whether it has an executor
  fail_fast, max_concurrency, indegree, ready, level, stats, processed,
  at,            \* position in level
  wait_st,       \* what WaitBatch last returned to this run
  result,        \* what the last run returned
  queued, running,
                 \* the executor's: nodes submitted and not begun, nodes being run
  ended, failed, \* nodes of this run whose fn() is through; those that threw
  starts         \* history: how often this run called each node's fn()

graphVars == <<nodes, edges, next_id>>
statusVars == <<wait_st, result>>
optionVars == <<executor, fail_fast, max_concurrency>>
workVars  == <<queued, running, ended, failed, starts>>
localVars == <<indegree, ready, level, processed, at>>
vars == <<graphVars, optionVars, pc, localVars, stats, statusVars, workVars>>

EmptyMap == [n \in {} |-> 0]

Init ==
  /\ nodes = {} /\ edges = EmptyMap /\ next_id = 1
  /\ pc = "idle" /\ executor = FALSE /\ fail_fast = TRUE /\ max_concurrency = 0
  /\ indegree = EmptyMap /\ ready = <<>> /\ level = <<>>
  /\ stats = [succeeded |-> 0, failed |-> 0, canceled |-> 0] /\ processed = 0
  /\ at = 1 /\ wait_st = "kOk" /\ result = "none"
  /\ queued = {} /\ running = {} /\ ended = {} /\ failed = {} /\ starts = EmptyMap

-----------------------------------------------------------------------------
(* Building the graph *)

(* The graph's thread is in no run.  Nodes that an earlier run left behind *)
(* use its freed NodeCtx; what comes of that is undefined, and the model   *)
(* does not follow the thread any further before they have ended.          *)
Idle == pc = "idle" /\ queued \cup running = {}

OnlyGraph == UNCHANGED <<optionVars, pc, localVars, stats, statusVars, workVars>>

AddTask ==
  /\ Idle /\ Cardinality(nodes) < MaxNodes
  /\ nodes' = nodes \cup {next_id}
  /\ edges' = [n \in nodes' |-> IF n = next_id THEN {} ELSE edges[n]]
  /\ next_id' = next_id + 1
  /\ OnlyGraph

EdgeCount(e) == Cardinality({<<a, b>> \in (DOMAIN e) \X (DOMAIN e) : b \in e[a]})

IsNoLoop(before, after) == before # after   \* mutant of IsDependency: ids are not looked up

IsDependency(before, after) == before # after /\ {before, after} \subseteq nodes

(* AddDependencies(after, befores): stops at the first one it refuses, and *)
(* keeps those before it.  AddDependency is the case of one.               *)
AddDependencies(after, befores) ==
  /\ Idle
  /\ LET added == {i \in DOMAIN befores : \A j \in 1..i : IsDependency(befores[j], after)}
     IN  edges' = [n \in nodes |-> IF \E i \in added : befores[i] = n
                                   THEN edges[n] \cup {after} ELSE edges[n]]
  /\ EdgeCount(edges') <= MaxEdges
  /\ UNCHANGED <<nodes, next_id>>
  /\ OnlyGraph

Clear ==
  /\ Idle
  /\ nodes' = {} /\ edges' = EmptyMap /\ next_id' = 1
  /\ OnlyGraph

-----------------------------------------------------------------------------
(* Validate *)

BuildIndegree == [n \in nodes |-> Cardinality({m \in nodes : n \in edges[m]})]

InOrder(S) == SetToSortSeq(S, <)

Roots(degrees) == InOrder({n \in nodes : degrees[n] = 0})

(* Node id leaves Validate's queue: its successors have one predecessor    *)
(* less, and those that have none left are appended.                       *)
Unlink(degrees, queue, id) ==
  LET less == [n \in nodes |-> IF n \in edges[id] /\ degrees[n] > 0 THEN degrees[n] - 1
                                                                     ELSE degrees[n]]
  IN  [degrees |-> less, queue |-> queue \o InOrder({n \in edges[id] : less[n] = 0})]

(* Validate's loop: the nodes it has processed after k rounds, and what is *)
(* left of its queue and degrees.                                          *)
Sorted[k \in Nat] ==
  IF k = 0 THEN [processed |-> 0, degrees |-> BuildIndegree, queue |-> Roots(BuildIndegree)]
  ELSE LET s == Sorted[k - 1] IN
       IF s.queue = <<>> THEN s
       ELSE LET u == Unlink(s.degrees, Tail(s.queue), Head(s.queue))
            IN  [processed |-> s.processed + 1, degrees |-> u.degrees, queue |-> u.queue]

HasRoot == nodes = {} \/ Roots(BuildIndegree) # <<>>   \* mutant of Validate: looks at the roots only

Validate == Sorted[Cardinality(nodes)].processed = Cardinality(nodes)

-----------------------------------------------------------------------------
(* RunInternal.  Run() is inline with fail_fast and without a cap.         *)

Run(exec, ff, limit) ==
  /\ Idle
  /\ exec \/ (ff /\ limit = 0)
  /\ executor' = exec /\ fail_fast' = ff /\ max_concurrency' = limit
  /\ level' = <<>> /\ at' = 1 /\ processed' = 0 /\ wait_st' = "kOk"
  /\ stats' = [succeeded |-> 0, failed |-> 0, canceled |-> 0]
  /\ UNCHANGED <<queued, running>> /\ ended' = {} /\ failed' = {}
  /\ starts' = [n \in nodes |-> 0]
  /\ IF Validate
     THEN pc' = "level" /\ indegree' = BuildIndegree /\ ready' = Roots(BuildIndegree)
          /\ result' = "none"
     ELSE pc' = "idle" /\ indegree' = EmptyMap /\ ready' = <<>> /\ result' = "kInvalidArgument"
  /\ UNCHANGED graphVars

(* RunInternal returns, and its locals are gone. *)
Leave(status) ==
  /\ pc' = "idle" /\ result' = status
  /\ indegree' = EmptyMap /\ ready' = <<>> /\ level' = <<>> /\ processed' = 0 /\ at' = 1

LevelSizeUncapped == Len(ready)          \* mutant of LevelSize: max_concurrency is ignored

LevelSize ==
  IF max_concurrency # 0 /\ max_concurrency < Len(ready) THEN max_concurrency ELSE Len(ready)

NextLevel ==
  /\ pc = "level" /\ ready # <<>>
  /\ level' = SubSeq(ready, 1, LevelSize)
  /\ ready' = SubSeq(ready, LevelSize + 1, Len(ready))
  /\ at' = 1
  /\ pc' = IF executor THEN "submit" ELSE "inline"
  /\ UNCHANGED <<graphVars, optionVars, indegree, stats, processed, statusVars, workVars>>

Started(n) == starts' = [starts EXCEPT ![n] = @ + 1]

(* Inline: fn() of one node after the other, whether it throws or not. *)
RunInline ==
  /\ pc = "inline" /\ at <= Len(level)
  /\ Started(level[at]) /\ ended' = ended \cup {level[at]}
  /\ \/ stats' = [stats EXCEPT !.succeeded = @ + 1] /\ UNCHANGED failed
     \/ stats' = [stats EXCEPT !.failed = @ + 1] /\ failed' = failed \cup {level[at]}
  /\ at' = at + 1
  /\ UNCHANGED <<graphVars, optionVars, pc, indegree, ready, level, processed, statusVars, queued,
                 running>>

Submit ==
  /\ pc = "submit" /\ at <= Len(level)
  /\ queued' = queued \cup {level[at]}
  /\ at' = at + 1
  /\ UNCHANGED <<graphVars, optionVars, pc, indegree, ready, level, stats, processed, statusVars,
                 running, ended, failed, starts>>

(* All of the level is submitted: wait for it. *)
Submitted ==
  /\ pc = "submit" /\ at > Len(level)
  /\ pc' = "wait" /\ at' = 1
  /\ UNCHANGED <<graphVars, optionVars, indegree, ready, level, stats, processed, statusVars, workVars>>

RefuseAtOnce ==                          \* mutant of Refuse: accepted nodes are not waited for
  /\ pc = "submit" /\ at <= Len(level)
  /\ Leave("kWouldBlock")
  /\ UNCHANGED <<graphVars, optionVars, stats, wait_st, workVars>>

(* SubmitEx refuses a node: wait for the accepted ones and give up. *)
Refuse ==
  /\ pc = "submit" /\ at <= Len(level)
  /\ pc' = "abort" /\ at' = 1 /\ level' = SubSeq(level, 1, at - 1)
  /\ UNCHANGED <<graphVars, optionVars, indegree, ready, stats, processed, statusVars, workVars>>

(* WaitBatch, one task after the other. *)
Wait ==
  /\ pc \in {"wait", "abort"} /\ at <= Len(level)
  /\ level[at] \in ended
  /\ at' = at + 1
  /\ UNCHANGED <<graphVars, optionVars, pc, indegree, ready, level, stats, processed, statusVars,
                 workVars>>

(* WaitBatch comes back with kNotFound: the executor no longer has the     *)
(* state of a node that has ended.  RunInternal returns at once, with      *)
(* WaitBatch's status, or with SubmitEx's if it was about to give up.      *)
WaitFails ==
  /\ pc \in {"wait", "abort"} /\ at <= Len(level)
  /\ level[at] \in ended
  /\ wait_st' = "kNotFound"
  /\ Leave(IF pc = "wait" THEN "kNotFound" ELSE "kWouldBlock")
  /\ UNCHANGED <<graphVars, optionVars, stats, workVars>>

Abort ==
  /\ pc = "abort" /\ at > Len(level)
  /\ Leave("kWouldBlock")
  /\ UNCHANGED <<graphVars, optionVars, stats, wait_st, workVars>>

Threw == {i \in DOMAIN level : level[i] \in failed}

CountNone == stats                       \* mutant of Counted: a level's outcomes are not added

(* The outcomes of a level run by the executor, read from its NodeCtx;     *)
(* inline they were counted one by one.                                    *)
Counted ==
  IF ~executor THEN stats
  ELSE [stats EXCEPT !.succeeded = @ + Len(level) - Cardinality(Threw),
                     !.failed = @ + Cardinality(Threw)]

Canceled(s) == Cardinality(nodes) - s.succeeded - s.failed

(* The level is through: stop if a node failed, or unlock successors. *)
LevelDone ==
  /\ pc \in {"inline", "wait"} /\ at > Len(level)
  /\ IF fail_fast /\ Threw # {}
     THEN /\ stats' = [Counted EXCEPT !.canceled = Canceled(Counted)]
          /\ Leave("kOk")
     ELSE /\ stats' = Counted
          /\ processed' = processed + Len(level)
          /\ pc' = "unlock" /\ at' = 1
          /\ UNCHANGED <<indegree, ready, level, result>>
  /\ UNCHANGED <<graphVars, optionVars, wait_st, workVars>>

UnlockAny(id) ==                         \* mutant of Unlock: one finished predecessor is enough
  /\ ready' = ready \o InOrder(edges[id])
  /\ UNCHANGED indegree

UnlockLate(id) ==                        \* mutant of Unlock: the count is tested before it is lowered
  /\ indegree' = [n \in nodes |-> IF n \in edges[id] /\ indegree[n] > 0 THEN indegree[n] - 1
                                                                        ELSE indegree[n]]
  /\ ready' = ready \o InOrder({n \in edges[id] : indegree[n] = 0})

(* RunInternal's own loop over the successors of a node that is through. *)
Unlock(id) ==
  /\ indegree' = [n \in nodes |-> IF n \in edges[id] /\ indegree[n] > 0 THEN indegree[n] - 1
                                                                        ELSE indegree[n]]
  /\ ready' = ready \o InOrder({n \in edges[id] : indegree'[n] = 0})

UnlockNode ==
  /\ pc = "unlock" /\ at <= Len(level)
  /\ Unlock(level[at])
  /\ at' = at + 1
  /\ UNCHANGED <<graphVars, optionVars, pc, level, stats, processed, statusVars, workVars>>

Unlocked ==
  /\ pc = "unlock" /\ at > Len(level)
  /\ pc' = "level"
  /\ UNCHANGED <<graphVars, optionVars, localVars, stats, statusVars, workVars>>

(* No node is ready any more. *)
Return ==
  /\ pc = "level" /\ ready = <<>>
  /\ IF processed = Cardinality(nodes)
     THEN Leave("kOk") /\ stats' = [stats EXCEPT !.canceled = Canceled(stats)]
     ELSE Leave("kInvalidArgument") /\ UNCHANGED stats
  /\ UNCHANGED <<graphVars, optionVars, wait_st, workVars>>

-----------------------------------------------------------------------------
(* The executor's workers *)

Begin(n) ==
  /\ n \in queued
  /\ queued' = queued \ {n} /\ running' = running \cup {n} /\ Started(n)
  /\ UNCHANGED <<graphVars, optionVars, pc, localVars, stats, statusVars, ended, failed>>

EndCaught(n) ==                          \* mutant of End: a failed node is never done
  /\ n \in running
  /\ running' = running \ {n}
  /\ \/ ended' = ended \cup {n} /\ UNCHANGED failed
     \/ failed' = failed \cup {n} /\ UNCHANGED ended
  /\ UNCHANGED <<graphVars, optionVars, pc, localVars, stats, statusVars, queued, starts>>

(* The wrapper catches what fn() throws and notes it in the node's NodeCtx. *)
End(n) ==
  /\ n \in running
  /\ running' = running \ {n} /\ ended' = ended \cup {n}
  /\ failed' \in {failed, failed \cup {n}}
  /\ UNCHANGED <<graphVars, optionVars, pc, localVars, stats, statusVars, queued, starts>>

-----------------------------------------------------------------------------

Build ==
  \/ AddTask \/ Clear
  \/ \E after \in 0..MaxNodes, k \in 1..2 : \E befores \in [1..k -> 0..MaxNodes] :
       AddDependencies(after, befores)

RunInternal ==
  \/ NextLevel \/ RunInline \/ Submit \/ Submitted \/ Refuse \/ Wait \/ WaitFails \/ Abort
  \/ LevelDone \/ UnlockNode \/ Unlocked \/ Return

Work == \E n \in queued \cup running : Begin(n) \/ End(n)

Next ==
  \/ Build
  \/ \E exec, ff \in BOOLEAN, limit \in Caps : Run(exec, ff, limit)
  \/ RunInternal
  \/ Work

Spec == Init /\ [][Next]_vars

(* A run goes on while it can, the executor's workers run what they have,  *)
(* and every fn() ends.                                                    *)
FairSpec == Spec /\ WF_vars(RunInternal) /\ WF_vars(Work)

-----------------------------------------------------------------------------
(* Properties *)

(* The graph's maps and the locals of RunInternal have their types; no     *)
(* edge leads to a node that does not exist.                               *)
TypeOK ==
  /\ nodes \subseteq Nat /\ edges \in [nodes -> SUBSET nodes] /\ next_id \in Nat
  /\ pc \in {"idle", "level", "inline", "submit", "wait", "abort", "unlock"}
  /\ executor \in BOOLEAN /\ fail_fast \in BOOLEAN /\ max_concurrency \in Nat
  /\ pc # "idle" => indegree \in [nodes -> Nat] /\ ready \in Seq(nodes) /\ level \in Seq(nodes)
  /\ stats \in [succeeded : Nat, failed : Nat, canceled : Nat]
  /\ processed \in Nat /\ at \in Nat /\ wait_st \in {"kOk", "kNotFound"}
  /\ result \in {"none", "kOk", "kInvalidArgument", "kWouldBlock", "kNotFound"}

(* A graph in which every set of nodes has one without a predecessor in    *)
(* the set has no cycle.                                                   *)
Acyclic == \A S \in SUBSET nodes : S # {} => \E n \in S : \A m \in S : n \notin edges[m]

(* Validate accepts exactly the graphs without a cycle. *)
ValidateFindsCycles == Validate <=> Acyclic

(* fn() of a node is called only when those of all its predecessors are    *)
(* through, in this run, and it is called once (i_task_graph.hpp:79).      *)
DependenciesRespected ==
  pc # "idle" =>
    \A n \in nodes :
      /\ starts[n] <= 1
      /\ (starts[n] > 0 \/ n \in queued) => \A m \in nodes : n \in edges[m] => m \in ended

(* A run on an executor never has more nodes under way than                *)
(* max_concurrency (i_task_graph.hpp:26).                                  *)
ConcurrencyCapped ==
  max_concurrency # 0 => Cardinality(queued \cup running) <= max_concurrency

(* RunInternal waits for what it submitted: when it has returned, after a  *)
(* refused submission too, a node is queued or running, with a pointer to  *)
(* a NodeCtx that is gone, only if WaitBatch came back with an error, and  *)
(* then the caller was told of an error as well.                           *)
NoNodeOutlivesRun ==
  (pc = "idle" /\ queued \cup running # {}) =>
    wait_st = "kNotFound" /\ result \in {"kNotFound", "kWouldBlock"}

(* The statistics of a run that returned kOk are what happened, and a run  *)
(* leaves nodes out only if it fails fast.                                 *)
StatsTellWhatRan ==
  [][(pc # "idle" /\ pc' = "idle" /\ result' = "kOk") =>
       /\ stats'.succeeded = Cardinality(ended' \ failed')
       /\ stats'.failed = Cardinality(failed')
       /\ stats'.canceled = Cardinality({n \in nodes : starts'[n] = 0})
       /\ stats'.canceled > 0 => fail_fast /\ failed' # {}]_vars

(* Once a node has failed, a run with fail_fast submits (or, inline,       *)
(* calls) no further node (i_task_graph.hpp:24).                           *)
FailFastStops ==
  [][(pc # "idle" /\ fail_fast /\ failed # {}) =>
       /\ queued' \subseteq queued
       /\ ~executor => starts' = starts]_vars

(* RunInternal's loop agrees with Validate's: a run that was let begin     *)
(* never ends with kInvalidArgument, that is, with nodes that wait for     *)
(* each other (the second look at processed, line 283).                    *)
ValidatedRunsThrough ==
  [][(pc # "idle" /\ pc' = "idle") => result' # "kInvalidArgument"]_vars

(* A run returns: its loops end, and WaitBatch is not left waiting for a   *)
(* node that is never done.                                                *)
RunReturns == (pc # "idle") ~> (pc = "idle")

=============================================================================
