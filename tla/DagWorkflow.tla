---------------------------- MODULE DagWorkflow ----------------------------
(***************************************************************************)
(* One persisted DAG workflow: its execution by DAGExecutor                *)
(* (src/src/erp/orchestration/worker.py, dag.py), the snapshots it writes  *)
(* to dag_execution_records, the quarantine at startup and the authorized  *)
(* recovery (persistence.py, api/routes/workflows.py).                     *)
(*                                                                         *)
(* Several API processes share the database.  A step is one database       *)
(* transaction, one node execution, or one pass of in-memory scheduling.   *)
(***************************************************************************)
EXTENDS Naturals

CONSTANTS
  Nodes,       \* the task nodes of the workflow template
  Deps,        \* Deps[n]: the dependencies of node n
  Safe,        \* nodes of SAFE_RECOVERY_NODES
  Registered,  \* nodes with an action in NODE_GUARDRAIL_ACTIONS that can succeed
  Processes,   \* API processes
  Executors,   \* activations of execute_dag: the request's task, then recoveries
  First,       \* the activation the webhook creates
  NoProcess,   \* "not running in any process"
  MaxCrashes,  \* bound on process crashes explored
  MaxFailures  \* bound on executions that end with an exception

ASSUME DagAssumption ==
  /\ Deps \in [Nodes -> SUBSET Nodes]
  /\ Safe \subseteq Nodes
  /\ Registered \subseteq Nodes
  /\ First \in Executors
  /\ NoProcess \notin Processes
  /\ MaxCrashes \in Nat
  /\ MaxFailures \in Nat

VARIABLES
  record,     \* dag_execution_records.status, NONE without a row
  saved,      \* the node statuses in workflow_state
  up,         \* processes that finished their startup
  host,       \* host[x]: the process activation x runs in
  pc,         \* pc[x]: where x is in execute_dag
  mem,        \* mem[x]: the node statuses of x's in-memory TaskDAG
  batch,      \* batch[x]: the ready nodes of x whose _execute_node has not ended
  good,       \* good[x]: nodes of the current batch that returned a result
  started,    \* history: started[n] counts the executions of node n
  succeeded,  \* history: nodes that returned a result in some execution
  crashes,    \* process crashes so far
  failures    \* failed executions so far

dagVars == <<record, saved, up, host, pc, mem, batch, good, started, succeeded,
             crashes, failures>>
recordVars == <<record, saved>>
historyVars == <<started, succeeded>>
faultVars == <<crashes, failures>>

-----------------------------------------------------------------------------
TaskStatus == {"PENDING", "READY", "RUNNING", "COMPLETED", "FAILED", "PREEMPTED"}
Ended == {"COMPLETED", "FAILED", "PREEMPTED"}
Final == {"COMPLETED", "FAILED"}
RecordStatus == {"NONE", "DISPATCHED", "RUNNING", "RECOVERING", "RECOVERY_REQUIRED"} \cup Final

\* off: not created or ended    begin: first snapshot    scan: the while loop
\* claim: snapshot of RUNNING   execute: gather          collect: results written
\* last: final snapshot
ExecutorPC == {"off", "begin", "scan", "claim", "execute", "collect", "last", "done"}
Active == ExecutorPC \ {"off", "done"}

DagTypeOK ==
  /\ record \in RecordStatus
  /\ saved \in [Nodes -> TaskStatus]
  /\ up \subseteq Processes
  /\ host \in [Executors -> Processes \cup {NoProcess}]
  /\ pc \in [Executors -> ExecutorPC]
  /\ mem \in [Executors -> [Nodes -> TaskStatus]]
  /\ batch \in [Executors -> SUBSET Nodes]
  /\ good \in [Executors -> SUBSET Nodes]
  /\ started \in [Nodes -> Nat]
  /\ succeeded \subseteq Nodes
  /\ crashes \in Nat
  /\ failures \in Nat

AllPending == [n \in Nodes |-> "PENDING"]

DagInit ==
  /\ record = "NONE"
  /\ saved = AllPending
  /\ up = Processes
  /\ host = [x \in Executors |-> NoProcess]
  /\ pc = [x \in Executors |-> "off"]
  /\ mem = [x \in Executors |-> AllPending]
  /\ batch = [x \in Executors |-> {}]
  /\ good = [x \in Executors |-> {}]
  /\ started = [n \in Nodes |-> 0]
  /\ succeeded = {}
  /\ crashes = 0
  /\ failures = 0

-----------------------------------------------------------------------------
(* TaskDAG. *)

\* Mutant of IsFinished: PREEMPTED is not an end.
IsFinishedStrict(nodes) == \A n \in Nodes : nodes[n] \in Final

IsFinished(nodes) == \A n \in Nodes : nodes[n] \in Ended

\* The pending nodes with a dependency that failed, was preempted or is in C.
Stopped(nodes, C) ==
  {n \in Nodes : /\ nodes[n] = "PENDING"
                 /\ \E m \in Deps[n] : m \in C \/ nodes[m] \in {"FAILED", "PREEMPTED"}}

\* get_ready_tasks visits the nodes in dependency order, so in one pass a
\* failure spreads to all pending nodes behind it, and to no other.
Doomed(nodes) ==
  LET pending == {n \in Nodes : nodes[n] = "PENDING"}
  IN  {n \in pending : \A C \in SUBSET pending : Stopped(nodes, C) \subseteq C => n \in C}

\* Mutant of Ready: dependencies that merely ended are enough.
ReadyAfterEnd(nodes) ==
  {n \in Nodes : nodes[n] = "PENDING" /\ \A m \in Deps[n] : nodes[m] \in Ended}

Ready(nodes) ==
  {n \in Nodes : nodes[n] = "PENDING" /\ \A m \in Deps[n] : nodes[m] = "COMPLETED"}

\* _workflow_status of a snapshot.
WorkflowStatus(nodes) ==
  IF \A n \in Nodes : nodes[n] = "COMPLETED" THEN "COMPLETED"
  ELSE IF IsFinished(nodes) THEN "FAILED"
  ELSE IF \A n \in Nodes : nodes[n] = "PENDING" THEN "DISPATCHED"
  ELSE "RUNNING"

\* persist_dag_snapshot: an upsert that overwrites whatever is stored.
Persist(nodes) ==
  /\ record' = WorkflowStatus(nodes)
  /\ saved' = nodes

-----------------------------------------------------------------------------
(* The request that accepts the workflow (webhooks.py). *)

\* The snapshot is durable, then the task is created in the same process.
Submit(p) ==
  /\ record = "NONE"
  /\ p \in up
  /\ Persist(AllPending)
  /\ host' = [host EXCEPT ![First] = p]
  /\ pc' = [pc EXCEPT ![First] = "begin"]
  /\ UNCHANGED <<up, mem, batch, good, historyVars, faultVars>>

-----------------------------------------------------------------------------
(* DAGExecutor.execute_dag. *)

PersistAnd(x, next) ==
  /\ Persist(mem[x])
  /\ pc' = [pc EXCEPT ![x] = next]
  /\ UNCHANGED <<up, host, mem, batch, good, historyVars, faultVars>>

\* The first snapshot, before the loop.
Begin(x) == pc[x] = "begin" /\ PersistAnd(x, "scan")

\* One turn of the loop: preempt the dependents of failures, take the ready
\* nodes and mark them RUNNING, or leave the loop.
Scan(x) ==
  LET doomed == Doomed(mem[x])
      ready == Ready(mem[x])
      next == [n \in Nodes |->
                 IF n \in doomed THEN "PREEMPTED"
                 ELSE IF n \in ready THEN "RUNNING" ELSE mem[x][n]]
  IN
  /\ pc[x] = "scan"
  /\ IF IsFinished(mem[x])
     THEN /\ pc' = [pc EXCEPT ![x] = "last"]
          /\ UNCHANGED <<mem, batch>>
     ELSE /\ mem' = [mem EXCEPT ![x] = next]
          /\ batch' = [batch EXCEPT ![x] = ready]
          /\ pc' = [pc EXCEPT ![x] =
               IF ready # {} THEN "claim"
               ELSE IF \E n \in Nodes : next[n] \in {"PENDING", "RUNNING"} THEN "scan"
               ELSE "last"]
  /\ UNCHANGED <<recordVars, up, host, good, historyVars, faultVars>>

\* Mutant of Claim: the nodes are executed without the snapshot.
ClaimInMemory(x) ==
  /\ pc[x] = "claim"
  /\ pc' = [pc EXCEPT ![x] = "execute"]
  /\ UNCHANGED <<recordVars, up, host, mem, batch, good, historyVars, faultVars>>

\* "Persist the claim before any node can perform a ... side effect."
Claim(x) == pc[x] = "claim" /\ PersistAnd(x, "execute")

\* _execute_node ends: with a result, or with an exception.  An unregistered
\* node always raises; the nodes of a batch end in any order.
ExecuteNode(x, n, ok) ==
  /\ pc[x] = "execute"
  /\ n \in batch[x]
  /\ ok => n \in Registered
  /\ started' = [started EXCEPT ![n] = @ + 1]
  /\ batch' = [batch EXCEPT ![x] = @ \ {n}]
  /\ good' = [good EXCEPT ![x] = IF ok THEN @ \cup {n} ELSE @]
  /\ succeeded' = IF ok THEN succeeded \cup {n} ELSE succeeded
  /\ UNCHANGED <<recordVars, up, host, pc, mem, faultVars>>

\* gather returned: mark_completed and mark_failed.
MarkResults(x) ==
  /\ pc[x] = "execute"
  /\ batch[x] = {}
  /\ mem' = [mem EXCEPT ![x] =
       [n \in Nodes |-> IF n \in good[x] THEN "COMPLETED"
                        ELSE IF mem[x][n] = "RUNNING" THEN "FAILED" ELSE mem[x][n]]]
  /\ good' = [good EXCEPT ![x] = {}]
  /\ pc' = [pc EXCEPT ![x] = "collect"]
  /\ UNCHANGED <<recordVars, up, host, batch, historyVars, faultVars>>

\* The snapshot after a batch, and the one after the loop.
Collect(x) == pc[x] = "collect" /\ PersistAnd(x, "scan")
Finish(x) == pc[x] = "last" /\ PersistAnd(x, "done")

\* persist_dag_snapshot raises, or the request fails before it creates the
\* task: the activation ends and leaves the record as it is.
ExecutionFails(x) ==
  /\ pc[x] \in {"begin", "claim", "collect", "last"}
  /\ failures < MaxFailures
  /\ failures' = failures + 1
  /\ pc' = [pc EXCEPT ![x] = "done"]
  /\ UNCHANGED <<recordVars, up, host, mem, batch, good, historyVars, crashes>>

-----------------------------------------------------------------------------
(* Crash, startup, recovery. *)

\* The process dies with all its activations; a node that was executing may
\* have had its effect (ExecuteNode happened) or not.
CrashProcess(p) ==
  /\ p \in up
  /\ crashes < MaxCrashes
  /\ crashes' = crashes + 1
  /\ up' = up \ {p}
  /\ pc' = [x \in Executors |->
              IF host[x] = p /\ pc[x] \in Active THEN "done" ELSE pc[x]]
  /\ UNCHANGED <<recordVars, host, mem, batch, good, historyVars, failures>>

\* Mutant of Startup: quarantines whatever the status.
StartupAll(p) ==
  /\ p \notin up
  /\ up' = up \cup {p}
  /\ record' = IF record = "NONE" THEN record ELSE "RECOVERY_REQUIRED"
  /\ saved' = [n \in Nodes |-> IF saved[n] = "RUNNING" THEN "PREEMPTED" ELSE saved[n]]
  /\ UNCHANGED <<host, pc, mem, batch, good, historyVars, faultVars>>

\* mark_interrupted_dags_for_recovery: every unfinished record, whoever runs it.
\* SKIP LOCKED passes over a record another process is writing.
Startup(p) ==
  /\ p \notin up
  /\ up' = up \cup {p}
  /\ \/ /\ record \in {"DISPATCHED", "RUNNING", "RECOVERING"}
        /\ record' = "RECOVERY_REQUIRED"
        /\ saved' = [n \in Nodes |-> IF saved[n] = "RUNNING" THEN "PREEMPTED" ELSE saved[n]]
     \/ /\ record \notin {"DISPATCHED", "RUNNING", "RECOVERING"} \/ up # {}
        /\ UNCHANGED recordVars
  /\ UNCHANGED <<host, pc, mem, batch, good, historyVars, faultVars>>

\* claim_dag_recovery: safe nodes become PENDING again, unsafe ones are held.
Retryable == {n \in Safe : saved[n] \in {"PENDING", "PREEMPTED"}}

\* Mutants of RecoverySnapshot: the allowlist is ignored; held nodes get a
\* status that TaskStatus does not have.
RecoverAllSnapshot ==
  [n \in Nodes |-> IF saved[n] \in {"PENDING", "PREEMPTED"} THEN "PENDING" ELSE saved[n]]
RecoverHeldSnapshot ==
  [n \in Nodes |-> IF n \in Retryable THEN "PENDING"
                   ELSE IF saved[n] = "PENDING" THEN "HELD" ELSE saved[n]]

RecoverySnapshot ==
  [n \in Nodes |-> IF n \in Retryable THEN "PENDING"
                   ELSE IF saved[n] = "PENDING" THEN "PREEMPTED" ELSE saved[n]]

\* Mutant of Recover: the status of the record is not checked.
RecoverAny(p, x) ==
  /\ p \in up
  /\ record # "NONE"
  /\ Retryable # {}
  /\ x # First
  /\ pc[x] = "off"
  /\ record' = "RECOVERING"
  /\ saved' = RecoverySnapshot
  /\ mem' = [mem EXCEPT ![x] = RecoverySnapshot]
  /\ host' = [host EXCEPT ![x] = p]
  /\ pc' = [pc EXCEPT ![x] = "begin"]
  /\ UNCHANGED <<up, batch, good, historyVars, faultVars>>

\* recover_workflow: the claim commits, then execute_dag runs in the request.
Recover(p, x) ==
  /\ p \in up
  /\ record = "RECOVERY_REQUIRED"
  /\ Retryable # {}
  /\ x # First
  /\ pc[x] = "off"
  /\ record' = "RECOVERING"
  /\ saved' = RecoverySnapshot
  /\ mem' = [mem EXCEPT ![x] = RecoverySnapshot]
  /\ host' = [host EXCEPT ![x] = p]
  /\ pc' = [pc EXCEPT ![x] = "begin"]
  /\ UNCHANGED <<up, batch, good, historyVars, faultVars>>

-----------------------------------------------------------------------------
ExecutorStep(x) ==
  \/ Begin(x)
  \/ Scan(x)
  \/ Claim(x)
  \/ \E n \in Nodes, ok \in BOOLEAN : ExecuteNode(x, n, ok)
  \/ MarkResults(x)
  \/ Collect(x)
  \/ Finish(x)

DagNext ==
  \/ \E p \in Processes : Submit(p) \/ CrashProcess(p) \/ Startup(p)
  \/ \E p \in Processes, x \in Executors : Recover(p, x)
  \/ \E x \in Executors : ExecutorStep(x) \/ ExecutionFails(x)

DagSpec == DagInit /\ [][DagNext]_dagVars

\* Running activations go on, and stopped processes are started again; nobody
\* is obliged to ask for a recovery.
DagFairSpec ==
  /\ DagSpec
  /\ \A x \in Executors : WF_dagVars(ExecutorStep(x))
  /\ \A p \in Processes : WF_dagVars(Startup(p))

-----------------------------------------------------------------------------
(* Properties. *)

\* A node outside the allowlist is executed at most once, through crashes,
\* quarantine and recovery: it may repeat a side effect that is not idempotent.
UnsafeNotRepeated == \A n \in Nodes \ Safe : started[n] <= 1

\* No node is executed before all its dependencies returned a result, whatever
\* snapshot the execution was rebuilt from.
StartedAfterDependencies ==
  \A n \in Nodes : started[n] > 0 => Deps[n] \subseteq succeeded

\* Also after crashes and recoveries the records hold what the schema allows
\* and no node has run ahead of another.
RecordsInOrder == DagTypeOK /\ StartedAfterDependencies

\* While a node executes, the stored snapshot does not call it PENDING: a crash
\* now leaves it to the quarantine.
ClaimIsDurable ==
  \A x \in Executors : pc[x] = "execute" =>
    \A n \in batch[x] \cup good[x] : saved[n] # "PENDING"

\* A workflow is never executed by two activations at once.
OneExecution ==
  \A x, y \in Executors : (pc[x] \in Active /\ pc[y] \in Active) => x = y

\* A finished workflow stays finished, and its snapshot with it.
FinishedIsFinal ==
  [][(record \in Final) => (recordVars' = recordVars)]_dagVars

\* Only interrupted workflows are quarantined: nothing executes them any more.
QuarantineOnlyInterrupted ==
  record = "RECOVERY_REQUIRED" => \A x \in Executors : pc[x] \notin Active

\* An accepted workflow ends, or waits for a recovery decision.
EventuallyEnds ==
  (record # "NONE") ~> (record \in Final \cup {"RECOVERY_REQUIRED"})
=============================================================================
