--------------------------- MODULE ChainExecution ---------------------------
(***************************************************************************)
(* One TaskChainExecution: its nodes are dispatched one after the other,   *)
(* each as a TaskExecution (a run).  The chain moves by two Celery tasks:  *)
(* dispatch_chain_node starts a node, advance_chain_execution looks at the *)
(* last finished run and decides.  A beat sweep fails a chain that looks   *)
(* stuck.  What happens to a run between its creation and its end is the   *)
(* subject of ExecutionDispatch; here a run is pending, running or paused  *)
(* until one of the ways in which an execution ends happens to it, and     *)
(* what matters is which of them queue an advance and which of them renew  *)
(* updated_at, by which advance_chain_execution finds the last run.        *)
(*                                                                         *)
(* advance_chain_execution is a transaction that holds the row of the      *)
(* chain, so it is one step.  dispatch_chain_node reads the status of the  *)
(* chain and later writes it without a lock, and so does the sweep.        *)
(***************************************************************************)
EXTENDS Integers, Sequences, SequencesExt, FiniteSets, FiniteSetsExt

CONSTANTS
    Nodes,          \* the number of nodes of the chain
    OnFailure,      \* node.condition.on_failure
    MaxRetries,     \* node.condition.max_retries
    Threads,        \* Celery threads that run dispatch_chain_node
    MaxRedelivered, \* bound: dispatch_chain_node messages delivered twice
    MaxDuplicates,  \* bound: advances delivered twice, runs that end or are sent twice
    MaxRepeats,     \* bound: of both together
    MaxPauses,      \* bound: operator pauses
    MaxCancels,     \* bound: operator cancellations
    MaxRefused,     \* bound: dispatch_task.delay calls the broker refuses
    Ages            \* may the chain be older than CHAIN_STUCK_TIMEOUT_SECONDS

ASSUME ChainAssumption ==
    /\ Nodes \in Nat \ {0}
    /\ OnFailure \in [1..Nodes -> {"abort", "skip", "retry"}]
    /\ MaxRetries \in Nat
    /\ MaxRedelivered \in Nat /\ MaxDuplicates \in Nat /\ MaxRepeats \in Nat
    /\ MaxPauses \in Nat
    /\ MaxCancels \in Nat /\ MaxRefused \in Nat
    /\ Ages \in BOOLEAN

VARIABLES
    chain,      \* TaskChainExecution: status and current_node (0 is None)
    runs,       \* its TaskExecution rows in order of creation: node, status
    stamp,      \* the runs ordered by updated_at, the latest last
    dispatches, \* dispatch_chain_node messages waiting, per node
    advances,   \* advance_chain_execution messages waiting
    starting,   \* the node each thread has passed the status check with, or 0
    writers,    \* <<run, "result" or "cancel">>: handlers past their status check
    aged,       \* started_at is CHAIN_STUCK_TIMEOUT_SECONDS ago
    sweeping,   \* check_stuck_chains has found the chain stuck
    used        \* how much of each bound is spent

vars == <<chain, runs, stamp, dispatches, advances, starting, writers, aged, sweeping, used>>

ChainTerminal == {"success", "failed", "cancelled"}
ChainStatus == ChainTerminal \cup {"pending", "running"}
RunTerminal == {"success", "failed", "cancelled"}
RunStatus == RunTerminal \cup {"pending", "running", "paused"}

Run == [node : 1..Nodes, status : RunStatus]

TypeOK ==
    /\ chain \in [status : ChainStatus, current : 0..Nodes]
    /\ runs \in Seq(Run)
    /\ stamp \in Seq(1..Len(runs))
    /\ dispatches \in [1..Nodes -> Nat]
    /\ advances \in Nat
    /\ starting \in [Threads -> 0..Nodes]
    /\ writers \subseteq (1..Len(runs)) \X {"result", "cancel"}
    /\ aged \in BOOLEAN /\ sweeping \in BOOLEAN
    /\ used \in [redelivered : 0..MaxRedelivered, duplicates : 0..MaxDuplicates,
                 pauses : 0..MaxPauses, cancels : 0..MaxCancels, refused : 0..MaxRefused]

-----------------------------------------------------------------------------
(* dispatch_chain_node                                                     *)

Open == chain.status \in {"pending", "running"}

Repeats == {"redelivered", "duplicates"}

Spend(bound, max) ==
    /\ used[bound] < max
    /\ bound \in Repeats => used.redelivered + used.duplicates < MaxRepeats
    /\ used' = [used EXCEPT ![bound] = @ + 1]

(* acks_late: a message is acknowledged after its task, and is delivered   *)
(* again when the Celery worker is lost before that.                       *)
Again(twice, bound, max) ==
    \/ ~twice /\ UNCHANGED used
    \/ twice /\ Spend(bound, max)

(* A message for a chain that is over is dropped. *)
DispatchDropped(n) ==
    /\ dispatches[n] > 0 /\ ~Open
    /\ dispatches' = [dispatches EXCEPT ![n] = @ - 1]
    /\ UNCHANGED <<chain, runs, stamp, advances, starting, writers, aged, sweeping, used>>

DispatchChecked(t, n) ==
    /\ starting[t] = 0
    /\ dispatches[n] > 0 /\ Open
    /\ dispatches' = [dispatches EXCEPT ![n] = @ - 1]
    /\ starting' = [starting EXCEPT ![t] = n]
    /\ UNCHANGED <<chain, runs, stamp, advances, writers, aged, sweeping, used>>

(* The chain is written RUNNING at the node and the run is created. *)
NodeStarted(t, runStatus, chainStatus) ==
    /\ starting[t] # 0
    /\ runs' = Append(runs, [node |-> starting[t], status |-> runStatus])
    /\ stamp' = Append(stamp, Len(runs) + 1)
    /\ chain' = [status |-> chainStatus, current |-> starting[t]]
    /\ starting' = [starting EXCEPT ![t] = 0]
    /\ UNCHANGED <<advances, writers, aged, sweeping>>

StartNode(t) ==
    /\ NodeStarted(t, "pending", "running")
    /\ \E unacked \in BOOLEAN :
          /\ Again(unacked, "redelivered", MaxRedelivered)
          /\ dispatches' = IF unacked THEN [dispatches EXCEPT ![starting[t]] = @ + 1]
                                      ELSE dispatches

(* dispatch_task.delay raises: the run and the chain are failed. *)
StartNodeRefused(t) ==
    /\ Spend("refused", MaxRefused)
    /\ NodeStarted(t, "failed", "failed")
    /\ UNCHANGED dispatches

-----------------------------------------------------------------------------
(* What happens to a run.                                                  *)

Place(i) == CHOOSE k \in 1..Len(stamp) : stamp[k] = i

Touch(i) == Append(RemoveAt(stamp, Place(i)), i)

RunBecomes(i, from, to) ==
    /\ runs[i].status \in from
    /\ runs' = [runs EXCEPT ![i].status = to]
    /\ UNCHANGED <<chain, dispatches, starting, aged, sweeping>>

(* dispatch_task commits: a full save. *)
RunBegins(i) ==
    /\ RunBecomes(i, {"pending"}, "running")
    /\ stamp' = Touch(i)
    /\ UNCHANGED <<advances, writers, used>>

(* dispatch_task finds no worker: FAILED, and nobody advances the chain. *)
RunRejected(i) ==
    /\ RunBecomes(i, {"pending"}, "failed")
    /\ stamp' = Touch(i)
    /\ UNCHANGED <<advances, writers, used>>

(* dispatch_task runs once more for it, by check_dispatch_acks or          *)
(* retry_pending_executions, and does not look at the status either.       *)
RunSentAgain(i) ==
    /\ Spend("duplicates", MaxDuplicates)
    /\ RunBecomes(i, RunStatus \ {"pending"}, "running")
    /\ stamp' = Touch(i)
    /\ UNCHANGED <<advances, writers>>

(* update_task_execution_result: the status is checked ... *)
ResultChecked(i) ==
    /\ runs[i].status \in {"running", "paused"}
    /\ <<i, "result">> \notin writers
    /\ writers' = writers \cup {<<i, "result">>}
    /\ UNCHANGED <<chain, runs, stamp, dispatches, advances, starting, aged, sweeping, used>>

(* ... and later the row is saved, whatever it has become. *)
ResultSaved(i, to) ==
    /\ <<i, "result">> \in writers
    /\ writers' = writers \ {<<i, "result">>}
    /\ RunBecomes(i, RunStatus, to)
    /\ stamp' = Touch(i)
    /\ advances' = advances + 1
    /\ UNCHANGED used

(* check_agent_heartbeats: updated_at is not in update_fields.  When the   *)
(* result has been checked already, one run queues two advances.           *)
RunTimedOut(i) ==
    /\ RunBecomes(i, {"running"}, "failed")
    /\ Again(<<i, "result">> \in writers, "duplicates", MaxDuplicates)
    /\ advances' = advances + 1
    /\ UNCHANGED <<stamp, writers>>

(* Mutant: losing the worker advances the chain, and a late result again. *)
RunCutOffAdvances(i) ==
    /\ RunBecomes(i, {"running"}, "failed")
    /\ advances' = advances + 1
    /\ UNCHANGED <<stamp, writers, used>>

(* set_agent_offline and check_dispatch_acks fail it without an advance. *)
RunCutOff(i) ==
    /\ RunBecomes(i, {"running"}, "failed")
    /\ UNCHANGED <<stamp, advances, writers, used>>

(* TaskService.cancel, which is a check and a save too and never advances. *)
CancelChecked(i) ==
    /\ Spend("cancels", MaxCancels)
    /\ runs[i].status \in {"pending", "running"}
    /\ writers' = writers \cup {<<i, "cancel">>}
    /\ UNCHANGED <<chain, runs, stamp, dispatches, advances, starting, aged, sweeping>>

(* Mutant: the cancellation advances the chain, and so does the result it overtakes. *)
CancelSavedAdvances(i) ==
    /\ <<i, "cancel">> \in writers
    /\ writers' = writers \ {<<i, "cancel">>}
    /\ RunBecomes(i, RunStatus, "cancelled")
    /\ stamp' = Touch(i)
    /\ advances' = advances + 1
    /\ UNCHANGED used

CancelSaved(i) ==
    /\ <<i, "cancel">> \in writers
    /\ writers' = writers \ {<<i, "cancel">>}
    /\ RunBecomes(i, RunStatus, "cancelled")
    /\ stamp' = Touch(i)
    /\ UNCHANGED <<advances, used>>

RunPaused(i) ==
    /\ Spend("pauses", MaxPauses)
    /\ RunBecomes(i, {"running"}, "paused")
    /\ UNCHANGED <<stamp, advances, writers>>

RunResumed(i) ==
    /\ RunBecomes(i, {"paused"}, "running")
    /\ UNCHANGED <<stamp, advances, writers, used>>

-----------------------------------------------------------------------------
(* advance_chain_execution                                                 *)

(* The last run that is neither pending nor running, by updated_at; 0 when *)
(* there is none.                                                          *)
LastDone ==
    LET done == {k \in 1..Len(stamp) : runs[stamp[k]].status \notin {"pending", "running"}}
    IN  IF done = {} THEN 0 ELSE stamp[Max(done)]

ChainBecomes(status) == chain' = [chain EXCEPT !.status = status] /\ UNCHANGED dispatches

Dispatch(n) == dispatches' = [dispatches EXCEPT ![n] = @ + 1] /\ UNCHANGED chain

DispatchNext == IF chain.current < Nodes THEN Dispatch(chain.current + 1) ELSE ChainBecomes("success")

FailedRuns(n) == {i \in 1..Len(runs) : runs[i] = [node |-> n, status |-> "failed"]}

OnSuccess == runs[LastDone].status = "success" /\ DispatchNext

(* Mutant: after the last retry the chain goes on. *)
OnFailedExhaustedSkips ==
    /\ runs[LastDone].status = "failed"
    /\ \/ OnFailure[chain.current] = "skip" /\ DispatchNext
       \/ OnFailure[chain.current] = "abort" /\ ChainBecomes("failed")
       \/ /\ OnFailure[chain.current] = "retry"
          /\ IF Cardinality(FailedRuns(chain.current)) <= MaxRetries
                THEN Dispatch(chain.current)
                ELSE DispatchNext

(* Mutant: the first failure is not counted. *)
OnFailedOnceMore ==
    /\ runs[LastDone].status = "failed"
    /\ \/ OnFailure[chain.current] = "skip" /\ DispatchNext
       \/ OnFailure[chain.current] = "abort" /\ ChainBecomes("failed")
       \/ /\ OnFailure[chain.current] = "retry"
          /\ IF Cardinality(FailedRuns(chain.current)) - 1 <= MaxRetries
                THEN Dispatch(chain.current)
                ELSE ChainBecomes("failed")

OnFailed ==
    /\ runs[LastDone].status = "failed"
    /\ \/ OnFailure[chain.current] = "skip" /\ DispatchNext
       \/ OnFailure[chain.current] = "abort" /\ ChainBecomes("failed")
       \/ /\ OnFailure[chain.current] = "retry"
          /\ IF Cardinality(FailedRuns(chain.current)) <= MaxRetries
                THEN Dispatch(chain.current)
                ELSE ChainBecomes("failed")

(* Mutant: the chain is given the status of a terminated run. *)
OnCancelledTerminated ==
    runs[LastDone].status = "cancelled" /\ ChainBecomes("force_terminated")

OnCancelled == runs[LastDone].status = "cancelled" /\ ChainBecomes("cancelled")

(* The chain is over, or no run is done, or the last one is paused. *)
NothingToDo ==
    /\ Open /\ LastDone # 0 => runs[LastDone].status = "paused"
    /\ UNCHANGED <<chain, dispatches>>

Advance ==
    /\ advances > 0
    /\ \/ NothingToDo
       \/ Open /\ LastDone # 0 /\ (OnSuccess \/ OnFailed \/ OnCancelled)
    /\ \E unacked \in BOOLEAN :
          /\ Again(unacked, "duplicates", MaxDuplicates)
          /\ advances' = IF unacked THEN advances ELSE advances - 1
    /\ UNCHANGED <<runs, stamp, starting, writers, aged, sweeping>>

-----------------------------------------------------------------------------
(* check_stuck_chains                                                      *)

BecomeAged ==
    /\ Ages /\ ~aged
    /\ aged' = TRUE
    /\ UNCHANGED <<chain, runs, stamp, dispatches, advances, starting, writers, sweeping, used>>

InProgress == {i \in 1..Len(runs) : runs[i].status \in {"pending", "running"}}

(* Mutant: a run that did not succeed counts as active. *)
StuckFoundUnlessPassed ==
    /\ ~sweeping /\ aged
    /\ chain.status = "running"
    /\ \A i \in 1..Len(runs) : runs[i].status = "success"
    /\ sweeping' = TRUE
    /\ UNCHANGED <<chain, runs, stamp, dispatches, advances, starting, writers, aged, used>>

StuckFound ==
    /\ ~sweeping /\ aged
    /\ chain.status = "running" /\ InProgress = {}
    /\ sweeping' = TRUE
    /\ UNCHANGED <<chain, runs, stamp, dispatches, advances, starting, writers, aged, used>>

(* _fail_chain writes FAILED without looking at the row again. *)
StuckFailed ==
    /\ sweeping
    /\ sweeping' = FALSE
    /\ ChainBecomes("failed")
    /\ UNCHANGED <<runs, stamp, advances, starting, writers, aged, used>>

-----------------------------------------------------------------------------
(* dispatch_task_chain creates the execution and queues its first node. *)
Init ==
    /\ chain = [status |-> "pending", current |-> 0]
    /\ runs = <<>> /\ stamp = <<>>
    /\ dispatches = [n \in 1..Nodes |-> IF n = 1 THEN 1 ELSE 0]
    /\ advances = 0
    /\ starting = [t \in Threads |-> 0]
    /\ writers = {}
    /\ aged = FALSE /\ sweeping = FALSE
    /\ used = [redelivered |-> 0, duplicates |-> 0, pauses |-> 0, cancels |-> 0, refused |-> 0]

RunReported(i) == ResultChecked(i) \/ ResultSaved(i, "success") \/ ResultSaved(i, "failed")

RunLost(i) == RunTimedOut(i) \/ RunCutOff(i)

OperatorStep(i) == CancelChecked(i) \/ CancelSaved(i) \/ RunPaused(i) \/ RunResumed(i)

NodeStep ==
    \/ \E n \in 1..Nodes : DispatchDropped(n) \/ \E t \in Threads : DispatchChecked(t, n)
    \/ \E t \in Threads : StartNode(t) \/ StartNodeRefused(t)

RunStep ==
    \E i \in 1..Len(runs) :
        RunBegins(i) \/ RunRejected(i) \/ RunSentAgain(i) \/ RunReported(i) \/ RunLost(i) \/ OperatorStep(i)

SweepStep == BecomeAged \/ StuckFound \/ StuckFailed

Next == NodeStep \/ RunStep \/ Advance \/ SweepStep

Spec == Init /\ [][Next]_vars

(* Celery runs what is queued, beat runs the sweep every minute, and a run *)
(* that is pending or running comes to some end.                           *)
Fairness ==
    /\ WF_vars(NodeStep) /\ WF_vars(Advance)
    /\ WF_vars(BecomeAged) /\ WF_vars(StuckFound) /\ WF_vars(StuckFailed)
    /\ WF_vars(\E i \in 1..Len(runs) : RunBegins(i) \/ RunRejected(i))
    /\ WF_vars(\E i \in 1..Len(runs) : ResultSaved(i, "success") \/ ResultSaved(i, "failed"))
    /\ WF_vars(\E i \in 1..Len(runs) : RunReported(i) \/ RunLost(i))

FairSpec == Spec /\ Fairness

-----------------------------------------------------------------------------
(* Properties                                                              *)

RunsOf(n) == {i \in 1..Len(runs) : runs[i].node = n}

LastStatus(n) == IF RunsOf(n) = {} THEN "none" ELSE runs[Max(RunsOf(n))].status

(* The device is driven by one run of the chain at a time: whatever way a  *)
(* node ends, also when it is paused, cancelled or cut off or when the     *)
(* sweep fails the chain under it, no second run is created while one is   *)
(* unfinished.  Each message delivered twice and each run that is sent or  *)
(* ends twice can add one unfinished run, and no more than one, however    *)
(* long the chain goes on.                                                 *)
Unfinished == {i \in 1..Len(runs) : runs[i].status \notin RunTerminal}

ActiveRunsBounded ==
    Cardinality(Unfinished) <= 1 + used.redelivered + used.duplicates

(* A chain is only reported SUCCESS when every one of its nodes was run    *)
(* and the last run of each passed, or failed where failures are skipped.  *)
(* An operator's late cancel may still overwrite the status of a run.      *)
ChainVerdict ==
    chain.status = "success" =>
        /\ \A n \in 1..Nodes : \/ LastStatus(n) \in {"success", "cancelled"}
                               \/ LastStatus(n) = "failed" /\ OnFailure[n] = "skip"
        /\ Cardinality({n \in 1..Nodes : LastStatus(n) = "cancelled"}) <= used.cancels

(* max_retries is the number of times a node is run again, not of times it *)
(* may fail, and a node that is not to be retried is run once.  A cancel   *)
(* that overwrites a failure hides it from the count.                      *)
RetryBound ==
    \A n \in 1..Nodes :
        Cardinality(RunsOf(n)) <= IF OnFailure[n] = "retry" THEN MaxRetries + 1 + used.cancels ELSE 1

(* SUCCESS and CANCELLED are final: nothing is left that writes the chain  *)
(* RUNNING again or gives it another verdict, neither a thread past its    *)
(* status check nor a waiting message.  FAILED is not, when it is the      *)
(* sweep's, and a sweep past its own check fails any chain.                *)
VerdictStays ==
    [][/\ used.redelivered + used.duplicates = 0 /\ ~sweeping
       /\ chain.status \in {"success", "cancelled"}
       => UNCHANGED chain]_vars

(* However its nodes end, and also when an end queues no advance, a chain  *)
(* is over in the end and stays over: a device is not kept busy by it.     *)
ChainSettles == <>[](chain.status \in ChainTerminal)

(* The chain implements the sequential chain its user is promised.         *)
Outcome(status) ==
    CASE status = "none" -> "none"
      [] status = "success" -> "passed"
      [] status = "failed" -> "failed"
      [] OTHER -> "active"

Promised == INSTANCE SequentialChain WITH
    tries <- [n \in 1..Nodes |-> Cardinality(RunsOf(n))],
    outcome <- [n \in 1..Nodes |-> Outcome(LastStatus(n))],
    verdict <- IF Open THEN "open" ELSE chain.status

ImplementsPromise == Promised!Spec
=============================================================================
