-------------------------- MODULE ExecutionDispatch --------------------------
(***************************************************************************)
(* The life of a TaskExecution between its creation and a terminal status: *)
(* the Celery task dispatch_task, the beat sweeps that repair a lost       *)
(* dispatch, the WebSocket consumer that records acknowledgements and      *)
(* results, the two cancel paths and the worker process that runs it.      *)
(*                                                                         *)
(* Every handler of the backend runs in its own thread (a Celery pool of   *)
(* four threads, the ASGI thread pool, HTTP request threads) and reads and *)
(* writes rows without a lock.  dispatch_task is therefore four steps      *)
(* (read everything, write everything, send the frame, record the          *)
(* sending), a task.result two (read and check, save and release), and     *)
(* TaskService.cancel two (list, save).  Handlers that read and write one  *)
(* row at once are one step.  A model save() without update_fields writes  *)
(* back every column as it was read: "seen" fields carry those values.     *)
(***************************************************************************)
EXTENDS Integers, FiniteSets

CONSTANTS
    Execs,          \* TaskExecution rows
    Workers,        \* Worker rows, one execution process each
    Devices,        \* Device rows (one window or emulator each)
    NoDevice,       \* execution.device_id is None
    NoWorker,       \* execution.agent is None
    DeviceOf,       \* execution.device, fixed at creation
    HostOf,         \* device.agent, the worker that discovered the device
    ForcedAgent,    \* the agent a task chain pins its node to, or NoWorker
    CapableOf,      \* the workers with the capabilities the task requires
    Threads,        \* dispatcher threads (celery worker --concurrency)
    MaxPerAgent,    \* ConcurrencyController.max_tasks_per_agent
    MaxTotal,       \* ConcurrencyController.max_total_tasks
    MaxAttempts,    \* DISPATCH_MAX_ATTEMPTS
    MaxRecovery,    \* the limit of recovery_attempts in retry_pending_executions
    MaxLost,        \* bound: frames lost or refused by the channel layer
    MaxDown,        \* bound: disconnections, crashes and late heartbeats
    MaxPauses,      \* bound: operator pauses
    MaxCancels,     \* bound: operator cancels
    MaxSyncs        \* bound: device reports of the workers

ASSUME ConstantsAssumption ==
    /\ NoDevice \notin Devices
    /\ NoWorker \notin Workers
    /\ DeviceOf \in [Execs -> Devices \cup {NoDevice}]
    /\ HostOf \in [Devices -> Workers]
    /\ ForcedAgent \in [Execs -> Workers \cup {NoWorker}]
    /\ CapableOf \in [Execs -> SUBSET Workers]
    /\ MaxPerAgent \in Nat /\ MaxTotal \in Nat
    /\ MaxAttempts \in Nat /\ MaxRecovery \in Nat
    /\ MaxLost \in Nat /\ MaxDown \in Nat
    /\ MaxPauses \in Nat /\ MaxCancels \in Nat /\ MaxSyncs \in Nat

ASSUME FinitenessAssumption ==
    IsFiniteSet(Execs) /\ IsFiniteSet(Threads) /\ Threads # {}

VARIABLES
    status,     \* TaskExecution.status
    agent,      \* TaskExecution.agent
    snap,       \* TaskExecution.execution_snapshot: dispatch_sent_at, dispatch_ack_at, dispatch_attempts
    recovery,   \* TaskExecution.recovery_attempts
    worker,     \* Worker.status; "online" stands for ONLINE and IDLE, which dispatch treats alike
    device,     \* Device.status
    slots,      \* ConcurrencyController: the executions counted against each worker
    queue,      \* dispatch_task messages waiting in the broker
    job,        \* what each dispatcher thread is doing
    conn,       \* the worker's WebSocket; "closing" until the consumer has noticed that it is gone
    wire,       \* task.assign frames on their way to a worker
    run,        \* executions each worker process is running
    up,         \* event.ack and task.result frames on their way to the backend
    consumer,   \* a task.result each WorkerConsumer has read the row for
    cancelling, \* TaskViewSet.cancel has listed the execution: the agent it saw
    used        \* how much of each bound is spent

dbVars == <<status, agent, snap, recovery>>
resVars == <<worker, device, slots>>
netVars == <<conn, wire, run, up>>
vars == <<status, agent, snap, recovery, worker, device, slots, queue, job,
          conn, wire, run, up, consumer, cancelling, used>>

Terminal == {"success", "failed", "cancelled"}
Status == Terminal \cup {"pending", "running", "paused"}
WorkerStatus == {"online", "busy", "offline"}
DeviceStatus == {"online", "busy", "offline"}

(* dispatch_attempts is only compared with MaxAttempts, so it stops there. *)
Snapshot == [sent : BOOLEAN, ack : BOOLEAN, attempts : 0..MaxAttempts]
NoSnapshot == [sent |-> FALSE, ack |-> FALSE, attempts |-> 0]

(* "first" is the message of the creator, which carries force_agent_id;   *)
(* "beat" is one of the two sweeps', which does not.                      *)
Message == [e : Execs, kind : {"first", "beat"}]
AssignFrame == [e : Execs, w : Workers]
UpFrame == [type : {"ack", "success", "failure"}, e : Execs, w : Workers]

IdleJob == [pc |-> "idle"]
Job == {IdleJob} \cup
       [pc : {"ready", "committed", "sent"}, e : Execs, w : Workers,
        snap : Snapshot, recovery : 0..MaxRecovery]

NoResult == [pc |-> "idle"]
PendingResult == {NoResult} \cup
       [pc : {"checked"}, e : Execs, ok : BOOLEAN, agent : Workers \cup {NoWorker},
        snap : Snapshot, recovery : 0..MaxRecovery]

NotCancelling == "no"

TypeOK ==
    /\ status \in [Execs -> Status]
    /\ agent \in [Execs -> Workers \cup {NoWorker}]
    /\ snap \in [Execs -> Snapshot]
    /\ recovery \in [Execs -> 0..MaxRecovery]
    /\ worker \in [Workers -> WorkerStatus]
    /\ device \in [Devices -> DeviceStatus]
    /\ slots \in [Workers -> SUBSET Execs]
    /\ queue \in SUBSET Message
    /\ job \in [Threads -> Job]
    /\ conn \in [Workers -> {"open", "closing", "closed"}]
    /\ wire \in SUBSET AssignFrame
    /\ run \in [Workers -> SUBSET Execs]
    /\ up \in SUBSET UpFrame
    /\ consumer \in [Workers -> PendingResult]
    /\ cancelling \in [Execs -> Workers \cup {NoWorker, NotCancelling}]
    /\ used \in [lost : Nat, down : Nat, pauses : Nat, resumes : Nat, cancels : Nat, syncs : Nat]

-----------------------------------------------------------------------------
(* Helpers shared by the handlers.                                         *)

OnDevice(d) == {e \in Execs : DeviceOf[e] = d}

(* Another RUNNING execution is bound to the device of e. *)
DeviceShared(e, st) ==
    \E f \in OnDevice(DeviceOf[e]) \ {e} : st[f] = "running"

(* _restore_device_status: BUSY -> ONLINE unless the device is still shared. *)
Restored(E, st) ==
    [d \in Devices |->
        IF /\ device[d] = "busy"
           /\ \E e \in E : DeviceOf[e] = d /\ ~DeviceShared(e, st)
        THEN "online" ELSE device[d]]

(* _release_concurrency_slot with the agent_id string of w. *)
Released(w, E) == [slots EXCEPT ![w] = @ \ E]

InFlight == {p \in Workers \X Execs : p[2] \in slots[p[1]]}

(* Mutant: the cap is compared with <=. *)
CanAssignOffByOne(w) ==
    /\ Cardinality(InFlight) < MaxTotal
    /\ Cardinality(slots[w]) <= MaxPerAgent

(* ConcurrencyController.can_assign *)
CanAssign(w) ==
    /\ Cardinality(InFlight) < MaxTotal
    /\ Cardinality(slots[w]) < MaxPerAgent

AvailableAgents == {w \in Workers : worker[w] = "online"}

AssignableAgents(e) ==
    IF DeviceOf[e] = NoDevice THEN {w \in AvailableAgents : CanAssign(w)}
                              ELSE AvailableAgents

RunningOn(w) == {e \in Execs : agent[e] = w /\ status[e] = "running"}

Spend(what) == used' = [used EXCEPT ![what] = @ + 1]

-----------------------------------------------------------------------------
(* dispatch_task: the reads.  Nothing looks at execution.status.           *)

Take(t, m) == job[t] = IdleJob /\ m \in queue /\ queue' = queue \ {m}

(* Device-level serialisation: leave the execution PENDING for the sweep. *)
DispatchDeviceBusy(t, m) ==
    /\ Take(t, m)
    /\ DeviceOf[m.e] # NoDevice /\ DeviceShared(m.e, status)
    /\ status' = [status EXCEPT ![m.e] = "pending"]
    /\ UNCHANGED <<agent, snap, recovery, resVars, job, netVars, consumer, cancelling, used>>

(* Mutant: the serial check is left out. *)
DeviceFreeUnchecked(e) == e \in Execs

DeviceFree(e) == DeviceOf[e] = NoDevice \/ ~DeviceShared(e, status)

(* The forced agent of a chain node is taken whatever its load, once some  *)
(* other worker has passed the checks.                                     *)
IsForced(m) == m.kind = "first" /\ ForcedAgent[m.e] # NoWorker

Candidates(m) ==
    IF IsForced(m) THEN {ForcedAgent[m.e]} \ {w \in Workers : worker[w] = "offline"}
                   ELSE AssignableAgents(m.e) \cap CapableOf[m.e]

(* No worker is IDLE or ONLINE, the forced one is offline or none has the  *)
(* capabilities: FAILED, and nothing that an earlier dispatch of the same  *)
(* execution took is given back.                                           *)
DispatchNoAgent(t, m) ==
    /\ Take(t, m)
    /\ DeviceFree(m.e)
    /\ \/ AvailableAgents = {}
       \/ AssignableAgents(m.e) # {} /\ Candidates(m) = {}
    /\ status' = [status EXCEPT ![m.e] = "failed"]
    /\ UNCHANGED <<agent, snap, recovery, resVars, job, netVars, consumer, cancelling, used>>

(* Every available worker is at its cap: PENDING, and self.retry puts the  *)
(* message back unless Celery's max_retries is exhausted.                  *)
DispatchAtCap(t, m) ==
    /\ job[t] = IdleJob /\ m \in queue
    /\ DeviceFree(m.e)
    /\ AvailableAgents # {} /\ AssignableAgents(m.e) = {}
    /\ status' = [status EXCEPT ![m.e] = "pending"]
    /\ queue' \in {queue, queue \ {m}}
    /\ UNCHANGED <<agent, snap, recovery, resVars, job, netVars, consumer, cancelling, used>>

DispatchSelect(t, m, w) ==
    /\ Take(t, m)
    /\ DeviceFree(m.e)
    /\ AssignableAgents(m.e) # {}
    /\ w \in Candidates(m)
    /\ job' = [job EXCEPT ![t] = [pc |-> "ready", e |-> m.e, w |-> w,
                                  snap |-> snap[m.e], recovery |-> recovery[m.e]]]
    /\ UNCHANGED <<dbVars, resVars, netVars, consumer, cancelling, used>>

(* Mutant: save(update_fields=['status']) forgets the agent. *)
DispatchCommitStatusOnly(t) ==
    /\ job[t].pc = "ready"
    /\ status' = [status EXCEPT ![job[t].e] = "running"]
    /\ worker' = [worker EXCEPT ![job[t].w] = "busy"]
    /\ job' = [job EXCEPT ![t].pc = "committed"]
    /\ UNCHANGED <<agent, snap, recovery, device, slots, queue, netVars,
                   consumer, cancelling, used>>

(* The writes: execution.save(), agent.save(), device BUSY, assign. *)
DispatchCommit(t) ==
    /\ job[t].pc = "ready"
    /\ LET e == job[t].e
           w == job[t].w
       IN /\ status' = [status EXCEPT ![e] = "running"]
          /\ agent' = [agent EXCEPT ![e] = w]
          /\ snap' = [snap EXCEPT ![e] = job[t].snap]
          /\ recovery' = [recovery EXCEPT ![e] = job[t].recovery]
          /\ worker' = [worker EXCEPT ![w] = "busy"]
          /\ device' = [d \in Devices |-> IF d = DeviceOf[e] THEN "busy" ELSE device[d]]
          /\ slots' = IF DeviceOf[e] = NoDevice
                      THEN [slots EXCEPT ![w] = @ \cup {e}] ELSE slots
    /\ job' = [job EXCEPT ![t].pc = "committed"]
    /\ UNCHANGED <<queue, netVars, consumer, cancelling, used>>

(* group_send delivers to the group members there are: none when the       *)
(* worker has no connection, and the channel layer may drop the frame.     *)
DispatchSend(t) ==
    /\ job[t].pc = "committed"
    /\ LET f == [e |-> job[t].e, w |-> job[t].w]
       IN \/ /\ wire' = IF conn[f.w] = "open" THEN wire \cup {f} ELSE wire
             /\ UNCHANGED used
          \/ /\ used.lost < MaxLost
             /\ Spend("lost")
             /\ UNCHANGED wire
    /\ job' = [job EXCEPT ![t].pc = "sent"]
    /\ UNCHANGED <<dbVars, resVars, queue, conn, run, up, consumer, cancelling>>

(* safe_group_send raised.  The slot is released under execution.agent_id, *)
(* which is the Worker's primary key and not the agent_id string the slot  *)
(* was taken under: the release finds nothing.                             *)
DispatchSendFails(t) ==
    /\ job[t].pc = "committed"
    /\ used.lost < MaxLost
    /\ Spend("lost")
    /\ LET e == job[t].e
           w == job[t].w
       IN /\ status' = [status EXCEPT ![e] = "failed"]
          /\ agent' = [agent EXCEPT ![e] = w]
          /\ snap' = [snap EXCEPT ![e] = job[t].snap]
          /\ recovery' = [recovery EXCEPT ![e] = job[t].recovery]
          /\ worker' = [worker EXCEPT ![w] = IF @ = "busy" THEN "online" ELSE @]
          /\ device' = Restored({e}, status')
    /\ job' = [job EXCEPT ![t] = IdleJob]
    /\ UNCHANGED <<slots, queue, netVars, consumer, cancelling>>

(* dispatch_sent_at and dispatch_attempts go into the snapshot as it was   *)
(* read by DispatchSelect.                                                 *)
DispatchRecord(t) ==
    /\ job[t].pc = "sent"
    /\ snap' = [snap EXCEPT ![job[t].e] =
                  [sent |-> TRUE, ack |-> job[t].snap.ack,
                   attempts |-> IF job[t].snap.attempts < MaxAttempts
                                THEN job[t].snap.attempts + 1 ELSE MaxAttempts]]
    /\ job' = [job EXCEPT ![t] = IdleJob]
    /\ UNCHANGED <<status, agent, recovery, resVars, queue, netVars, consumer, cancelling, used>>

Dispatch(t) ==
    \/ \E m \in queue : \/ DispatchDeviceBusy(t, m)
                        \/ DispatchNoAgent(t, m)
                        \/ DispatchAtCap(t, m)
                        \/ \E w \in Workers : DispatchSelect(t, m, w)
    \/ DispatchCommit(t)
    \/ DispatchSend(t)
    \/ DispatchSendFails(t)
    \/ DispatchRecord(t)

-----------------------------------------------------------------------------
(* The worker process.                                                     *)

(* task_assign: acknowledge, then run the execution in a thread of its own; *)
(* a second frame for the same execution is not recognised as one.          *)
ReceiveAssign(w, e) ==
    /\ conn[w] = "open"
    /\ [e |-> e, w |-> w] \in wire
    /\ wire' = wire \ {[e |-> e, w |-> w]}
    /\ up' = up \cup {[type |-> "ack", e |-> e, w |-> w]}
    /\ run' = [run EXCEPT ![w] = @ \cup {e}]
    /\ UNCHANGED <<dbVars, resVars, queue, job, conn, consumer, cancelling, used>>

(* The result is sent, or kept in the outbox while there is no connection. *)
FinishRun(w, e, ok) ==
    /\ e \in run[w]
    /\ run' = [run EXCEPT ![w] = @ \ {e}]
    /\ up' = up \cup {[type |-> IF ok THEN "success" ELSE "failure", e |-> e, w |-> w]}
    /\ UNCHANGED <<dbVars, resVars, queue, job, conn, wire, consumer, cancelling, used>>

-----------------------------------------------------------------------------
(* The WorkerConsumer of a worker handles its frames one at a time.        *)

AckReceived(w, e) ==
    /\ conn[w] = "open" /\ consumer[w] = NoResult
    /\ [type |-> "ack", e |-> e, w |-> w] \in up
    /\ up' = up \ {[type |-> "ack", e |-> e, w |-> w]}
    /\ snap' = [snap EXCEPT ![e] = [sent |-> @.sent, ack |-> TRUE, attempts |-> @.attempts]]
    /\ UNCHANGED <<status, agent, recovery, resVars, queue, job, conn, wire, run,
                   consumer, cancelling, used>>

(* The frames of one worker arrive in order: the acknowledgement first. *)
ResultArrives(w, f) ==
    /\ conn[w] = "open" /\ consumer[w] = NoResult
    /\ f \in up /\ f.w = w /\ f.type # "ack"
    /\ [type |-> "ack", e |-> f.e, w |-> w] \notin up
    /\ up' = up \ {f}

(* Mutant: nothing is released for an ignored result. *)
ResultIgnoredNoRelease(w, f) ==
    /\ ResultArrives(w, f)
    /\ status[f.e] \in Terminal
    /\ UNCHANGED <<dbVars, resVars, queue, job, conn, wire, run, consumer, cancelling, used>>

(* A late result of a terminal execution changes no row, but the slot and  *)
(* the device are released all the same.                                   *)
ResultIgnored(w, f) ==
    /\ ResultArrives(w, f)
    /\ status[f.e] \in Terminal
    /\ slots' = Released(w, {f.e})
    /\ device' = Restored({f.e}, status)
    /\ UNCHANGED <<dbVars, worker, queue, job, conn, wire, run, consumer, cancelling, used>>

(* Mutant: the terminal-status guard is left out. *)
ResultReadUnguarded(w, f) ==
    /\ ResultArrives(w, f)
    /\ consumer' = [consumer EXCEPT ![w] =
           [pc |-> "checked", e |-> f.e, ok |-> f.type = "success", agent |-> agent[f.e],
            snap |-> snap[f.e], recovery |-> recovery[f.e]]]
    /\ UNCHANGED <<dbVars, resVars, queue, job, conn, wire, run, cancelling, used>>

(* update_task_execution_result up to its terminal-status guard. *)
ResultRead(w, f) ==
    /\ ResultArrives(w, f)
    /\ status[f.e] \notin Terminal
    /\ consumer' = [consumer EXCEPT ![w] =
           [pc |-> "checked", e |-> f.e, ok |-> f.type = "success", agent |-> agent[f.e],
            snap |-> snap[f.e], recovery |-> recovery[f.e]]]
    /\ UNCHANGED <<dbVars, resVars, queue, job, conn, wire, run, cancelling, used>>

(* Mutant: the result is saved without the status. *)
ResultSaveNoStatus(w) ==
    /\ consumer[w] # NoResult
    /\ slots' = Released(w, {consumer[w].e})
    /\ device' = Restored({consumer[w].e}, status)
    /\ consumer' = [consumer EXCEPT ![w] = NoResult]
    /\ UNCHANGED <<dbVars, worker, queue, job, netVars, cancelling, used>>

(* execution.save() of the whole row, then _release_resources_for_execution. *)
ResultSave(w) ==
    /\ consumer[w] # NoResult
    /\ LET c == consumer[w]
       IN /\ status' = [status EXCEPT ![c.e] = IF c.ok THEN "success" ELSE "failed"]
          /\ agent' = [agent EXCEPT ![c.e] = c.agent]
          /\ snap' = [snap EXCEPT ![c.e] = c.snap]
          /\ recovery' = [recovery EXCEPT ![c.e] = c.recovery]
          /\ slots' = Released(w, {c.e})
          /\ device' = Restored({c.e}, status')
    /\ consumer' = [consumer EXCEPT ![w] = NoResult]
    /\ UNCHANGED <<worker, queue, job, netVars, cancelling, used>>

-----------------------------------------------------------------------------
(* Operators.                                                              *)

(* TaskViewSet.cancel lists the PENDING and RUNNING executions ... *)
CancelSelect(e) ==
    /\ used.cancels < MaxCancels
    /\ cancelling[e] = NotCancelling
    /\ status[e] \in {"pending", "running"}
    /\ cancelling' = [cancelling EXCEPT ![e] = agent[e]]
    /\ Spend("cancels")
    /\ UNCHANGED <<dbVars, resVars, queue, job, netVars, consumer>>

(* ... and TaskService.cancel writes CANCELLED without looking again. *)
CancelSave(e) ==
    /\ cancelling[e] # NotCancelling
    /\ status' = [status EXCEPT ![e] = "cancelled"]
    /\ slots' = [w \in Workers |-> IF w = cancelling[e] THEN slots[w] \ {e} ELSE slots[w]]
    /\ device' = Restored({e}, status')
    /\ cancelling' = [cancelling EXCEPT ![e] = NotCancelling]
    /\ UNCHANGED <<agent, snap, recovery, worker, queue, job, netVars, consumer, used>>

(* execution_intervene_view, under select_for_update: no resource follows. *)
Intervene(e, from, to) ==
    /\ status[e] \in from
    /\ status' = [status EXCEPT ![e] = to]
    /\ UNCHANGED <<agent, snap, recovery, resVars, queue, job, netVars, consumer, cancelling>>

Pause(e) ==
    /\ used.pauses < MaxPauses
    /\ Spend("pauses")
    /\ Intervene(e, {"running"}, "paused")

Resume(e) ==
    /\ Spend("resumes")
    /\ Intervene(e, {"paused"}, "running")

InterveneCancel(e) ==
    /\ used.cancels < MaxCancels
    /\ Spend("cancels")
    /\ Intervene(e, Status \ Terminal, "cancelled")

-----------------------------------------------------------------------------
(* The beat sweeps.                                                        *)

Unacked(e) == status[e] = "running" /\ snap[e].sent /\ ~snap[e].ack

Redispatchable(e) ==
    /\ agent[e] # NoWorker
    /\ worker[agent[e]] # "offline"
    /\ snap[e].attempts < MaxAttempts

(* check_dispatch_acks sends the execution through dispatch_task again ... *)
SweepRedispatch(e) ==
    /\ Unacked(e)
    /\ Redispatchable(e)
    /\ queue' = queue \cup {[e |-> e, kind |-> "beat"]}
    /\ UNCHANGED <<dbVars, resVars, job, netVars, consumer, cancelling, used>>

(* Mutant: only an offline worker fails the execution. *)
SweepFailOnlyOffline(e) ==
    /\ Unacked(e)
    /\ agent[e] = NoWorker \/ worker[agent[e]] = "offline"
    /\ status' = [status EXCEPT ![e] = "failed"]
    /\ device' = Restored({e}, status')
    /\ UNCHANGED <<agent, snap, recovery, worker, slots, queue, job, netVars,
                   consumer, cancelling, used>>

(* ... or fails it.  The slot is looked up under the Worker's primary key, *)
(* so it stays taken.                                                      *)
SweepFail(e) ==
    /\ Unacked(e)
    /\ ~Redispatchable(e)
    /\ status' = [status EXCEPT ![e] = "failed"]
    /\ device' = Restored({e}, status')
    /\ UNCHANGED <<agent, snap, recovery, worker, slots, queue, job, netVars,
                   consumer, cancelling, used>>

(* Mutant: no limit on the retries. *)
RetryPendingUnlimited(e) ==
    /\ status[e] = "pending"
    /\ recovery' = [recovery EXCEPT ![e] = @ + 1]
    /\ queue' = queue \cup {[e |-> e, kind |-> "beat"]}
    /\ UNCHANGED <<status, agent, snap, resVars, job, netVars, consumer, cancelling, used>>

(* retry_pending_executions *)
RetryPending(e) ==
    /\ status[e] = "pending"
    /\ recovery[e] < MaxRecovery
    /\ recovery' = [recovery EXCEPT ![e] = @ + 1]
    /\ queue' = queue \cup {[e |-> e, kind |-> "beat"]}
    /\ UNCHANGED <<status, agent, snap, resVars, job, netVars, consumer, cancelling, used>>

HostedBy(w) == {d \in Devices : HostOf[d] = w}

(* check_agent_heartbeats.  After a short silence the recovery engine says *)
(* 'waiting' and the executions are failed; after a long one its own chain *)
(* is used, which leaves them as they are.                                 *)
HeartbeatTimeout(w, long) ==
    /\ used.down < MaxDown
    /\ Spend("down")
    /\ worker[w] # "offline"
    /\ worker' = [worker EXCEPT ![w] = "offline"]
    /\ LET failing == IF long THEN {} ELSE RunningOn(w)
       IN /\ status' = [e \in Execs |-> IF e \in failing THEN "failed" ELSE status[e]]
          /\ slots' = Released(w, failing)
    /\ device' = [d \in Devices |-> IF d \in HostedBy(w) THEN "offline"
                                    ELSE Restored({e \in Execs : status'[e] # status[e]}, status')[d]]
    /\ UNCHANGED <<agent, snap, recovery, queue, job, netVars, consumer, cancelling>>

-----------------------------------------------------------------------------
(* Connections.                                                            *)

(* The socket dies: frames in transit are lost, the worker's unsent ones   *)
(* are kept in its outbox.  In a crash the running executions die with it. *)
ConnectionLost(w, crash) ==
    /\ used.down < MaxDown
    /\ Spend("down")
    /\ conn[w] = "open"
    /\ conn' = [conn EXCEPT ![w] = "closing"]
    /\ wire' = {f \in wire : f.w # w}
    /\ run' = IF crash THEN [run EXCEPT ![w] = {}] ELSE run
    /\ \E kept \in SUBSET {f \in up : f.w = w} :
          up' = {f \in up : f.w # w} \cup kept
    /\ UNCHANGED <<dbVars, resVars, queue, job, consumer, cancelling>>

(* WorkerConsumer.disconnect: set_agent_offline, unless a new connection   *)
(* has taken the worker over.  No slot is released.                        *)
SetAgentOffline(w) ==
    /\ conn[w] = "closing" /\ consumer[w] = NoResult
    /\ conn' = [conn EXCEPT ![w] = "closed"]
    /\ worker' = [worker EXCEPT ![w] = "offline"]
    /\ status' = [e \in Execs |-> IF e \in RunningOn(w) THEN "failed" ELSE status[e]]
    /\ device' = Restored(RunningOn(w), status')
    /\ UNCHANGED <<agent, snap, recovery, slots, queue, job, wire, run, up,
                   consumer, cancelling, used>>

(* connect: _db_claim_active_channel writes ONLINE. *)
Reconnect(w) ==
    /\ conn[w] # "open"
    /\ conn' = [conn EXCEPT ![w] = "open"]
    /\ worker' = [worker EXCEPT ![w] = "online"]
    /\ UNCHANGED <<dbVars, device, slots, queue, job, wire, run, up, consumer, cancelling, used>>

(* The heartbeat frame carries no status, so the worker is IDLE even while *)
(* it runs an execution.                                                   *)
Heartbeat(w) ==
    /\ conn[w] = "open"
    /\ worker' = [worker EXCEPT ![w] = "online"]
    /\ UNCHANGED <<dbVars, device, slots, queue, job, netVars, consumer, cancelling, used>>

(* register_agent_device: the worker reports the window, there or gone. *)
DeviceSync(d) ==
    /\ used.syncs < MaxSyncs
    /\ Spend("syncs")
    /\ conn[HostOf[d]] = "open"
    /\ \E reported \in {"online", "offline"} : device' = [device EXCEPT ![d] = reported]
    /\ UNCHANGED <<dbVars, worker, slots, queue, job, netVars, consumer, cancelling>>

-----------------------------------------------------------------------------
(* The executions of the model exist and their first message is queued.    *)
Init ==
    /\ status = [e \in Execs |-> "pending"]
    /\ agent = ForcedAgent
    /\ snap = [e \in Execs |-> NoSnapshot]
    /\ recovery = [e \in Execs |-> 0]
    /\ worker = [w \in Workers |-> "online"]
    /\ device = [d \in Devices |-> "online"]
    /\ slots = [w \in Workers |-> {}]
    /\ queue = [e : Execs, kind : {"first"}]
    /\ job = [t \in Threads |-> IdleJob]
    /\ conn = [w \in Workers |-> "open"]
    /\ wire = {}
    /\ run = [w \in Workers |-> {}]
    /\ up = {}
    /\ consumer = [w \in Workers |-> NoResult]
    /\ cancelling = [e \in Execs |-> NotCancelling]
    /\ used = [lost |-> 0, down |-> 0, pauses |-> 0, resumes |-> 0, cancels |-> 0, syncs |-> 0]

WorkerStep(w) ==
    \E e \in Execs : \/ ReceiveAssign(w, e)
                     \/ \E ok \in BOOLEAN : FinishRun(w, e, ok)

ConsumerStep(w) ==
    \/ \E e \in Execs : AckReceived(w, e)
    \/ \E f \in up : ResultIgnored(w, f) \/ ResultRead(w, f)
    \/ ResultSave(w)

OperatorStep(e) ==
    \/ CancelSelect(e) \/ CancelSave(e)
    \/ Pause(e) \/ Resume(e) \/ InterveneCancel(e)

SweepStep(e) == SweepRedispatch(e) \/ SweepFail(e) \/ RetryPending(e)

ConnectionStep(w) ==
    \/ \E crash \in BOOLEAN : ConnectionLost(w, crash)
    \/ \E long \in BOOLEAN : HeartbeatTimeout(w, long)
    \/ SetAgentOffline(w) \/ Reconnect(w) \/ Heartbeat(w)

Next ==
    \/ \E t \in Threads : Dispatch(t)
    \/ \E w \in Workers : WorkerStep(w) \/ ConsumerStep(w) \/ ConnectionStep(w)
    \/ \E e \in Execs : OperatorStep(e) \/ SweepStep(e)
    \/ \E d \in Devices : DeviceSync(d)

Spec == Init /\ [][Next]_vars

(* A dispatcher thread goes on with what it holds, and every message is    *)
(* eventually taken by some thread; a worker keeps reading frames and      *)
(* finishing what it runs; a consumer keeps handling frames; a client      *)
(* reconnects; the beat schedule keeps running the sweeps.  Nothing is     *)
(* assumed of the operator or of devices, nor that a frame is lost.        *)
Advances(t) == DispatchCommit(t) \/ DispatchSend(t) \/ DispatchRecord(t)

Taken(m) ==
    \E t \in Threads : \/ DispatchDeviceBusy(t, m) \/ DispatchNoAgent(t, m)
                       \/ DispatchAtCap(t, m)
                       \/ \E w \in Workers : DispatchSelect(t, m, w)

Fairness ==
    /\ \A t \in Threads : WF_vars(Advances(t))
    /\ \A m \in Message : SF_vars(Taken(m))
    /\ \A w \in Workers : /\ WF_vars(WorkerStep(w))
                          /\ SF_vars(ConsumerStep(w))
                          /\ WF_vars(SetAgentOffline(w))
                          /\ WF_vars(Reconnect(w))
    /\ \A e \in Execs : /\ WF_vars(SweepRedispatch(e) \/ SweepFail(e))
                        /\ WF_vars(RetryPending(e))
                        /\ WF_vars(CancelSave(e))

FairSpec == Spec /\ Fairness

-----------------------------------------------------------------------------
(* Safety.                                                                 *)

(* What an earlier or a current dispatch of e left behind: e has an agent. *)
Dispatched(e) ==
    \/ status[e] \in {"running", "paused"}
    \/ \E f \in wire : f.e = e
    \/ \E w \in Workers : e \in run[w]
    \/ \E f \in up : f.e = e
    \/ \E t \in Threads : job[t].pc \in {"committed", "sent"} /\ job[t].e = e
    \/ snap[e].sent \/ snap[e].ack \/ (\E w \in Workers : e \in slots[w])

(* Whatever remains of a dispatch - a frame, a run, a result, a slot, a    *)
(* snapshot, the status itself - the row names the worker, so the sweeps   *)
(* and release paths that look it up find one, even after a stale save.    *)
AgentKnown ==
    /\ \A e \in Execs : Dispatched(e) => agent[e] \in Workers
    /\ \A w \in Workers : consumer[w] # NoResult => consumer[w].agent \in Workers

(* The executions that share the window d at this moment. *)
Running(d) == {e \in OnDevice(d) : status[e] = "running"}

(* The device-level serial check of dispatch_task is a read before a       *)
(* write: each dispatcher thread can let one execution slip past it, and   *)
(* each resume one more, but nothing else can put a further execution on a *)
(* busy device.                                                            *)
DeviceOverlapBounded ==
    \A d \in Devices :
        Cardinality(Running(d)) <= Cardinality(Threads) + used.resumes

Unforced(E) == {e \in E : ForcedAgent[e] = NoWorker}

(* can_assign and assign are two calls: each other thread can push a       *)
(* worker one slot over its cap, and only an execution pinned to its       *)
(* worker can take a slot there without having been measured against it.   *)
SlotOverAssignBounded ==
    \A w \in Workers :
        Cardinality(Unforced(slots[w]))
            <= MaxPerAgent + Cardinality(Threads) - 1

(* The row of e is terminal and no handler is between a read and a write   *)
(* of it: no dispatch message, no thread that has selected a worker, no    *)
(* consumer past the terminal-status guard, no operator about to cancel.   *)
Settled(e) ==
    /\ status[e] \in Terminal
    /\ \A m \in queue : m.e # e
    /\ \A t \in Threads : job[t].pc \in {"ready", "committed"} => job[t].e # e
    /\ \A w \in Workers : consumer[w] # NoResult => consumer[w].e # e
    /\ cancelling[e] = NotCancelling

(* The workers that count e against their cap, and the frames that would   *)
(* start e on a worker.                                                    *)
Holders(e) == {w \in Workers : e \in slots[w]}
Assigned(e) == {f \in wire : f.e = e}

(* dispatch_task never looks at the status, so an execution that has ended *)
(* can be revived by what was already under way when it ended.  By that    *)
(* and nothing else: once it is settled, no late frame, result, sweep,     *)
(* heartbeat, reconnection or operator changes its verdict, queues or      *)
(* sends it again, or counts it against a worker once more.                *)
SettledStays ==
    [][\A e \in Execs : Settled(e) =>
          /\ Settled(e)' /\ status'[e] = status[e]
          /\ Holders(e)' \subseteq Holders(e)
          /\ Assigned(e)' \subseteq Assigned(e)]_vars

-----------------------------------------------------------------------------
(* Liveness, under FairSpec.                                               *)

(* check_dispatch_acks exists so that a lost task.assign frame cannot      *)
(* leave an execution RUNNING for ever: an execution that was sent and not *)
(* acknowledged is acknowledged or stops being RUNNING.                    *)
UnackedResolved == \A e \in Execs : Unacked(e) ~> ~Unacked(e)

(* A task.result that reaches the backend makes its execution terminal,    *)
(* unless the connection is lost first.                                    *)
ResultSettles ==
    \A f \in UpFrame :
        (f \in up /\ f.type # "ack") ~> (status[f.e] \in Terminal \/ conn[f.w] # "open")

(* While no frame is lost or refused and no connection goes down, a         *)
(* concurrency slot is given back, also when the execution was sent        *)
(* twice, to two workers, cancelled while it ran or failed by a sweep.     *)
SlotReturned ==
    \A w \in Workers, e \in Execs : (e \in slots[w]) ~> (e \notin slots[w])

=============================================================================
