----------------------- MODULE ExecutionDispatchProofs -----------------------
(* Proofs about ExecutionDispatch, for any sets of executions, workers,    *)
(* devices and dispatcher threads and any limits.                          *)
EXTENDS ExecutionDispatch, FiniteSetTheorems, TLAPS

-----------------------------------------------------------------------------
(* The inductive forms of the two bounds: what has passed the check and    *)
(* not been written yet counts too.                                        *)
Chosen(e) == \E t \in Threads : job[t].pc = "ready" /\ job[t].e = e

OverlapInv ==
    \A d \in Devices :
        Cardinality(Running(d) \cup {e \in OnDevice(d) : Chosen(e)})
            <= Cardinality(Threads) + used.resumes

ChosenFor(w) ==
    {e \in Execs : \E t \in Threads : /\ job[t].pc = "ready" /\ job[t].e = e
                                      /\ job[t].w = w /\ DeviceOf[e] = NoDevice}

SlotInv ==
    \A w \in Workers :
        Cardinality(Unforced(slots[w] \cup ChosenFor(w)))
            <= MaxPerAgent + Cardinality(Threads) - 1

-----------------------------------------------------------------------------
(* What the helpers return.                                                *)

(* Restoring devices never leaves the set of device states. *)
LEMMA RestoredType ==
    ASSUME device \in [Devices -> DeviceStatus], NEW E, NEW st
    PROVE  Restored(E, st) \in [Devices -> DeviceStatus]
BY DEF Restored, DeviceStatus

(* Releasing executions leaves every worker with a subset of its slots. *)
LEMMA ReleasedType ==
    ASSUME slots \in [Workers -> SUBSET Execs], NEW w \in Workers, NEW E
    PROVE  /\ Released(w, E) \in [Workers -> SUBSET Execs]
           /\ \A v \in Workers : Released(w, E)[v] \subseteq slots[v]
BY DEF Released

(* A thread that is not idle holds a record of a dispatch. *)
LEMMA BusyJob ==
    ASSUME TypeOK, NEW t \in Threads, job[t].pc \in {"ready", "committed", "sent"}
    PROVE  job[t] \in [pc : {"ready", "committed", "sent"}, e : Execs, w : Workers,
                       snap : Snapshot, recovery : 0..MaxRecovery]
BY DEF TypeOK, Job, IdleJob

(* A consumer that is not idle holds a result it has checked. *)
LEMMA BusyConsumer ==
    ASSUME TypeOK, NEW w \in Workers, consumer[w] # NoResult
    PROVE  consumer[w] \in [pc : {"checked"}, e : Execs, ok : BOOLEAN,
                            agent : Workers \cup {NoWorker},
                            snap : Snapshot, recovery : 0..MaxRecovery]
BY DEF TypeOK, PendingResult

-----------------------------------------------------------------------------
(* Type correctness.                                                       *)

(* A step of a dispatcher thread keeps the types. *)
LEMMA TypeDispatch ==
    ASSUME TypeOK, NEW t \in Threads, Dispatch(t)
    PROVE  TypeOK'
<1> USE DEF TypeOK, dbVars, resVars, netVars
<1>1. ASSUME NEW m \in queue, DispatchDeviceBusy(t, m) PROVE TypeOK'
    BY <1>1 DEF DispatchDeviceBusy, Take, Status, Message
<1>2. ASSUME NEW m \in queue, DispatchNoAgent(t, m) PROVE TypeOK'
    BY <1>2 DEF DispatchNoAgent, Take, Status, Terminal, Message
<1>3. ASSUME NEW m \in queue, DispatchAtCap(t, m) PROVE TypeOK'
    BY <1>3 DEF DispatchAtCap, Status, Message
<1>4. ASSUME NEW m \in queue, NEW w \in Workers, DispatchSelect(t, m, w) PROVE TypeOK'
    <2>1. m.e \in Execs
        BY DEF Message
    <2>2. [pc |-> "ready", e |-> m.e, w |-> w, snap |-> snap[m.e], recovery |-> recovery[m.e]] \in Job
        BY <2>1 DEF Job
    <2> QED
        BY <1>4, <2>2 DEF DispatchSelect, Take
<1>5. ASSUME DispatchCommit(t) PROVE TypeOK'
    <2>1. job[t] \in [pc : {"ready", "committed", "sent"}, e : Execs, w : Workers,
                      snap : Snapshot, recovery : 0..MaxRecovery]
        BY <1>5, BusyJob DEF DispatchCommit
    <2>2. [job[t] EXCEPT !.pc = "committed"] \in Job
        BY <2>1 DEF Job
    <2>3. job' \in [Threads -> Job]
        BY <1>5, <2>2 DEF DispatchCommit
    <2>4. /\ status' \in [Execs -> Status]
          /\ agent' \in [Execs -> Workers \cup {NoWorker}]
          /\ snap' \in [Execs -> Snapshot]
          /\ recovery' \in [Execs -> 0..MaxRecovery]
        BY <1>5, <2>1 DEF DispatchCommit, Status
    <2>5. /\ worker' \in [Workers -> WorkerStatus]
          /\ device' \in [Devices -> DeviceStatus]
          /\ slots' \in [Workers -> SUBSET Execs]
        BY <1>5, <2>1 DEF DispatchCommit, WorkerStatus, DeviceStatus
    <2> QED
        BY <1>5, <2>3, <2>4, <2>5 DEF DispatchCommit
<1>6. ASSUME DispatchSend(t) PROVE TypeOK'
    <2>1. job[t] \in [pc : {"ready", "committed", "sent"}, e : Execs, w : Workers,
                      snap : Snapshot, recovery : 0..MaxRecovery]
        BY <1>6, BusyJob DEF DispatchSend
    <2>2. [job[t] EXCEPT !.pc = "sent"] \in Job
        BY <2>1 DEF Job
    <2>3. job' \in [Threads -> Job]
        BY <1>6, <2>2 DEF DispatchSend
    <2>4. wire' \in SUBSET AssignFrame
        BY <1>6, <2>1 DEF DispatchSend, AssignFrame
    <2>5. used' \in [lost : Nat, down : Nat, pauses : Nat, resumes : Nat, cancels : Nat, syncs : Nat]
        BY <1>6 DEF DispatchSend, Spend
    <2> QED
        BY <1>6, <2>3, <2>4, <2>5 DEF DispatchSend
<1>7. ASSUME DispatchSendFails(t) PROVE TypeOK'
    <2>1. job[t] \in [pc : {"ready", "committed", "sent"}, e : Execs, w : Workers,
                      snap : Snapshot, recovery : 0..MaxRecovery]
        BY <1>7, BusyJob DEF DispatchSendFails
    <2>2. job' \in [Threads -> Job]
        BY <1>7 DEF DispatchSendFails, Job
    <2>3. /\ status' \in [Execs -> Status]
          /\ agent' \in [Execs -> Workers \cup {NoWorker}]
          /\ snap' \in [Execs -> Snapshot]
          /\ recovery' \in [Execs -> 0..MaxRecovery]
        BY <1>7, <2>1 DEF DispatchSendFails, Status, Terminal
    <2>4. worker' \in [Workers -> WorkerStatus]
        BY <1>7, <2>1 DEF DispatchSendFails, WorkerStatus
    <2>5. device' \in [Devices -> DeviceStatus]
        BY <1>7, RestoredType DEF DispatchSendFails
    <2>6. used' \in [lost : Nat, down : Nat, pauses : Nat, resumes : Nat, cancels : Nat, syncs : Nat]
        BY <1>7 DEF DispatchSendFails, Spend
    <2> QED
        BY <1>7, <2>2, <2>3, <2>4, <2>5, <2>6 DEF DispatchSendFails
<1>8. ASSUME DispatchRecord(t) PROVE TypeOK'
    <2>1. job[t] \in [pc : {"ready", "committed", "sent"}, e : Execs, w : Workers,
                      snap : Snapshot, recovery : 0..MaxRecovery]
        BY <1>8, BusyJob DEF DispatchRecord
    <2>2. job' \in [Threads -> Job]
        BY <1>8 DEF DispatchRecord, Job
    <2>3. /\ job[t].snap.attempts < MaxAttempts => job[t].snap.attempts + 1 \in 0..MaxAttempts
          /\ MaxAttempts \in 0..MaxAttempts
        BY <2>1, ConstantsAssumption DEF Snapshot
    <2>4. [sent |-> TRUE, ack |-> job[t].snap.ack,
           attempts |-> IF job[t].snap.attempts < MaxAttempts
                        THEN job[t].snap.attempts + 1 ELSE MaxAttempts] \in Snapshot
        BY <2>1, <2>3 DEF Snapshot
    <2>5. snap' \in [Execs -> Snapshot]
        BY <1>8, <2>4 DEF DispatchRecord
    <2> QED
        BY <1>8, <2>2, <2>5 DEF DispatchRecord
<1> QED
    BY <1>1, <1>2, <1>3, <1>4, <1>5, <1>6, <1>7, <1>8 DEF Dispatch
(* A step of a worker process or of its consumer keeps the types. *)
LEMMA TypeWorker ==
    ASSUME TypeOK, NEW w \in Workers, WorkerStep(w) \/ ConsumerStep(w)
    PROVE  TypeOK'
<1> USE DEF TypeOK, dbVars, resVars, netVars
<1>1. ASSUME NEW e \in Execs, ReceiveAssign(w, e) PROVE TypeOK'
    BY <1>1 DEF ReceiveAssign, UpFrame
<1>2. ASSUME NEW e \in Execs, NEW ok \in BOOLEAN, FinishRun(w, e, ok) PROVE TypeOK'
    BY <1>2 DEF FinishRun, UpFrame
<1>3. ASSUME NEW e \in Execs, AckReceived(w, e) PROVE TypeOK'
    <2>1. [sent |-> snap[e].sent, ack |-> TRUE, attempts |-> snap[e].attempts] \in Snapshot
        BY DEF Snapshot
    <2>2. snap' \in [Execs -> Snapshot]
        BY <1>3, <2>1 DEF AckReceived
    <2> QED
        BY <1>3, <2>2 DEF AckReceived
<1>4. ASSUME NEW f \in up, ResultIgnored(w, f) PROVE TypeOK'
    <2>1. device' \in [Devices -> DeviceStatus]
        BY <1>4, RestoredType DEF ResultIgnored
    <2>2. slots' \in [Workers -> SUBSET Execs]
        BY <1>4, ReleasedType DEF ResultIgnored
    <2> QED
        BY <1>4, <2>1, <2>2 DEF ResultIgnored, ResultArrives
<1>5. ASSUME NEW f \in up, ResultRead(w, f) PROVE TypeOK'
    <2>1. f.e \in Execs
        BY DEF UpFrame
    <2>2. (f.type = "success") \in BOOLEAN
        OBVIOUS
    <2>3. [pc |-> "checked", e |-> f.e, ok |-> f.type = "success", agent |-> agent[f.e],
           snap |-> snap[f.e], recovery |-> recovery[f.e]] \in PendingResult
        BY <2>1, <2>2 DEF PendingResult
    <2> QED
        BY <1>5, <2>3 DEF ResultRead, ResultArrives
<1>6. ASSUME ResultSave(w) PROVE TypeOK'
    <2>1. consumer[w] \in [pc : {"checked"}, e : Execs, ok : BOOLEAN,
                           agent : Workers \cup {NoWorker},
                           snap : Snapshot, recovery : 0..MaxRecovery]
        BY <1>6, BusyConsumer DEF ResultSave
    <2>2. /\ status' \in [Execs -> Status]
          /\ agent' \in [Execs -> Workers \cup {NoWorker}]
          /\ snap' \in [Execs -> Snapshot]
          /\ recovery' \in [Execs -> 0..MaxRecovery]
        BY <1>6, <2>1 DEF ResultSave, Status, Terminal
    <2>3. device' \in [Devices -> DeviceStatus]
        BY <1>6, RestoredType DEF ResultSave
    <2>4. slots' \in [Workers -> SUBSET Execs]
        BY <1>6, ReleasedType DEF ResultSave
    <2>5. consumer' \in [Workers -> PendingResult]
        BY <1>6 DEF ResultSave, PendingResult
    <2> QED
        BY <1>6, <2>2, <2>3, <2>4, <2>5 DEF ResultSave
<1> QED
    BY <1>1, <1>2, <1>3, <1>4, <1>5, <1>6 DEF WorkerStep, ConsumerStep

(* A step of an operator or of a beat sweep over executions keeps the types. *)
LEMMA TypeExecution ==
    ASSUME TypeOK, NEW e \in Execs, OperatorStep(e) \/ SweepStep(e)
    PROVE  TypeOK'
<1> USE DEF TypeOK, dbVars, resVars, netVars
<1>1. CASE CancelSelect(e)
    BY <1>1 DEF CancelSelect, Spend
<1>2. CASE CancelSave(e)
    <2>1. device' \in [Devices -> DeviceStatus]
        BY <1>2, RestoredType DEF CancelSave
    <2> QED
        BY <1>2, <2>1 DEF CancelSave, Status, Terminal
<1>3. CASE Pause(e)
    BY <1>3 DEF Pause, Intervene, Spend, Status
<1>4. CASE Resume(e)
    BY <1>4 DEF Resume, Intervene, Spend, Status
<1>5. CASE InterveneCancel(e)
    BY <1>5 DEF InterveneCancel, Intervene, Spend, Status, Terminal
<1>6. CASE SweepRedispatch(e)
    BY <1>6 DEF SweepRedispatch, Message
<1>7. CASE SweepFail(e)
    <2>1. device' \in [Devices -> DeviceStatus]
        BY <1>7, RestoredType DEF SweepFail
    <2> QED
        BY <1>7, <2>1 DEF SweepFail, Status, Terminal
<1>8. CASE RetryPending(e)
    <2>1. recovery' \in [Execs -> 0..MaxRecovery]
        BY <1>8, ConstantsAssumption DEF RetryPending
    <2> QED
        BY <1>8, <2>1 DEF RetryPending, Message
<1> QED
    BY <1>1, <1>2, <1>3, <1>4, <1>5, <1>6, <1>7, <1>8 DEF OperatorStep, SweepStep

(* A change of a connection, a heartbeat or its absence keeps the types. *)
LEMMA TypeConnection ==
    ASSUME TypeOK, NEW w \in Workers, ConnectionStep(w)
    PROVE  TypeOK'
<1> USE DEF TypeOK, dbVars, resVars, netVars
<1>1. ASSUME NEW crash \in BOOLEAN, ConnectionLost(w, crash) PROVE TypeOK'
    BY <1>1 DEF ConnectionLost, Spend
<1>2. ASSUME NEW long \in BOOLEAN, HeartbeatTimeout(w, long) PROVE TypeOK'
    <2>1. slots' \in [Workers -> SUBSET Execs]
        BY <1>2, ReleasedType DEF HeartbeatTimeout
    <2>2. status' \in [Execs -> Status]
        BY <1>2 DEF HeartbeatTimeout, Status, Terminal
    <2>3. Restored({e \in Execs : status'[e] # status[e]}, status') \in [Devices -> DeviceStatus]
        BY RestoredType
    <2>4. device' \in [Devices -> DeviceStatus]
        BY <1>2, <2>3 DEF HeartbeatTimeout, DeviceStatus
    <2> QED
        BY <1>2, <2>1, <2>2, <2>4 DEF HeartbeatTimeout, Spend, WorkerStatus
<1>3. CASE SetAgentOffline(w)
    <2>1. device' \in [Devices -> DeviceStatus]
        BY <1>3, RestoredType DEF SetAgentOffline
    <2> QED
        BY <1>3, <2>1 DEF SetAgentOffline, Status, Terminal, WorkerStatus
<1>4. CASE Reconnect(w)
    BY <1>4 DEF Reconnect, WorkerStatus
<1>5. CASE Heartbeat(w)
    BY <1>5 DEF Heartbeat, WorkerStatus
<1> QED
    BY <1>1, <1>2, <1>3, <1>4, <1>5 DEF ConnectionStep

(* Every reachable state is well typed: no handler writes back a value     *)
(* outside its column, not even from a stale copy of the row.              *)
THEOREM TypeCorrect == Spec => []TypeOK
<1>1. Init => TypeOK
    <2> SUFFICES ASSUME Init PROVE TypeOK
        OBVIOUS
    <2>1. NoSnapshot \in Snapshot
        BY ConstantsAssumption DEF NoSnapshot, Snapshot
    <2>2. 0 \in 0..MaxRecovery
        BY ConstantsAssumption
    <2> QED
        BY <2>1, <2>2, ConstantsAssumption
        DEF Init, TypeOK, Status, WorkerStatus, DeviceStatus, Message, Job, PendingResult,
            AssignFrame, UpFrame
<1>2. TypeOK /\ [Next]_vars => TypeOK'
    <2> SUFFICES ASSUME TypeOK, [Next]_vars PROVE TypeOK'
        OBVIOUS
    <2>1. ASSUME NEW d \in Devices, DeviceSync(d) PROVE TypeOK'
        BY <2>1 DEF DeviceSync, Spend, TypeOK, dbVars, netVars, DeviceStatus
    <2>2. CASE UNCHANGED vars
        BY <2>2 DEF vars, TypeOK
    <2> QED
        BY <2>1, <2>2, TypeDispatch, TypeWorker, TypeExecution, TypeConnection DEF Next
<1> QED
    BY <1>1, <1>2, PTL DEF Spec
-----------------------------------------------------------------------------
(* Whatever is left of a dispatch, the row names a worker.                 *)

(* Steps that change no agent and leave nothing new of a dispatch. *)
LEMMA AgentSame ==
    ASSUME AgentKnown, agent' = agent,
           \A e \in Execs : Dispatched(e)' => Dispatched(e),
           \A w \in Workers : consumer'[w] # NoResult => consumer'[w] = consumer[w]
    PROVE  AgentKnown'
BY DEF AgentKnown

(* A dispatcher writes the agent it selected before it leaves anything behind. *)
LEMMA AgentDispatch ==
    ASSUME TypeOK, AgentKnown, NEW t \in Threads, Dispatch(t)
    PROVE  AgentKnown'
<1> USE DEF dbVars, resVars, netVars
<1>1. ASSUME NEW m \in queue, DispatchDeviceBusy(t, m) PROVE AgentKnown'
    BY <1>1, AgentSame DEF DispatchDeviceBusy, Dispatched, TypeOK
<1>2. ASSUME NEW m \in queue, DispatchNoAgent(t, m) PROVE AgentKnown'
    BY <1>2, AgentSame DEF DispatchNoAgent, Dispatched, TypeOK
<1>3. ASSUME NEW m \in queue, DispatchAtCap(t, m) PROVE AgentKnown'
    BY <1>3, AgentSame DEF DispatchAtCap, Dispatched, TypeOK
<1>4. ASSUME NEW m \in queue, NEW w \in Workers, DispatchSelect(t, m, w) PROVE AgentKnown'
    BY <1>4, AgentSame DEF DispatchSelect, Dispatched, TypeOK
<1>5. ASSUME job[t].pc \in {"ready", "committed", "sent"},
             agent' = [agent EXCEPT ![job[t].e] = job[t].w],
             consumer' = consumer,
             \A e \in Execs \ {job[t].e} : Dispatched(e)' => Dispatched(e)
      PROVE  AgentKnown'
    <2>1. job[t].e \in Execs /\ job[t].w \in Workers
        BY <1>5, BusyJob
    <2> QED
        BY <1>5, <2>1 DEF AgentKnown, TypeOK
<1>6. ASSUME DispatchCommit(t) PROVE AgentKnown'
    <2>1. job[t].e \in Execs /\ job[t].w \in Workers
        BY <1>6, BusyJob DEF DispatchCommit
    <2>2. \A e \in Execs \ {job[t].e} : Dispatched(e)' => Dispatched(e)
        BY <1>6, <2>1 DEF DispatchCommit, Dispatched, TypeOK
    <2> QED
        BY <1>5, <1>6, <2>2 DEF DispatchCommit
<1>7. ASSUME DispatchSend(t) PROVE AgentKnown'
    <2>1. job[t].e \in Execs /\ job[t].w \in Workers
        BY <1>7, BusyJob DEF DispatchSend
    <2>2. ASSUME NEW e \in Execs, Dispatched(e)' PROVE Dispatched(e)
        BY <1>7, <2>1, <2>2 DEF DispatchSend, Dispatched, TypeOK
    <2> QED
        BY <1>7, <2>2, AgentSame DEF DispatchSend
<1>8. ASSUME DispatchSendFails(t) PROVE AgentKnown'
    <2>1. job[t].e \in Execs /\ job[t].w \in Workers
        BY <1>8, BusyJob DEF DispatchSendFails
    <2>2. \A e \in Execs \ {job[t].e} : Dispatched(e)' => Dispatched(e)
        BY <1>8, <2>1 DEF DispatchSendFails, Dispatched, TypeOK, IdleJob
    <2> QED
        BY <1>5, <1>8, <2>2 DEF DispatchSendFails
<1>9. ASSUME DispatchRecord(t) PROVE AgentKnown'
    <2>1. job[t].e \in Execs /\ job[t].w \in Workers
        BY <1>9, BusyJob DEF DispatchRecord
    <2>2. ASSUME NEW e \in Execs, Dispatched(e)' PROVE Dispatched(e)
        BY <1>9, <2>1, <2>2 DEF DispatchRecord, Dispatched, TypeOK, IdleJob
    <2> QED
        BY <1>9, <2>2, AgentSame DEF DispatchRecord
<1> QED
    BY <1>1, <1>2, <1>3, <1>4, <1>6, <1>7, <1>8, <1>9 DEF Dispatch

(* Frames, runs and results come from a dispatch, and a stale save names its worker. *)
LEMMA AgentWorker ==
    ASSUME TypeOK, AgentKnown, NEW w \in Workers, WorkerStep(w) \/ ConsumerStep(w)
    PROVE  AgentKnown'
<1> USE DEF dbVars, resVars, netVars
<1>1. ASSUME NEW e \in Execs, ReceiveAssign(w, e) PROVE AgentKnown'
    <2>1. ASSUME NEW x \in Execs, Dispatched(x)' PROVE Dispatched(x)
        BY <1>1, <2>1 DEF ReceiveAssign, Dispatched, TypeOK
    <2> QED
        BY <1>1, <2>1, AgentSame DEF ReceiveAssign
<1>2. ASSUME NEW e \in Execs, NEW ok \in BOOLEAN, FinishRun(w, e, ok) PROVE AgentKnown'
    <2>1. ASSUME NEW x \in Execs, Dispatched(x)' PROVE Dispatched(x)
        BY <1>2, <2>1 DEF FinishRun, Dispatched, TypeOK
    <2> QED
        BY <1>2, <2>1, AgentSame DEF FinishRun
<1>3. ASSUME NEW e \in Execs, AckReceived(w, e) PROVE AgentKnown'
    <2>1. ASSUME NEW x \in Execs, Dispatched(x)' PROVE Dispatched(x)
        BY <1>3, <2>1 DEF AckReceived, Dispatched, TypeOK
    <2> QED
        BY <1>3, <2>1, AgentSame DEF AckReceived
<1>4. ASSUME NEW f \in up, ResultIgnored(w, f) PROVE AgentKnown'
    <2>1. ASSUME NEW x \in Execs, Dispatched(x)' PROVE Dispatched(x)
        BY <1>4, <2>1, ReleasedType DEF ResultIgnored, ResultArrives, Dispatched, TypeOK
    <2> QED
        BY <1>4, <2>1, AgentSame DEF ResultIgnored
<1>5. ASSUME NEW f \in up, ResultRead(w, f) PROVE AgentKnown'
    <2>1. ASSUME NEW x \in Execs, Dispatched(x)' PROVE Dispatched(x)
        BY <1>5, <2>1 DEF ResultRead, ResultArrives, Dispatched, TypeOK
    <2>2. f.e \in Execs
        BY DEF TypeOK, UpFrame
    <2>3. agent[f.e] \in Workers
        BY <2>2 DEF AgentKnown, Dispatched
    <2>4. \A v \in Workers : consumer'[v] # NoResult => consumer'[v].agent \in Workers
        BY <1>5, <2>3 DEF ResultRead, AgentKnown, TypeOK
    <2> QED
        BY <1>5, <2>1, <2>4 DEF ResultRead, AgentKnown
<1>6. ASSUME ResultSave(w) PROVE AgentKnown'
    <2> DEFINE e == consumer[w].e
    <2>1. e \in Execs /\ consumer[w].agent \in Workers
        BY <1>6, BusyConsumer DEF ResultSave, AgentKnown
    <2>2. agent' = [agent EXCEPT ![e] = consumer[w].agent]
        BY <1>6 DEF ResultSave
    <2>3. ASSUME NEW x \in Execs \ {e}, Dispatched(x)' PROVE Dispatched(x)
        BY <1>6, <2>1, <2>3, ReleasedType DEF ResultSave, Dispatched, TypeOK
    <2>4. \A v \in Workers : consumer'[v] # NoResult => consumer'[v].agent \in Workers
        BY <1>6 DEF ResultSave, AgentKnown, TypeOK
    <2> QED
        BY <2>1, <2>2, <2>3, <2>4 DEF AgentKnown, TypeOK
<1> QED
    BY <1>1, <1>2, <1>3, <1>4, <1>5, <1>6 DEF WorkerStep, ConsumerStep
(* Operators and sweeps change no agent. *)
LEMMA AgentExecution ==
    ASSUME TypeOK, AgentKnown, NEW e \in Execs, OperatorStep(e) \/ SweepStep(e)
    PROVE  AgentKnown'
<1> USE DEF dbVars, resVars, netVars
<1>1. ASSUME agent' = agent, snap' = snap, wire' = wire, up' = up, run' = run, job' = job,
             consumer' = consumer,
             \A w \in Workers : slots'[w] \subseteq slots[w],
             \A x \in Execs : status'[x] \in {"running", "paused"} =>
                                status[x] \in {"running", "paused"}
      PROVE  AgentKnown'
    <2>1. ASSUME NEW x \in Execs, Dispatched(x)' PROVE Dispatched(x)
        BY <1>1, <2>1 DEF Dispatched
    <2> QED
        BY <1>1, <2>1, AgentSame
<1>2. CASE CancelSelect(e)
    BY <1>1, <1>2 DEF CancelSelect
<1>3. CASE CancelSave(e)
    BY <1>1, <1>3 DEF CancelSave, TypeOK
<1>4. CASE Pause(e)
    BY <1>1, <1>4 DEF Pause, Intervene, TypeOK
<1>5. CASE Resume(e)
    BY <1>1, <1>5 DEF Resume, Intervene, TypeOK
<1>6. CASE InterveneCancel(e)
    BY <1>1, <1>6 DEF InterveneCancel, Intervene, TypeOK
<1>7. CASE SweepRedispatch(e)
    BY <1>1, <1>7 DEF SweepRedispatch
<1>8. CASE SweepFail(e)
    BY <1>1, <1>8 DEF SweepFail, TypeOK
<1>9. CASE RetryPending(e)
    BY <1>1, <1>9 DEF RetryPending
<1> QED
    BY <1>2, <1>3, <1>4, <1>5, <1>6, <1>7, <1>8, <1>9 DEF OperatorStep, SweepStep

(* Connections come and go without touching an agent. *)
LEMMA AgentConnection ==
    ASSUME TypeOK, AgentKnown, NEW w \in Workers, ConnectionStep(w)
    PROVE  AgentKnown'
<1> USE DEF dbVars, resVars, netVars
<1>1. ASSUME agent' = agent, snap' = snap, wire' \subseteq wire, up' \subseteq up,
             \A v \in Workers : run'[v] \subseteq run[v], job' = job, consumer' = consumer,
             \A v \in Workers : slots'[v] \subseteq slots[v],
             \A x \in Execs : status'[x] \in {"running", "paused"} => status'[x] = status[x]
      PROVE  AgentKnown'
    <2>1. ASSUME NEW x \in Execs, Dispatched(x)' PROVE Dispatched(x)
        BY <1>1, <2>1 DEF Dispatched
    <2> QED
        BY <1>1, <2>1, AgentSame
<1>2. ASSUME NEW crash \in BOOLEAN, ConnectionLost(w, crash) PROVE AgentKnown'
    <2>1. up' \subseteq up /\ wire' \subseteq wire
        BY <1>2 DEF ConnectionLost
    <2>2. \A v \in Workers : run'[v] \subseteq run[v]
        BY <1>2 DEF ConnectionLost, TypeOK
    <2> QED
        BY <1>1, <1>2, <2>1, <2>2 DEF ConnectionLost
<1>3. ASSUME NEW long \in BOOLEAN, HeartbeatTimeout(w, long) PROVE AgentKnown'
    <2>1. \A v \in Workers : slots'[v] \subseteq slots[v]
        BY <1>3, ReleasedType DEF HeartbeatTimeout, TypeOK
    <2>2. \A x \in Execs : status'[x] \in {"running", "paused"} => status'[x] = status[x]
        BY <1>3 DEF HeartbeatTimeout, TypeOK
    <2> QED
        BY <1>1, <1>3, <2>1, <2>2 DEF HeartbeatTimeout
<1>4. CASE SetAgentOffline(w)
    BY <1>1, <1>4 DEF SetAgentOffline, TypeOK
<1>5. CASE Reconnect(w)
    BY <1>1, <1>5 DEF Reconnect
<1>6. CASE Heartbeat(w)
    BY <1>1, <1>6 DEF Heartbeat
<1> QED
    BY <1>2, <1>3, <1>4, <1>5, <1>6 DEF ConnectionStep

(* Whatever is left of a dispatch - a frame, a run, a result, a slot, an   *)
(* acknowledgement, a live status - the row names the worker it is to be   *)
(* settled with, however stale the saves and however many the dispatchers. *)
THEOREM AgentAlwaysKnown == Spec => []AgentKnown
<1>1. Init => AgentKnown
    BY DEF Init, AgentKnown, Dispatched, IdleJob, NoSnapshot
<1>2. TypeOK /\ AgentKnown /\ [Next]_vars => AgentKnown'
    <2> SUFFICES ASSUME TypeOK, AgentKnown, [Next]_vars PROVE AgentKnown'
        OBVIOUS
    <2>1. ASSUME NEW d \in Devices, DeviceSync(d) PROVE AgentKnown'
        BY <2>1, AgentSame DEF DeviceSync, Dispatched, dbVars, netVars
    <2>2. CASE UNCHANGED vars
        BY <2>2, AgentSame DEF vars, Dispatched
    <2> QED
        BY <2>1, <2>2, AgentDispatch, AgentWorker, AgentExecution, AgentConnection DEF Next
<1> QED
    BY <1>1, <1>2, TypeCorrect, PTL DEF Spec
-----------------------------------------------------------------------------
(* How many executions share a window.                                     *)

(* Executions each of which some thread holds are no more than the threads. *)
LEMMA HeldBound ==
    ASSUME NEW S, NEW j, \A e \in S : \E t \in Threads : j[t].e = e
    PROVE  IsFiniteSet(S) /\ Cardinality(S) <= Cardinality(Threads)
<1> DEFINE g == [e \in S |-> CHOOSE t \in Threads : j[t].e = e]
<1>1. \A e \in S : g[e] \in Threads /\ j[g[e]].e = e
    OBVIOUS
<1>2. g \in [S -> Threads]
    BY <1>1
<1>3. \A e, f \in S : g[e] = g[f] => e = f
    BY <1>1
<1>4. g \in Injection(S, Threads)
    BY <1>2, <1>3 DEF Injection, IsInjective
<1> QED
    BY <1>4, FS_Injection, FinitenessAssumption
(* Steps that put no further execution on a device keep the bound. *)
LEMMA OverlapMono ==
    ASSUME TypeOK, OverlapInv, used.resumes \in Nat, used'.resumes \in Nat,
           used'.resumes >= used.resumes,
           \A e \in Execs : (status'[e] = "running" \/ Chosen(e)')
                               => (status[e] = "running" \/ Chosen(e))
    PROVE  OverlapInv'
<1> SUFFICES ASSUME NEW d \in Devices
             PROVE  Cardinality(Running(d)' \cup {e \in OnDevice(d) : Chosen(e)'})
                       <= Cardinality(Threads) + used'.resumes
    BY DEF OverlapInv, OnDevice
<1> DEFINE U == Running(d) \cup {e \in OnDevice(d) : Chosen(e)}
           V == Running(d)' \cup {e \in OnDevice(d) : Chosen(e)'}
<1>1. IsFiniteSet(U)
    <2>1. U \in SUBSET Execs
        BY DEF Running, OnDevice
    <2> QED
        BY <2>1, FS_Subset, FinitenessAssumption
<1>2. V \in SUBSET U
    BY DEF Running, OnDevice
<1>3. Cardinality(V) <= Cardinality(U) /\ Cardinality(U) \in Nat /\ Cardinality(V) \in Nat
    BY <1>1, <1>2, FS_Subset, FS_CardinalityType
<1>4. Cardinality(U) <= Cardinality(Threads) + used.resumes
    BY DEF OverlapInv
<1>5. Cardinality(Threads) \in Nat
    BY FS_CardinalityType, FinitenessAssumption
<1> HIDE DEF U, V
<1>6. Cardinality(V) <= Cardinality(Threads) + used'.resumes
    BY <1>3, <1>4, <1>5
<1> QED
    BY <1>6 DEF V

(* The check of dispatch_task: what it lets through shares the device only *)
(* with what other threads have let through and not yet written.           *)
LEMMA OverlapSelect ==
    ASSUME TypeOK, OverlapInv, NEW t \in Threads, NEW m \in queue, NEW w \in Workers,
           DispatchSelect(t, m, w)
    PROVE  OverlapInv'
<1> SUFFICES ASSUME NEW d \in Devices
             PROVE  Cardinality(Running(d)' \cup {e \in OnDevice(d) : Chosen(e)'})
                       <= Cardinality(Threads) + used'.resumes
    BY DEF OverlapInv, OnDevice
<1> DEFINE V == Running(d)' \cup {e \in OnDevice(d) : Chosen(e)'}
<1>1. m.e \in Execs
    BY DEF TypeOK, Message
<1>2. /\ job' = [job EXCEPT ![t] = [pc |-> "ready", e |-> m.e, w |-> w,
                                    snap |-> snap[m.e], recovery |-> recovery[m.e]]]
      /\ status' = status /\ used' = used /\ job[t] = IdleJob
    BY DEF DispatchSelect, Take, dbVars
<1>3. CASE DeviceOf[m.e] = d
    <2>1. \A e \in Running(d) : e = m.e
        BY <1>1, <1>3, ConstantsAssumption
        DEF DispatchSelect, DeviceFree, DeviceShared, Running, OnDevice
    <2>2. \A e \in V : \E u \in Threads : job'[u].e = e
        <3>1. job'[t].e = m.e
            BY <1>2 DEF TypeOK
        <3> QED
            BY <1>2, <2>1, <3>1 DEF Running, OnDevice, Chosen
    <2>3. IsFiniteSet(V) /\ Cardinality(V) <= Cardinality(Threads)
        BY <2>2, HeldBound
    <2>4. Cardinality(V) \in Nat /\ Cardinality(Threads) \in Nat /\ used.resumes \in Nat
        BY <2>3, FS_CardinalityType, FinitenessAssumption DEF TypeOK
    <2> HIDE DEF V
    <2>5. Cardinality(V) <= Cardinality(Threads) + used'.resumes
        BY <1>2, <2>3, <2>4
    <2> QED
        BY <2>5 DEF V
<1>4. CASE DeviceOf[m.e] # d
    <2>1. \A e \in OnDevice(d) : Chosen(e)' => Chosen(e)
        BY <1>2, <1>4 DEF Chosen, OnDevice, TypeOK
    <2>2. V \in SUBSET (Running(d) \cup {e \in OnDevice(d) : Chosen(e)})
        BY <1>2, <2>1 DEF Running, OnDevice
    <2>3. Running(d) \cup {e \in OnDevice(d) : Chosen(e)} \in SUBSET Execs
        BY DEF Running, OnDevice
    <2>4. /\ IsFiniteSet(Running(d) \cup {e \in OnDevice(d) : Chosen(e)})
          /\ IsFiniteSet(V)
          /\ Cardinality(V) <= Cardinality(Running(d) \cup {e \in OnDevice(d) : Chosen(e)})
        BY <2>2, <2>3, FS_Subset, FinitenessAssumption
    <2>5. /\ Cardinality(V) \in Nat /\ Cardinality(Threads) \in Nat /\ used.resumes \in Nat
          /\ Cardinality(Running(d) \cup {e \in OnDevice(d) : Chosen(e)}) \in Nat
        BY <2>4, FS_CardinalityType, FinitenessAssumption DEF TypeOK
    <2>6. Cardinality(Running(d) \cup {e \in OnDevice(d) : Chosen(e)})
             <= Cardinality(Threads) + used.resumes
        BY DEF OverlapInv
    <2> QED
        BY <1>2, <2>4, <2>5, <2>6
<1> QED
    BY <1>3, <1>4
(* A resume adds one execution to a device and one to the bound. *)
LEMMA OverlapResume ==
    ASSUME TypeOK, OverlapInv, NEW x \in Execs, Resume(x)
    PROVE  OverlapInv'
<1> SUFFICES ASSUME NEW d \in Devices
             PROVE  Cardinality(Running(d)' \cup {e \in OnDevice(d) : Chosen(e)'})
                       <= Cardinality(Threads) + used'.resumes
    BY DEF OverlapInv, OnDevice
<1> DEFINE U == Running(d) \cup {e \in OnDevice(d) : Chosen(e)}
           V == Running(d)' \cup {e \in OnDevice(d) : Chosen(e)'}
<1>1. used'.resumes = used.resumes + 1 /\ used.resumes \in Nat
    BY DEF Resume, Spend, TypeOK
<1>2. V \in SUBSET (U \cup {x})
    BY DEF Resume, Intervene, Running, OnDevice, Chosen, TypeOK, dbVars
<1>3. IsFiniteSet(U)
    <2>1. U \in SUBSET Execs
        BY DEF Running, OnDevice
    <2> QED
        BY <2>1, FS_Subset, FinitenessAssumption
<1>4. Cardinality(U) <= Cardinality(Threads) + used.resumes
    BY DEF OverlapInv
<1> HIDE DEF U, V
<1>5. IsFiniteSet(U \cup {x}) /\ Cardinality(U \cup {x}) <= Cardinality(U) + 1
    <2>1. /\ IsFiniteSet(U \cup {x})
          /\ Cardinality(U \cup {x}) = IF x \in U THEN Cardinality(U) ELSE Cardinality(U) + 1
        BY <1>3, FS_AddElement
    <2>2. Cardinality(U) \in Nat
        BY <1>3, FS_CardinalityType
    <2> QED
        BY <2>1, <2>2
<1>6. IsFiniteSet(V) /\ Cardinality(V) <= Cardinality(U \cup {x})
    BY <1>2, <1>5, FS_Subset
<1>7. /\ Cardinality(U) \in Nat /\ Cardinality(U \cup {x}) \in Nat
      /\ Cardinality(V) \in Nat /\ Cardinality(Threads) \in Nat
    BY <1>3, <1>5, <1>6, FS_CardinalityType, FinitenessAssumption
<1>8. Cardinality(V) <= Cardinality(Threads) + used'.resumes
    BY <1>1, <1>4, <1>5, <1>6, <1>7
<1> QED
    BY <1>8 DEF V

(* A selection needs a free window; a commit only moves what was counted. *)
LEMMA OverlapDispatch ==
    ASSUME TypeOK, OverlapInv, NEW t \in Threads, Dispatch(t)
    PROVE  OverlapInv'
<1> USE DEF dbVars, resVars, netVars, Chosen
<1>1. used.resumes \in Nat
    BY DEF TypeOK
<1>2. ASSUME NEW m \in queue, DispatchDeviceBusy(t, m) PROVE OverlapInv'
    BY <1>1, <1>2, OverlapMono DEF DispatchDeviceBusy, TypeOK
<1>3. ASSUME NEW m \in queue, DispatchNoAgent(t, m) PROVE OverlapInv'
    BY <1>1, <1>3, OverlapMono DEF DispatchNoAgent, TypeOK
<1>4. ASSUME NEW m \in queue, DispatchAtCap(t, m) PROVE OverlapInv'
    BY <1>1, <1>4, OverlapMono DEF DispatchAtCap, TypeOK
<1>5. CASE DispatchCommit(t)
    BY <1>1, <1>5, OverlapMono, BusyJob DEF DispatchCommit, TypeOK
<1>6. CASE DispatchSend(t)
    <2>1. used'.resumes = used.resumes
        BY <1>6 DEF DispatchSend, Spend, TypeOK
    <2> QED
        BY <1>1, <1>6, <2>1, OverlapMono, BusyJob DEF DispatchSend, TypeOK
<1>7. CASE DispatchSendFails(t)
    <2>1. used'.resumes = used.resumes
        BY <1>7 DEF DispatchSendFails, Spend, TypeOK
    <2>2. \A e \in Execs : status'[e] = "running" => status[e] = "running"
        BY <1>7, BusyJob DEF DispatchSendFails, TypeOK
    <2>3. \A e \in Execs : Chosen(e)' => Chosen(e)
        BY <1>7 DEF DispatchSendFails, TypeOK, IdleJob
    <2> QED
        BY <1>1, <2>1, <2>2, <2>3, OverlapMono
<1>8. CASE DispatchRecord(t)
    <2>1. \A e \in Execs : Chosen(e)' => Chosen(e)
        BY <1>8 DEF DispatchRecord, TypeOK, IdleJob
    <2> QED
        BY <1>1, <1>8, <2>1, OverlapMono DEF DispatchRecord
<1> QED
    BY <1>2, <1>3, <1>4, <1>5, <1>6, <1>7, <1>8, OverlapSelect DEF Dispatch

(* Apart from a resume, no other step makes an execution RUNNING. *)
LEMMA OverlapOther ==
    ASSUME TypeOK, OverlapInv,
           \/ \E w \in Workers : WorkerStep(w) \/ ConsumerStep(w) \/ ConnectionStep(w)
           \/ \E e \in Execs : OperatorStep(e) \/ SweepStep(e)
           \/ \E d \in Devices : DeviceSync(d)
    PROVE  OverlapInv'
<1> USE DEF dbVars, resVars, netVars
<1>1. ASSUME job' = job, used'.resumes = used.resumes,
             \A e \in Execs : status'[e] = "running" => status[e] = "running"
      PROVE  OverlapInv'
    <2>1. used.resumes \in Nat
        BY DEF TypeOK
    <2> QED
        BY <1>1, <2>1, OverlapMono DEF Chosen
<1>2. ASSUME NEW w \in Workers, WorkerStep(w) PROVE OverlapInv'
    BY <1>1, <1>2 DEF WorkerStep, ReceiveAssign, FinishRun
<1>3. ASSUME NEW w \in Workers, ConsumerStep(w) PROVE OverlapInv'
    <2>1. CASE ResultSave(w)
        BY <1>1, <2>1, BusyConsumer DEF ResultSave, TypeOK
    <2> QED
        BY <1>1, <1>3, <2>1 DEF ConsumerStep, AckReceived, ResultIgnored, ResultRead
<1>4. ASSUME NEW w \in Workers, ConnectionStep(w) PROVE OverlapInv'
    <2>1. ASSUME NEW crash \in BOOLEAN, ConnectionLost(w, crash) PROVE OverlapInv'
        BY <1>1, <2>1 DEF ConnectionLost, Spend, TypeOK
    <2>2. ASSUME NEW long \in BOOLEAN, HeartbeatTimeout(w, long) PROVE OverlapInv'
        BY <1>1, <2>2 DEF HeartbeatTimeout, Spend, TypeOK
    <2>3. CASE SetAgentOffline(w)
        BY <1>1, <2>3 DEF SetAgentOffline, TypeOK
    <2> QED
        BY <1>1, <1>4, <2>1, <2>2, <2>3 DEF ConnectionStep, Reconnect, Heartbeat
<1>5. ASSUME NEW e \in Execs, OperatorStep(e) PROVE OverlapInv'
    <2>1. CASE CancelSelect(e)
        BY <1>1, <2>1 DEF CancelSelect, Spend, TypeOK
    <2>2. CASE CancelSave(e)
        BY <1>1, <2>2 DEF CancelSave, TypeOK
    <2>3. CASE Pause(e)
        BY <1>1, <2>3 DEF Pause, Intervene, Spend, TypeOK
    <2>4. CASE InterveneCancel(e)
        BY <1>1, <2>4 DEF InterveneCancel, Intervene, Spend, TypeOK
    <2> QED
        BY <1>5, <2>1, <2>2, <2>3, <2>4, OverlapResume DEF OperatorStep
<1>6. ASSUME NEW e \in Execs, SweepStep(e) PROVE OverlapInv'
    <2>1. CASE SweepFail(e)
        BY <1>1, <2>1 DEF SweepFail, TypeOK
    <2> QED
        BY <1>1, <1>6, <2>1 DEF SweepStep, SweepRedispatch, RetryPending
<1>7. ASSUME NEW d \in Devices, DeviceSync(d) PROVE OverlapInv'
    BY <1>1, <1>7 DEF DeviceSync, Spend, TypeOK
<1> QED
    BY <1>2, <1>3, <1>4, <1>5, <1>6, <1>7

(* What the serial check of dispatch_task does guarantee, though it is an  *)
(* unlocked read before a write: never more executions RUNNING on a window *)
(* than there are dispatcher threads, one more for every resume.           *)
THEOREM DeviceOverlapIsBounded == Spec => []DeviceOverlapBounded
<1>1. Init => OverlapInv
    <2> SUFFICES ASSUME Init, NEW d \in Devices
                 PROVE  Cardinality(Running(d) \cup {e \in OnDevice(d) : Chosen(e)})
                           <= Cardinality(Threads) + used.resumes
        BY DEF OverlapInv
    <2>1. Running(d) \cup {e \in OnDevice(d) : Chosen(e)} = {}
        BY DEF Init, Running, OnDevice, Chosen, IdleJob
    <2>2. Cardinality({}) = 0 /\ Cardinality(Threads) \in Nat
        BY FS_EmptySet, FS_CardinalityType, FinitenessAssumption
    <2>3. used.resumes = 0
        BY DEF Init
    <2> QED
        BY <2>1, <2>2, <2>3
<1>2. TypeOK /\ OverlapInv /\ [Next]_vars => OverlapInv'
    <2> SUFFICES ASSUME TypeOK, OverlapInv, [Next]_vars PROVE OverlapInv'
        OBVIOUS
    <2>1. CASE UNCHANGED vars
        BY <2>1 DEF vars, OverlapInv, Running, OnDevice, Chosen
    <2> QED
        BY <2>1, OverlapDispatch, OverlapOther DEF Next
<1>3. TypeOK /\ OverlapInv => DeviceOverlapBounded
    <2> SUFFICES ASSUME TypeOK, OverlapInv, NEW d \in Devices
                 PROVE  Cardinality(Running(d)) <= Cardinality(Threads) + used.resumes
        BY DEF DeviceOverlapBounded
    <2> DEFINE U == Running(d) \cup {e \in OnDevice(d) : Chosen(e)}
    <2>1. U \in SUBSET Execs /\ Running(d) \in SUBSET U
        BY DEF Running, OnDevice
    <2>2. IsFiniteSet(U) /\ Cardinality(Running(d)) <= Cardinality(U) /\ IsFiniteSet(Running(d))
        BY <2>1, FS_Subset, FinitenessAssumption
    <2>3. /\ Cardinality(U) \in Nat /\ Cardinality(Running(d)) \in Nat
          /\ Cardinality(Threads) \in Nat /\ used.resumes \in Nat
        BY <2>2, FS_CardinalityType, FinitenessAssumption DEF TypeOK
    <2>4. Cardinality(U) <= Cardinality(Threads) + used.resumes
        BY DEF OverlapInv
    <2> HIDE DEF U
    <2> QED
        BY <2>2, <2>3, <2>4
<1> QED
    BY <1>1, <1>2, <1>3, TypeCorrect, PTL DEF Spec
-----------------------------------------------------------------------------
(* How far a worker can be over its concurrency cap.                       *)

(* Steps that give a worker only what was chosen for it keep the bound. *)
LEMMA SlotMono ==
    ASSUME TypeOK, SlotInv,
           \A w \in Workers : slots'[w] \subseteq slots[w] \cup ChosenFor(w),
           \A w \in Workers : ChosenFor(w)' \subseteq ChosenFor(w)
    PROVE  SlotInv'
<1> SUFFICES ASSUME NEW w \in Workers
             PROVE  Cardinality(Unforced(slots'[w] \cup ChosenFor(w)'))
                       <= MaxPerAgent + Cardinality(Threads) - 1
    BY DEF SlotInv, Unforced
<1> DEFINE U == Unforced(slots[w] \cup ChosenFor(w))
           V == Unforced(slots'[w] \cup ChosenFor(w)')
<1>1. U \in SUBSET Execs /\ V \in SUBSET U
    BY DEF TypeOK, Unforced, ChosenFor
<1>2. IsFiniteSet(U) /\ IsFiniteSet(V) /\ Cardinality(V) <= Cardinality(U)
    BY <1>1, FS_Subset, FinitenessAssumption
<1>3. Cardinality(U) \in Nat /\ Cardinality(V) \in Nat /\ Cardinality(Threads) \in Nat
    BY <1>2, FS_CardinalityType, FinitenessAssumption
<1>4. Cardinality(U) <= MaxPerAgent + Cardinality(Threads) - 1
    BY DEF SlotInv
<1> HIDE DEF U, V
<1>5. Cardinality(V) <= MaxPerAgent + Cardinality(Threads) - 1
    BY <1>2, <1>3, <1>4, ConstantsAssumption
<1> QED
    BY <1>5 DEF V

(* can_assign: what is counted is below the cap when a worker is chosen,   *)
(* and every thread holds at most one choice that is not counted yet.      *)
LEMMA SlotSelect ==
    ASSUME TypeOK, SlotInv, NEW t \in Threads, NEW m \in queue, NEW w \in Workers,
           DispatchSelect(t, m, w)
    PROVE  SlotInv'
<1> SUFFICES ASSUME NEW v \in Workers
             PROVE  Cardinality(Unforced(slots'[v] \cup ChosenFor(v)'))
                       <= MaxPerAgent + Cardinality(Threads) - 1
    BY DEF SlotInv, Unforced
<1> DEFINE U == Unforced(slots[v] \cup ChosenFor(v))
           V == Unforced(slots'[v] \cup ChosenFor(v)')
<1>1. m.e \in Execs /\ m.kind \in {"first", "beat"}
    BY DEF TypeOK, Message
<1>2. /\ job' = [job EXCEPT ![t] = [pc |-> "ready", e |-> m.e, w |-> w,
                                    snap |-> snap[m.e], recovery |-> recovery[m.e]]]
      /\ slots' = slots
    BY DEF DispatchSelect, resVars
<1>3. CASE v = w /\ DeviceOf[m.e] = NoDevice /\ ForcedAgent[m.e] = NoWorker
    <2> DEFINE S == Unforced(slots[v])
               C == Unforced(ChosenFor(v)')
    <2>1. CanAssign(w)
        BY <1>3 DEF DispatchSelect, Candidates, IsForced, AssignableAgents
    <2>2. /\ IsFiniteSet(slots[v]) /\ Cardinality(slots[v]) < MaxPerAgent
          /\ IsFiniteSet(S) /\ Cardinality(S) <= Cardinality(slots[v])
        <3>1. slots[v] \in SUBSET Execs /\ S \in SUBSET slots[v]
            BY DEF TypeOK, Unforced
        <3> QED
            BY <1>3, <2>1, <3>1, FS_Subset, FinitenessAssumption DEF CanAssign
    <2>3. IsFiniteSet(C) /\ Cardinality(C) <= Cardinality(Threads)
        <3>1. \A e \in C : \E u \in Threads : job'[u].e = e
            BY DEF Unforced, ChosenFor
        <3> QED
            BY <3>1, HeldBound
    <2>4. V = S \cup C
        BY <1>2 DEF Unforced
    <2>5. /\ Cardinality(S \cup C) = Cardinality(S) + Cardinality(C) - Cardinality(S \cap C)
          /\ IsFiniteSet(S \cap C) /\ IsFiniteSet(S \cup C)
        <3>1. S \cap C \in SUBSET S
            OBVIOUS
        <3> QED
            BY <2>2, <2>3, <3>1, FS_Union, FS_Subset
    <2>6. /\ Cardinality(slots[v]) \in Nat /\ Cardinality(S) \in Nat /\ Cardinality(C) \in Nat
          /\ Cardinality(S \cap C) \in Nat /\ Cardinality(Threads) \in Nat
        BY <2>2, <2>3, <2>5, FS_CardinalityType, FinitenessAssumption
    <2> HIDE DEF S, C, V
    <2>7. Cardinality(V) <= MaxPerAgent + Cardinality(Threads) - 1
        BY <2>2, <2>3, <2>4, <2>5, <2>6, ConstantsAssumption
    <2> QED
        BY <2>7 DEF V
<1>4. CASE ~(v = w /\ DeviceOf[m.e] = NoDevice /\ ForcedAgent[m.e] = NoWorker)
    <2>1. \A e \in Unforced(ChosenFor(v)') : e \in ChosenFor(v)
        BY <1>2, <1>4 DEF Unforced, ChosenFor, TypeOK
    <2>2. U \in SUBSET Execs /\ V \in SUBSET U
        BY <1>2, <2>1 DEF TypeOK, Unforced, ChosenFor
    <2>3. IsFiniteSet(U) /\ IsFiniteSet(V) /\ Cardinality(V) <= Cardinality(U)
        BY <2>2, FS_Subset, FinitenessAssumption
    <2>4. Cardinality(U) \in Nat /\ Cardinality(V) \in Nat /\ Cardinality(Threads) \in Nat
        BY <2>3, FS_CardinalityType, FinitenessAssumption
    <2>5. Cardinality(U) <= MaxPerAgent + Cardinality(Threads) - 1
        BY DEF SlotInv
    <2> HIDE DEF U, V
    <2>6. Cardinality(V) <= MaxPerAgent + Cardinality(Threads) - 1
        BY <2>3, <2>4, <2>5, ConstantsAssumption
    <2> QED
        BY <2>6 DEF V
<1> QED
    BY <1>3, <1>4

(* A selection has measured the cap; a commit only moves what was counted. *)
LEMMA SlotDispatch ==
    ASSUME TypeOK, SlotInv, NEW t \in Threads, Dispatch(t)
    PROVE  SlotInv'
<1> USE DEF dbVars, resVars, netVars
<1>1. ASSUME job' = job, slots' = slots PROVE SlotInv'
    BY <1>1, SlotMono DEF ChosenFor
<1>2. ASSUME NEW m \in queue,
             DispatchDeviceBusy(t, m) \/ DispatchNoAgent(t, m) \/ DispatchAtCap(t, m)
      PROVE  SlotInv'
    BY <1>1, <1>2 DEF DispatchDeviceBusy, DispatchNoAgent, DispatchAtCap
<1>3. CASE DispatchCommit(t)
    <2>1. job[t].e \in Execs /\ job[t].w \in Workers
        BY <1>3, BusyJob DEF DispatchCommit
    <2>2. \A w \in Workers : slots'[w] \subseteq slots[w] \cup ChosenFor(w)
        BY <1>3, <2>1 DEF DispatchCommit, ChosenFor, TypeOK
    <2>3. \A w \in Workers : ChosenFor(w)' \subseteq ChosenFor(w)
        BY <1>3, <2>1 DEF DispatchCommit, ChosenFor, TypeOK
    <2> QED
        BY <2>2, <2>3, SlotMono
<1>4. CASE DispatchSend(t)
    <2>1. \A w \in Workers : ChosenFor(w)' \subseteq ChosenFor(w)
        BY <1>4 DEF DispatchSend, ChosenFor, TypeOK
    <2> QED
        BY <1>4, <2>1, SlotMono DEF DispatchSend
<1>5. CASE DispatchSendFails(t)
    <2>1. \A w \in Workers : ChosenFor(w)' \subseteq ChosenFor(w)
        BY <1>5 DEF DispatchSendFails, ChosenFor, TypeOK, IdleJob
    <2> QED
        BY <1>5, <2>1, SlotMono DEF DispatchSendFails
<1>6. CASE DispatchRecord(t)
    <2>1. \A w \in Workers : ChosenFor(w)' \subseteq ChosenFor(w)
        BY <1>6 DEF DispatchRecord, ChosenFor, TypeOK, IdleJob
    <2> QED
        BY <1>6, <2>1, SlotMono DEF DispatchRecord
<1> QED
    BY <1>2, <1>3, <1>4, <1>5, <1>6, SlotSelect DEF Dispatch

(* No other step takes a slot. *)
LEMMA SlotOther ==
    ASSUME TypeOK, SlotInv,
           \/ \E w \in Workers : WorkerStep(w) \/ ConsumerStep(w) \/ ConnectionStep(w)
           \/ \E e \in Execs : OperatorStep(e) \/ SweepStep(e)
           \/ \E d \in Devices : DeviceSync(d)
    PROVE  SlotInv'
<1> USE DEF dbVars, resVars, netVars
<1>1. ASSUME job' = job, \A w \in Workers : slots'[w] \subseteq slots[w] PROVE SlotInv'
    BY <1>1, SlotMono DEF ChosenFor
<1>2. ASSUME NEW w \in Workers, WorkerStep(w) PROVE SlotInv'
    BY <1>1, <1>2 DEF WorkerStep, ReceiveAssign, FinishRun
<1>3. ASSUME NEW w \in Workers, ConsumerStep(w) PROVE SlotInv'
    <2>1. CASE ResultSave(w)
        BY <1>1, <2>1, ReleasedType DEF ResultSave, TypeOK
    <2>2. ASSUME NEW f \in up, ResultIgnored(w, f) PROVE SlotInv'
        BY <1>1, <2>2, ReleasedType DEF ResultIgnored, TypeOK
    <2> QED
        BY <1>1, <1>3, <2>1, <2>2 DEF ConsumerStep, AckReceived, ResultRead
<1>4. ASSUME NEW w \in Workers, ConnectionStep(w) PROVE SlotInv'
    <2>1. ASSUME NEW long \in BOOLEAN, HeartbeatTimeout(w, long) PROVE SlotInv'
        BY <1>1, <2>1, ReleasedType DEF HeartbeatTimeout, TypeOK
    <2> QED
        BY <1>1, <1>4, <2>1
        DEF ConnectionStep, ConnectionLost, SetAgentOffline, Reconnect, Heartbeat
<1>5. ASSUME NEW e \in Execs, OperatorStep(e) PROVE SlotInv'
    <2>1. CASE CancelSave(e)
        BY <1>1, <2>1 DEF CancelSave, TypeOK
    <2> QED
        BY <1>1, <1>5, <2>1
        DEF OperatorStep, CancelSelect, Pause, Resume, InterveneCancel, Intervene
<1>6. ASSUME NEW e \in Execs, SweepStep(e) PROVE SlotInv'
    BY <1>1, <1>6 DEF SweepStep, SweepRedispatch, SweepFail, RetryPending
<1>7. ASSUME NEW d \in Devices, DeviceSync(d) PROVE SlotInv'
    BY <1>1, <1>7 DEF DeviceSync
<1> QED
    BY <1>2, <1>3, <1>4, <1>5, <1>6, <1>7

(* What can_assign followed by assign does guarantee, though they are two  *)
(* calls: with n dispatcher threads a worker takes at most n - 1 slots     *)
(* more than its cap, pinned chain nodes apart.                            *)
THEOREM SlotOverAssignIsBounded == Spec => []SlotOverAssignBounded
<1>1. Cardinality(Threads) \in Nat /\ Cardinality(Threads) # 0
    BY FS_CardinalityType, FS_EmptySet, FinitenessAssumption
<1>2. Init => SlotInv
    <2> SUFFICES ASSUME Init, NEW w \in Workers
                 PROVE  Cardinality(Unforced(slots[w] \cup ChosenFor(w)))
                           <= MaxPerAgent + Cardinality(Threads) - 1
        BY DEF SlotInv
    <2>1. Unforced(slots[w] \cup ChosenFor(w)) = {}
        BY DEF Init, Unforced, ChosenFor, IdleJob
    <2>2. Cardinality({}) = 0
        BY FS_EmptySet
    <2>3. 0 <= MaxPerAgent + Cardinality(Threads) - 1
        BY <1>1, ConstantsAssumption
    <2> QED
        BY <2>1, <2>2, <2>3
<1>3. TypeOK /\ SlotInv /\ [Next]_vars => SlotInv'
    <2> SUFFICES ASSUME TypeOK, SlotInv, [Next]_vars PROVE SlotInv'
        OBVIOUS
    <2>1. CASE UNCHANGED vars
        BY <2>1 DEF vars, SlotInv, ChosenFor
    <2> QED
        BY <2>1, SlotDispatch, SlotOther DEF Next
<1>4. TypeOK /\ SlotInv => SlotOverAssignBounded
    <2> SUFFICES ASSUME TypeOK, SlotInv, NEW w \in Workers
                 PROVE  Cardinality(Unforced(slots[w])) <= MaxPerAgent + Cardinality(Threads) - 1
        BY DEF SlotOverAssignBounded
    <2> DEFINE U == Unforced(slots[w] \cup ChosenFor(w))
    <2>1. U \in SUBSET Execs /\ Unforced(slots[w]) \in SUBSET U
        BY DEF Unforced, ChosenFor, TypeOK
    <2>2. /\ IsFiniteSet(U) /\ IsFiniteSet(Unforced(slots[w]))
          /\ Cardinality(Unforced(slots[w])) <= Cardinality(U)
        BY <2>1, FS_Subset, FinitenessAssumption
    <2>3. Cardinality(U) \in Nat /\ Cardinality(Unforced(slots[w])) \in Nat
        BY <2>2, FS_CardinalityType
    <2>4. Cardinality(U) <= MaxPerAgent + Cardinality(Threads) - 1
        BY DEF SlotInv
    <2> HIDE DEF U
    <2> QED
        BY <1>1, <2>2, <2>3, <2>4, ConstantsAssumption
<1> QED
    BY <1>2, <1>3, <1>4, TypeCorrect, PTL DEF Spec

-----------------------------------------------------------------------------
(* A settled execution stays as it is.                                     *)

(* What SettledStays asks of one execution in one step. *)
KeptSettled(e) ==
    /\ Settled(e)' /\ status'[e] = status[e]
    /\ Holders(e)' \subseteq Holders(e)
    /\ Assigned(e)' \subseteq Assigned(e)

(* A dispatcher thread that holds e has not settled it: its steps concern   *)
(* other executions, and the record of a frame already sent no status.      *)
LEMMA SettledDispatch ==
    ASSUME TypeOK, NEW e \in Execs, Settled(e), NEW t \in Threads, Dispatch(t)
    PROVE  KeptSettled(e)
<1> USE DEF dbVars, resVars, netVars, KeptSettled, Settled, Holders, Assigned
<1>1. ASSUME NEW m \in queue, DispatchDeviceBusy(t, m) PROVE KeptSettled(e)
    BY <1>1 DEF DispatchDeviceBusy, Take, TypeOK
<1>2. ASSUME NEW m \in queue, DispatchNoAgent(t, m) PROVE KeptSettled(e)
    BY <1>2 DEF DispatchNoAgent, Take, TypeOK
<1>3. ASSUME NEW m \in queue, DispatchAtCap(t, m) PROVE KeptSettled(e)
    BY <1>3 DEF DispatchAtCap, TypeOK
<1>4. ASSUME NEW m \in queue, NEW w \in Workers, DispatchSelect(t, m, w) PROVE KeptSettled(e)
    BY <1>4 DEF DispatchSelect, Take, TypeOK
<1>5. ASSUME DispatchCommit(t) PROVE KeptSettled(e)
    <2>1. job[t].e \in Execs \ {e} /\ job[t].w \in Workers
        BY <1>5, BusyJob DEF DispatchCommit
    <2>2. job'[t].e = job[t].e /\ \A u \in Threads \ {t} : job'[u] = job[u]
        BY <1>5, BusyJob DEF DispatchCommit, TypeOK
    <2>3. status'[e] = status[e]
        BY <1>5, <2>1 DEF DispatchCommit, TypeOK
    <2>4. Holders(e)' \subseteq Holders(e)
        BY <1>5, <2>1 DEF DispatchCommit, TypeOK
    <2>5. UNCHANGED <<queue, wire, consumer, cancelling>>
        BY <1>5 DEF DispatchCommit
    <2> QED
        BY <2>1, <2>2, <2>3, <2>4, <2>5
<1>6. ASSUME DispatchSend(t) PROVE KeptSettled(e)
    <2>1. job[t].e # e
        BY <1>6 DEF DispatchSend
    <2>2. job'[t].pc = "sent" /\ \A u \in Threads \ {t} : job'[u] = job[u]
        BY <1>6, BusyJob DEF DispatchSend, TypeOK
    <2>3. Assigned(e)' \subseteq Assigned(e)
        BY <1>6, <2>1 DEF DispatchSend
    <2>4. UNCHANGED <<status, slots, queue, consumer, cancelling>>
        BY <1>6 DEF DispatchSend
    <2> QED
        BY <2>2, <2>3, <2>4
<1>7. ASSUME DispatchSendFails(t) PROVE KeptSettled(e)
    <2>1. job[t].e # e
        BY <1>7 DEF DispatchSendFails
    <2>2. \A u \in Threads : job'[u] = IdleJob \/ job'[u] = job[u]
        BY <1>7 DEF DispatchSendFails, TypeOK
    <2>3. status'[e] = status[e]
        BY <1>7, <2>1 DEF DispatchSendFails, TypeOK
    <2>4. UNCHANGED <<slots, queue, wire, consumer, cancelling>>
        BY <1>7 DEF DispatchSendFails
    <2> QED
        BY <2>2, <2>3, <2>4 DEF IdleJob
<1>8. ASSUME DispatchRecord(t) PROVE KeptSettled(e)
    <2>1. \A u \in Threads : job'[u] = IdleJob \/ job'[u] = job[u]
        BY <1>8 DEF DispatchRecord, TypeOK
    <2>2. UNCHANGED <<status, slots, queue, wire, consumer, cancelling>>
        BY <1>8 DEF DispatchRecord
    <2> QED
        BY <2>1, <2>2 DEF IdleJob
<1> QED
    BY <1>1, <1>2, <1>3, <1>4, <1>5, <1>6, <1>7, <1>8 DEF Dispatch

(* A worker only uses frames up, and a consumer that still holds a result   *)
(* of e has not settled it; a late result passes no guard.                  *)
LEMMA SettledWorker ==
    ASSUME TypeOK, NEW e \in Execs, Settled(e), NEW w \in Workers,
           WorkerStep(w) \/ ConsumerStep(w)
    PROVE  KeptSettled(e)
<1> USE DEF dbVars, resVars, netVars, KeptSettled, Settled, Holders, Assigned
<1>1. ASSUME NEW x \in Execs, ReceiveAssign(w, x) PROVE KeptSettled(e)
    BY <1>1 DEF ReceiveAssign
<1>2. ASSUME NEW x \in Execs, NEW ok \in BOOLEAN, FinishRun(w, x, ok) PROVE KeptSettled(e)
    BY <1>2 DEF FinishRun
<1>3. ASSUME NEW x \in Execs, AckReceived(w, x) PROVE KeptSettled(e)
    BY <1>3 DEF AckReceived
<1>4. ASSUME NEW f \in up, ResultIgnored(w, f) PROVE KeptSettled(e)
    <2>1. Holders(e)' \subseteq Holders(e)
        BY <1>4, ReleasedType DEF ResultIgnored, TypeOK
    <2>2. UNCHANGED <<status, queue, job, wire, consumer, cancelling>>
        BY <1>4 DEF ResultIgnored
    <2> QED
        BY <2>1, <2>2
<1>5. ASSUME NEW f \in up, ResultRead(w, f) PROVE KeptSettled(e)
    <2>1. f.e # e
        BY <1>5 DEF ResultRead
    <2>2. \A v \in Workers : consumer'[v] # NoResult =>
              consumer'[v].e = f.e \/ consumer'[v] = consumer[v]
        BY <1>5 DEF ResultRead, TypeOK
    <2>3. UNCHANGED <<status, slots, queue, job, wire, cancelling>>
        BY <1>5 DEF ResultRead
    <2> QED
        BY <2>1, <2>2, <2>3
<1>6. ASSUME ResultSave(w) PROVE KeptSettled(e)
    <2>1. consumer[w].e # e
        BY <1>6 DEF ResultSave
    <2>2. status'[e] = status[e]
        BY <1>6, <2>1 DEF ResultSave, TypeOK
    <2>3. Holders(e)' \subseteq Holders(e)
        BY <1>6, ReleasedType DEF ResultSave, TypeOK
    <2>4. \A v \in Workers : consumer'[v] # NoResult => consumer'[v] = consumer[v]
        BY <1>6 DEF ResultSave, TypeOK
    <2>5. UNCHANGED <<queue, job, wire, cancelling>>
        BY <1>6 DEF ResultSave
    <2> QED
        BY <2>2, <2>3, <2>4, <2>5
<1> QED
    BY <1>1, <1>2, <1>3, <1>4, <1>5, <1>6 DEF WorkerStep, ConsumerStep

(* No operator and no sweep chooses a terminal execution, and a cancel that *)
(* has been listed but not written is not settled.                          *)
LEMMA SettledExecution ==
    ASSUME TypeOK, NEW e \in Execs, Settled(e), NEW x \in Execs,
           OperatorStep(x) \/ SweepStep(x)
    PROVE  KeptSettled(e)
<1> USE DEF dbVars, resVars, netVars, KeptSettled, Settled, Holders, Assigned
<1>1. CASE CancelSelect(x)
    BY <1>1 DEF CancelSelect, Terminal, TypeOK
<1>2. CASE CancelSave(x)
    <2>1. x # e
        BY <1>2 DEF CancelSave
    <2>2. status'[e] = status[e] /\ cancelling'[e] = cancelling[e]
        BY <1>2, <2>1 DEF CancelSave, TypeOK
    <2>3. Holders(e)' \subseteq Holders(e)
        BY <1>2 DEF CancelSave, TypeOK
    <2>4. UNCHANGED <<queue, job, wire, consumer>>
        BY <1>2 DEF CancelSave
    <2> QED
        BY <2>2, <2>3, <2>4
<1>3. ASSUME NEW from, NEW to, Intervene(x, from, to), from \cap Terminal = {}
      PROVE  KeptSettled(e)
    BY <1>3 DEF Intervene, TypeOK
<1>4. CASE Pause(x)
    BY <1>3, <1>4 DEF Pause, Terminal
<1>5. CASE Resume(x)
    BY <1>3, <1>5 DEF Resume, Terminal
<1>6. CASE InterveneCancel(x)
    BY <1>3, <1>6 DEF InterveneCancel
<1>7. CASE SweepRedispatch(x)
    BY <1>7 DEF SweepRedispatch, Unacked, Terminal
<1>8. CASE SweepFail(x)
    BY <1>8 DEF SweepFail, Unacked, Terminal, TypeOK
<1>9. CASE RetryPending(x)
    BY <1>9 DEF RetryPending, Terminal
<1> QED
    BY <1>1, <1>2, <1>4, <1>5, <1>6, <1>7, <1>8, <1>9 DEF OperatorStep, SweepStep

(* Losing a worker fails only what is RUNNING on it; devices and worker     *)
(* status concern no execution.                                             *)
LEMMA SettledConnection ==
    ASSUME TypeOK, NEW e \in Execs, Settled(e),
           \/ \E w \in Workers : ConnectionStep(w)
           \/ \E d \in Devices : DeviceSync(d)
    PROVE  KeptSettled(e)
<1> USE DEF dbVars, resVars, netVars, KeptSettled, Settled, Holders, Assigned
<1>1. ASSUME NEW w \in Workers, NEW crash \in BOOLEAN, ConnectionLost(w, crash)
      PROVE  KeptSettled(e)
    BY <1>1 DEF ConnectionLost
<1>2. ASSUME NEW w \in Workers, NEW long \in BOOLEAN, HeartbeatTimeout(w, long)
      PROVE  KeptSettled(e)
    <2>1. status'[e] = status[e]
        BY <1>2 DEF HeartbeatTimeout, RunningOn, Terminal
    <2>2. Holders(e)' \subseteq Holders(e)
        BY <1>2, ReleasedType DEF HeartbeatTimeout, TypeOK
    <2>3. UNCHANGED <<queue, job, wire, consumer, cancelling>>
        BY <1>2 DEF HeartbeatTimeout
    <2> QED
        BY <2>1, <2>2, <2>3
<1>3. ASSUME NEW w \in Workers, SetAgentOffline(w) PROVE KeptSettled(e)
    <2>1. status'[e] = status[e]
        BY <1>3 DEF SetAgentOffline, RunningOn, Terminal
    <2>2. UNCHANGED <<slots, queue, job, wire, consumer, cancelling>>
        BY <1>3 DEF SetAgentOffline
    <2> QED
        BY <2>1, <2>2
<1>4. ASSUME NEW w \in Workers, Reconnect(w) \/ Heartbeat(w) PROVE KeptSettled(e)
    BY <1>4 DEF Reconnect, Heartbeat
<1>5. ASSUME NEW d \in Devices, DeviceSync(d) PROVE KeptSettled(e)
    BY <1>5 DEF DeviceSync
<1> QED
    BY <1>1, <1>2, <1>3, <1>4, <1>5 DEF ConnectionStep

(* Once an execution has ended and nothing about it is under way, its       *)
(* verdict is final and it takes nothing any more, whatever late frames,    *)
(* results, sweeps, crashes and operators do.                               *)
THEOREM SettledExecutionsStay == Spec => SettledStays
<1>1. ASSUME TypeOK, [Next]_vars
      PROVE  [\A e \in Execs : Settled(e) => KeptSettled(e)]_vars
    <2> SUFFICES ASSUME Next, NEW e \in Execs, Settled(e) PROVE KeptSettled(e)
        BY <1>1
    <2> QED
        BY <1>1, SettledDispatch, SettledWorker, SettledExecution, SettledConnection DEF Next
<1>2. TypeOK /\ [Next]_vars => [\A e \in Execs : Settled(e) =>
                                   /\ Settled(e)' /\ status'[e] = status[e]
                                   /\ Holders(e)' \subseteq Holders(e)
                                   /\ Assigned(e)' \subseteq Assigned(e)]_vars
    BY <1>1 DEF KeptSettled
<1> QED
    BY <1>2, TypeCorrect, PTL DEF Spec, SettledStays

=============================================================================
