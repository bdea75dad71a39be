------------------------- MODULE WorkerSessionProofs -------------------------
(* Proofs about WorkerSession, for any number of connections of the worker *)
(* and of executions dispatched to it.                                     *)
EXTENDS WorkerSession, FiniteSetTheorems, TLAPS

-----------------------------------------------------------------------------
(* The strengthening of NewTasksSurvive: who may own the row, who may be   *)
(* about to fail executions, and which connections count as older.         *)
OwnerKnown == owner \in {NoChannel, newest} \cup excused

OfflineKnown == \A c \in GoingOffline : c = newest \/ c \in excused

OlderAreOlder ==
    \A t \in Threads : \A c \in older[t] :
        c # newest /\ consumer[c] \notin {"new", "joined"}

SurvivalInv == OwnerKnown /\ OfflineKnown /\ OlderAreOlder /\ NewTasksSurvive

-----------------------------------------------------------------------------
(* Type correctness.                                                       *)

(* A worker's end that opens or goes leaves at most one open. *)
LEMMA PeerAtMostOne ==
    ASSUME Cardinality(peer) <= 1, peer \in SUBSET Channels, NEW c \in Channels
    PROVE  Cardinality({c}) <= 1 /\ Cardinality(peer \ {c}) <= 1
<1>1. IsFiniteSet(peer)
    BY SessionAssumption, FS_Subset
<1>2. Cardinality(peer \ {c}) <= Cardinality(peer)
    BY <1>1, FS_Subset
<1>3. Cardinality({c}) = 1
    BY FS_Singleton
<1>4. Cardinality(peer) \in Nat /\ Cardinality(peer \ {c}) \in Nat
    BY <1>1, FS_Subset, FS_CardinalityType
<1> QED
    BY <1>2, <1>3, <1>4

(* A message of a connection keeps the types. *)
LEMMA TypeConsume ==
    ASSUME TypeOK, NEW c \in Channels, Joins(c) \/ Disconnects(c) \/ PeerGone(c) \/ Consume(c)
    PROVE  TypeOK'
<1> USE DEF TypeOK, rowVars, connVars, jobVars, history, Maybe
<1>1. CASE Joins(c)
    BY <1>1, PeerAtMostOne DEF Joins
<1>2. CASE Disconnects(c)
    BY <1>2, PeerAtMostOne DEF Disconnects
<1>3. CASE PeerGone(c)
    BY <1>3, PeerAtMostOne DEF PeerGone
<1>4. CASE Claims(c)
    BY <1>4 DEF Claims, GoingOffline
<1>5. CASE Registers(c)
    BY <1>5 DEF Registers
<1>6. CASE Beat(c)
    BY <1>6 DEF Beat
<1>7. CASE Leaves(c)
    BY <1>7 DEF Leaves, Offline
<1>8. CASE LeftFails(c)
    BY <1>8 DEF LeftFails, FailRunning, Running
<1> QED
    BY <1>1, <1>2, <1>3, <1>4, <1>5, <1>6, <1>7, <1>8 DEF Consume

(* A dispatch that read the row is no longer recent. *)
LEMMA JobAges ==
    ASSUME NEW j \in JobType
    PROVE  [j EXCEPT !.recent = FALSE] \in JobType
    BY DEF JobType

(* So do the checkers, the clock, the sweep and the dispatchers. *)
LEMMA TypeOthers ==
    ASSUME TypeOK,
           \/ \E c \in Channels : LastAges(c) \/ Check(c)
           \/ RowAges \/ Sweep
           \/ \E t \in Threads : DispatchReads(t) \/ Dispatch(t)
    PROVE  TypeOK'
<1> USE DEF TypeOK, rowVars, connVars, jobVars, history, Maybe
<1>1. ASSUME NEW c \in Channels, LastAges(c) PROVE TypeOK'
    BY <1>1 DEF LastAges
<1>2. ASSUME NEW c \in Channels, CheckerAsks(c) PROVE TypeOK'
    BY <1>2 DEF CheckerAsks
<1>3. ASSUME NEW c \in Channels, CheckerActs(c) PROVE TypeOK'
    BY <1>3 DEF CheckerActs, Offline
<1>4. ASSUME NEW c \in Channels, CheckerFails(c) PROVE TypeOK'
    BY <1>4 DEF CheckerFails, FailRunning, Running
<1>5. CASE RowAges
    <2>1. \A t \in Threads : [job[t] EXCEPT !.recent = FALSE] \in JobType
        BY JobAges
    <2>2. job' \in [Threads -> JobType]
        BY <1>5, <2>1 DEF RowAges
    <2> QED
        BY <1>5, <2>2 DEF RowAges
<1>6. CASE SweepFinds
    BY <1>6 DEF SweepFinds
<1>7. CASE SweepWrites
    <2>1. /\ exec' \in [Threads -> {"none", "running", "failed"}]
          /\ older' \in [Threads -> SUBSET Channels]
          /\ wronged' \in SUBSET Threads
        <3>1. CASE FailRunning(NoChannel)
            BY <3>1 DEF FailRunning, Running
        <3>2. CASE UNCHANGED <<exec, older, wronged>>
            BY <3>2
        <3> QED
            BY <1>7, <3>1, <3>2 DEF SweepWrites
    <2> QED
        BY <1>7, <2>1 DEF SweepWrites
<1>8. ASSUME NEW t \in Threads, DispatchReads(t) PROVE TypeOK'
    BY <1>8 DEF DispatchReads, JobType
<1>9. ASSUME NEW t \in Threads, DispatchRuns(t) PROVE TypeOK'
    BY <1>9 DEF DispatchRuns
<1>10. ASSUME NEW t \in Threads, DispatchSaves(t) PROVE TypeOK'
    <2>1. [NoJob EXCEPT !.pc = "over"] \in JobType
        BY DEF JobType, NoJob
    <2>2. job' \in [Threads -> JobType]
        BY <1>10, <2>1 DEF DispatchSaves
    <2>3. job[t].owner \in Channels \cup {NoChannel} /\ job[t].recent \in BOOLEAN
        BY DEF JobType
    <2>4. excused' \in SUBSET Channels
        BY <1>10, <2>3 DEF DispatchSaves
    <2> QED
        BY <1>10, <2>2, <2>3, <2>4 DEF DispatchSaves
<1> QED
    BY <1>1, <1>2, <1>3, <1>4, <1>5, <1>6, <1>7, <1>8, <1>9, <1>10 DEF Check, Sweep, Dispatch

(* In the initial state no end is open and no dispatch has read the row. *)
LEMMA TypeInit == Init => TypeOK
<1> SUFFICES ASSUME Init PROVE TypeOK
    OBVIOUS
<1>1. Cardinality(peer) <= 1
    BY FS_EmptySet DEF Init
<1>2. NoJob \in JobType
    BY DEF NoJob, JobType, Maybe
<1> QED
    BY <1>1, <1>2 DEF Init, TypeOK, Maybe

(* Every step keeps the types. *)
LEMMA TypeStep == TypeOK /\ [Next]_vars => TypeOK'
<1> SUFFICES ASSUME TypeOK, [Next]_vars PROVE TypeOK'
    OBVIOUS
<1>1. CASE UNCHANGED vars
    BY <1>1 DEF vars, rowVars, connVars, jobVars, history, TypeOK
<1> QED
    BY <1>1, TypeConsume, TypeOthers DEF Next

(* Every variable keeps its type; in particular the worker's status is one *)
(* of its choices, whatever a frame carries, and the worker holds at most  *)
(* one end of a connection.                                                *)
THEOREM TypeCorrect == Spec => []TypeOK
BY TypeInit, TypeStep, PTL DEF Spec

-----------------------------------------------------------------------------
(* Older connections do not take the worker.                               *)

(* The owner's row is only lost to its own UPDATE, to a new claim or to a  *)
(* stale save.                                                             *)
LEMMA NewestOwnsStep == TypeOK /\ NewestOwns /\ [Next]_vars => NewestOwns'
<1> SUFFICES ASSUME TypeOK, NewestOwns, [Next]_vars, NEW d \in Channels, InCharge(d)'
             PROVE  (owner = d \/ d \in gaveUp \/ clobbered)'
    BY DEF NewestOwns
<1> USE DEF TypeOK, NewestOwns, InCharge, rowVars, connVars, jobVars, history
<1>1. ASSUME NEW c \in Channels, Joins(c) \/ LastAges(c) \/ Disconnects(c) \/ PeerGone(c)
      PROVE  (owner = d \/ d \in gaveUp \/ clobbered)'
    BY <1>1 DEF Joins, LastAges, Disconnects, PeerGone
<1>2. ASSUME NEW c \in Channels, Claims(c) \/ Registers(c) \/ Beat(c)
      PROVE  (owner = d \/ d \in gaveUp \/ clobbered)'
    BY <1>2 DEF Claims, Registers, Beat
<1>3. ASSUME NEW c \in Channels, Leaves(c) \/ LeftFails(c)
      PROVE  (owner = d \/ d \in gaveUp \/ clobbered)'
    BY <1>3 DEF Leaves, Offline, LeftFails
<1>4. ASSUME NEW c \in Channels, Check(c)
      PROVE  (owner = d \/ d \in gaveUp \/ clobbered)'
    BY <1>4 DEF Check, CheckerAsks, CheckerActs, CheckerFails, Offline
<1>5. CASE RowAges \/ Sweep
    BY <1>5 DEF RowAges, Sweep, SweepFinds, SweepWrites
<1>6. ASSUME NEW t \in Threads, DispatchReads(t) \/ Dispatch(t)
      PROVE  (owner = d \/ d \in gaveUp \/ clobbered)'
    BY <1>6 DEF DispatchReads, Dispatch, DispatchRuns, DispatchSaves
<1>7. CASE UNCHANGED vars
    BY <1>7 DEF vars
<1> QED
    BY <1>1, <1>2, <1>3, <1>4, <1>5, <1>6, <1>7 DEF Next, Consume

(* The connection that claimed the worker last keeps it, whatever the      *)
(* older ones do, until its own checker gives up or agent.save() writes    *)
(* back a row read earlier.                                                *)
THEOREM NewestKeepsTheWorker == Spec => []NewestOwns
<1>1. Init => NewestOwns
    BY DEF Init, NewestOwns, InCharge
<1> QED
    BY <1>1, TypeCorrect, NewestOwnsStep, PTL DEF Spec

-----------------------------------------------------------------------------
(* Losing an older connection fails no newer execution.                    *)

(* A claim, a save and an UPDATE leave the row with a connection that is   *)
(* the newest or excused, and so is every one that is going offline.       *)
LEMMA KnownStep ==
    TypeOK /\ OwnerKnown /\ OfflineKnown /\ [Next]_vars => OwnerKnown' /\ OfflineKnown'
<1> SUFFICES ASSUME TypeOK, OwnerKnown, OfflineKnown, [Next]_vars
             PROVE  OwnerKnown' /\ OfflineKnown'
    OBVIOUS
<1> USE DEF TypeOK, OwnerKnown, OfflineKnown, GoingOffline, rowVars, connVars, jobVars, history
<1>1. ASSUME NEW c \in Channels, Joins(c) \/ LastAges(c) \/ Disconnects(c) \/ PeerGone(c)
      PROVE  OwnerKnown' /\ OfflineKnown'
    BY <1>1 DEF Joins, LastAges, Disconnects, PeerGone
<1>2. ASSUME NEW c \in Channels, Claims(c) \/ Registers(c) \/ Beat(c)
      PROVE  OwnerKnown' /\ OfflineKnown'
    BY <1>2 DEF Claims, Registers, Beat
<1>3. ASSUME NEW c \in Channels, Leaves(c) \/ LeftFails(c)
      PROVE  OwnerKnown' /\ OfflineKnown'
    BY <1>3, SessionAssumption DEF Leaves, Offline, Hits, LeftFails
<1>4. ASSUME NEW c \in Channels, Check(c)
      PROVE  OwnerKnown' /\ OfflineKnown'
    BY <1>4, SessionAssumption
       DEF Check, CheckerAsks, CheckerActs, CheckerFails, Offline, Hits
<1>5. CASE RowAges \/ Sweep
    BY <1>5 DEF RowAges, Sweep, SweepFinds, SweepWrites
<1>6. ASSUME NEW t \in Threads, DispatchReads(t) \/ Dispatch(t)
      PROVE  OwnerKnown' /\ OfflineKnown'
    BY <1>6 DEF DispatchReads, Dispatch, DispatchRuns, DispatchSaves
<1>7. CASE UNCHANGED vars
    BY <1>7 DEF vars
<1> QED
    BY <1>1, <1>2, <1>3, <1>4, <1>5, <1>6, <1>7 DEF Next, Consume

(* A connection that claims later was not among the older ones. *)
LEMMA OlderStep == TypeOK /\ OlderAreOlder /\ [Next]_vars => OlderAreOlder'
<1> SUFFICES ASSUME TypeOK, OlderAreOlder, [Next]_vars PROVE OlderAreOlder'
    OBVIOUS
<1> USE DEF TypeOK, OlderAreOlder, rowVars, connVars, jobVars, history
<1>1. ASSUME NEW c \in Channels, Joins(c) \/ LastAges(c) \/ Disconnects(c) \/ PeerGone(c)
      PROVE  OlderAreOlder'
    BY <1>1 DEF Joins, LastAges, Disconnects, PeerGone
<1>2. ASSUME NEW c \in Channels, Claims(c) \/ Registers(c) \/ Beat(c) \/ Leaves(c)
      PROVE  OlderAreOlder'
    BY <1>2 DEF Claims, Registers, Beat, Leaves
<1>3. ASSUME NEW c \in Channels, LeftFails(c) \/ CheckerFails(c)
      PROVE  OlderAreOlder'
    BY <1>3 DEF LeftFails, CheckerFails, FailRunning
<1>4. ASSUME NEW c \in Channels, CheckerAsks(c) \/ CheckerActs(c)
      PROVE  OlderAreOlder'
    BY <1>4 DEF CheckerAsks, CheckerActs
<1>5. CASE RowAges \/ SweepFinds
    BY <1>5 DEF RowAges, SweepFinds
<1>6. CASE SweepWrites
    <2>1. \A t \in Threads : older'[t] \in {older[t], {}}
        BY <1>6 DEF SweepWrites, FailRunning
    <2> QED
        BY <1>6, <2>1 DEF SweepWrites
<1>7. ASSUME NEW t \in Threads, DispatchReads(t) \/ Dispatch(t)
      PROVE  OlderAreOlder'
    BY <1>7 DEF DispatchReads, Dispatch, DispatchRuns, DispatchSaves
<1>8. CASE UNCHANGED vars
    BY <1>8 DEF vars
<1> QED
    BY <1>1, <1>2, <1>3, <1>4, <1>5, <1>6, <1>7, <1>8 DEF Next, Consume, Check, Sweep

(* So no connection that fails executions is older than one of them. *)
LEMMA WrongedStep ==
    TypeOK /\ OfflineKnown /\ OlderAreOlder /\ NewTasksSurvive /\ [Next]_vars
        => NewTasksSurvive'
<1> SUFFICES ASSUME TypeOK, OfflineKnown, OlderAreOlder, NewTasksSurvive, [Next]_vars
             PROVE  wronged' = {}
    BY DEF NewTasksSurvive
<1>1. wronged = {}
    BY DEF NewTasksSurvive
<1>2. ASSUME NEW c \in Channels, LeftFails(c) \/ CheckerFails(c)
      PROVE  wronged' = {}
    <2>1. c = newest \/ c \in excused
        BY <1>2 DEF OfflineKnown, GoingOffline, LeftFails, CheckerFails
    <2>2. \A t \in Threads : c \notin older[t] \ excused
        BY <2>1 DEF OlderAreOlder
    <2> QED
        BY <1>1, <1>2, <2>2 DEF LeftFails, CheckerFails, FailRunning, Running
<1>3. CASE SweepWrites
    <2>1. \A t \in Threads : NoChannel \notin older[t]
        BY SessionAssumption DEF TypeOK
    <2> QED
        BY <1>1, <1>3, <2>1 DEF SweepWrites, FailRunning, Running
<1>4. ASSUME ~SweepWrites, \A c \in Channels : ~LeftFails(c) /\ ~CheckerFails(c)
      PROVE  wronged' = {}
    BY <1>1, <1>4
       DEF Next, vars, Joins, LastAges, Disconnects, PeerGone, Consume, Claims, Registers, Beat,
           Leaves, Check, CheckerAsks, CheckerActs, RowAges, Sweep, SweepFinds, DispatchReads,
           Dispatch, DispatchRuns, DispatchSaves
<1> QED
    BY <1>2, <1>3, <1>4

(* The loss of a connection fails no execution that was dispatched under a *)
(* newer one, but for the losses that had begun when the newer one claimed *)
(* the worker and those of a connection that agent.save() made the owner   *)
(* again.                                                                  *)
THEOREM NewTasksAlwaysSurvive == Spec => []NewTasksSurvive
<1>1. Init => SurvivalInv
    BY DEF Init, SurvivalInv, OwnerKnown, OfflineKnown, GoingOffline, OlderAreOlder,
           NewTasksSurvive
<1>2. TypeOK /\ SurvivalInv /\ [Next]_vars => SurvivalInv'
    BY KnownStep, OlderStep, WrongedStep DEF SurvivalInv
<1>3. SurvivalInv => NewTasksSurvive
    BY DEF SurvivalInv
<1> QED
    BY <1>1, <1>2, <1>3, TypeCorrect, PTL DEF Spec
=============================================================================
