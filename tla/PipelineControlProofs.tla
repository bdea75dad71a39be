------------------------ MODULE PipelineControlProofs ------------------------
(* Proofs about PipelineControl, for any graph, any number of retries,     *)
(* recoveries, iterations and hanging nodes.                               *)
EXTENDS PipelineControl, SequenceTheorems, TLAPS

-----------------------------------------------------------------------------
(* Type correctness.  What may follow a node is only known for the nodes   *)
(* of the graph, so the node being run has to be one.                      *)
NodeInHand == pc \in {"await", "grace", "record"} => current \in Nodes

TypeInv == TypeOK /\ NodeInHand

(* Setting a field of the history, or of the node being run, keeps its type. *)
LEMMA SeenFields ==
    ASSUME NEW s \in SeenType
    PROVE  /\ \A v \in 0..2 : [s EXCEPT !.afterCancel = v] \in SeenType
           /\ \A v \in 0..2 : [s EXCEPT !.afterPause = v] \in SeenType
           /\ \A v \in BOOLEAN : [s EXCEPT !.cancelled = v] \in SeenType
           /\ \A v \in BOOLEAN : [s EXCEPT !.cancelLost = v] \in SeenType
           /\ \A v \in BOOLEAN : [s EXCEPT !.resumeLost = v] \in SeenType
           /\ \A v \in BOOLEAN : [s EXCEPT !.cut = v] \in SeenType
           /\ \A v \in BOOLEAN : [s EXCEPT !.flagLeft = v] \in SeenType
BY ZenonT(60) DEF SeenType

LEMMA RunningFields ==
    ASSUME NEW b \in Running
    PROVE  /\ b.id \in Nat /\ b.node \in Nodes /\ b.ok \in BOOLEAN /\ b.cut \in BOOLEAN
           /\ b.tries \in Nat /\ b.tries + 1 \in Nat
           /\ \A v \in {"pre", "execute", "retry", "post", "hung"} :
                  [b EXCEPT !.phase = v] \in Running
           /\ \A v \in Nat : [b EXCEPT !.tries = v] \in Running
           /\ \A v \in BOOLEAN : [b EXCEPT !.ok = v] \in Running
           /\ \A v \in BOOLEAN : [b EXCEPT !.cut = v] \in Running
<1>1. /\ b.id \in Nat /\ b.node \in Nodes /\ b.ok \in BOOLEAN /\ b.cut \in BOOLEAN
      /\ b.tries \in Nat
    BY DEF Running
<1>2. b.tries + 1 \in Nat
    BY <1>1
<1> QED
    BY <1>1, <1>2, ZenonT(60) DEF Running

(* The node at the head of the queue begins as one that was not cut short. *)
LEMMA BegunFields ==
    ASSUME TypeOK, queue # <<>>
    PROVE  /\ Tail(queue) \in Seq(Job)
           /\ Begun(Head(queue)) \in Running
           /\ Begun(Head(queue)).id = Head(queue).id
           /\ Begun(Head(queue)).cut = FALSE
<1>1. Head(queue) \in Job /\ Tail(queue) \in Seq(Job)
    BY DEF TypeOK
<1> QED
    BY <1>1 DEF Job, Running, Begun, Phase

(* A node that ends hands over its outcome or nothing. *)
LEMMA FinishType ==
    ASSUME TypeOK, NEW job, job.cut \in BOOLEAN, NEW outcome \in {"ok", "failed", "raised"},
           NEW h \in SeenType, Finish(job, outcome, h)
    PROVE  /\ busy' \in Running \cup {Idle}
           /\ future' \in {"none", "ok", "failed", "raised"}
           /\ seen' \in SeenType
<1>1. [h EXCEPT !.cut = job.cut] \in SeenType
    BY SeenFields
<1>2. seen' \in {[h EXCEPT !.cut = job.cut], h}
    BY Zenon DEF Finish
<1>3. future' \in {outcome, future} /\ busy' = Idle
    BY Zenon DEF Finish
<1> QED
    BY <1>1, <1>2, <1>3 DEF TypeOK

(* The thread of execute() keeps the types up to the node. *)
LEMMA TypeLoop ==
    ASSUME TypeInv,
           \/ Invalid \/ Begin \/ ClearCancel \/ ClearPause
           \/ LoopEnds \/ LoopCancelled \/ LoopGoesOn
           \/ PauseTest \/ PauseBody \/ SetPaused
           \/ NodeMissing \/ SkipNode \/ SubmitNode
    PROVE  TypeInv'
<1> USE PipelineAssumption DEF TypeInv, TypeOK, NodeInHand, PipelineState, Final, Return,
        events, walk, pool, window
<1>1. CASE Invalid \/ Begin
    BY <1>1 DEF Invalid, Begin
<1>2. CASE ClearCancel
    <2>1. seen' \in SeenType
        BY <1>2, SeenFields, Zenon DEF ClearCancel
    <2>2. cancelEvent' \in BOOLEAN
        BY <1>2, Zenon DEF ClearCancel
    <2> QED
        BY <1>2, <2>1, <2>2 DEF ClearCancel
<1>3. CASE ClearPause
    <2>1. seen' \in SeenType
        BY <1>3, SeenFields, Zenon DEF ClearPause
    <2>2. pauseEvent' \in BOOLEAN
        BY <1>3, Zenon DEF ClearPause
    <2> QED
        BY <1>3, <2>1, <2>2 DEF ClearPause
<1>4. CASE LoopEnds
    BY <1>4 DEF LoopEnds
<1>5. CASE LoopCancelled \/ LoopGoesOn
    BY <1>5 DEF LoopCancelled, LoopGoesOn, NextRound
<1>6. CASE PauseTest \/ PauseBody \/ SetPaused \/ NodeMissing
    BY <1>6 DEF PauseTest, PauseBody, SetPaused, NodeMissing
<1>7. CASE SkipNode
    BY <1>7 DEF SkipNode
<1>8. CASE SubmitNode
    <2>1. [id |-> iteration, node |-> current] \in Job
        BY <1>8 DEF SubmitNode, Job
    <2>2. queue' \in Seq(Job)
        BY <1>8, <2>1 DEF SubmitNode
    <2>3. /\ More(seen.afterPause) \in 0..2
          /\ (IF seen.cancelled THEN More(seen.afterCancel) ELSE seen.afterCancel) \in 0..2
        BY DEF SeenType, More
    <2>4. seen' \in SeenType
        BY <1>8, <2>3, SeenFields, Zenon DEF SubmitNode
    <2> QED
        BY <1>8, <2>2, <2>4 DEF SubmitNode
<1> QED
    BY <1>1, <1>2, <1>3, <1>4, <1>5, <1>6, <1>7, <1>8

(* So does what it makes of the node. *)
LEMMA TypeNodeDone ==
    ASSUME TypeInv,
           \/ NodeDone \/ StepTimeout \/ GraceOver
           \/ Recovered \/ NodeFatal \/ Breaks \/ CancelledAfterNode \/ StopRequested
           \/ NextNode \/ StopMonitor \/ ReportResult
    PROVE  TypeInv'
<1> USE PipelineAssumption DEF TypeInv, TypeOK, NodeInHand, PipelineState, Final, Return,
        events, walk, pool, window
<1>1. CASE NodeDone
    <2>1. result' \in {"ok", "failed"}
        BY <1>1 DEF NodeDone
    <2> QED
        BY <1>1, <2>1 DEF NodeDone
<1>8. CASE StepTimeout
    BY <1>8 DEF StepTimeout
<1>2. CASE GraceOver
    <2>1. seen' \in SeenType
        BY <1>2, SeenFields, Zenon DEF GraceOver
    <2> QED
        BY <1>2, <2>1 DEF GraceOver
<1>3. CASE Recovered
    BY <1>3 DEF Recovered
<1>4. CASE NodeFatal \/ Breaks \/ CancelledAfterNode \/ StopRequested
    <2>1. stopAsked' \in BOOLEAN
        BY <1>4, Zenon DEF NodeFatal, Breaks, CancelledAfterNode, StopRequested
    <2> QED
        BY <1>4, <2>1 DEF NodeFatal, Breaks, CancelledAfterNode, StopRequested
<1>5. CASE NextNode
    BY <1>5 DEF NextNode
<1>6. CASE StopMonitor
    BY <1>6 DEF StopMonitor
<1>7. CASE ReportResult
    BY <1>7 DEF ReportResult
<1> QED
    BY <1>1, <1>2, <1>3, <1>4, <1>5, <1>6, <1>7, <1>8

(* The node that begins or goes on. *)
LEMMA TypeNodeGoesOn ==
    ASSUME TypeInv, StartNode \/ NodeRetries \/ NodeHangs
    PROVE  TypeInv'
<1> USE DEF TypeInv, TypeOK, NodeInHand, events, walk, pool, window, InPool, Executing
<1>1. CASE StartNode
    <2>1. queue' \in Seq(Job) /\ busy' \in Running
        BY <1>1, BegunFields DEF StartNode
    <2> QED
        BY <1>1, <2>1 DEF StartNode
<1>2. CASE NodeRetries
    <2>1. busy' \in Running
        BY <1>2, RunningFields, Zenon DEF NodeRetries
    <2> QED
        BY <1>2, <2>1 DEF NodeRetries
<1>3. CASE NodeHangs
    <2>1. busy' \in Running
        BY <1>3, RunningFields, Zenon DEF NodeHangs
    <2> QED
        BY <1>3, <2>1, PipelineAssumption DEF NodeHangs
<1> QED
    BY <1>1, <1>2, <1>3

(* The node that ends, or whose delay does. *)
LEMMA ConcludeType ==
    ASSUME TypeOK, NEW job \in Running, Conclude(job)
    PROVE  /\ busy' \in Running \cup {Idle}
           /\ future' \in {"none", "ok", "failed", "raised"}
           /\ seen' \in SeenType
<1>1. [job EXCEPT !.phase = "post"] \in Running /\ job.cut \in BOOLEAN
    BY RunningFields
<1>2. Outcome(job) \in {"ok", "failed", "raised"}
    BY DEF Outcome
<1>3. CASE job.node \in PostDelay
    <2>1. busy' = [job EXCEPT !.phase = "post"] /\ future' = future /\ seen' = seen
        BY <1>3, Zenon DEF Conclude
    <2> QED
        BY <1>1, <2>1 DEF TypeOK
<1>4. CASE job.node \notin PostDelay
    <2>1. Finish(job, Outcome(job), seen) /\ seen \in SeenType
        BY <1>4, Zenon DEF Conclude, TypeOK
    <2> QED
        BY <1>1, <1>2, <2>1, FinishType
<1> QED
    BY <1>3, <1>4

LEMMA AfterDelayType ==
    ASSUME TypeOK, NEW job \in Running, NEW h \in SeenType, AfterDelay(job, h)
    PROVE  /\ busy' \in Running \cup {Idle}
           /\ future' \in {"none", "ok", "failed", "raised"}
           /\ seen' \in SeenType
<1>1. [job EXCEPT !.phase = "execute"] \in Running /\ job.cut \in BOOLEAN
    BY RunningFields
<1>2. Outcome(job) \in {"ok", "failed", "raised"}
    BY DEF Outcome
<1>3. CASE job.phase = "post"
    <2>1. Finish(job, Outcome(job), h)
        BY <1>3, Zenon DEF AfterDelay
    <2> QED
        BY <1>1, <1>2, <2>1, FinishType
<1>4. CASE job.phase # "post"
    <2>1. busy' = [job EXCEPT !.phase = "execute"] /\ future' = future /\ seen' = h
        BY <1>4, Zenon DEF AfterDelay
    <2> QED
        BY <1>1, <2>1 DEF TypeOK
<1> QED
    BY <1>3, <1>4

LEMMA TypeNodeEnds ==
    ASSUME TypeInv,
           \/ PreVerifyFails \/ NodeSucceeds \/ NodeFails \/ NodeRaises
           \/ DelayEnds \/ DelayCancelled \/ DelayCut
    PROVE  TypeInv'
<1> USE DEF TypeInv
<1> DEFINE Kept == /\ busy' \in Running \cup {Idle}
                   /\ future' \in {"none", "ok", "failed", "raised"}
                   /\ seen' \in SeenType
<1>1. CASE PreVerifyFails
    <2>1. /\ Finish(Begun(Head(queue)), "failed", seen) /\ seen \in SeenType
          /\ Begun(Head(queue)).cut \in BOOLEAN
        BY <1>1, BegunFields DEF PreVerifyFails, TypeOK
    <2>2. Kept
        BY <2>1, FinishType
    <2>3. queue' \in Seq(Job)
        BY <1>1, BegunFields DEF PreVerifyFails
    <2> QED
        BY <1>1, <2>2, <2>3
           DEF PreVerifyFails, TypeOK, NodeInHand, events, walk, window
<1>2. CASE NodeSucceeds
    <2>1. [busy EXCEPT !.ok = TRUE] \in Running
        BY <1>2, RunningFields DEF NodeSucceeds, Executing, TypeOK
    <2>2. Kept
        BY <1>2, <2>1, ConcludeType DEF NodeSucceeds
    <2>3. stopAsked' \in BOOLEAN
        BY <1>2 DEF NodeSucceeds, TypeOK
    <2> QED
        BY <1>2, <2>2, <2>3 DEF NodeSucceeds, InPool, TypeOK, NodeInHand, walk, window
<1>3. CASE NodeFails
    <2>1. [busy EXCEPT !.ok = FALSE, !.cut = @ \/ stepCancel] \in Running
        BY <1>3, RunningFields, Zenon DEF NodeFails, Executing, TypeOK
    <2>2. Kept
        BY <1>3, <2>1, ConcludeType DEF NodeFails
    <2> QED
        BY <1>3, <2>2 DEF NodeFails, InPool, TypeOK, NodeInHand, walk, window
<1>4. CASE NodeRaises
    <2>1. busy.cut \in BOOLEAN
        BY <1>4, RunningFields DEF NodeRaises, Executing, TypeOK
    <2>2. Kept
        BY <1>4, <2>1, FinishType DEF NodeRaises, TypeOK
    <2> QED
        BY <1>4, <2>2 DEF NodeRaises, InPool, TypeOK, NodeInHand, walk, window
<1>5. CASE DelayEnds
    <2>1. Kept
        BY <1>5, AfterDelayType DEF DelayEnds, Delaying, TypeOK
    <2> QED
        BY <1>5, <2>1 DEF DelayEnds, InPool, TypeOK, NodeInHand, walk, window
<1>6. CASE DelayCancelled
    <2>1. [seen EXCEPT !.cancelLost = TRUE] \in SeenType
        BY SeenFields DEF TypeOK
    <2>2. Kept
        BY <1>6, <2>1, AfterDelayType DEF DelayCancelled, Delaying, TypeOK
    <2>3. cancelEvent' \in BOOLEAN
        BY <1>6, Zenon DEF DelayCancelled
    <2> QED
        BY <1>6, <2>2, <2>3 DEF DelayCancelled, InPool, TypeOK, NodeInHand, walk, window
<1>7. CASE DelayCut
    <2>1. [busy EXCEPT !.cut = TRUE] \in Running
        BY <1>7, RunningFields DEF DelayCut, Delaying, TypeOK
    <2>2. Kept
        BY <1>7, <2>1, AfterDelayType DEF DelayCut, TypeOK
    <2> QED
        BY <1>7, <2>2 DEF DelayCut, InPool, TypeOK, NodeInHand, walk, window
<1> QED
    BY <1>1, <1>2, <1>3, <1>4, <1>5, <1>6, <1>7

(* The monitor keeps the types. *)
LEMMA TypeMonitor ==
    ASSUME TypeInv, Monitor \/ SwitchWindow
    PROVE  TypeInv'
<1> USE DEF TypeInv, TypeOK, NodeInHand, InMonitor, PipelineState, Final, events, walk, pool,
        window
<1>1. CASE MonitorWakes
    BY <1>1 DEF MonitorWakes
<1>2. CASE Poll
    <2>1. PICK answer \in {foreground, TRUE} :
              \/ PollLost(answer) \/ PollRegained(answer)
              \/ PollExpired(answer) \/ PollNothing(answer)
        BY <1>2 DEF Poll
    <2>2. seen' \in SeenType
        BY <2>1, SeenFields, Zenon DEF PollLost, PollRegained, PollExpired, PollNothing
    <2>3. paused' \in BOOLEAN
        BY <2>1 DEF PollLost, PollRegained, PollExpired, PollNothing
    <2>4. monitor' \in {"wait", "pauseSet", "resumeClear", "cancelSet"}
        BY <2>1, Zenon DEF PollLost, PollRegained, PollExpired, PollNothing
    <2> QED
        BY <1>2, <2>2, <2>3, <2>4 DEF Poll
<1>3. CASE PauseSets
    <2>1. 0 \in 0..2
        OBVIOUS
    <2>2. seen' \in SeenType
        BY <1>3, <2>1, SeenFields, Zenon DEF PauseSets
    <2> QED
        BY <1>3, <2>2 DEF PauseSets
<1>4. CASE PauseStates \/ ResumeStates
    <2>1. paused' \in BOOLEAN
        BY <1>4, Zenon DEF PauseStates, ResumeStates
    <2> QED
        BY <1>4, <2>1 DEF PauseStates, ResumeStates
<1>5. CASE ResumeClears
    <2>1. seen' \in SeenType
        BY <1>5, SeenFields, Zenon DEF ResumeClears
    <2>2. pauseEvent' \in BOOLEAN
        BY <1>5, Zenon DEF ResumeClears
    <2> QED
        BY <1>5, <2>1, <2>2 DEF ResumeClears
<1>6. CASE CancelSets
    <2>1. 0 \in 0..2
        OBVIOUS
    <2>2. seen' \in SeenType
        BY <1>6, <2>1, SeenFields, Zenon DEF CancelSets
    <2> QED
        BY <1>6, <2>2 DEF CancelSets
<1>7. CASE CancelClears
    <2>1. seen' \in SeenType
        BY <1>7, SeenFields, Zenon DEF CancelClears
    <2>2. pauseEvent' \in BOOLEAN
        BY <1>7, Zenon DEF CancelClears
    <2> QED
        BY <1>7, <2>1, <2>2 DEF CancelClears
<1>8. CASE CancelStates
    BY <1>8 DEF CancelStates
<1>9. CASE ReportExpired
    BY <1>9 DEF ReportExpired
<1>10. CASE SwitchWindow
    BY <1>10 DEF SwitchWindow
<1> QED
    BY <1>1, <1>2, <1>3, <1>4, <1>5, <1>6, <1>7, <1>8, <1>9, <1>10 DEF Monitor

LEMMA TypeStep == TypeInv /\ [Next]_vars => TypeInv'
<1> SUFFICES ASSUME TypeInv, [Next]_vars PROVE TypeInv'
    OBVIOUS
<1>1. CASE Execute
    BY <1>1, TypeLoop, TypeNodeDone DEF Execute
<1>2. CASE RunNode \/ NodeHangs
    BY <1>2, TypeNodeGoesOn, TypeNodeEnds DEF RunNode
<1>3. CASE Monitor \/ SwitchWindow
    BY <1>3, TypeMonitor
<1>4. CASE UNCHANGED vars
    BY <1>4 DEF vars, TypeInv, TypeOK, NodeInHand
<1> QED
    BY <1>1, <1>2, <1>3, <1>4 DEF Next

LEMMA TypeInit == Init => TypeInv
<1> SUFFICES ASSUME Init PROVE TypeInv
    OBVIOUS
<1>1. recoveries \in [Nodes -> 0..MaxRecoveries] /\ iteration \in 0..MaxIterations
    BY PipelineAssumption DEF Init
<1>2. seen \in SeenType
    BY DEF Init, SeenType
<1>3. /\ monitor \in {"poll", "off"} /\ foreground \in BOOLEAN
      /\ cancelEvent \in BOOLEAN /\ pauseEvent \in BOOLEAN /\ stepCancel \in BOOLEAN
      /\ stopAsked \in BOOLEAN /\ paused \in BOOLEAN
    BY Zenon DEF Init
<1>4. queue \in Seq(Job) /\ reports \in Seq(BOOLEAN) /\ hangs \in 0..MaxHangs
    BY PipelineAssumption DEF Init
<1> QED
    BY <1>1, <1>2, <1>3, <1>4, PipelineAssumption DEF Init, TypeInv, TypeOK, NodeInHand, PipelineState, Final

LEMMA TypeInvariant == Spec => []TypeInv
BY TypeInit, TypeStep, PTL DEF Spec

(* Every variable keeps its type; the loop goes round at most              *)
(* MaxIterations times, and no node is recovered more often than allowed.  *)
THEOREM TypeCorrect == Spec => []TypeOK
BY TypeInvariant, PTL DEF TypeInv

-----------------------------------------------------------------------------
(* What the steps of each thread do to the history.                        *)

LEMMA SeenBySubmit ==
    ASSUME TypeInv, SubmitNode
    PROVE  /\ seen'.afterCancel = IF seen.cancelled THEN More(seen.afterCancel)
                                  ELSE seen.afterCancel
           /\ seen'.afterPause = More(seen.afterPause)
           /\ seen'.cut = FALSE
           /\ seen'.cancelled = seen.cancelled /\ seen'.cancelLost = seen.cancelLost
           /\ seen'.flagLeft = seen.flagLeft
BY Zenon DEF SubmitNode, TypeInv, TypeOK, SeenType

LEMMA SeenByExecute ==
    ASSUME TypeInv, Execute, ~SubmitNode
    PROVE  /\ seen'.afterCancel = seen.afterCancel /\ seen'.afterPause = seen.afterPause
           /\ seen'.cancelled = seen.cancelled /\ seen'.cut = seen.cut
           /\ ClearCancel \/ seen'.cancelLost = seen.cancelLost
           /\ ClearCancel => seen'.cancelLost = (seen.cancelLost \/ cancelEvent)
           /\ GraceOver \/ seen'.flagLeft = seen.flagLeft
           /\ GraceOver => seen'.flagLeft = (seen.flagLeft \/ future = "raised")
<1>1. CASE ClearCancel
    <2>1. ~GraceOver
        BY <1>1 DEF ClearCancel, GraceOver
    <2> QED
        BY <1>1, <2>1, Zenon DEF ClearCancel, TypeInv, TypeOK, SeenType
<1>2. CASE GraceOver
    <2>1. ~ClearCancel
        BY <1>2 DEF ClearCancel, GraceOver
    <2> QED
        BY <1>2, <2>1, Zenon DEF GraceOver, TypeInv, TypeOK, SeenType
<1>3. CASE ClearPause
    <2>1. ~ClearCancel /\ ~GraceOver
        BY <1>3 DEF ClearCancel, GraceOver, ClearPause
    <2> QED
        BY <1>3, <2>1, Zenon DEF ClearPause, TypeInv, TypeOK, SeenType
<1>4. CASE ~ClearCancel /\ ~GraceOver /\ ~ClearPause
    <2>1. seen' = seen
        BY <1>4, Zenon
           DEF Execute, Invalid, Begin, LoopEnds, LoopCancelled, LoopGoesOn, PauseTest, PauseBody,
               SetPaused, NodeMissing, SkipNode, NodeDone, StepTimeout, Recovered, NodeFatal,
               Breaks, CancelledAfterNode, StopRequested, NextNode, StopMonitor, ReportResult
    <2> QED
        BY <1>4, <2>1
<1> QED
    BY <1>1, <1>2, <1>3, <1>4

(* The end of a node may mark it as cut short and changes nothing else. *)
LEMMA SeenByFinish ==
    ASSUME NEW job, NEW outcome, NEW h \in SeenType, Finish(job, outcome, h)
    PROVE  /\ seen'.afterCancel = h.afterCancel /\ seen'.afterPause = h.afterPause
           /\ seen'.cancelled = h.cancelled /\ seen'.cancelLost = h.cancelLost
           /\ seen'.flagLeft = h.flagLeft
           /\ job.id = iteration /\ pc \in {"await", "grace"} => seen'.cut = job.cut
           /\ ~(job.id = iteration /\ pc \in {"await", "grace"}) => seen'.cut = h.cut
<1>1. CASE job.id = iteration /\ pc \in {"await", "grace"}
    <2>1. seen' = [h EXCEPT !.cut = job.cut]
        BY <1>1, Zenon DEF Finish
    <2> QED
        BY <1>1, <2>1, Zenon DEF SeenType
<1>2. CASE ~(job.id = iteration /\ pc \in {"await", "grace"})
    <2>1. seen' = h
        BY <1>2, Zenon DEF Finish
    <2> QED
        BY <1>2, <2>1
<1> QED
    BY <1>1, <1>2

LEMMA SeenByNode ==
    ASSUME TypeInv, RunNode \/ NodeHangs
    PROVE  /\ seen'.afterCancel = seen.afterCancel /\ seen'.afterPause = seen.afterPause
           /\ seen'.cancelled = seen.cancelled /\ seen'.flagLeft = seen.flagLeft
           /\ \/ seen'.cancelLost = seen.cancelLost /\ cancelEvent' = cancelEvent
              \/ seen'.cancelLost = TRUE
<1>1. seen \in SeenType
    BY DEF TypeInv, TypeOK
<1>2. ASSUME NEW h \in SeenType, seen' = h \/ \E job, o : Finish(job, o, h)
      PROVE  /\ seen'.afterCancel = h.afterCancel /\ seen'.afterPause = h.afterPause
             /\ seen'.cancelled = h.cancelled /\ seen'.flagLeft = h.flagLeft
             /\ seen'.cancelLost = h.cancelLost
    BY <1>2, SeenByFinish
<1>3. CASE StartNode \/ NodeRetries \/ NodeHangs
    <2>1. seen' = seen /\ cancelEvent' = cancelEvent
        BY <1>3, Zenon DEF StartNode, NodeRetries, NodeHangs, InPool, events
    <2> QED
        BY <2>1
<1>4. CASE PreVerifyFails \/ NodeSucceeds \/ NodeFails \/ NodeRaises \/ DelayEnds \/ DelayCut
    <2>1. seen' = seen \/ \E job, o : Finish(job, o, seen)
        BY <1>4, Zenon DEF PreVerifyFails, NodeSucceeds, NodeFails, NodeRaises, DelayEnds, DelayCut,
                           Conclude, AfterDelay
    <2>2. cancelEvent' = cancelEvent
        BY <1>4, Zenon DEF PreVerifyFails, NodeSucceeds, NodeFails, NodeRaises, DelayEnds, DelayCut,
                           InPool, events
    <2> QED
        BY <1>1, <1>2, <2>1, <2>2
<1>5. CASE DelayCancelled
    <2> DEFINE lost == [seen EXCEPT !.cancelLost = TRUE]
    <2>1. seen' = lost \/ \E job, o : Finish(job, o, lost)
        BY <1>5, Zenon DEF DelayCancelled, AfterDelay
    <2>2. lost \in SeenType
        BY <1>1, SeenFields
    <2>3. /\ lost.afterCancel = seen.afterCancel /\ lost.afterPause = seen.afterPause
          /\ lost.cancelled = seen.cancelled /\ lost.flagLeft = seen.flagLeft
          /\ lost.cancelLost = TRUE
        BY <1>1, Zenon DEF SeenType
    <2> HIDE DEF lost
    <2> QED
        BY <1>2, <2>1, <2>2, <2>3
<1> QED
    BY <1>3, <1>4, <1>5 DEF RunNode

LEMMA SeenByMonitor ==
    ASSUME TypeInv, Monitor \/ SwitchWindow
    PROVE  /\ seen'.cancelLost = seen.cancelLost /\ seen'.flagLeft = seen.flagLeft
           /\ seen'.cut = seen.cut
           /\ PauseSets \/ seen'.afterPause = seen.afterPause
           /\ PauseSets => seen'.afterPause = 0
           /\ CancelSets \/ (seen'.afterCancel = seen.afterCancel
                               /\ seen'.cancelled = seen.cancelled)
           /\ CancelSets => seen'.afterCancel = 0 /\ seen'.cancelled = TRUE
<1>1. seen \in SeenType
    BY DEF TypeInv, TypeOK
<1>2. CASE PauseSets
    <2>1. ~CancelSets
        BY <1>2 DEF PauseSets, CancelSets
    <2> QED
        BY <1>1, <1>2, <2>1, Zenon DEF PauseSets, SeenType
<1>3. CASE CancelSets
    <2>1. ~PauseSets
        BY <1>3 DEF PauseSets, CancelSets
    <2> QED
        BY <1>1, <1>3, <2>1, Zenon DEF CancelSets, SeenType
<1>4. CASE ~PauseSets /\ ~CancelSets
    <2>1. \/ seen' = seen
          \/ \E v : seen' = [seen EXCEPT !.resumeLost = v]
        BY <1>4, Zenon
           DEF Monitor, MonitorWakes, Poll, PollLost, PollRegained, PollExpired, PollNothing,
               PauseStates, ResumeClears, ResumeStates, CancelClears, CancelStates, ReportExpired,
               SwitchWindow
    <2> QED
        BY <1>1, <1>4, <2>1, Zenon DEF SeenType
<1> QED
    BY <1>2, <1>3, <1>4

-----------------------------------------------------------------------------
(* After a cancel at most one node begins.                                 *)

(* Between the check of the cancel event and the submission of the node no *)
(* node has been begun since the cancel.                                   *)
PastTheCheck == pc \in {"pauseTest", "pauseBody", "setPaused", "unpaused"}

CancelInv ==
    seen.cancelled /\ ~seen.cancelLost =>
        cancelEvent /\ seen.afterCancel <= 1 /\ (PastTheCheck => seen.afterCancel = 0)

LEMMA CancelStep == TypeInv /\ CancelInv /\ [Next]_vars => CancelInv'
<1> SUFFICES ASSUME TypeInv, CancelInv, [Next]_vars, seen'.cancelled, ~seen'.cancelLost
             PROVE  /\ cancelEvent' /\ seen'.afterCancel <= 1
                    /\ PastTheCheck' => seen'.afterCancel = 0
    BY DEF CancelInv
<1>1. CASE Execute /\ ~SubmitNode
    <2>1. seen.cancelled /\ ~seen.cancelLost /\ ~ClearCancel
        BY <1>1, SeenByExecute DEF CancelInv
    <2>2. cancelEvent /\ seen'.afterCancel <= 1 /\ (PastTheCheck => seen'.afterCancel = 0)
        BY <1>1, <2>1, SeenByExecute DEF CancelInv
    <2>3. cancelEvent' = cancelEvent
        BY <1>1, <2>1, Zenon
           DEF Execute, Invalid, Begin, ClearPause, LoopEnds, LoopCancelled, LoopGoesOn, PauseTest,
               PauseBody, SetPaused, NodeMissing, SkipNode, NodeDone, StepTimeout, GraceOver,
               Recovered, NodeFatal, Breaks, CancelledAfterNode, StopRequested, NextNode,
               StopMonitor, ReportResult, events
    <2>4. PastTheCheck' => PastTheCheck
        BY <1>1, <2>1, <2>2
           DEF PastTheCheck, Execute, Invalid, Begin, ClearPause, LoopEnds, LoopCancelled,
               LoopGoesOn, PauseTest, PauseBody, SetPaused, NodeMissing, SkipNode, NodeDone,
               StepTimeout, GraceOver, Recovered, NodeFatal, Breaks, CancelledAfterNode,
               StopRequested, NextNode, StopMonitor, ReportResult, Return
    <2> QED
        BY <2>2, <2>3, <2>4
<1>2. CASE SubmitNode
    <2>1. PastTheCheck /\ ~PastTheCheck' /\ cancelEvent' = cancelEvent
        BY <1>2 DEF SubmitNode, PastTheCheck, events
    <2>2. seen.cancelled /\ ~seen.cancelLost
        BY <1>2, SeenBySubmit
    <2>3. cancelEvent /\ seen.afterCancel = 0
        BY <2>1, <2>2 DEF CancelInv
    <2>4. seen'.afterCancel = More(0)
        BY <1>2, <2>2, <2>3, SeenBySubmit
    <2> QED
        BY <2>1, <2>3, <2>4 DEF More
<1>3. CASE RunNode \/ NodeHangs
    <2>1. seen.cancelled /\ ~seen.cancelLost /\ cancelEvent' = cancelEvent
          /\ seen'.afterCancel = seen.afterCancel
        BY <1>3, SeenByNode
    <2>2. pc' = pc
        BY <1>3, Zenon
           DEF RunNode, StartNode, PreVerifyFails, NodeSucceeds, NodeFails, NodeRaises, NodeRetries,
               NodeHangs, DelayEnds, DelayCancelled, DelayCut, InPool
    <2> QED
        BY <2>1, <2>2 DEF CancelInv, PastTheCheck
<1>4. CASE CancelSets
    BY <1>4, SeenByMonitor DEF CancelSets, Monitor
<1>5. CASE (Monitor \/ SwitchWindow) /\ ~CancelSets
    <2>1. seen.cancelled /\ ~seen.cancelLost /\ seen'.afterCancel = seen.afterCancel
        BY <1>5, SeenByMonitor
    <2>2. pc' = pc /\ cancelEvent' = cancelEvent
        BY <1>5, Zenon
           DEF Monitor, MonitorWakes, Poll, PauseSets, PauseStates, ResumeClears, ResumeStates,
               CancelClears, CancelStates, ReportExpired, SwitchWindow, InMonitor, events
    <2> QED
        BY <2>1, <2>2 DEF CancelInv, PastTheCheck
<1>6. CASE UNCHANGED vars
    BY <1>6 DEF vars, CancelInv, PastTheCheck
<1> QED
    BY <1>1, <1>2, <1>3, <1>4, <1>5, <1>6 DEF Next

(* Unless somebody else clears the event, at most one node begins after    *)
(* cancel(), whatever the node, the delays and the pauses are doing.       *)
THEOREM CancelIsBounded == Spec => []CancelBounded
<1>1. Init => CancelInv
    BY DEF Init, CancelInv
<1>2. CancelInv => CancelBounded
    BY DEF CancelInv, CancelBounded
<1> QED
    BY <1>1, <1>2, TypeInvariant, CancelStep, PTL DEF Spec

-----------------------------------------------------------------------------
(* After a pause at most one node begins.                                  *)

PauseInv ==
    pauseEvent => seen.afterPause <= 1 /\ (pc = "unpaused" => seen.afterPause = 0)

LEMMA PauseStep == TypeInv /\ PauseInv /\ [Next]_vars => PauseInv'
<1> SUFFICES ASSUME TypeInv, PauseInv, [Next]_vars, pauseEvent'
             PROVE  seen'.afterPause <= 1 /\ (pc' = "unpaused" => seen'.afterPause = 0)
    BY DEF PauseInv
<1>1. CASE Execute /\ ~SubmitNode
    <2>1. seen'.afterPause = seen.afterPause
        BY <1>1, SeenByExecute
    <2>2. pauseEvent
        BY <1>1, Zenon
           DEF Execute, Invalid, Begin, ClearCancel, ClearPause, LoopEnds, LoopCancelled, LoopGoesOn,
               PauseTest, PauseBody, SetPaused, NodeMissing, SkipNode, NodeDone, StepTimeout,
               GraceOver, Recovered, NodeFatal, Breaks, CancelledAfterNode, StopRequested, NextNode,
               StopMonitor, ReportResult, events
    <2>3. pc' # "unpaused"
        BY <1>1, <2>2
           DEF Execute, Invalid, Begin, ClearCancel, ClearPause, LoopEnds, LoopCancelled, LoopGoesOn,
               PauseTest, PauseBody, SetPaused, NodeMissing, SkipNode, NodeDone, StepTimeout,
               GraceOver, Recovered, NodeFatal, Breaks, CancelledAfterNode, StopRequested, NextNode,
               StopMonitor, ReportResult, Return
    <2> QED
        BY <2>1, <2>2, <2>3 DEF PauseInv
<1>2. CASE SubmitNode
    <2>1. pc = "unpaused" /\ pc' = "await" /\ pauseEvent
        BY <1>2 DEF SubmitNode, events
    <2>2. seen.afterPause = 0
        BY <2>1 DEF PauseInv
    <2> QED
        BY <1>2, <2>1, <2>2, SeenBySubmit DEF More
<1>3. CASE RunNode \/ NodeHangs
    <2>1. seen'.afterPause = seen.afterPause
        BY <1>3, SeenByNode
    <2>2. pc' = pc /\ pauseEvent' = pauseEvent
        BY <1>3, Zenon
           DEF RunNode, StartNode, PreVerifyFails, NodeSucceeds, NodeFails, NodeRaises, NodeRetries,
               NodeHangs, DelayEnds, DelayCancelled, DelayCut, InPool, events
    <2> QED
        BY <2>1, <2>2 DEF PauseInv
<1>4. CASE PauseSets
    BY <1>4, SeenByMonitor DEF Monitor
<1>5. CASE (Monitor \/ SwitchWindow) /\ ~PauseSets
    <2>1. seen'.afterPause = seen.afterPause
        BY <1>5, SeenByMonitor
    <2>2. pc' = pc /\ pauseEvent
        BY <1>5, Zenon
           DEF Monitor, MonitorWakes, Poll, PauseStates, ResumeClears, ResumeStates, CancelSets,
               CancelClears, CancelStates, ReportExpired, SwitchWindow, InMonitor, events
    <2> QED
        BY <2>1, <2>2 DEF PauseInv
<1>6. CASE UNCHANGED vars
    BY <1>6 DEF vars, PauseInv
<1> QED
    BY <1>1, <1>2, <1>3, <1>4, <1>5, <1>6 DEF Next

(* While the pause event stays set, at most one node begins after it. *)
THEOREM PauseIsBounded == Spec => []PauseBounded
<1>1. Init => PauseInv
    BY DEF Init, PauseInv
<1>2. PauseInv => PauseBounded
    BY DEF PauseInv, PauseBounded
<1> QED
    BY <1>1, <1>2, TypeInvariant, PauseStep, PTL DEF Spec

-----------------------------------------------------------------------------
(* What the executor's thread does to its queue and to the node it runs.   *)

(* The end of a node is noticed if execute() still waits for that node. *)
EndOf(id) ==
    IF id = iteration /\ pc \in {"await", "grace"} THEN future' # "none" ELSE future' = future

LEMMA FinishMoves ==
    ASSUME NEW job, NEW outcome \in {"ok", "failed", "raised"}, NEW h, Finish(job, outcome, h)
    PROVE  busy' = Idle /\ EndOf(job.id)
BY DEF Finish, EndOf

LEMMA ConcludeMoves ==
    ASSUME NEW job \in Running, Conclude(job)
    PROVE  \/ busy'.id = job.id /\ future' = future
           \/ busy' = Idle /\ EndOf(job.id)
<1>1. CASE job.node \in PostDelay
    <2>1. busy' = [job EXCEPT !.phase = "post"] /\ future' = future
        BY <1>1, Zenon DEF Conclude
    <2> QED
        BY <2>1, Zenon DEF Running
<1>2. CASE job.node \notin PostDelay
    <2>1. Finish(job, Outcome(job), seen) /\ Outcome(job) \in {"ok", "failed", "raised"}
        BY <1>2, Zenon DEF Conclude, Outcome
    <2> QED
        BY <2>1, FinishMoves
<1> QED
    BY <1>1, <1>2

LEMMA AfterDelayMoves ==
    ASSUME NEW job \in Running, NEW h, AfterDelay(job, h)
    PROVE  \/ busy'.id = job.id /\ future' = future
           \/ busy' = Idle /\ EndOf(job.id)
<1>1. CASE job.phase # "post"
    <2>1. busy' = [job EXCEPT !.phase = "execute"] /\ future' = future
        BY <1>1, Zenon DEF AfterDelay
    <2> QED
        BY <2>1, Zenon DEF Running
<1>2. CASE job.phase = "post"
    <2>1. Finish(job, Outcome(job), h) /\ Outcome(job) \in {"ok", "failed", "raised"}
        BY <1>2, Zenon DEF AfterDelay, Outcome
    <2> QED
        BY <2>1, FinishMoves
<1> QED
    BY <1>1, <1>2

LEMMA PoolMoves ==
    ASSUME TypeInv, RunNode \/ NodeHangs
    PROVE  /\ pc' = pc /\ iteration' = iteration
           /\ \/ /\ busy # Idle /\ queue' = queue
                 /\ \/ busy'.id = busy.id /\ future' = future
                    \/ busy' = Idle /\ EndOf(busy.id)
              \/ /\ busy = Idle /\ queue # <<>> /\ queue' = Tail(queue)
                 /\ \/ busy'.id = Head(queue).id /\ future' = future
                    \/ busy' = Idle /\ EndOf(Head(queue).id)
<1>1. pc' = pc /\ iteration' = iteration
    BY Zenon DEF RunNode, StartNode, PreVerifyFails, NodeSucceeds, NodeFails, NodeRaises,
                 NodeRetries, NodeHangs, DelayEnds, DelayCancelled, DelayCut, InPool, walk
<1>2. CASE StartNode
    <2>1. busy'.id = Head(queue).id
        BY <1>2, BegunFields DEF StartNode, TypeInv
    <2> QED
        BY <1>1, <1>2, <2>1 DEF StartNode
<1>3. CASE PreVerifyFails
    <2>1. Finish(Begun(Head(queue)), "failed", seen) /\ Begun(Head(queue)).id = Head(queue).id
        BY <1>3, BegunFields DEF PreVerifyFails, TypeInv
    <2>2. busy' = Idle /\ EndOf(Head(queue).id)
        BY <2>1, FinishMoves
    <2> QED
        BY <1>1, <1>3, <2>2 DEF PreVerifyFails
<1>4. ASSUME Executing \/ Delaying, InPool
      PROVE  busy # Idle /\ busy \in Running /\ queue' = queue
    BY <1>4 DEF Executing, Delaying, InPool, TypeInv, TypeOK
<1>5. CASE NodeSucceeds \/ NodeFails
    <2>1. PICK ok \in BOOLEAN, cut \in BOOLEAN :
              Conclude([busy EXCEPT !.ok = ok]) \/ Conclude([busy EXCEPT !.ok = ok, !.cut = cut])
        BY <1>5, Zenon DEF NodeSucceeds, NodeFails
    <2>2. busy # Idle /\ busy \in Running /\ queue' = queue
        BY <1>4, <1>5 DEF NodeSucceeds, NodeFails
    <2>3. /\ [busy EXCEPT !.ok = ok] \in Running
          /\ [busy EXCEPT !.ok = ok, !.cut = cut] \in Running
        BY <2>2, RunningFields, Zenon
    <2>4. [busy EXCEPT !.ok = ok].id = busy.id /\ [busy EXCEPT !.ok = ok, !.cut = cut].id = busy.id
        BY <2>2, Zenon DEF Running
    <2>5. \/ busy'.id = busy.id /\ future' = future
          \/ busy' = Idle /\ EndOf(busy.id)
        BY <2>1, <2>3, <2>4, ConcludeMoves, Zenon
    <2> QED
        BY <1>1, <2>2, <2>5
<1>6. CASE NodeRaises
    <2>1. busy' = Idle /\ EndOf(busy.id)
        BY <1>6, FinishMoves DEF NodeRaises
    <2> QED
        BY <1>1, <1>4, <1>6, <2>1 DEF NodeRaises
<1>7. CASE NodeRetries \/ NodeHangs
    <2>1. busy \in Running /\ busy # Idle /\ queue' = queue
        BY <1>4, <1>7 DEF NodeRetries, NodeHangs
    <2>2. busy'.id = busy.id /\ future' = future
        BY <1>7, <2>1, Zenon DEF NodeRetries, NodeHangs, Running
    <2> QED
        BY <1>1, <2>1, <2>2
<1>8. CASE DelayEnds \/ DelayCancelled \/ DelayCut
    <2>1. busy # Idle /\ busy \in Running /\ queue' = queue
        BY <1>4, <1>8 DEF DelayEnds, DelayCancelled, DelayCut
    <2>2. \E h : AfterDelay(busy, h) \/ AfterDelay([busy EXCEPT !.cut = TRUE], h)
        BY <1>8, Zenon DEF DelayEnds, DelayCancelled, DelayCut
    <2>3. [busy EXCEPT !.cut = TRUE] \in Running /\ [busy EXCEPT !.cut = TRUE].id = busy.id
        BY <2>1, RunningFields, Zenon DEF Running
    <2>4. \/ busy'.id = busy.id /\ future' = future
          \/ busy' = Idle /\ EndOf(busy.id)
        BY <2>1, <2>2, <2>3, AfterDelayMoves, Zenon
    <2> QED
        BY <1>1, <2>1, <2>4
<1> QED
    BY <1>2, <1>3, <1>5, <1>6, <1>7, <1>8 DEF RunNode

(* The other threads leave the executor alone. *)
LEMMA OthersLeaveThePool ==
    ASSUME (Execute /\ ~SubmitNode) \/ Monitor \/ SwitchWindow
    PROVE  queue' = queue /\ busy' = busy /\ future' = future
BY Zenon
   DEF Execute, Invalid, Begin, ClearCancel, ClearPause, LoopEnds, LoopCancelled, LoopGoesOn,
       PauseTest, PauseBody, SetPaused, NodeMissing, SkipNode, NodeDone, StepTimeout, GraceOver,
       Recovered, NodeFatal, Breaks, CancelledAfterNode, StopRequested, NextNode, StopMonitor,
       ReportResult, Monitor, MonitorWakes, Poll, PauseSets, PauseStates, ResumeClears, ResumeStates,
       CancelSets, CancelClears, CancelStates, ReportExpired, SwitchWindow, InMonitor, pool

LEMMA MonitorLeavesTheLoop ==
    ASSUME Monitor \/ SwitchWindow
    PROVE  pc' = pc /\ iteration' = iteration /\ current' = current /\ result' = result
           /\ stepCancel' = stepCancel
BY Zenon
   DEF Monitor, MonitorWakes, Poll, PauseSets, PauseStates, ResumeClears, ResumeStates,
       CancelSets, CancelClears, CancelStates, ReportExpired, SwitchWindow, InMonitor, walk, events

-----------------------------------------------------------------------------
(* execute() waits for a node that is there.                               *)

WaitedInv ==
    pc \in {"await", "grace"} =>
        /\ iteration > 0
        /\ future = "none" => \/ busy.id = iteration
                              \/ queue # <<>> /\ queue[Len(queue)].id = iteration

LEMMA LastOfTail ==
    ASSUME NEW S, NEW s \in Seq(S), s # <<>>, Len(s) # 1
    PROVE  Tail(s) # <<>> /\ Tail(s)[Len(Tail(s))] = s[Len(s)]
<1>1. Len(s) \in Nat \ {0}
    BY EmptySeq
<1>2. Len(Tail(s)) = Len(s) - 1 /\ \A i \in 1..Len(Tail(s)) : Tail(s)[i] = s[i + 1]
    BY HeadTailProperties
<1>3. /\ Len(s) - 1 \in 1..(Len(s) - 1) /\ Len(s) - 1 + 1 = Len(s)
      /\ Len(s) - 1 # 0
    <2>1. \A n \in Nat \ {0} : n # 1 => n - 1 \in 1..(n - 1) /\ n - 1 + 1 = n /\ n - 1 # 0
        OBVIOUS
    <2> QED
        BY <1>1, <2>1, Zenon
<1>4. Tail(s) # <<>>
    BY <1>2, <1>3, EmptySeq
<1> QED
    BY <1>2, <1>3, <1>4

LEMMA WaitedStep == TypeInv /\ WaitedInv /\ [Next]_vars => WaitedInv'
<1> SUFFICES ASSUME TypeInv, WaitedInv, [Next]_vars PROVE WaitedInv'
    OBVIOUS
<1>1. CASE Execute /\ ~SubmitNode
    <2>1. pc' \in {"await", "grace"} => pc = "await" /\ iteration' = iteration
        BY <1>1
           DEF Execute, Invalid, Begin, ClearCancel, ClearPause, LoopEnds, LoopCancelled, LoopGoesOn,
               PauseTest, PauseBody, SetPaused, NodeMissing, SkipNode, NodeDone, StepTimeout,
               GraceOver, Recovered, NodeFatal, Breaks, CancelledAfterNode, StopRequested, NextNode,
               StopMonitor, ReportResult, Return, walk
    <2> QED
        BY <1>1, <2>1, OthersLeaveThePool DEF WaitedInv
<1>2. CASE SubmitNode
    <2>1. [id |-> iteration, node |-> current] \in Job
        BY <1>2 DEF SubmitNode, Job, TypeInv, TypeOK
    <2>2. queue' # <<>> /\ queue'[Len(queue')] = [id |-> iteration, node |-> current]
        BY <1>2, <2>1 DEF SubmitNode, TypeInv, TypeOK
    <2>3. iteration' = iteration /\ iteration > 0
        BY <1>2, PipelineAssumption DEF SubmitNode, TypeInv, TypeOK, walk
    <2> QED
        BY <2>2, <2>3 DEF WaitedInv
<1>3. CASE RunNode \/ NodeHangs
    <2>1. CASE busy # Idle
        BY <1>3, <2>1, PoolMoves DEF WaitedInv, EndOf
    <2>2. CASE busy = Idle
        <3> SUFFICES ASSUME pc \in {"await", "grace"}, future' = "none"
                     PROVE  \/ busy'.id = iteration
                            \/ queue' # <<>> /\ queue'[Len(queue')].id = iteration
            BY <1>3, PoolMoves DEF WaitedInv
        <3>1. queue # <<>> /\ queue' = Tail(queue)
            BY <1>3, <2>2, PoolMoves
        <3>2. iteration > 0 /\ busy.id = 0
            <4>1. busy.id = 0
                BY <2>2, Zenon DEF Idle
            <4>2. iteration > 0
                BY DEF WaitedInv
            <4> QED
                BY <4>1, <4>2
        <3>3. future = "none" /\ queue[Len(queue)].id = iteration
            <4>1. \/ future' = future
                  \/ EndOf(Head(queue).id)
                BY <1>3, <2>2, PoolMoves
            <4>2. future = "none"
                BY <4>1 DEF EndOf
            <4>3. busy.id # iteration
                BY <3>2
            <4> QED
                BY <4>2, <4>3 DEF WaitedInv
        <3>4. CASE Len(queue) = 1
            <4>1. Head(queue).id = iteration
                BY <3>1, <3>3, <3>4 DEF TypeInv, TypeOK
            <4> QED
                BY <1>3, <2>2, <4>1, PoolMoves DEF EndOf
        <3>5. CASE Len(queue) # 1
            <4>1. queue \in Seq(Job)
                BY DEF TypeInv, TypeOK
            <4>2. Tail(queue) # <<>> /\ Tail(queue)[Len(Tail(queue))] = queue[Len(queue)]
                BY <3>1, <3>5, <4>1, LastOfTail
            <4> QED
                BY <3>1, <3>3, <4>2
        <3> QED
            BY <3>4, <3>5
    <2> QED
        BY <2>1, <2>2
<1>4. CASE Monitor \/ SwitchWindow
    BY <1>4, OthersLeaveThePool, MonitorLeavesTheLoop DEF WaitedInv
<1>5. CASE UNCHANGED vars
    BY <1>5 DEF vars, WaitedInv
<1> QED
    BY <1>1, <1>2, <1>3, <1>4, <1>5 DEF Next

(* execute() never waits for a node that the executor does not have,       *)
(* however many nodes it has given up on.                                  *)
THEOREM WaitedForIsAlwaysThere == Spec => []WaitedForIsThere
<1>1. Init => WaitedInv
    BY DEF Init, WaitedInv
<1>2. WaitedInv => WaitedForIsThere
    BY DEF WaitedInv, WaitedForIsThere
<1> QED
    BY <1>1, <1>2, TypeInvariant, WaitedStep, PTL DEF Spec

-----------------------------------------------------------------------------
(* A node that was cut short is no success.                                *)

(* A node is submitted under the number of its round, which no node before *)
(* it has had.                                                             *)
IdsInv ==
    LET Before(id) == id <= iteration /\ (PastTheCheck => id < iteration)
    IN  Before(busy.id) /\ \A k \in 1..Len(queue) : Before(queue[k].id)

CutInv ==
    ~seen.flagLeft =>
        /\ stepCancel => pc = "grace"
        /\ pc = "await" /\ busy # Idle /\ busy.id = iteration => ~busy.cut
        /\ pc = "await" /\ future = "ok" => ~seen.cut
        /\ pc = "record" /\ result = "ok" => ~seen.cut

LEMMA IdsStep == TypeInv /\ IdsInv /\ [Next]_vars => IdsInv'
<1> SUFFICES ASSUME TypeInv, IdsInv, [Next]_vars PROVE IdsInv'
    OBVIOUS
<1>0. iteration \in Nat /\ queue \in Seq(Job) /\ \A k \in 1..Len(queue) : queue[k].id \in Nat
    <2>1. iteration \in Nat /\ queue \in Seq(Job)
        BY PipelineAssumption DEF TypeInv, TypeOK
    <2>2. \A k \in 1..Len(queue) : queue[k] \in Job
        BY <2>1, ElementOfSeq
    <2> QED
        BY <2>1, <2>2 DEF Job
<1>6. busy.id \in Nat
    <2>1. CASE busy = Idle
        BY <2>1 DEF Idle
    <2>2. CASE busy \in Running
        BY <2>2, RunningFields
    <2> QED
        BY <2>1, <2>2 DEF TypeInv, TypeOK
<1>1. CASE Execute /\ ~SubmitNode
    <2>1. \/ iteration' = iteration + 1
          \/ iteration' = iteration /\ (PastTheCheck' => PastTheCheck)
        BY <1>1
           DEF Execute, Invalid, Begin, ClearCancel, ClearPause, LoopEnds, LoopCancelled, LoopGoesOn,
               PauseTest, PauseBody, SetPaused, NodeMissing, SkipNode, NodeDone, StepTimeout,
               GraceOver, Recovered, NodeFatal, Breaks, CancelledAfterNode, StopRequested, NextNode,
               StopMonitor, ReportResult, Return, PastTheCheck, walk
    <2> QED
        BY <1>0, <1>6, <1>1, <2>1, OthersLeaveThePool DEF IdsInv
<1>2. CASE SubmitNode
    <2>1. PastTheCheck /\ ~PastTheCheck' /\ iteration' = iteration /\ busy' = busy
        BY <1>2 DEF SubmitNode, PastTheCheck, walk
    <2>2. [id |-> iteration, node |-> current] \in Job
        BY <1>2 DEF SubmitNode, Job, TypeInv, TypeOK
    <2>3. queue' = Append(queue, [id |-> iteration, node |-> current])
        BY <1>2 DEF SubmitNode
    <2>4. Len(queue') = Len(queue) + 1 /\ queue'[Len(queue) + 1].id = iteration
          /\ \A k \in 1..Len(queue) : queue'[k] = queue[k]
        BY <1>0, <2>2, <2>3, AppendProperties
    <2>5. Len(queue) \in Nat
        BY <1>0, LenProperties
    <2> QED
        BY <1>0, <2>1, <2>4, <2>5 DEF IdsInv
<1>3. CASE RunNode \/ NodeHangs
    <2>1. iteration' = iteration /\ (PastTheCheck' <=> PastTheCheck)
        BY <1>3, PoolMoves DEF PastTheCheck
    <2>2. Idle.id = 0
        BY DEF Idle
    <2>3. CASE busy # Idle
        <3>1. queue' = queue /\ busy'.id \in {busy.id, 0}
            BY <1>3, <2>2, <2>3, PoolMoves
        <3> QED
            BY <1>0, <1>6, <2>1, <3>1 DEF IdsInv
    <2>4. CASE busy = Idle
        <3>1. queue # <<>> /\ queue' = Tail(queue) /\ busy'.id \in {Head(queue).id, 0}
            BY <1>3, <2>2, <2>4, PoolMoves
        <3>2. /\ Len(queue) \in Nat \ {0} /\ Len(Tail(queue)) = Len(queue) - 1
              /\ \A k \in 1..Len(Tail(queue)) : Tail(queue)[k] = queue[k + 1]
            BY <1>0, <3>1, EmptySeq, HeadTailProperties, Zenon
        <3>4. Head(queue) = queue[1]
            BY <1>0, <3>1
        <3>3. \A k \in 1..Len(queue') : k + 1 \in 1..Len(queue)
            BY <3>1, <3>2
        <3> QED
            BY <1>0, <2>1, <3>1, <3>2, <3>3, <3>4 DEF IdsInv
    <2> QED
        BY <2>3, <2>4
<1>4. CASE Monitor \/ SwitchWindow
    BY <1>4, OthersLeaveThePool, MonitorLeavesTheLoop DEF IdsInv, PastTheCheck
<1>5. CASE UNCHANGED vars
    BY <1>5 DEF vars, IdsInv, PastTheCheck
<1> QED
    BY <1>1, <1>2, <1>3, <1>4, <1>5 DEF Next

(* A node that ends hands over whether it was cut short, and it was only   *)
(* if the step flag was up while it ran.                                   *)
LEMMA ConcludeCut ==
    ASSUME TypeInv, NEW job \in Running, Conclude(job)
    PROVE  \/ busy'.cut = job.cut /\ future' = future /\ seen'.cut = seen.cut
           \/ busy' = Idle /\ job.id = iteration /\ pc \in {"await", "grace"}
                           /\ seen'.cut = job.cut
           \/ busy' = Idle /\ future' = future /\ seen'.cut = seen.cut
<1>1. CASE job.node \in PostDelay
    <2>1. busy' = [job EXCEPT !.phase = "post"] /\ future' = future /\ seen' = seen
        BY <1>1, Zenon DEF Conclude
    <2> QED
        BY <2>1, Zenon DEF Running
<1>2. CASE job.node \notin PostDelay
    <2>1. Finish(job, Outcome(job), seen) /\ Outcome(job) \in {"ok", "failed", "raised"}
        BY <1>2, Zenon DEF Conclude, Outcome
    <2> QED
        BY <2>1, FinishMoves, SeenByFinish, Zenon DEF EndOf, TypeInv, TypeOK
<1> QED
    BY <1>1, <1>2

LEMMA AfterDelayCut ==
    ASSUME TypeInv, NEW job \in Running, NEW h \in SeenType, h.cut = seen.cut,
           AfterDelay(job, h)
    PROVE  \/ busy'.cut = job.cut /\ future' = future /\ seen'.cut = seen.cut
           \/ busy' = Idle /\ job.id = iteration /\ pc \in {"await", "grace"}
                           /\ seen'.cut = job.cut
           \/ busy' = Idle /\ future' = future /\ seen'.cut = seen.cut
<1>1. CASE job.phase # "post"
    <2>1. busy' = [job EXCEPT !.phase = "execute"] /\ future' = future /\ seen' = h
        BY <1>1, Zenon DEF AfterDelay
    <2> QED
        BY <2>1, Zenon DEF Running
<1>2. CASE job.phase = "post"
    <2>1. Finish(job, Outcome(job), h) /\ Outcome(job) \in {"ok", "failed", "raised"}
        BY <1>2, Zenon DEF AfterDelay, Outcome
    <2> QED
        BY <2>1, FinishMoves, SeenByFinish, Zenon DEF EndOf
<1> QED
    BY <1>1, <1>2

LEMMA PoolCut ==
    ASSUME TypeInv, RunNode \/ NodeHangs, ~stepCancel
    PROVE  /\ stepCancel' = stepCancel
           /\ \/ busy # Idle /\ busy'.cut = busy.cut /\ future' = future /\ seen'.cut = seen.cut
              \/ ~busy'.cut /\ future' = future /\ seen'.cut = seen.cut
              \/ busy' = Idle /\ busy # Idle /\ busy.id = iteration /\ pc \in {"await", "grace"}
                              /\ seen'.cut = busy.cut
              \/ busy' = Idle /\ future' = future /\ seen'.cut = seen.cut
              \/ busy' = Idle /\ pc \in {"await", "grace"} /\ ~seen'.cut
<1>1. seen \in SeenType /\ stepCancel = FALSE
    BY DEF TypeInv, TypeOK
<1>2. stepCancel' = stepCancel
    BY Zenon DEF RunNode, StartNode, PreVerifyFails, NodeSucceeds, NodeFails, NodeRaises,
                 NodeRetries, NodeHangs, DelayEnds, DelayCancelled, DelayCut, InPool, events
<1>3. CASE StartNode
    <2>1. busy'.cut = FALSE /\ future' = future /\ seen' = seen
        BY <1>3, BegunFields DEF StartNode, TypeInv
    <2> QED
        BY <1>2, <2>1
<1>4. CASE PreVerifyFails
    <2>1. Finish(Begun(Head(queue)), "failed", seen) /\ Begun(Head(queue)).cut = FALSE
        BY <1>4, BegunFields DEF PreVerifyFails, TypeInv
    <2> QED
        BY <1>1, <1>2, <2>1, FinishMoves, SeenByFinish, Zenon DEF EndOf
<1>5. ASSUME Executing \/ Delaying
      PROVE  busy # Idle /\ busy \in Running
    BY <1>5 DEF Executing, Delaying, TypeInv, TypeOK
<1>6. CASE NodeSucceeds
    <2>1. busy # Idle /\ busy \in Running /\ Conclude([busy EXCEPT !.ok = TRUE])
        BY <1>5, <1>6 DEF NodeSucceeds
    <2>2. /\ [busy EXCEPT !.ok = TRUE] \in Running /\ [busy EXCEPT !.ok = TRUE].cut = busy.cut
          /\ [busy EXCEPT !.ok = TRUE].id = busy.id
        BY <2>1, RunningFields, Zenon DEF Running
    <2> QED
        BY <1>2, <2>1, <2>2, ConcludeCut, Zenon
<1>7. CASE NodeFails
    <2> DEFINE job == [busy EXCEPT !.ok = FALSE, !.cut = @ \/ stepCancel]
    <2>1. busy # Idle /\ busy \in Running /\ Conclude(job)
        BY <1>5, <1>7, Zenon DEF NodeFails
    <2>2. busy.cut \in BOOLEAN
        BY <2>1, RunningFields
    <2>3. /\ job \in Running /\ job.cut = (busy.cut \/ stepCancel)
          /\ job.id = busy.id
        <3>1. [busy EXCEPT !.ok = FALSE] \in Running /\ (busy.cut \/ stepCancel) \in BOOLEAN
            BY <2>1, RunningFields, Zenon
        <3>2. job \in Running
            BY <2>1, <3>1, RunningFields, Zenon
        <3>3. job.cut = (busy.cut \/ stepCancel) /\ job.id = busy.id
            BY <2>1, Zenon DEF Running
        <3> QED
            BY <3>2, <3>3
    <2>4. job.cut = busy.cut
        BY <1>1, <2>2, <2>3, Zenon
    <2> HIDE DEF job
    <2> QED
        BY <1>2, <2>1, <2>3, <2>4, ConcludeCut, Zenon
<1>8. CASE NodeRaises
    <2>1. busy # Idle /\ Finish(busy, "raised", seen)
        BY <1>5, <1>8 DEF NodeRaises
    <2> QED
        BY <1>1, <1>2, <2>1, FinishMoves, SeenByFinish, Zenon DEF EndOf
<1>9. CASE NodeRetries \/ NodeHangs
    <2>1. busy \in Running /\ busy # Idle
        BY <1>5, <1>9 DEF NodeRetries, NodeHangs
    <2>2. busy'.cut = busy.cut /\ future' = future /\ seen' = seen
        BY <1>9, <2>1, Zenon DEF NodeRetries, NodeHangs, Running
    <2> QED
        BY <1>2, <2>1, <2>2
<1>10. CASE DelayEnds
    <2>1. busy # Idle /\ busy \in Running /\ AfterDelay(busy, seen)
        BY <1>5, <1>10 DEF DelayEnds
    <2> QED
        BY <1>1, <1>2, <2>1, AfterDelayCut, Zenon
<1>11. CASE DelayCancelled
    <2> DEFINE lost == [seen EXCEPT !.cancelLost = TRUE]
    <2>1. busy # Idle /\ busy \in Running /\ AfterDelay(busy, lost)
        BY <1>5, <1>11 DEF DelayCancelled
    <2>2. lost \in SeenType
        BY <1>1, SeenFields
    <2>3. lost.cut = seen.cut
        BY <1>1, Zenon DEF SeenType
    <2> HIDE DEF lost
    <2> QED
        BY <1>2, <2>1, <2>2, <2>3, AfterDelayCut
<1>12. CASE DelayCut
    BY <1>12 DEF DelayCut
<1> QED
    BY <1>3, <1>4, <1>6, <1>7, <1>8, <1>9, <1>10, <1>11, <1>12 DEF RunNode

LEMMA CutStep == TypeInv /\ IdsInv /\ CutInv /\ [Next]_vars => CutInv'
<1> SUFFICES ASSUME TypeInv, IdsInv, CutInv, [Next]_vars, ~seen'.flagLeft
             PROVE  /\ stepCancel' => pc' = "grace"
                    /\ pc' = "await" /\ busy' # Idle /\ busy'.id = iteration' => ~busy'.cut
                    /\ pc' = "await" /\ future' = "ok" => ~seen'.cut
                    /\ pc' = "record" /\ result' = "ok" => ~seen'.cut
    BY DEF CutInv
<1>1. CASE NodeDone
    <2>1. ~GraceOver /\ ~SubmitNode /\ Execute
        BY <1>1 DEF NodeDone, GraceOver, SubmitNode, Execute
    <2>2. ~seen.flagLeft /\ seen'.cut = seen.cut
        BY <2>1, SeenByExecute
    <2>3. result' = "ok" => future = "ok"
        BY <1>1 DEF NodeDone
    <2>4. pc = "await" /\ pc' = "record" /\ stepCancel' = stepCancel
        BY <1>1 DEF NodeDone, events
    <2> QED
        BY <2>2, <2>3, <2>4 DEF CutInv
<1>2. CASE StepTimeout
    BY <1>2 DEF StepTimeout
<1>3. CASE GraceOver
    <2>1. ~SubmitNode /\ Execute
        BY <1>3 DEF GraceOver, SubmitNode, Execute
    <2>2. future # "raised"
        BY <1>3, <2>1, SeenByExecute
    <2>3. stepCancel' = FALSE /\ pc' = "record" /\ result' = "failed"
        BY <1>3, <2>2, Zenon DEF GraceOver
    <2> QED
        BY <2>3
<1>4. CASE SubmitNode
    <2>1. ~seen.flagLeft /\ seen'.cut = FALSE
        BY <1>4, SeenBySubmit
    <2>2. PastTheCheck /\ pc # "grace" /\ pc' = "await" /\ busy' = busy /\ future' = "none"
          /\ iteration' = iteration /\ stepCancel' = stepCancel
        BY <1>4 DEF SubmitNode, PastTheCheck, events, walk
    <2>3. iteration \in Nat /\ busy.id < iteration
        BY <2>2, PipelineAssumption DEF IdsInv, TypeInv, TypeOK
    <2>4. busy'.id # iteration'
        <3>1. \A i \in Nat : \A j : j < i => j # i
            OBVIOUS
        <3> QED
            BY <2>2, <2>3, <3>1
    <2> QED
        BY <2>1, <2>2, <2>4 DEF CutInv
<1>5. CASE Execute /\ ~SubmitNode /\ ~GraceOver /\ ~StepTimeout /\ ~NodeDone
    <2>1. ~seen.flagLeft
        BY <1>5, SeenByExecute
    <2>2. pc # "grace" /\ pc' \notin {"await", "record"}
        BY <1>5
           DEF Execute, Invalid, Begin, ClearCancel, ClearPause, LoopEnds, LoopCancelled, LoopGoesOn,
               NextRound, PauseTest, PauseBody, SetPaused, NodeMissing, SkipNode, Recovered,
               NodeFatal, Breaks, CancelledAfterNode, StopRequested, NextNode, StopMonitor,
               ReportResult, Return
    <2>3. stepCancel' = stepCancel
        BY <1>5, Zenon
           DEF Execute, Invalid, Begin, ClearCancel, ClearPause, LoopEnds, LoopCancelled, LoopGoesOn,
               PauseTest, PauseBody, SetPaused, NodeMissing, SkipNode, Recovered, NodeFatal, Breaks,
               CancelledAfterNode, StopRequested, NextNode, StopMonitor, ReportResult, events
    <2> QED
        BY <2>1, <2>2, <2>3 DEF CutInv
<1>6. CASE RunNode \/ NodeHangs
    <2>1. ~seen.flagLeft
        BY <1>6, SeenByNode
    <2>2. pc' = pc /\ iteration' = iteration
        BY <1>6, PoolMoves
    <2>3. result' = result
        BY <1>6, Zenon
           DEF RunNode, StartNode, PreVerifyFails, NodeSucceeds, NodeFails, NodeRaises, NodeRetries,
               NodeHangs, DelayEnds, DelayCancelled, DelayCut, InPool
    <2>4. CASE stepCancel
        <3>1. pc = "grace"
            BY <2>1, <2>4 DEF CutInv
        <3> QED
            BY <2>2, <3>1
    <2>5. CASE ~stepCancel
        <3>1. stepCancel' = stepCancel
            BY <1>6, <2>5, PoolCut
        <3>2. ASSUME pc = "await", busy' # Idle, busy'.id = iteration
              PROVE  ~busy'.cut
            <4>1. busy # Idle /\ busy'.cut = busy.cut => busy.id = iteration
                BY <1>6, <3>2, PoolMoves
            <4> QED
                BY <1>6, <2>1, <2>5, <3>2, <4>1, PoolCut DEF CutInv
        <3>3. ASSUME pc = "await", future' = "ok"
              PROVE  ~seen'.cut
            BY <1>6, <2>1, <2>5, <3>3, PoolCut DEF CutInv
        <3>4. ASSUME pc = "record", result = "ok"
              PROVE  ~seen'.cut
            BY <1>6, <2>1, <2>5, <3>4, PoolCut DEF CutInv
        <3> QED
            BY <2>2, <2>3, <2>5, <3>1, <3>2, <3>3, <3>4
    <2> QED
        BY <2>4, <2>5
<1>7. CASE Monitor \/ SwitchWindow
    <2>1. ~seen.flagLeft /\ seen'.cut = seen.cut
        BY <1>7, SeenByMonitor
    <2>2. busy' = busy /\ future' = future
        BY <1>7, OthersLeaveThePool
    <2>3. pc' = pc /\ iteration' = iteration /\ result' = result /\ stepCancel' = stepCancel
        BY <1>7, MonitorLeavesTheLoop
    <2> QED
        BY <2>1, <2>2, <2>3, Zenon DEF CutInv
<1>8. CASE UNCHANGED vars
    BY <1>8 DEF vars, CutInv
<1> QED
    BY <1>1, <1>2, <1>3, <1>4, <1>5, <1>6, <1>7, <1>8 DEF Next

(* A node that the step flag cut short is not taken for a success unless   *)
(* an earlier node that raised had left the flag up.                       *)
THEOREM CutIsNeverCounted == Spec => []CutNotCounted
<1>1. Init => IdsInv /\ CutInv
    BY DEF Init, IdsInv, CutInv, PastTheCheck, Idle
<1>2. TypeInv /\ IdsInv /\ CutInv /\ [Next]_vars => IdsInv' /\ CutInv'
    BY IdsStep, CutStep
<1>3. CutInv => CutNotCounted
    BY DEF CutInv, CutNotCounted
<1> QED
    BY <1>1, <1>2, <1>3, TypeInvariant, PTL DEF Spec

-----------------------------------------------------------------------------
(* The two reports agree.                                                  *)

(* A node that began after the cancel is the last one, and the run ends    *)
(* cancelled or failed; before the end of execute() only the expired       *)
(* monitor reports.                                                        *)
LastNode ==
    seen.cancelled /\ ~seen.cancelLost /\ seen.afterCancel # 0 =>
        /\ result # "completed"
        /\ pc \in {"await", "grace", "record", "top", "returned", "join", "reported"}
        /\ pc = "top" => current # NoNode

ReportInv ==
    /\ LastNode
    /\ result = "completed" => pc \in {"returned", "join", "reported"}
    /\ monitor \in {"cancelClear", "cancelState", "report"} => seen.cancelled
    /\ reports # <<>> /\ pc # "reported" => seen.cancelled
    /\ reports = <<FALSE, TRUE>> => pc = "reported" /\ result = "completed" /\ seen.cancelled

LEMMA SecondOf ==
    ASSUME NEW a, NEW b PROVE Len(<<a, b>>) = 2 /\ <<a, b>>[2] = b
OBVIOUS

LEMMA AppendedTwo ==
    ASSUME NEW s \in Seq(BOOLEAN), NEW b \in BOOLEAN, Append(s, b) = <<FALSE, TRUE>>
    PROVE  s # <<>> /\ b = TRUE
<1>1. Len(s) \in Nat
    BY LenProperties
<1>2. Len(Append(s, b)) = Len(s) + 1
    BY AppendProperties, Zenon
<1>3. Append(s, b)[Len(s) + 1] = b
    BY AppendProperties, Zenon
<1>4. Len(<<FALSE, TRUE>>) = 2
    BY SecondOf, Zenon
<1>5. <<FALSE, TRUE>>[2] = TRUE
    BY SecondOf, Zenon
<1>6. Len(s) + 1 = 2
    BY <1>2, <1>4, Zenon
<1>7. b = TRUE
    BY <1>3, <1>5, <1>6, Zenon
<1>8. s # <<>>
    BY <1>1, <1>6, EmptySeq
<1> QED
    BY <1>7, <1>8, Zenon

LEMMA LastNodeStep ==
    TypeInv /\ CancelInv /\ LastNode /\ ReportInv /\ [Next]_vars => LastNode'
<1> SUFFICES ASSUME TypeInv, CancelInv, LastNode, ReportInv, [Next]_vars,
                    seen'.cancelled, ~seen'.cancelLost, seen'.afterCancel # 0
             PROVE  /\ result' # "completed"
                    /\ pc' \in {"await", "grace", "record", "top", "returned", "join", "reported"}
                    /\ pc' = "top" => current' # NoNode
    BY DEF LastNode
<1>1. CASE SubmitNode
    BY <1>1 DEF SubmitNode, ReportInv
<1>2. CASE Execute /\ ~SubmitNode
    <2>1. seen.cancelled /\ ~seen.cancelLost /\ seen.afterCancel # 0
        BY <1>2, SeenByExecute
    <2>2. /\ cancelEvent /\ result # "completed" /\ (pc = "top" => current # NoNode)
          /\ pc \in {"await", "grace", "record", "top", "returned", "join", "reported"}
        BY <2>1 DEF CancelInv, LastNode
    <2>3. pc = "record" => current # NoNode
        BY PipelineAssumption DEF TypeInv, NodeInHand
    <2>4. CASE LoopEnds
        BY <2>2, <2>4, PipelineAssumption DEF LoopEnds, Return, TypeInv, TypeOK
    <2>5. CASE ~LoopEnds
        BY <1>2, <2>2, <2>3, <2>5
           DEF Execute, Invalid, Begin, ClearCancel, ClearPause, LoopCancelled, LoopGoesOn,
               NextRound, PauseTest, PauseBody, SetPaused, NodeMissing, SkipNode, NodeDone,
               StepTimeout, GraceOver, Recovered, NodeFatal, Breaks, CancelledAfterNode,
               StopRequested, NextNode, StopMonitor, ReportResult, Return, walk
    <2> QED
        BY <2>4, <2>5
<1>3. CASE RunNode \/ NodeHangs
    <2>1. seen.cancelled /\ ~seen.cancelLost /\ seen.afterCancel # 0
        BY <1>3, SeenByNode
    <2>2. pc' = pc /\ current' = current /\ result' = result
        BY <1>3, Zenon
           DEF RunNode, StartNode, PreVerifyFails, NodeSucceeds, NodeFails, NodeRaises, NodeRetries,
               NodeHangs, DelayEnds, DelayCancelled, DelayCut, InPool, walk
    <2> QED
        BY <2>1, <2>2 DEF LastNode
<1>4. CASE Monitor \/ SwitchWindow
    <2>1. ~CancelSets
        BY <1>4, SeenByMonitor
    <2>2. seen.cancelled /\ ~seen.cancelLost /\ seen.afterCancel # 0
        BY <1>4, <2>1, SeenByMonitor
    <2> QED
        BY <1>4, <2>2, MonitorLeavesTheLoop DEF LastNode
<1>5. CASE UNCHANGED vars
    BY <1>5 DEF vars, LastNode
<1> QED
    BY <1>1, <1>2, <1>3, <1>4, <1>5 DEF Next

LEMMA ReportStep == TypeInv /\ CancelInv /\ ReportInv /\ [Next]_vars => ReportInv'
<1> SUFFICES ASSUME TypeInv, CancelInv, ReportInv, [Next]_vars PROVE ReportInv'
    OBVIOUS
<1>1. LastNode'
    BY LastNodeStep DEF ReportInv
<1>2. CASE Execute
    <2>1. seen'.cancelled = seen.cancelled
        BY <1>2, SeenByExecute, SeenBySubmit
    <2>2. monitor' = monitor
        BY <1>2, Zenon
           DEF Execute, Invalid, Begin, ClearCancel, ClearPause, LoopEnds, LoopCancelled, LoopGoesOn,
               PauseTest, PauseBody, SetPaused, NodeMissing, SkipNode, SubmitNode, NodeDone,
               StepTimeout, GraceOver, Recovered, NodeFatal, Breaks, CancelledAfterNode,
               StopRequested, NextNode, StopMonitor, ReportResult, window
    <2>3. pc # "reported"
        BY <1>2
           DEF Execute, Invalid, Begin, ClearCancel, ClearPause, LoopEnds, LoopCancelled, LoopGoesOn,
               NextRound, PauseTest, PauseBody, SetPaused, NodeMissing, SkipNode, SubmitNode,
               NodeDone, StepTimeout, GraceOver, Recovered, NodeFatal, Breaks, CancelledAfterNode,
               StopRequested, NextNode, StopMonitor, ReportResult
    <2>4. result' = "completed" => pc' \in {"returned", "join", "reported"}
        BY <1>2
           DEF ReportInv, Execute, Invalid, Begin, ClearCancel, ClearPause, LoopEnds, LoopCancelled,
               LoopGoesOn, NextRound, PauseTest, PauseBody, SetPaused, NodeMissing, SkipNode,
               SubmitNode, NodeDone, StepTimeout, GraceOver, Recovered, NodeFatal, Breaks,
               CancelledAfterNode, StopRequested, NextNode, StopMonitor, ReportResult, Return
    <2>5. CASE ReportResult
        <3>1. /\ pc' = "reported" /\ result' = result
              /\ reports' = Append(reports, result = "completed")
            BY <2>5 DEF ReportResult
        <3>2. ASSUME reports' = <<FALSE, TRUE>>
              PROVE  result = "completed" /\ seen.cancelled
            <4>1. reports \in Seq(BOOLEAN) /\ (result = "completed") \in BOOLEAN
                BY DEF TypeInv, TypeOK
            <4>2. reports # <<>> /\ (result = "completed") = TRUE
                BY <3>1, <3>2, <4>1, AppendedTwo
            <4> QED
                BY <2>3, <4>2 DEF ReportInv
        <3> QED
            BY <1>1, <2>1, <2>2, <2>4, <3>1, <3>2 DEF ReportInv
    <2>6. CASE ~ReportResult
        <3>1. reports' = reports
            BY <1>2, <2>6, Zenon
               DEF Execute, Invalid, Begin, ClearCancel, ClearPause, LoopEnds, LoopCancelled,
                   LoopGoesOn, PauseTest, PauseBody, SetPaused, NodeMissing, SkipNode, SubmitNode,
                   NodeDone, StepTimeout, GraceOver, Recovered, NodeFatal, Breaks,
                   CancelledAfterNode, StopRequested, NextNode, StopMonitor
        <3> QED
            BY <1>1, <2>1, <2>2, <2>3, <2>4, <3>1 DEF ReportInv
    <2> QED
        BY <2>5, <2>6
<1>3. CASE RunNode \/ NodeHangs
    <2>1. seen'.cancelled = seen.cancelled
        BY <1>3, SeenByNode
    <2>2. pc' = pc /\ result' = result /\ reports' = reports /\ monitor' = monitor
        BY <1>3, Zenon
           DEF RunNode, StartNode, PreVerifyFails, NodeSucceeds, NodeFails, NodeRaises, NodeRetries,
               NodeHangs, DelayEnds, DelayCancelled, DelayCut, InPool, window
    <2> QED
        BY <1>1, <2>1, <2>2 DEF ReportInv
<1>4. CASE ReportExpired
    <2>1. seen' = seen /\ seen.cancelled /\ reports' = Append(reports, FALSE) /\ monitor' = "off"
        BY <1>4 DEF ReportExpired, ReportInv
    <2>2. reports' # <<FALSE, TRUE>>
        BY <2>1, AppendedTwo DEF TypeInv, TypeOK
    <2> QED
        BY <1>1, <1>4, <2>1, <2>2, MonitorLeavesTheLoop DEF ReportInv, Monitor
<1>5. CASE (Monitor \/ SwitchWindow) /\ ~ReportExpired
    <2>1. reports' = reports
        BY <1>5, Zenon
           DEF Monitor, MonitorWakes, Poll, PauseSets, PauseStates, ResumeClears, ResumeStates,
               CancelSets, CancelClears, CancelStates, SwitchWindow
    <2>2. pc' = pc /\ result' = result
        BY <1>5, MonitorLeavesTheLoop
    <2>3. CASE CancelSets
        BY <1>1, <1>5, <2>1, <2>2, <2>3, SeenByMonitor DEF ReportInv
    <2>4. CASE ~CancelSets
        <3>1. seen'.cancelled = seen.cancelled
            BY <1>5, <2>4, SeenByMonitor
        <3>2. monitor' \in {"cancelClear", "cancelState", "report"}
                  => monitor \in {"cancelClear", "cancelState", "report"}
            BY <1>5, <2>4
               DEF Monitor, MonitorWakes, Poll, PollLost, PollRegained, PollExpired, PollNothing,
                   PauseSets, PauseStates, ResumeClears, ResumeStates, CancelClears, CancelStates,
                   SwitchWindow
        <3> QED
            BY <1>1, <2>1, <2>2, <3>1, <3>2 DEF ReportInv
    <2> QED
        BY <2>3, <2>4
<1>6. CASE UNCHANGED vars
    BY <1>6 DEF vars, ReportInv, LastNode
<1> QED
    BY <1>2, <1>3, <1>4, <1>5, <1>6 DEF Next

(* The backend is not told that a run failed for its window's sake and     *)
(* then that it succeeded, but for a cancel that a delay swallowed or that *)
(* came after the last node.                                               *)
THEOREM ReportsAlwaysAgree == Spec => []ReportsAgree
<1>1. Init => CancelInv /\ ReportInv
    BY DEF Init, CancelInv, ReportInv, LastNode
<1>2. TypeInv /\ CancelInv /\ ReportInv /\ [Next]_vars => CancelInv' /\ ReportInv'
    BY CancelStep, ReportStep
<1>3. ReportInv => ReportsAgree
    BY DEF ReportInv, LastNode, ReportsAgree
<1> QED
    BY <1>1, <1>2, <1>3, TypeInvariant, PTL DEF Spec
=============================================================================
