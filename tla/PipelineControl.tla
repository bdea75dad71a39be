-------------------------- MODULE PipelineControl --------------------------
(***************************************************************************)
(* One PipelineEngine.execute() in a worker, and the threads that share    *)
(* its events: the thread that walks the graph, the thread of its          *)
(* ThreadPoolExecutor(max_workers=1) in which the nodes run, and the       *)
(* WindowBackgroundMonitor, which pauses, resumes and cancels the engine   *)
(* when the window of the task leaves the foreground.                      *)
(*                                                                         *)
(* Nothing is locked: _state is written by all of them, and pause() and    *)
(* resume() do what they do only if they find the right value in it.  A    *)
(* step of the model therefore reads or writes one of the shared variables *)
(* (_state, _cancel_event, _pause_event, _step_cancel_event).  What a node *)
(* does on the device is the choice between success, failure and never     *)
(* coming back; repetitions, fallback and the checks before and after a    *)
(* node are part of that choice.                                           *)
(***************************************************************************)
EXTENDS Integers, Sequences

CONSTANTS
    Nodes,          \* the nodes of the graph
    Entry,          \* graph.entry_node
    Absent,         \* a node id that is not in the graph
    NoNode,         \* the empty node id, the end of the graph
    Successors,     \* what _resolve_next_node may answer at each node
    Stops,          \* nodes that may ask the pipeline to stop (StopNode)
    PreDelay,       \* nodes with pre_delay
    PostDelay,      \* nodes with post_delay
    MaxRetries,     \* retry.max_retries
    Tolerant,       \* nodes with continue_on_error
    MaxRecoveries,  \* _max_recovery_retries, 0 without a recovery manager
    StartStep,      \* start_step_index
    MaxIterations,  \* _max_iterations
    Monitored,      \* is wait_when_background enabled
    Expires,        \* is its timeout_seconds above 0
    MaxHangs        \* bound: nodes that never come back

ASSUME PipelineAssumption ==
    /\ Entry \in Nodes
    /\ Absent \notin Nodes /\ NoNode \notin Nodes /\ Absent # NoNode
    /\ Successors \in [Nodes -> (SUBSET (Nodes \cup {Absent, NoNode})) \ {{}}]
    /\ Stops \subseteq Nodes /\ PreDelay \subseteq Nodes
    /\ PostDelay \subseteq Nodes /\ Tolerant \subseteq Nodes
    /\ MaxRetries \in Nat /\ MaxRecoveries \in Nat /\ StartStep \in Nat
    /\ MaxIterations \in Nat /\ MaxHangs \in Nat
    /\ Monitored \in BOOLEAN /\ Expires \in BOOLEAN

VARIABLES
    state,       \* engine._state
    cancelEvent, \* engine._cancel_event
    pauseEvent,  \* engine._pause_event
    stepCancel,  \* engine._step_cancel_event
    pc,          \* where the thread of execute() is
    current,     \* _current_node_id
    iteration,   \* passes through the loop of execute()
    recoveries,  \* _recovery_attempts_per_node
    stopAsked,   \* the context variable _stop_requested
    result,      \* of the last node ("ok", "failed"), in the end of the pipeline
    queue,       \* nodes submitted to the executor and not begun
    busy,        \* the node its thread runs, or Idle
    future,      \* the outcome of the node execute() waits for, or "none"
    hangs,       \* nodes that have not come back
    monitor,     \* where the monitor thread is
    paused,      \* monitor._paused
    foreground,  \* is the window in the foreground
    reports,     \* success of the task.result frames sent, in order
    seen         \* history the properties need: see SeenType

vars == <<state, cancelEvent, pauseEvent, stepCancel, pc, current, iteration, recoveries,
          stopAsked, result, queue, busy, future, hangs, monitor, paused, foreground, reports, seen>>

events == <<cancelEvent, pauseEvent, stepCancel>>
walk == <<current, iteration, recoveries>>
pool == <<queue, busy, future, hangs>>
window == <<monitor, paused, foreground>>

Final == {"completed", "failed", "cancelled"}
PipelineState == Final \cup {"pending", "running", "paused"}
Job == [id : Nat, node : Nodes]
Running == [id : Nat, node : Nodes, phase : {"pre", "execute", "retry", "post", "hung"},
            tries : Nat, ok : BOOLEAN, cut : BOOLEAN]
Idle == [id |-> 0]

\* Nodes begun since cancel() and since the pause event was set, where two
\* stands for two and more; whether cancel() was called, whether the event it
\* set was cleared by somebody else, and whether a resume() found nothing to do
\* while the event was set; whether the node waited for was cut short by the
\* step flag, and whether the flag was left up after a node that raised.
SeenType == [afterCancel : 0..2, afterPause : 0..2, cancelled : BOOLEAN,
             cancelLost : BOOLEAN, resumeLost : BOOLEAN, cut : BOOLEAN,
             flagLeft : BOOLEAN]

TypeOK ==
    /\ state \in PipelineState
    /\ cancelEvent \in BOOLEAN /\ pauseEvent \in BOOLEAN /\ stepCancel \in BOOLEAN
    /\ pc \in {"begin", "clearCancel", "clearPause", "top", "pauseTest", "pauseBody",
               "setPaused", "unpaused", "await", "grace", "record", "returned",
               "join", "reported"}
    /\ current \in Nodes \cup {Absent, NoNode}
    /\ iteration \in 0..MaxIterations
    /\ recoveries \in [Nodes -> 0..MaxRecoveries]
    /\ stopAsked \in BOOLEAN
    /\ result \in Final \cup {"none", "ok"}
    /\ queue \in Seq(Job)
    /\ busy \in Running \cup {Idle}
    /\ future \in {"none", "ok", "failed", "raised"}
    /\ hangs \in 0..MaxHangs
    /\ monitor \in {"wait", "poll", "pauseSet", "pauseState", "resumeClear", "resumeState",
                    "cancelSet", "cancelClear", "cancelState", "report", "off"}
    /\ paused \in BOOLEAN /\ foreground \in BOOLEAN
    /\ reports \in Seq(BOOLEAN)
    /\ seen \in SeenType

-----------------------------------------------------------------------------
(* The thread of execute()                                                 *)

More(n) == IF n < 2 THEN n + 1 ELSE n

Return(how) == state' = how /\ result' = how /\ pc' = "returned"

\* PipelineValidator.validate finds errors.
Invalid ==
    /\ pc = "begin"
    /\ result' = "failed" /\ pc' = "returned"
    /\ UNCHANGED <<state, walk, stopAsked, events, pool, window, reports, seen>>

Begin ==
    /\ pc = "begin"
    /\ state' = "running" /\ pc' = "clearCancel"
    /\ UNCHANGED <<walk, stopAsked, result, events, pool, window, reports, seen>>

\* The monitor was started before execute(), which clears what it may have set.
ClearCancel ==
    /\ pc = "clearCancel"
    /\ cancelEvent' = FALSE /\ pc' = "clearPause"
    /\ seen' = [seen EXCEPT !.cancelLost = @ \/ cancelEvent]
    /\ UNCHANGED <<state, pauseEvent, stepCancel, walk, stopAsked, result, pool, window, reports>>

ClearPause ==
    /\ pc = "clearPause"
    /\ pauseEvent' = FALSE /\ pc' = "top"
    /\ seen' = [seen EXCEPT !.resumeLost = FALSE]
    /\ UNCHANGED <<state, cancelEvent, stepCancel, walk, stopAsked, result, pool, window, reports>>

\* The loop ends: at the end of the graph, or for having gone round too often,
\* which is looked at also when the end was reached in the last round.
LoopEnds ==
    /\ pc = "top"
    /\ current = NoNode \/ iteration >= MaxIterations
    /\ Return(IF iteration >= MaxIterations THEN "failed" ELSE "completed")
    /\ UNCHANGED <<walk, stopAsked, events, pool, window, reports, seen>>

\* Mutant: without the limit on iterations.
NextRoundUnlimited == pc = "top" /\ current # NoNode

NextRound == pc = "top" /\ current # NoNode /\ iteration < MaxIterations

LoopCancelled ==
    /\ NextRound /\ cancelEvent
    /\ iteration' = iteration + 1
    /\ Return("cancelled")
    /\ UNCHANGED <<current, recoveries, stopAsked, events, pool, window, reports, seen>>

\* Mutant: without the check of the cancel event at the top of the loop.
LoopGoesOnUnchecked ==
    /\ NextRound
    /\ iteration' = iteration + 1 /\ pc' = "pauseTest"
    /\ UNCHANGED <<state, current, recoveries, stopAsked, result, events, pool, window, reports, seen>>

LoopGoesOn ==
    /\ NextRound /\ ~cancelEvent
    /\ iteration' = iteration + 1 /\ pc' = "pauseTest"
    /\ UNCHANGED <<state, current, recoveries, stopAsked, result, events, pool, window, reports, seen>>

\* while self._pause_event.is_set(): ... time.sleep(0.1)
PauseTest ==
    /\ pc = "pauseTest"
    /\ pc' = IF pauseEvent THEN "pauseBody" ELSE "unpaused"
    /\ UNCHANGED <<state, walk, stopAsked, result, events, pool, window, reports, seen>>

PauseBody ==
    /\ pc = "pauseBody"
    /\ \/ cancelEvent /\ Return("cancelled")
       \/ ~cancelEvent /\ pc' = "setPaused" /\ UNCHANGED <<state, result>>
    /\ UNCHANGED <<walk, stopAsked, events, pool, window, reports, seen>>

\* Mutant: if for while in the pause loop.
SetPausedOnce ==
    /\ pc = "setPaused"
    /\ state' = "paused" /\ pc' = "unpaused"
    /\ UNCHANGED <<walk, stopAsked, result, events, pool, window, reports, seen>>

SetPaused ==
    /\ pc = "setPaused"
    /\ state' = "paused" /\ pc' = "pauseTest"
    /\ UNCHANGED <<walk, stopAsked, result, events, pool, window, reports, seen>>

NodeMissing ==
    /\ pc = "unpaused" /\ current \notin Nodes
    /\ Return("failed")
    /\ UNCHANGED <<walk, stopAsked, events, pool, window, reports, seen>>

\* A node before start_step_index: only the way through the graph is followed.
SkipNode ==
    /\ pc = "unpaused" /\ current \in Nodes /\ iteration <= StartStep
    /\ state' = "running" /\ pc' = "top"
    /\ current' \in Successors[current]
    /\ UNCHANGED <<iteration, recoveries, stopAsked, result, events, pool, window, reports, seen>>

SubmitNode ==
    /\ pc = "unpaused" /\ current \in Nodes /\ iteration > StartStep
    /\ state' = "running" /\ pc' = "await"
    /\ queue' = Append(queue, [id |-> iteration, node |-> current])
    /\ future' = "none"
    /\ seen' = [seen EXCEPT !.afterCancel = IF seen.cancelled THEN More(@) ELSE @,
                            !.afterPause = More(@),
                            !.cut = FALSE]
    /\ UNCHANGED <<walk, stopAsked, result, busy, hangs, events, window, reports>>

NodeDone ==
    /\ pc = "await" /\ future # "none"
    /\ result' = IF future = "ok" THEN "ok" ELSE "failed"
    /\ pc' = "record"
    /\ UNCHANGED <<state, walk, stopAsked, events, pool, window, reports, seen>>

\* future.result(timeout): the step took too long; the flag asks its thread to
\* give up, for three seconds.
StepTimeout ==
    /\ pc = "await" /\ future = "none"
    /\ stepCancel' = TRUE /\ pc' = "grace"
    /\ UNCHANGED <<state, cancelEvent, pauseEvent, walk, stopAsked, result, pool, window, reports, seen>>

\* Mutant: the step flag is not cleared.
GraceOverKeepsFlag ==
    /\ pc = "grace"
    /\ result' = "failed" /\ pc' = "record"
    /\ UNCHANGED <<state, events, walk, stopAsked, pool, window, reports, seen>>

\* Mutant: future.result() without a timeout.
GraceOverWaits ==
    /\ pc = "grace" /\ future # "none"
    /\ stepCancel' = FALSE
    /\ result' = "failed" /\ pc' = "record"
    /\ UNCHANGED <<state, cancelEvent, pauseEvent, walk, stopAsked, pool, window, reports, seen>>

\* Whether or not the thread came back meanwhile, the node has failed; if it
\* came back by raising, so does future.result(), and the flag stays up.
GraceOver ==
    /\ pc = "grace"
    /\ stepCancel' = (future = "raised")
    /\ seen' = [seen EXCEPT !.flagLeft = @ \/ future = "raised"]
    /\ result' = "failed" /\ pc' = "record"
    /\ UNCHANGED <<state, cancelEvent, pauseEvent, walk, stopAsked, pool, window, reports>>

Fatal == result = "failed" /\ current \notin Tolerant

\* _attempt_recovery brought the interface back: the node is tried again.
Recovered ==
    /\ pc = "record" /\ Fatal /\ recoveries[current] < MaxRecoveries
    /\ recoveries' = [recoveries EXCEPT ![current] = @ + 1]
    /\ pc' = "top"
    /\ UNCHANGED <<state, current, iteration, stopAsked, result, events, pool, window, reports, seen>>

NodeFatal ==
    /\ pc = "record" /\ Fatal
    /\ Return("failed")
    /\ UNCHANGED <<walk, stopAsked, events, pool, window, reports, seen>>

\* A callback raised while the node was recorded: except Exception.
Breaks ==
    /\ pc = "record"
    /\ Return("failed")
    /\ UNCHANGED <<walk, stopAsked, events, pool, window, reports, seen>>

CancelledAfterNode ==
    /\ pc = "record" /\ ~Fatal /\ cancelEvent
    /\ Return("cancelled")
    /\ UNCHANGED <<walk, stopAsked, events, pool, window, reports, seen>>

StopRequested ==
    /\ pc = "record" /\ ~Fatal /\ ~cancelEvent /\ stopAsked
    /\ stopAsked' = FALSE
    /\ Return("completed")
    /\ UNCHANGED <<walk, events, pool, window, reports, seen>>

\* Mutant: without the check of the cancel event after a node.
NextNodeUnchecked ==
    /\ pc = "record" /\ ~Fatal /\ ~stopAsked
    /\ current' \in Successors[current]
    /\ pc' = "top"
    /\ UNCHANGED <<state, iteration, recoveries, stopAsked, result, events, pool, window, reports, seen>>

NextNode ==
    /\ pc = "record" /\ ~Fatal /\ ~cancelEvent /\ ~stopAsked
    /\ current' \in Successors[current]
    /\ pc' = "top"
    /\ UNCHANGED <<state, iteration, recoveries, stopAsked, result, events, pool, window, reports, seen>>

-----------------------------------------------------------------------------
(* The thread of the executor: _execute_node_step                          *)

Phase(job) == IF job.node \in PreDelay THEN "pre" ELSE "execute"

Begun(job) == [id |-> job.id, node |-> job.node, phase |-> Phase(job),
               tries |-> 0, ok |-> FALSE, cut |-> FALSE]

\* The node ends; its outcome counts if execute() still waits for it.
Finish(job, outcome, history) ==
    /\ busy' = Idle
    /\ IF job.id = iteration /\ pc \in {"await", "grace"}
       THEN future' = outcome /\ seen' = [history EXCEPT !.cut = job.cut]
       ELSE future' = future /\ seen' = history

Outcome(job) == IF job.ok THEN "ok" ELSE "failed"

StartNode ==
    /\ busy = Idle /\ queue # <<>>
    /\ queue' = Tail(queue)
    /\ busy' = Begun(Head(queue))
    /\ UNCHANGED <<state, events, pc, walk, stopAsked, result, future, hangs, window,
                   reports, seen>>

\* The screen is not what pre_verify expects: nothing else is done.
PreVerifyFails ==
    /\ busy = Idle /\ queue # <<>>
    /\ queue' = Tail(queue)
    /\ Finish(Begun(Head(queue)), "failed", seen)
    /\ UNCHANGED <<state, events, pc, walk, stopAsked, result, hangs, window, reports>>

\* After the last attempt: post_delay, where there is one.
Conclude(job) ==
    IF job.node \in PostDelay
    THEN busy' = [job EXCEPT !.phase = "post"] /\ UNCHANGED <<future, seen>>
    ELSE Finish(job, Outcome(job), seen)

InPool == UNCHANGED <<state, pauseEvent, stepCancel, pc, walk, result, queue, window, reports>>

Executing == busy # Idle /\ busy.phase = "execute"

NodeSucceeds ==
    /\ Executing
    /\ \E stop \in (IF busy.node \in Stops THEN BOOLEAN ELSE {FALSE}) :
          stopAsked' = (stopAsked \/ stop)
    /\ Conclude([busy EXCEPT !.ok = TRUE])
    /\ InPool /\ UNCHANGED <<cancelEvent, hangs>>

\* No retry is left, or post_verify failed, or a flag is up.
NodeFails ==
    /\ Executing
    /\ Conclude([busy EXCEPT !.ok = FALSE, !.cut = @ \/ stepCancel])
    /\ InPool /\ UNCHANGED <<cancelEvent, hangs, stopAsked>>

\* node.execute() raises, through _execute_node_step and into the future.
NodeRaises ==
    /\ Executing
    /\ Finish(busy, "raised", seen)
    /\ InPool /\ UNCHANGED <<cancelEvent, hangs, stopAsked>>

NodeRetries ==
    /\ Executing /\ busy.tries < MaxRetries
    /\ ~cancelEvent /\ ~stepCancel
    /\ busy' = [busy EXCEPT !.phase = "retry", !.tries = @ + 1]
    /\ InPool /\ UNCHANGED <<cancelEvent, hangs, stopAsked, future, seen>>

NodeHangs ==
    /\ Executing /\ hangs < MaxHangs
    /\ busy' = [busy EXCEPT !.phase = "hung"]
    /\ hangs' = hangs + 1
    /\ InPool /\ UNCHANGED <<cancelEvent, stopAsked, future, seen>>

Delaying == busy # Idle /\ busy.phase \in {"pre", "retry", "post"}

AfterDelay(job, history) ==
    IF job.phase = "post"
    THEN Finish(job, Outcome(job), history)
    ELSE busy' = [job EXCEPT !.phase = "execute"] /\ seen' = history /\ UNCHANGED future

\* _safe_delay: the time is over.
DelayEnds ==
    /\ Delaying
    /\ AfterDelay(busy, seen)
    /\ InPool /\ UNCHANGED <<cancelEvent, hangs, stopAsked>>

\* The delay ends early and clears the event that ended it.
DelayCancelled ==
    /\ Delaying /\ cancelEvent
    /\ cancelEvent' = FALSE
    /\ AfterDelay(busy, [seen EXCEPT !.cancelLost = TRUE])
    /\ InPool /\ UNCHANGED <<hangs, stopAsked>>

\* Mutant: the thread leaves a node it is asked to give up without a result.
DelayCutLeaves ==
    /\ Delaying /\ ~cancelEvent /\ stepCancel
    /\ busy' = Idle
    /\ InPool /\ UNCHANGED <<cancelEvent, hangs, stopAsked, future, seen>>

DelayCut ==
    /\ Delaying /\ ~cancelEvent /\ stepCancel
    /\ AfterDelay([busy EXCEPT !.cut = TRUE], seen)
    /\ InPool /\ UNCHANGED <<cancelEvent, hangs, stopAsked>>

-----------------------------------------------------------------------------
(* The monitor thread and what comes after execute()                       *)

InMonitor == UNCHANGED <<stepCancel, pc, walk, stopAsked, result, pool, foreground>>

\* stop() sets the monitor's stop event, and waits two seconds for its thread.
Stopping == pc \in {"join", "reported"}

\* while not self._stop_event.is_set(): ... self._stop_event.wait(interval)
MonitorWakes ==
    /\ monitor = "wait"
    /\ monitor' = IF Stopping THEN "off" ELSE "poll"
    /\ UNCHANGED <<state, cancelEvent, pauseEvent, paused, reports, seen>> /\ InMonitor

\* is_foreground() has answered, TRUE also if it raised; pause() and resume()
\* begin by comparing _state.
PollLost(answer) ==
    /\ ~answer /\ ~paused
    /\ \/ state = "running" /\ monitor' = "pauseSet" /\ UNCHANGED paused
       \/ state # "running" /\ monitor' = "wait" /\ paused' = TRUE
    /\ UNCHANGED seen

PollRegained(answer) ==
    /\ answer /\ paused
    /\ \/ state = "paused" /\ monitor' = "resumeClear" /\ UNCHANGED <<paused, seen>>
       \/ /\ state # "paused" /\ monitor' = "wait" /\ paused' = FALSE
          /\ seen' = [seen EXCEPT !.resumeLost = @ \/ pauseEvent]

PollExpired(answer) ==
    /\ ~answer /\ paused /\ Expires
    /\ monitor' = "cancelSet"
    /\ UNCHANGED <<paused, seen>>

PollNothing(answer) ==
    /\ answer # paused
    /\ monitor' = "wait"
    /\ UNCHANGED <<paused, seen>>

Poll ==
    /\ monitor = "poll"
    /\ \E answer \in {foreground, TRUE} :
          PollLost(answer) \/ PollRegained(answer) \/ PollExpired(answer) \/ PollNothing(answer)
    /\ UNCHANGED <<state, cancelEvent, pauseEvent, reports>> /\ InMonitor

\* engine.pause()
PauseSets ==
    /\ monitor = "pauseSet"
    /\ pauseEvent' = TRUE /\ monitor' = "pauseState"
    /\ seen' = [seen EXCEPT !.afterPause = 0]
    /\ UNCHANGED <<state, cancelEvent, paused, reports>> /\ InMonitor

PauseStates ==
    /\ monitor = "pauseState"
    /\ state' = "paused" /\ paused' = TRUE /\ monitor' = "wait"
    /\ UNCHANGED <<cancelEvent, pauseEvent, reports, seen>> /\ InMonitor

\* engine.resume()
ResumeClears ==
    /\ monitor = "resumeClear"
    /\ pauseEvent' = FALSE /\ monitor' = "resumeState"
    /\ seen' = [seen EXCEPT !.resumeLost = FALSE]
    /\ UNCHANGED <<state, cancelEvent, paused, reports>> /\ InMonitor

ResumeStates ==
    /\ monitor = "resumeState"
    /\ state' = "running" /\ paused' = FALSE /\ monitor' = "wait"
    /\ UNCHANGED <<cancelEvent, pauseEvent, reports, seen>> /\ InMonitor

\* engine.cancel(), then on_timeout, which reports a failure, and the end.
CancelSets ==
    /\ monitor = "cancelSet"
    /\ cancelEvent' = TRUE /\ monitor' = "cancelClear"
    /\ seen' = [seen EXCEPT !.cancelled = TRUE, !.afterCancel = 0]
    /\ UNCHANGED <<state, pauseEvent, paused, reports>> /\ InMonitor

CancelClears ==
    /\ monitor = "cancelClear"
    /\ pauseEvent' = FALSE /\ monitor' = "cancelState"
    /\ seen' = [seen EXCEPT !.resumeLost = FALSE]
    /\ UNCHANGED <<state, cancelEvent, paused, reports>> /\ InMonitor

CancelStates ==
    /\ monitor = "cancelState"
    /\ state' = "cancelled" /\ monitor' = "report"
    /\ UNCHANGED <<cancelEvent, pauseEvent, paused, reports, seen>> /\ InMonitor

ReportExpired ==
    /\ monitor = "report"
    /\ reports' = Append(reports, FALSE) /\ monitor' = "off"
    /\ UNCHANGED <<state, cancelEvent, pauseEvent, paused, seen>> /\ InMonitor

\* finally: monitor.stop()
StopMonitor ==
    /\ pc = "returned"
    /\ pc' = "join"
    /\ UNCHANGED <<state, events, walk, stopAsked, result, pool, window, reports, seen>>

\* The monitor has ended or two seconds are over; _run sends the result.
ReportResult ==
    /\ pc = "join"
    /\ reports' = Append(reports, result = "completed") /\ pc' = "reported"
    /\ UNCHANGED <<state, events, walk, stopAsked, result, pool, window, seen>>

\* The user switches windows.
SwitchWindow ==
    /\ Monitored
    /\ foreground' = ~foreground
    /\ UNCHANGED <<state, events, pc, walk, stopAsked, result, pool, monitor, paused, reports, seen>>

-----------------------------------------------------------------------------
\* load() has set PENDING and cleared the events; the monitor has been started.
Init ==
    /\ state = "pending"
    /\ cancelEvent = FALSE /\ pauseEvent = FALSE /\ stepCancel = FALSE
    /\ pc = "begin" /\ current = Entry /\ iteration = 0
    /\ recoveries = [n \in Nodes |-> 0]
    /\ stopAsked = FALSE /\ result = "none"
    /\ queue = <<>> /\ busy = Idle /\ future = "none" /\ hangs = 0
    /\ monitor = (IF Monitored THEN "poll" ELSE "off")
    /\ paused = FALSE
    /\ foreground \in (IF Monitored THEN BOOLEAN ELSE {TRUE})
    /\ reports = <<>>
    /\ seen = [afterCancel |-> 0, afterPause |-> 0, cancelled |-> FALSE,
               cancelLost |-> FALSE, resumeLost |-> FALSE, cut |-> FALSE,
               flagLeft |-> FALSE]

Execute ==
    \/ Invalid \/ Begin \/ ClearCancel \/ ClearPause
    \/ LoopEnds \/ LoopCancelled \/ LoopGoesOn
    \/ PauseTest \/ PauseBody \/ SetPaused
    \/ NodeMissing \/ SkipNode \/ SubmitNode
    \/ NodeDone \/ StepTimeout \/ GraceOver
    \/ Recovered \/ NodeFatal \/ Breaks \/ CancelledAfterNode \/ StopRequested \/ NextNode
    \/ StopMonitor \/ ReportResult

RunNode ==
    \/ StartNode \/ PreVerifyFails
    \/ NodeSucceeds \/ NodeFails \/ NodeRaises \/ NodeRetries
    \/ DelayEnds \/ DelayCancelled \/ DelayCut

Monitor ==
    \/ MonitorWakes \/ Poll \/ PauseSets \/ PauseStates \/ ResumeClears \/ ResumeStates
    \/ CancelSets \/ CancelClears \/ CancelStates \/ ReportExpired

Next == Execute \/ RunNode \/ NodeHangs \/ Monitor \/ SwitchWindow

Spec == Init /\ [][Next]_vars

\* The three threads run; a node need not come back.
FairSpec == Spec /\ WF_vars(Execute) /\ WF_vars(RunNode) /\ WF_vars(Monitor)

-----------------------------------------------------------------------------
(* Properties                                                              *)

\* execute() never waits for a node that nobody will run: the node it waits
\* for is the one its executor runs, or the last one in the executor's queue,
\* however many nodes that were given up on are before it.
WaitedForIsThere ==
    pc \in {"await", "grace"} /\ future = "none" =>
        \/ busy.id = iteration
        \/ queue # <<>> /\ queue[Len(queue)].id = iteration

\* Unless the event set by cancel() was cleared by somebody else, at most one
\* node begins after cancel(): the one already past the check in the loop.
CancelBounded == seen.cancelled /\ ~seen.cancelLost => seen.afterCancel <= 1

\* While the pause event stays set, at most one node begins after it was set:
\* the one already past the test of the pause loop.
PauseBounded == pauseEvent => seen.afterPause <= 1

\* The worker does not report that a run failed for the window's sake and then
\* that it succeeded, unless the cancel was cleared by a delay or came when no
\* node was left to run.  The backend keeps the first report.
ReportsAgree == reports = <<FALSE, TRUE>> => seen.cancelLost \/ seen.afterCancel = 0

\* A node that the step flag cut short is not taken for a success, unless the
\* flag, one for all nodes, was left up by an earlier node that raised.
CutNotCounted == pc = "record" /\ result = "ok" /\ ~seen.flagLeft => ~seen.cut

\* A run ends once the window stays in the foreground, hanging nodes or not,
\* except when a resume() found another value than PAUSED in _state and left
\* the pause event set: nothing clears it then.
EndsUnlessResumeLost ==
    <>[]foreground => <>(pc = "reported") \/ <>[](seen.resumeLost)
=============================================================================
