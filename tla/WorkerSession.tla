---------------------------- MODULE WorkerSession ----------------------------
(***************************************************************************)
(* Whether a worker counts as online, and which of its connections says    *)
(* so: WorkerConsumer (one per WebSocket) with its heartbeat checker, the  *)
(* sweep check_agent_heartbeats, and dispatch_task, which all write the    *)
(* Worker row.                                                             *)
(*                                                                         *)
(* A consumer handles its messages one after the other; its checker is a   *)
(* task of its own.  The worker opens one connection at a time, but the    *)
(* server may notice much later that the one before is gone.  Time is only *)
(* whether a heartbeat is older than HEARTBEAT_OFFLINE_SECONDS.            *)
(***************************************************************************)
EXTENDS Integers, FiniteSets

CONSTANTS
    Channels,  \* connections of the worker
    Threads,   \* executions, each sent by a dispatch_task of its own
    NoChannel

ASSUME SessionAssumption == IsFiniteSet(Channels) /\ NoChannel \notin Channels

VARIABLES
    status,      \* Worker.status
    owner,       \* Worker.active_channel
    recent,      \* Worker.last_heartbeat is recent
    consumer,    \* per connection: where its consumer is
    peer,        \* connections the worker still holds
    flight,      \* connections without a peer that still deliver a heartbeat
    last,        \* per connection: _last_heartbeat of the consumer
    checker,     \* per connection: where its _heartbeat_checker is
    sweep,       \* check_agent_heartbeats has found the worker stale
    job,         \* per thread: the Worker row dispatch_task has read
    exec,        \* per thread: its execution
    newest,      \* history: the connection that claimed last
    gaveUp,      \* history: connections whose checker set the worker offline
    excused,     \* history: connections that were going offline when a newer one
                 \* claimed, or were given the row back by a stale save
    clobbered,   \* history: a stale save has changed active_channel since newest claimed
    older,       \* history: connections older than newest when it was dispatched
    wronged      \* history: executions failed by an older connection, without excuse

rowVars == <<status, owner, recent>>
connVars == <<consumer, peer, flight, last, checker>>
jobVars == <<job, exec, older>>
history == <<newest, gaveUp, excused, clobbered>>
vars == <<rowVars, connVars, sweep, jobVars, wronged, history>>

Maybe == Channels \cup {NoChannel}
JobType == [pc : {"idle", "chosen", "over"}, owner : Maybe, recent : BOOLEAN]

NoJob == [pc |-> "idle", owner |-> NoChannel, recent |-> FALSE]

TypeOK ==
    /\ status \in {"online", "idle", "busy", "offline"}
    /\ owner \in Maybe /\ newest \in Maybe
    /\ recent \in BOOLEAN /\ sweep \in BOOLEAN /\ clobbered \in BOOLEAN
    /\ consumer \in [Channels -> {"new", "joined", "claimed", "registered", "leaving",
                                  "guarded", "closed"}]
    /\ peer \in SUBSET Channels /\ Cardinality(peer) <= 1
    /\ flight \in SUBSET Channels
    /\ last \in [Channels -> {"never", "recent", "old"}]
    /\ checker \in [Channels -> {"off", "sleeps", "owns", "guarded", "ended"}]
    /\ job \in [Threads -> JobType]
    /\ exec \in [Threads -> {"none", "running", "failed"}]
    /\ gaveUp \in SUBSET Channels /\ excused \in SUBSET Channels
    /\ older \in [Threads -> SUBSET Channels] /\ wronged \in SUBSET Threads

-----------------------------------------------------------------------------
(* connect() and agent.register                                            *)

\* accept and group_add; the worker's end of an older connection is gone, but
\* a last heartbeat may have been sent on it.
Joins(c) ==
    /\ consumer[c] = "new"
    /\ consumer' = [consumer EXCEPT ![c] = "joined"]
    /\ peer' = {c}
    /\ flight' \in {flight, flight \cup peer}
    /\ UNCHANGED <<rowVars, last, checker, sweep, jobVars, wronged, history>>

GoingOffline == {c \in Channels : consumer[c] = "guarded" \/ checker[c] = "guarded"}

\* _db_claim_active_channel takes the row whoever has it.
Claims(c) ==
    /\ consumer[c] = "joined"
    /\ status' = "online" /\ owner' = c /\ recent' = TRUE
    /\ consumer' = [consumer EXCEPT ![c] = "claimed"]
    /\ checker' = [checker EXCEPT ![c] = "sleeps"]
    /\ newest' = c /\ clobbered' = FALSE
    /\ excused' = excused \cup GoingOffline
    /\ UNCHANGED <<peer, flight, last, sweep, jobVars, wronged, gaveUp>>

\* The register frame, sent right away, is written without asking for the owner.
Registers(c) ==
    /\ consumer[c] = "claimed"
    /\ status' = "online" /\ recent' = TRUE
    /\ last' = [last EXCEPT ![c] = "recent"]
    /\ consumer' = [consumer EXCEPT ![c] = "registered"]
    /\ UNCHANGED <<owner, peer, flight, checker, sweep, jobVars, wronged, history>>

-----------------------------------------------------------------------------
(* Heartbeats                                                              *)

Beats(c) == consumer[c] = "registered" /\ (c \in peer \/ c \in flight)

\* Mutant: the status is left to the register frame.
BeatTimeOnly(c) ==
    /\ Beats(c) /\ flight' = flight \ {c}
    /\ status' = status /\ recent' = (recent \/ owner = c)
    /\ last' = [last EXCEPT ![c] = "recent"]
    /\ UNCHANGED <<owner, consumer, peer, checker, sweep, jobVars, wronged, history>>

\* Mutant: the status of the frame is written without status_map.
BeatUnmapped(c) ==
    /\ Beats(c) /\ flight' = flight \ {c}
    /\ IF owner = c THEN status' = "ready" /\ recent' = TRUE ELSE UNCHANGED <<status, recent>>
    /\ last' = [last EXCEPT ![c] = "recent"]
    /\ UNCHANGED <<owner, consumer, peer, checker, sweep, jobVars, wronged, history>>

\* update_agent_heartbeat writes the row of the owner only; the frame carries no
\* status, so the worker is IDLE.
Beat(c) ==
    /\ Beats(c) /\ flight' = flight \ {c}
    /\ IF owner = c THEN status' = "idle" /\ recent' = TRUE ELSE UNCHANGED <<status, recent>>
    /\ last' = [last EXCEPT ![c] = "recent"]
    /\ UNCHANGED <<owner, consumer, peer, checker, sweep, jobVars, wronged, history>>

RowAges ==
    /\ recent
    /\ recent' = FALSE
    /\ job' = [t \in Threads |-> [job[t] EXCEPT !.recent = FALSE]]
    /\ UNCHANGED <<status, owner, connVars, sweep, exec, older, wronged, history>>

LastAges(c) ==
    /\ last[c] = "recent"
    /\ last' = [last EXCEPT ![c] = "old"]
    /\ UNCHANGED <<rowVars, consumer, peer, flight, checker, sweep, jobVars, wronged, history>>

-----------------------------------------------------------------------------
(* set_agent_offline, for disconnect() and for the checker                 *)

\* Mutant: the UPDATE is not restricted to the channel.
OfflineForAll(c) ==
    status' = "offline" /\ owner' = NoChannel /\ recent' = recent

\* The UPDATE that is restricted to the channel; it hits the owner's row.
Offline(c) ==
    IF owner = c
    THEN status' = "offline" /\ owner' = NoChannel /\ recent' = recent
    ELSE UNCHANGED rowVars

Hits(c) == rowVars' # rowVars \/ owner = c

Running == {t \in Threads : exec[t] = "running"}

\* Every RUNNING execution of the worker is failed, by a statement of its own.
FailRunning(by) ==
    /\ exec' = [t \in Threads |-> IF t \in Running THEN "failed" ELSE exec[t]]
    /\ wronged' = wronged \cup {t \in Running : by \in older[t] \ excused}
    /\ older' = [t \in Threads |-> IF t \in Running THEN {} ELSE older[t]]

\* The socket is closed, by the worker or because it does not answer; disconnect
\* cancels the checker and leaves the group.
Disconnects(c) ==
    /\ consumer[c] \in {"joined", "claimed", "registered"}
    /\ consumer' = [consumer EXCEPT ![c] = "leaving"]
    /\ checker' = [checker EXCEPT ![c] = "off"]
    /\ peer' = peer \ {c} /\ flight' = flight \ {c}
    /\ last' = [last EXCEPT ![c] = "never"]
    /\ UNCHANGED <<rowVars, sweep, jobVars, wronged, history>>

Leaves(c) ==
    /\ consumer[c] = "leaving"
    /\ Offline(c)
    /\ consumer' = [consumer EXCEPT ![c] = IF Hits(c) THEN "guarded" ELSE "closed"]
    /\ UNCHANGED <<peer, flight, last, checker, sweep, jobVars, wronged, history>>

LeftFails(c) ==
    /\ consumer[c] = "guarded"
    /\ consumer' = [consumer EXCEPT ![c] = "closed"]
    /\ FailRunning(c)
    /\ UNCHANGED <<rowVars, peer, flight, last, checker, sweep, job, history>>

\* The worker's end goes without a word, a last heartbeat apart.
PeerGone(c) ==
    /\ c \in peer
    /\ peer' = peer \ {c}
    /\ flight' = flight \cup {c} \/ UNCHANGED flight
    /\ UNCHANGED <<rowVars, consumer, last, checker, sweep, jobVars, wronged, history>>

-----------------------------------------------------------------------------
(* _heartbeat_checker                                                      *)

\* A checker that is not the owner ends for good.
CheckerAsks(c) ==
    /\ checker[c] = "sleeps" /\ last[c] # "never"
    /\ checker' = [checker EXCEPT ![c] = IF owner = c THEN "owns" ELSE "ended"]
    /\ UNCHANGED <<rowVars, consumer, peer, flight, last, sweep, jobVars, wronged, history>>

\* It goes on sleeping, or sets the worker offline though the socket is open.
CheckerActs(c) ==
    /\ checker[c] = "owns"
    /\ IF last[c] = "old"
       THEN /\ Offline(c)
            /\ checker' = [checker EXCEPT ![c] = IF Hits(c) THEN "guarded" ELSE "sleeps"]
            /\ gaveUp' = gaveUp \cup {c}
       ELSE /\ checker' = [checker EXCEPT ![c] = "sleeps"]
            /\ UNCHANGED <<rowVars, gaveUp>>
    /\ UNCHANGED <<consumer, peer, flight, last, sweep, jobVars, wronged, newest, excused,
                   clobbered>>

CheckerFails(c) ==
    /\ checker[c] = "guarded"
    /\ checker' = [checker EXCEPT ![c] = "sleeps"]
    /\ FailRunning(c)
    /\ UNCHANGED <<rowVars, consumer, peer, flight, last, sweep, job, history>>

-----------------------------------------------------------------------------
(* check_agent_heartbeats                                                  *)

\* Mutant: a busy worker is not looked at.
SweepFindsIdle ==
    /\ ~sweep /\ status \in {"online", "idle"} /\ ~recent
    /\ sweep' = TRUE
    /\ UNCHANGED <<rowVars, connVars, jobVars, wronged, history>>

SweepFinds ==
    /\ ~sweep /\ status # "offline" /\ ~recent
    /\ sweep' = TRUE
    /\ UNCHANGED <<rowVars, connVars, jobVars, wronged, history>>

\* active_channel is not written; the executions are failed if the silence is
\* short enough for the recovery engine to wait.
SweepWrites ==
    /\ sweep /\ sweep' = FALSE
    /\ status' = "offline"
    /\ FailRunning(NoChannel) \/ UNCHANGED <<exec, older, wronged>>
    /\ UNCHANGED <<owner, recent, connVars, job, history>>

-----------------------------------------------------------------------------
(* dispatch_task, from choosing the worker to agent.save()                 *)

DispatchReads(t) ==
    /\ job[t].pc = "idle" /\ status # "offline"
    /\ job' = [job EXCEPT ![t] = [pc |-> "chosen", owner |-> owner, recent |-> recent]]
    /\ UNCHANGED <<rowVars, connVars, sweep, exec, older, wronged, history>>

DispatchRuns(t) ==
    /\ job[t].pc = "chosen" /\ exec[t] = "none"
    /\ exec' = [exec EXCEPT ![t] = "running"]
    /\ older' = [older EXCEPT ![t] = {c \in Channels : consumer[c] \notin {"new", "joined"}}
                                       \ {newest}]
    /\ UNCHANGED <<rowVars, connVars, sweep, job, wronged, history>>

\* save() writes every column as it was read, but for the status.
DispatchSaves(t) ==
    /\ job[t].pc = "chosen" /\ exec[t] # "none"
    /\ status' = "busy" /\ owner' = job[t].owner /\ recent' = job[t].recent
    /\ clobbered' = (clobbered \/ job[t].owner # owner)
    /\ excused' = IF job[t].owner # owner THEN excused \cup ({job[t].owner} \ {NoChannel})
                  ELSE excused
    /\ job' = [job EXCEPT ![t] = [NoJob EXCEPT !.pc = "over"]]
    /\ UNCHANGED <<connVars, sweep, exec, older, wronged, newest, gaveUp>>

-----------------------------------------------------------------------------
Init ==
    /\ status = "offline" /\ owner = NoChannel /\ recent = FALSE
    /\ consumer = [c \in Channels |-> "new"] /\ peer = {} /\ flight = {}
    /\ last = [c \in Channels |-> "never"] /\ checker = [c \in Channels |-> "off"]
    /\ sweep = FALSE
    /\ job = [t \in Threads |-> NoJob]
    /\ exec = [t \in Threads |-> "none"]
    /\ newest = NoChannel /\ gaveUp = {} /\ excused = {} /\ clobbered = FALSE
    /\ older = [t \in Threads |-> {}] /\ wronged = {}

Consume(c) == Claims(c) \/ Registers(c) \/ Beat(c) \/ Leaves(c) \/ LeftFails(c)
Check(c) == CheckerAsks(c) \/ CheckerActs(c) \/ CheckerFails(c)
Sweep == SweepFinds \/ SweepWrites
Dispatch(t) == DispatchRuns(t) \/ DispatchSaves(t)

Next ==
    \/ \E c \in Channels :
          Joins(c) \/ LastAges(c) \/ Disconnects(c) \/ PeerGone(c)
              \/ Consume(c) \/ Check(c)
    \/ RowAges \/ Sweep
    \/ \E t \in Threads : DispatchReads(t) \/ Dispatch(t)

Spec == Init /\ [][Next]_vars

\* Messages are handled, the worker beats while it is connected, the beat sweeps,
\* started dispatches finish, and the server notices that a peer is gone.
FairSpec ==
    /\ Spec
    /\ \A c \in Channels :
          /\ WF_vars(Consume(c)) /\ WF_vars(Check(c))
          /\ WF_vars(c \notin peer /\ Disconnects(c))
    /\ WF_vars(RowAges) /\ WF_vars(Sweep)
    /\ \A t \in Threads : WF_vars(Dispatch(t))

-----------------------------------------------------------------------------
(* Properties                                                              *)

InCharge(c) == c = newest /\ consumer[c] \in {"claimed", "registered"}

\* Older connections, however late they beat, time out or close, do not take the
\* worker from the connection that claimed it last; only its own checker and a
\* stale agent.save() do.
NewestOwns == \A c \in Channels : InCharge(c) => owner = c \/ c \in gaveUp \/ clobbered

\* "Not the current connection: do not cancel executions, so as not to kill the
\* tasks of the new one" (services.py:256): the loss of an older connection fails
\* no execution dispatched since, but for those going offline at that moment and
\* those a stale agent.save() has made the owner again.
NewTasksSurvive == wronged = {}

\* A worker that stays connected is again and again not OFFLINE, whatever the
\* sweep read before, unless its own checker gave up or the row was written back.
ComesBack ==
    \A c \in Channels :
        <>[](InCharge(c) /\ c \in peer) =>
            []<>(status # "offline") \/ <>[](c \in gaveUp \/ clobbered)

\* A worker that is gone is OFFLINE in the end, a dispatch that came in between
\* and marked it BUSY notwithstanding.
GoneIsOffline == <>[](peer = {}) => <>[](status = "offline")

=============================================================================
