-------------------------------- MODULE Outbox --------------------------------
(***************************************************************************)
(* The worker's side of the WebSocket: WorkerConnection and OutboxStore.   *)
(*                                                                         *)
(* Frames are sent by whoever has one, each by a coroutine of its own; a   *)
(* frame that finds the connection down is queued, in memory and, when a   *)
(* store is given, on disk.  listen() reads until the socket is closed,    *)
(* reconnects and replays the queue.  All coroutines share one event loop, *)
(* so a step goes from one await to the next.                              *)
(***************************************************************************)
EXTENDS Integers, Sequences, SequencesExt

CONSTANTS
    Frames,      \* frames the worker has to send, numbered in the order they come
    MaxQueue,    \* OUTBOX_MAX_SIZE
    MaxRetries,  \* retries of @retry_network()
    MaxBreaks,   \* bound: broken connections
    MaxRaises,   \* bound: sends that fail for another reason
    MaxCrashes   \* bound: times the process dies

ASSUME OutboxAssumption ==
    /\ Frames \subseteq Nat /\ IsFiniteSet(Frames)
    /\ MaxQueue \in Nat \ {0} /\ MaxRetries \in Nat
    /\ MaxBreaks \in Nat /\ MaxRaises \in Nat /\ MaxCrashes \in Nat

VARIABLES
    persistent, \* an OutboxStore was given (main() gives none)
    link,       \* the socket is open
    connected,  \* _connected
    listener,   \* where listen() is
    sender,     \* per frame: not come yet, waiting for another attempt, done with
    tries,      \* per frame: failed attempts of its send_message
    memory,     \* _outbox
    disk,       \* rows of the outbox table
    replay,     \* locals of _flush_outbox, see ReplayType
    breaks, raises, crashes,
    restored,   \* history: the queue was loaded from disk and not replayed since
    delivered,  \* history: times the server received a frame
    lost        \* history: how a frame was given up

vars == <<persistent, link, connected, listener, sender, tries, memory, disk, replay, breaks,
          raises, crashes, restored, delivered, lost>>

\* overflow: dropped by the full queue; raised: its send failed for good; replay:
\* its replay did; skipped: counted as replayed without being sent; wire: sent
\* into a connection that was broken already; crash: the process died; load: more
\* rows than the queue holds were loaded.
Losses == {"overflow", "raised", "replay", "skipped", "wire", "crash", "load"}

Queue == UNION {[1..n -> Frames] : n \in 0..MaxQueue}
ReplayType == [pending : Queue, sent : 0..MaxQueue, at : 1 .. MaxQueue + 1,
               tries : 0..MaxRetries]
NoReplay == [pending |-> <<>>, sent |-> 0, at |-> 1, tries |-> 0]

TypeOK ==
    /\ persistent \in BOOLEAN /\ link \in BOOLEAN /\ connected \in BOOLEAN
    /\ restored \in BOOLEAN
    /\ listener \in {"connects", "reads", "reconnects", "registers", "replays", "ended"}
    /\ sender \in [Frames -> {"new", "sends", "over"}]
    /\ tries \in [Frames -> 0..MaxRetries]
    /\ memory \in Queue
    /\ disk \in Seq(Frames) /\ (persistent \/ disk = <<>>)
    /\ replay \in ReplayType
    /\ breaks \in 0..MaxBreaks /\ raises \in 0..MaxRaises /\ crashes \in 0..MaxCrashes
    /\ delivered \in [Frames -> 0 .. 1 + MaxCrashes]
    /\ lost \in [Frames -> SUBSET Losses]

-----------------------------------------------------------------------------
(* The queue and its copy on disk                                          *)

Newest(queue, n) == SubSeq(queue, Len(queue) - n + 1, Len(queue))

\* Mutant: the deque has no maxlen.
KeepAll(queue) == queue

\* A deque(maxlen): what does not fit falls out in front.
Keep(queue) == IF Len(queue) <= MaxQueue THEN queue ELSE Newest(queue, MaxQueue)
Dropped(queue) == ToSet(SubSeq(queue, 1, Len(queue) - MaxQueue))

DeleteFirst(rows, n) == SubSeq(rows, n + 1, Len(rows))

Lose(fs, how) == lost' = [f \in Frames |-> lost[f] \cup IF f \in fs THEN {how} ELSE {}]

Deliver(f) == delivered' = [delivered EXCEPT ![f] = @ + 1]

\* The oldest row goes when the queue is full, and the new one is inserted.
StoreFrame(f) ==
    disk' = IF persistent
            THEN Append(DeleteFirst(disk, IF Len(memory) >= MaxQueue THEN 1 ELSE 0), f)
            ELSE disk

\* _enqueue_outbox
Enqueue(f) ==
    /\ memory' = Keep(Append(memory, f))
    /\ Lose(Dropped(Append(memory, f)), "overflow")
    /\ StoreFrame(f)

-----------------------------------------------------------------------------
(* send_message of a task's frame                                          *)

Running == listener \notin {"connects", "ended"}

(* The first attempt is made when the frame comes, the others after a pause. *)
Attempts(f) ==
    /\ Running
    /\ \/ sender[f] = "sends"
       \/ sender[f] = "new" /\ \A g \in Frames : g < f => sender[g] # "new"

Over(f) == sender' = [sender EXCEPT ![f] = "over"] /\ tries' = [tries EXCEPT ![f] = 0]

SendQueues(f) ==
    /\ Attempts(f) /\ ~connected
    /\ Enqueue(f)
    /\ Over(f)
    /\ UNCHANGED <<persistent, link, connected, listener, replay, breaks, raises, crashes,
                   restored, delivered>>

SendSucceeds(f) ==
    /\ Attempts(f) /\ connected /\ link
    /\ Deliver(f)
    /\ Over(f)
    /\ UNCHANGED <<persistent, link, connected, listener, memory, disk, replay, breaks, raises,
                   crashes, restored, lost>>

\* send() returned, and the connection turns out to have been dead.
SendVanishes(f) ==
    /\ Attempts(f) /\ connected /\ link /\ breaks < MaxBreaks
    /\ link' = FALSE /\ breaks' = breaks + 1
    /\ Lose({f}, "wire")
    /\ Over(f)
    /\ UNCHANGED <<persistent, connected, listener, memory, disk, replay, raises, crashes,
                   restored, delivered>>

\* ConnectionClosed: tried again until the retries are used up.
SendRetries(f) ==
    /\ Attempts(f) /\ connected /\ ~link /\ tries[f] < MaxRetries
    /\ sender' = [sender EXCEPT ![f] = "sends"]
    /\ tries' = [tries EXCEPT ![f] = @ + 1]
    /\ UNCHANGED <<persistent, link, connected, listener, memory, disk, replay, breaks, raises,
                   crashes, restored, delivered, lost>>

SendGivesUp(f) ==
    /\ Attempts(f) /\ connected /\ ~link /\ tries[f] = MaxRetries
    /\ Lose({f}, "raised")
    /\ Over(f)
    /\ UNCHANGED <<persistent, link, connected, listener, memory, disk, replay, breaks, raises,
                   crashes, restored, delivered>>

\* An exception that is not retried takes the connection for lost.
SendRaises(f) ==
    /\ Attempts(f) /\ connected /\ raises < MaxRaises
    /\ connected' = FALSE /\ raises' = raises + 1
    /\ Lose({f}, "raised")
    /\ Over(f)
    /\ UNCHANGED <<persistent, link, listener, memory, disk, replay, breaks, crashes, restored,
                   delivered>>

-----------------------------------------------------------------------------
(* connect(), listen() and _try_reconnect()                                *)

LinkBreaks ==
    /\ link /\ breaks < MaxBreaks
    /\ link' = FALSE /\ breaks' = breaks + 1
    /\ UNCHANGED <<persistent, connected, listener, sender, tries, memory, disk, replay, raises,
                   crashes, restored, delivered, lost>>

\* The first connection; what was restored is not replayed.
Connects ==
    /\ listener = "connects"
    /\ link' = TRUE /\ connected' = TRUE /\ listener' = "reads"
    /\ UNCHANGED <<persistent, sender, tries, memory, disk, replay, breaks, raises, crashes,
                   restored, delivered, lost>>

Notices ==
    /\ listener = "reads" /\ ~link
    /\ connected' = FALSE /\ listener' = "reconnects"
    /\ UNCHANGED <<persistent, link, sender, tries, memory, disk, replay, breaks, raises,
                   crashes, restored, delivered, lost>>

\* From here on frames are sent at once, before those that are queued.
Reconnects ==
    /\ listener = "reconnects"
    /\ link' = TRUE /\ connected' = TRUE /\ listener' = "registers"
    /\ UNCHANGED <<persistent, sender, tries, memory, disk, replay, breaks, raises, crashes,
                   restored, delivered, lost>>

\* The register and hello frames have been sent, or have failed.
ReconnectsAgain ==
    /\ listener = "registers" /\ ~connected
    /\ listener' = "reconnects"
    /\ UNCHANGED <<persistent, link, connected, sender, tries, memory, disk, replay, breaks,
                   raises, crashes, restored, delivered, lost>>

-----------------------------------------------------------------------------
(* _flush_outbox                                                           *)

\* Mutant: the queue is not cleared when it is copied.
ReplayBeginsKeeping ==
    /\ listener = "registers" /\ connected
    /\ replay' = [NoReplay EXCEPT !.pending = memory]
    /\ listener' = "replays" /\ restored' = FALSE
    /\ UNCHANGED <<persistent, link, connected, sender, tries, memory, disk, breaks, raises,
                   crashes, delivered, lost>>

\* Mutant: the rows are deleted when the replay begins.
ReplayBeginsDeleting ==
    /\ listener = "registers" /\ connected
    /\ replay' = [NoReplay EXCEPT !.pending = memory]
    /\ memory' = <<>>
    /\ disk' = DeleteFirst(disk, Len(memory))
    /\ listener' = "replays" /\ restored' = FALSE
    /\ UNCHANGED <<persistent, link, connected, sender, tries, breaks, raises, crashes,
                   delivered, lost>>

\* Mutant: no replay after a reconnect.
ReplayNever ==
    /\ listener = "registers" /\ connected
    /\ listener' = "reads" /\ restored' = FALSE
    /\ UNCHANGED <<persistent, link, connected, sender, tries, memory, disk, replay, breaks,
                   raises, crashes, delivered, lost>>

ReplayBegins ==
    /\ listener = "registers" /\ connected
    /\ replay' = [NoReplay EXCEPT !.pending = memory]
    /\ memory' = <<>>
    /\ listener' = "replays" /\ restored' = FALSE
    /\ UNCHANGED <<persistent, link, connected, sender, tries, disk, breaks, raises, crashes,
                   delivered, lost>>

Replaying == listener = "replays" /\ replay.at <= Len(replay.pending)
Current == replay.pending[replay.at]
Onward == [replay EXCEPT !.at = @ + 1, !.tries = 0]
CountSent(r) == [r EXCEPT !.sent = @ + 1]

ReplaySucceeds ==
    /\ Replaying /\ connected /\ link
    /\ Deliver(Current)
    /\ replay' = CountSent(Onward)
    /\ UNCHANGED <<persistent, link, connected, listener, sender, tries, memory, disk, breaks,
                   raises, crashes, restored, lost>>

ReplayVanishes ==
    /\ Replaying /\ connected /\ link /\ breaks < MaxBreaks
    /\ link' = FALSE /\ breaks' = breaks + 1
    /\ Lose({Current}, "wire")
    /\ replay' = CountSent(Onward)
    /\ UNCHANGED <<persistent, connected, listener, sender, tries, memory, disk, raises,
                   crashes, restored, delivered>>

ReplayRetries ==
    /\ Replaying /\ connected /\ ~link /\ replay.tries < MaxRetries
    /\ replay' = [replay EXCEPT !.tries = @ + 1]
    /\ UNCHANGED <<persistent, link, connected, listener, sender, tries, memory, disk, breaks,
                   raises, crashes, restored, delivered, lost>>

\* The exception is logged, and the next frame tried.
ReplayGivesUp ==
    /\ Replaying /\ connected /\ ~link /\ replay.tries = MaxRetries
    /\ Lose({Current}, "replay")
    /\ replay' = Onward
    /\ UNCHANGED <<persistent, link, connected, listener, sender, tries, memory, disk, breaks,
                   raises, crashes, restored, delivered>>

ReplayRaises ==
    /\ Replaying /\ connected /\ raises < MaxRaises
    /\ connected' = FALSE /\ raises' = raises + 1
    /\ Lose({Current}, "replay")
    /\ replay' = Onward
    /\ UNCHANGED <<persistent, link, listener, sender, tries, memory, disk, breaks, crashes,
                   restored, delivered>>

\* A retry that finds the connection down returns, as if it had sent.
ReplaySkips ==
    /\ Replaying /\ ~connected /\ replay.tries > 0
    /\ Lose({Current}, "skipped")
    /\ replay' = CountSent(Onward)
    /\ UNCHANGED <<persistent, link, connected, listener, sender, tries, memory, disk, breaks,
                   raises, crashes, restored, delivered>>

\* Mutant: what is left is not put back.
RestForgotten == <<>>

Rest == DeleteFirst(replay.pending, replay.sent)

\* The rest goes back behind what came meanwhile; listen() ends, and main().
ReplayInterrupted ==
    /\ Replaying /\ ~connected /\ replay.tries = 0
    /\ memory' = Keep(memory \o Rest)
    /\ Lose(Dropped(memory \o Rest), "overflow")
    /\ disk' = DeleteFirst(disk, replay.sent)
    /\ replay' = NoReplay
    /\ listener' = "ended"
    /\ UNCHANGED <<persistent, link, connected, sender, tries, breaks, raises, crashes,
                   restored, delivered>>

ReplayEnds ==
    /\ listener = "replays" /\ replay.at > Len(replay.pending)
    /\ disk' = DeleteFirst(disk, replay.sent)
    /\ replay' = NoReplay
    /\ listener' = IF connected THEN "reads" ELSE "ended"
    /\ UNCHANGED <<persistent, link, connected, sender, tries, memory, breaks, raises, crashes,
                   restored, delivered, lost>>

-----------------------------------------------------------------------------
(* The process dies, or has ended, and is started again                    *)

InProcess ==
    {f \in Frames : sender[f] = "sends"}
        \cup ToSet(memory) \cup ToSet(DeleteFirst(replay.pending, replay.at - 1))

Restarts ==
    /\ crashes < MaxCrashes
    /\ crashes' = crashes + 1
    /\ memory' = Keep(disk) /\ restored' = (disk # <<>>)
    /\ lost' = [f \in Frames |->
                  lost[f] \cup (IF f \in InProcess \ ToSet(disk) THEN {"crash"} ELSE {})
                          \cup (IF f \in Dropped(disk) THEN {"load"} ELSE {})]
    /\ sender' = [f \in Frames |-> IF sender[f] = "sends" THEN "over" ELSE sender[f]]
    /\ tries' = [f \in Frames |-> 0]
    /\ replay' = NoReplay
    /\ link' = FALSE /\ connected' = FALSE /\ listener' = "connects"
    /\ UNCHANGED <<persistent, disk, breaks, raises, delivered>>

-----------------------------------------------------------------------------
Init ==
    /\ persistent \in BOOLEAN
    /\ link = FALSE /\ connected = FALSE /\ listener = "connects"
    /\ sender = [f \in Frames |-> "new"] /\ tries = [f \in Frames |-> 0]
    /\ memory = <<>> /\ disk = <<>> /\ replay = NoReplay
    /\ breaks = 0 /\ raises = 0 /\ crashes = 0 /\ restored = FALSE
    /\ delivered = [f \in Frames |-> 0] /\ lost = [f \in Frames |-> {}]

Send(f) == SendQueues(f) \/ SendSucceeds(f) \/ SendRetries(f) \/ SendGivesUp(f)
Listen == Connects \/ Notices \/ Reconnects \/ ReconnectsAgain
Replay ==
    \/ ReplayBegins \/ ReplayEnds \/ ReplayInterrupted \/ ReplaySucceeds \/ ReplayRetries
    \/ ReplayGivesUp \/ ReplaySkips

Next ==
    \/ \E f \in Frames : Send(f) \/ SendVanishes(f) \/ SendRaises(f)
    \/ Listen \/ Replay \/ ReplayVanishes \/ ReplayRaises
    \/ LinkBreaks \/ Restarts

Spec == Init /\ [][Next]_vars

\* The event loop runs what is ready, the server can be reached in the end.
FairSpec ==
    /\ Spec
    /\ WF_vars(Listen) /\ WF_vars(Replay)
    /\ \A f \in Frames : WF_vars(sender[f] = "sends" /\ Send(f))

-----------------------------------------------------------------------------
(* Properties                                                              *)

\* If there is a store, a crash loses nothing that is queued or waits to be
\* replayed: what is queued is on disk while listen() runs, and what waits in a
\* replay lacks its row only in exchange for a frame the full queue has dropped
\* (the replay has emptied the queue, so the oldest row is not the oldest frame's).
QueuedIsOnDisk ==
    persistent =>
        /\ listener # "ended" => ToSet(memory) \subseteq ToSet(disk)
        /\ Cardinality((ToSet(memory) \cup ToSet(DeleteFirst(replay.pending, replay.at - 1)))
                           \ ToSet(disk))
               <= Cardinality({f \in Frames : "overflow" \in lost[f]})

\* The server receives a frame once, and once more only for each restart.
DeliveredOnce == \A f \in Frames : delivered[f] <= 1 + IF persistent THEN crashes ELSE 0

\* A frame that has been offered is somewhere: at the server, with its sender,
\* queued, on disk, or given up in one of the ways that are known.
NoneVanishes ==
    \A f \in Frames :
        \/ sender[f] \in {"new", "sends"} \/ delivered[f] > 0 \/ lost[f] # {}
        \/ f \in InProcess \cup ToSet(disk)

\* The queue is emptied by a replay again and again, unless listen() goes on
\* reading a connection that it takes for lost, or that nothing has been replayed
\* on, or has ended.
QueueDrains ==
    \/ []<>(memory = <<>>)
    \/ <>[](listener = "reads" /\ (restored \/ ~connected))
    \/ <>[](listener = "ended")

\* "When a replay fails it is logged and the replay stops, until the next
\* reconnect" (connection.py:429): no frame is lost by a replay that fails.
ReplayKeepsFrames == \A f \in Frames : "replay" \notin lost[f]

=============================================================================
