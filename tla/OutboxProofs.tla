----------------------------- MODULE OutboxProofs -----------------------------
(* Proofs about Outbox: any frames, any size of the queue, any number of   *)
(* retries, broken connections, failures and crashes.                      *)
EXTENDS Outbox, FiniteSetTheorems, SequenceTheorems, TLAPS

-----------------------------------------------------------------------------
(* Sequences of frames                                                     *)

NoDup(q) == \A i, j \in 1..Len(q) : q[i] = q[j] => i = j

(* The elements of a sequence are what stands at its places. *)
LEMMA Elements ==
    ASSUME NEW q \in Seq(Frames)
    PROVE  /\ ToSet(q) = {q[i] : i \in 1..Len(q)}
           /\ Len(q) \in Nat
           /\ \A i \in 1..Len(q) : q[i] \in Frames
           /\ ToSet(q) \subseteq Frames
<1>1. Len(q) \in Nat /\ DOMAIN q = 1..Len(q)
    BY LenProperties
<1>2. \A i \in 1..Len(q) : q[i] \in Frames
    BY ElementOfSeq
<1> QED
    BY <1>1, <1>2 DEF ToSet

(* What is left when the first n are gone. *)
LEMMA Deleted ==
    ASSUME NEW q \in Seq(Frames), NEW n \in Nat
    PROVE  LET r == DeleteFirst(q, n)
           IN  /\ r \in Seq(Frames)
               /\ Len(r) = IF n <= Len(q) THEN Len(q) - n ELSE 0
               /\ \A i \in 1..Len(r) : r[i] = q[n + i]
               /\ ToSet(r) \subseteq ToSet(q)
               /\ NoDup(q) => NoDup(r)
               /\ q = <<>> => r = <<>>
<1> DEFINE r == DeleteFirst(q, n)
<1>1. Len(q) \in Nat /\ \A i \in n + 1 .. Len(q) : q[i] \in Frames
    BY Elements
<1>2. /\ SubSeq(q, n + 1, Len(q)) \in Seq(Frames)
      /\ Len(SubSeq(q, n + 1, Len(q))) = IF n + 1 <= Len(q) THEN Len(q) - (n + 1) + 1 ELSE 0
      /\ \A i \in 1 .. Len(q) - (n + 1) + 1 : SubSeq(q, n + 1, Len(q))[i] = q[n + 1 + i - 1]
    BY <1>1, SubSeqProperties
<1>3. r = SubSeq(q, n + 1, Len(q))
    BY DEF DeleteFirst
<1>4. r \in Seq(Frames) /\ Len(r) = IF n <= Len(q) THEN Len(q) - n ELSE 0
    BY <1>1, <1>2, <1>3
<1>5. \A i \in 1..Len(r) : r[i] = q[n + i] /\ n + i \in 1..Len(q)
    BY <1>1, <1>2, <1>3
<1> HIDE DEF r
<1>6. ToSet(r) \subseteq ToSet(q)
    BY <1>4, <1>5, Elements
<1>7. NoDup(q) => NoDup(r)
    <2> SUFFICES ASSUME NoDup(q), NEW i \in 1..Len(r), NEW j \in 1..Len(r), r[i] = r[j]
                 PROVE  i = j
        BY DEF NoDup
    <2>1. n + i = n + j
        BY <1>5 DEF NoDup
    <2> QED
        BY <2>1
<1>8. q = <<>> => r = <<>>
    BY <1>4, EmptySeq
<1> QED
    BY <1>4, <1>5, <1>6, <1>7, <1>8 DEF r

(* Keep keeps the last ones, and what it does not keep is dropped. *)
LEMMA Kept ==
    ASSUME NEW q \in Seq(Frames)
    PROVE  LET r == Keep(q)
           IN  /\ r \in Queue /\ r \in Seq(Frames)
               /\ Len(r) = IF Len(q) <= MaxQueue THEN Len(q) ELSE MaxQueue
               /\ \A i \in 1..Len(r) : r[i] = q[Len(q) - Len(r) + i]
               /\ ToSet(r) \subseteq ToSet(q)
               /\ ToSet(q) \subseteq ToSet(r) \cup Dropped(q)
               /\ Dropped(q) = {q[i] : i \in 1 .. Len(q) - MaxQueue}
               /\ Dropped(q) \subseteq Frames
               /\ NoDup(q) => NoDup(r)
<1> DEFINE r == Keep(q)
           d == SubSeq(q, 1, Len(q) - MaxQueue)
<1>1. /\ Len(q) \in Nat /\ MaxQueue \in Nat /\ Len(q) - MaxQueue \in Int
      /\ \A i \in 1..Len(q) : q[i] \in Frames
    BY Elements, OutboxAssumption
<1>3. /\ r \in Seq(Frames)
      /\ Len(r) = IF Len(q) <= MaxQueue THEN Len(q) ELSE MaxQueue
      /\ \A i \in 1..Len(r) : r[i] = q[Len(q) - Len(r) + i]
    <2>1. CASE Len(q) <= MaxQueue
        BY <1>1, <2>1 DEF Keep
    <2>2. CASE Len(q) > MaxQueue
        <3> DEFINE a == Len(q) - MaxQueue + 1
        <3>1. a \in Int /\ a >= 1 /\ Len(q) - a + 1 = MaxQueue /\ a <= Len(q)
            BY <1>1, <2>2, OutboxAssumption
        <3>2. \A i \in a .. Len(q) : q[i] \in Frames
            BY <1>1, <3>1
        <3>3. r = SubSeq(q, a, Len(q))
            BY <1>1, <2>2 DEF Keep, Newest
        <3> HIDE DEF a, r
        <3>4. /\ SubSeq(q, a, Len(q)) \in Seq(Frames)
              /\ Len(SubSeq(q, a, Len(q))) = IF a <= Len(q) THEN Len(q) - a + 1 ELSE 0
              /\ \A i \in 1 .. Len(q) - a + 1 : SubSeq(q, a, Len(q))[i] = q[a + i - 1]
            BY <1>1, <3>1, <3>2, SubSeqProperties
        <3>5. r \in Seq(Frames) /\ Len(r) = MaxQueue
            BY <3>1, <3>3, <3>4
        <3>6. \A i \in 1..MaxQueue : r[i] = q[a + i - 1]
            BY <3>1, <3>3, <3>4
        <3>7. \A i \in 1..MaxQueue : a + i - 1 = Len(q) - MaxQueue + i
            BY <1>1 DEF a
        <3> QED
            BY <1>1, <2>2, <3>5, <3>6, <3>7
    <2> QED
        BY <1>1, <2>1, <2>2
<1>4. /\ d \in Seq(Frames)
      /\ Len(d) = IF Len(q) <= MaxQueue THEN 0 ELSE Len(q) - MaxQueue
      /\ \A i \in 1..Len(d) : d[i] = q[i]
    <2>1. \A i \in 1 .. Len(q) - MaxQueue : q[i] \in Frames
        BY <1>1
    <2>2. /\ d \in Seq(Frames)
          /\ Len(d) = IF 1 <= Len(q) - MaxQueue THEN Len(q) - MaxQueue - 1 + 1 ELSE 0
          /\ \A i \in 1 .. Len(q) - MaxQueue - 1 + 1 : d[i] = q[1 + i - 1]
        BY <1>1, <2>1, SubSeqProperties
    <2> HIDE DEF d
    <2> QED
        BY <1>1, <2>2
<1>5. Dropped(q) = {q[i] : i \in 1 .. Len(q) - MaxQueue} /\ Dropped(q) \subseteq Frames
    <2>1. Dropped(q) = ToSet(d)
        BY DEF Dropped
    <2> HIDE DEF d
    <2>2. ToSet(d) = {d[i] : i \in 1..Len(d)} /\ ToSet(d) \subseteq Frames
        BY <1>4, Elements
    <2>3. 1..Len(d) = 1 .. Len(q) - MaxQueue
        BY <1>1, <1>4
    <2> QED
        BY <1>4, <2>1, <2>2, <2>3
<1> HIDE DEF r, d
<1>6. r \in Queue
    <2>1. r \in [1..Len(r) -> Frames]
        BY <1>3, LenProperties
    <2>2. Len(r) \in 0..MaxQueue
        BY <1>1, <1>3
    <2> QED
        BY <2>1, <2>2 DEF Queue
<1>7. ToSet(q) = {q[i] : i \in 1..Len(q)} /\ ToSet(r) = {r[i] : i \in 1..Len(r)}
    BY <1>3, Elements
<1>8. \A i \in 1..Len(r) : Len(q) - Len(r) + i \in 1..Len(q)
    BY <1>1, <1>3
<1>9. ToSet(r) \subseteq ToSet(q)
    BY <1>3, <1>7, <1>8
<1>10. ToSet(q) \subseteq ToSet(r) \cup Dropped(q)
    <2> SUFFICES ASSUME NEW i \in 1..Len(q)
                 PROVE  q[i] \in ToSet(r) \cup Dropped(q)
        BY <1>7
    <2>1. CASE i <= Len(q) - MaxQueue
        <3>1. i \in 1 .. Len(q) - MaxQueue
            BY <1>1, <2>1
        <3> QED
            BY <1>5, <3>1
    <2>2. CASE i > Len(q) - MaxQueue
        <3> DEFINE j == i - (Len(q) - Len(r))
        <3>1. j \in 1..Len(r) /\ Len(q) - Len(r) + j = i
            <4>1. CASE Len(q) <= MaxQueue
                <5>1. Len(r) = Len(q)
                    BY <1>3, <4>1
                <5> QED
                    BY <1>1, <5>1
            <4>2. CASE Len(q) > MaxQueue
                <5>1. Len(r) = MaxQueue
                    BY <1>1, <1>3, <4>2
                <5> QED
                    BY <1>1, <2>2, <5>1
            <4> QED
                BY <1>1, <4>1, <4>2
        <3>2. r[j] = q[i]
            BY <1>3, <3>1
        <3> QED
            BY <1>7, <3>1, <3>2
    <2> QED
        BY <1>1, <2>1, <2>2
<1>11. NoDup(q) => NoDup(r)
    <2> SUFFICES ASSUME NoDup(q), NEW i \in 1..Len(r), NEW j \in 1..Len(r), r[i] = r[j]
                 PROVE  i = j
        BY DEF NoDup
    <2>1. Len(q) - Len(r) + i = Len(q) - Len(r) + j
        BY <1>3, <1>8 DEF NoDup
    <2> QED
        BY <1>1, <1>3, <2>1
<1> QED
    BY <1>3, <1>5, <1>6, <1>9, <1>10, <1>11 DEF r

LEMMA Concatenated ==
    ASSUME NEW p \in Seq(Frames), NEW q \in Seq(Frames)
    PROVE  ToSet(p \o q) = ToSet(p) \cup ToSet(q)
<1> DEFINE r == p \o q
<1>1. /\ r \in Seq(Frames) /\ Len(r) = Len(p) + Len(q)
      /\ \A i \in 1 .. Len(p) + Len(q) : r[i] = IF i <= Len(p) THEN p[i] ELSE q[i - Len(p)]
    BY ConcatProperties
<1> HIDE DEF r
<1>2. /\ Len(p) \in Nat /\ Len(q) \in Nat
      /\ ToSet(p) = {p[i] : i \in 1..Len(p)} /\ ToSet(q) = {q[i] : i \in 1..Len(q)}
      /\ ToSet(r) = {r[i] : i \in 1..Len(r)}
    BY <1>1, Elements
<1>3. ASSUME NEW i \in 1..Len(p) PROVE p[i] \in ToSet(r)
    <2>1. i \in 1..Len(r) /\ r[i] = p[i]
        BY <1>1, <1>2
    <2> QED
        BY <1>2, <2>1
<1>4. ASSUME NEW i \in 1..Len(q) PROVE q[i] \in ToSet(r)
    <2>1. /\ Len(p) + i \in 1..Len(r) /\ ~(Len(p) + i <= Len(p)) /\ Len(p) + i - Len(p) = i
        BY <1>1, <1>2
    <2>2. r[Len(p) + i] = q[i]
        BY <1>1, <2>1
    <2> QED
        BY <1>2, <2>1, <2>2
<1>5. ASSUME NEW i \in 1..Len(r) PROVE r[i] \in ToSet(p) \cup ToSet(q)
    <2>1. CASE i <= Len(p)
        <3>1. i \in 1..Len(p) /\ r[i] = p[i]
            BY <1>1, <1>2, <2>1
        <3> QED
            BY <1>2, <3>1
    <2>2. CASE ~(i <= Len(p))
        <3>1. i - Len(p) \in 1..Len(q) /\ r[i] = q[i - Len(p)]
            BY <1>1, <1>2, <2>2
        <3> QED
            BY <1>2, <3>1
    <2> QED
        BY <2>1, <2>2
<1> QED
    BY <1>2, <1>3, <1>4, <1>5 DEF r

LEMMA Appended ==
    ASSUME NEW q \in Seq(Frames), NEW f \in Frames
    PROVE  /\ Append(q, f) \in Seq(Frames) /\ Len(Append(q, f)) = Len(q) + 1
           /\ \A i \in 1..Len(q) : Append(q, f)[i] = q[i]
           /\ Append(q, f)[Len(q) + 1] = f
           /\ ToSet(q) \subseteq ToSet(Append(q, f)) /\ f \in ToSet(Append(q, f))
           /\ ToSet(Append(q, f)) \subseteq ToSet(q) \cup {f}
           /\ (NoDup(q) /\ f \notin ToSet(q)) => NoDup(Append(q, f))
<1> DEFINE r == Append(q, f)
<1>1. /\ r \in Seq(Frames) /\ Len(r) = Len(q) + 1
      /\ \A i \in 1..Len(q) : r[i] = q[i]
      /\ r[Len(q) + 1] = f
    BY AppendProperties
<1> HIDE DEF r
<1>2. /\ Len(q) \in Nat /\ ToSet(q) = {q[i] : i \in 1..Len(q)}
      /\ ToSet(r) = {r[i] : i \in 1..Len(r)}
    BY <1>1, Elements
<1>3. 1..Len(r) = 1..Len(q) \cup {Len(q) + 1}
    BY <1>1, <1>2
<1>4. /\ ToSet(q) \subseteq ToSet(r) /\ f \in ToSet(r)
      /\ ToSet(r) \subseteq ToSet(q) \cup {f}
    BY <1>1, <1>2, <1>3
<1>5. (NoDup(q) /\ f \notin ToSet(q)) => NoDup(r)
    BY <1>1, <1>2, <1>3 DEF NoDup
<1> QED
    BY <1>1, <1>4, <1>5 DEF r

LEMMA QueuesAreSequences ==
    ASSUME NEW q \in Queue
    PROVE  q \in Seq(Frames) /\ Len(q) \in 0..MaxQueue
<1>1. PICK n \in 0..MaxQueue : q \in [1..n -> Frames]
    BY DEF Queue
<1>2. n \in Nat
    BY <1>1, OutboxAssumption
<1>3. q \in Seq(Frames)
    BY <1>1, <1>2, SeqDef
<1>4. Len(q) = n
    <2>1. DOMAIN q = 1..n /\ DOMAIN q = 1..Len(q) /\ Len(q) \in Nat
        BY <1>1, <1>3, LenProperties
    <2> QED
        BY <1>2, <2>1
<1> QED
    BY <1>1, <1>3, <1>4

-----------------------------------------------------------------------------
(* Type correctness, except for the bound of delivered, which is a matter  *)
(* of DeliveredOnce; the cursor of a replay is ahead of what it has sent.  *)

ReplayOK ==
    /\ replay \in ReplayType
    /\ replay.sent < replay.at
    /\ replay.at <= Len(replay.pending) + 1
    /\ listener # "replays" => replay = NoReplay

StoreOK ==
    /\ memory \in Queue
    /\ disk \in Seq(Frames)
    /\ persistent \/ disk = <<>>

LostOK == lost \in [Frames -> SUBSET Losses]

ControlOK ==
    /\ persistent \in BOOLEAN /\ link \in BOOLEAN /\ connected \in BOOLEAN
    /\ restored \in BOOLEAN
    /\ listener \in {"connects", "reads", "reconnects", "registers", "replays", "ended"}
    /\ sender \in [Frames -> {"new", "sends", "over"}]
    /\ tries \in [Frames -> 0..MaxRetries]
    /\ breaks \in 0..MaxBreaks /\ raises \in 0..MaxRaises /\ crashes \in 0..MaxCrashes
    /\ delivered \in [Frames -> Nat]

Typed == ControlOK /\ StoreOK /\ LostOK /\ ReplayOK

(* What is left of a replay. *)
Waiting == ToSet(DeleteFirst(replay.pending, replay.at - 1))

LEMMA ReplayTyped ==
    ASSUME ReplayOK
    PROVE  /\ replay = [pending |-> replay.pending, sent |-> replay.sent, at |-> replay.at,
                        tries |-> replay.tries]
           /\ replay.pending \in Queue /\ replay.pending \in Seq(Frames)
           /\ Len(replay.pending) \in 0..MaxQueue
           /\ replay.sent \in 0..MaxQueue /\ replay.sent < replay.at
           /\ replay.at \in 1 .. MaxQueue + 1 /\ replay.at <= Len(replay.pending) + 1
           /\ replay.tries \in 0..MaxRetries
BY QueuesAreSequences DEF ReplayOK, ReplayType

LEMMA NoReplayTyped ==
    /\ NoReplay \in ReplayType /\ NoReplay.pending = <<>>
    /\ NoReplay.sent = 0 /\ NoReplay.at = 1 /\ NoReplay.tries = 0
    /\ <<>> \in Queue /\ Len(<<>>) = 0
<1>1. <<>> \in Queue
    <2>1. <<>> \in Seq(Frames) /\ Len(<<>>) = 0
        BY EmptySeq
    <2>2. Keep(<<>>) = <<>>
        BY <2>1, OutboxAssumption DEF Keep
    <2> QED
        BY <2>1, <2>2, Kept
<1> QED
    BY <1>1, OutboxAssumption, EmptySeq DEF NoReplay, ReplayType

LEMMA Lost ==
    ASSUME LostOK, NEW fs, NEW how \in Losses, Lose(fs, how)
    PROVE  /\ LostOK'
           /\ \A f \in Frames : lost[f] \subseteq lost'[f]
           /\ \A f \in Frames : f \in fs => how \in lost'[f]
BY DEF LostOK, Lose

(* The queue and its copy after a frame was added. *)
LEMMA Enqueued ==
    ASSUME Typed, NEW f \in Frames, Enqueue(f), UNCHANGED persistent
    PROVE  StoreOK' /\ LostOK'
<1>1. memory \in Seq(Frames) /\ Append(memory, f) \in Seq(Frames)
    BY QueuesAreSequences, AppendProperties DEF Typed, StoreOK
<1>2. memory' \in Queue
    BY <1>1, Kept DEF Enqueue
<1>3. disk' \in Seq(Frames) /\ (persistent' \/ disk' = <<>>)
    <2>1. CASE persistent
        <3> DEFINE n == IF Len(memory) >= MaxQueue THEN 1 ELSE 0
        <3>1. n \in Nat
            OBVIOUS
        <3> HIDE DEF n
        <3>2. DeleteFirst(disk, n) \in Seq(Frames)
            BY <3>1, Deleted DEF Typed, StoreOK
        <3>3. disk' = Append(DeleteFirst(disk, n), f)
            BY <2>1 DEF Enqueue, StoreFrame, n
        <3> QED
            BY <2>1, <3>2, <3>3, AppendProperties
    <2>2. CASE ~persistent
        BY <2>2 DEF Enqueue, StoreFrame, Typed, StoreOK
    <2> QED
        BY <2>1, <2>2
<1>4. LostOK'
    BY Lost DEF Enqueue, Typed, Losses
<1> QED
    BY <1>2, <1>3, <1>4 DEF StoreOK

(* The counters stay within their bounds. *)
LEMMA Counted ==
    ASSUME ControlOK
    PROVE  /\ 0 \in 0..MaxRetries /\ 0 \in 0..MaxBreaks /\ 0 \in 0..MaxRaises
           /\ 0 \in 0..MaxCrashes
           /\ breaks < MaxBreaks => breaks + 1 \in 0..MaxBreaks
           /\ raises < MaxRaises => raises + 1 \in 0..MaxRaises
           /\ crashes < MaxCrashes => crashes + 1 \in 0..MaxCrashes
           /\ \A f \in Frames : delivered[f] \in Nat /\ delivered[f] + 1 \in Nat
<1>1. breaks \in 0..MaxBreaks /\ raises \in 0..MaxRaises /\ crashes \in 0..MaxCrashes
    BY DEF ControlOK
<1>2. \A f \in Frames : delivered[f] \in Nat
    BY DEF ControlOK
<1> QED
    BY <1>1, <1>2, OutboxAssumption

LEMMA TypedInit == Init => Typed
<1> SUFFICES ASSUME Init PROVE Typed
    OBVIOUS
<1>1. ReplayOK
    BY NoReplayTyped DEF Init, ReplayOK
<1>2. StoreOK
    BY NoReplayTyped, EmptySeq DEF Init, StoreOK
<1>3. ControlOK
    <2>1. /\ 0 \in 0..MaxRetries /\ 0 \in 0..MaxBreaks /\ 0 \in 0..MaxRaises
          /\ 0 \in 0..MaxCrashes
        BY OutboxAssumption
    <2>2. sender \in [Frames -> {"new", "sends", "over"}] /\ tries \in [Frames -> 0..MaxRetries]
        BY <2>1 DEF Init
    <2>3. delivered \in [Frames -> Nat]
        BY DEF Init
    <2> QED
        BY <2>1, <2>2, <2>3 DEF Init, ControlOK
<1>4. LostOK
    BY DEF Init, LostOK
<1> QED
    BY <1>1, <1>2, <1>3, <1>4 DEF Typed

(* What a replay does when it goes on to the next frame. *)
LEMMA GoesOn ==
    ASSUME Typed, Replaying, replay' \in {Onward, CountSent(Onward)}, UNCHANGED listener
    PROVE  /\ ReplayOK'
           /\ replay'.pending = replay.pending /\ replay'.at = replay.at + 1
           /\ Current \in Frames
<1>1. /\ replay.pending \in Queue /\ replay.pending \in Seq(Frames)
      /\ Len(replay.pending) \in 0..MaxQueue
      /\ replay.sent \in 0..MaxQueue /\ replay.sent < replay.at
      /\ replay.at \in 1 .. MaxQueue + 1 /\ replay.at <= Len(replay.pending)
    BY ReplayTyped DEF Typed, Replaying
<1>2. /\ replay'.pending = replay.pending /\ replay'.at = replay.at + 1 /\ replay'.tries = 0
      /\ replay'.sent \in {replay.sent, replay.sent + 1}
      /\ replay' = [pending |-> replay'.pending, sent |-> replay'.sent, at |-> replay'.at,
                    tries |-> replay'.tries]
    BY ReplayTyped DEF Typed, Onward, CountSent
<1>3. replay' \in ReplayType
    <2>1. /\ replay'.pending \in Queue /\ replay'.sent \in 0..MaxQueue
          /\ replay'.at \in 1 .. MaxQueue + 1 /\ replay'.tries \in 0..MaxRetries
        <3>1. MaxQueue \in Nat /\ MaxRetries \in Nat
            BY OutboxAssumption
        <3>2. replay.sent + 1 \in 0..MaxQueue /\ replay.at + 1 \in 1 .. MaxQueue + 1
            BY <1>1, <3>1
        <3> QED
            BY <1>1, <1>2, <3>1, <3>2
    <2> QED
        BY <1>2, <2>1 DEF ReplayType
<1>4. ReplayOK'
    BY <1>1, <1>2, <1>3 DEF ReplayOK, Replaying
<1>5. Current \in Frames
    BY <1>1, Elements DEF Current
<1> QED
    BY <1>2, <1>4, <1>5

LEMMA TypedSend ==
    ASSUME Typed, NEW f \in Frames, Send(f) \/ SendVanishes(f) \/ SendRaises(f)
    PROVE  Typed'
<1>1. CASE SendQueues(f)
    <2>1. StoreOK' /\ LostOK'
        BY <1>1, Enqueued DEF SendQueues
    <2>2. ControlOK' /\ ReplayOK'
        BY <1>1, OutboxAssumption DEF SendQueues, Typed, ControlOK, ReplayOK, Over
    <2> QED
        BY <2>1, <2>2 DEF Typed
<1>2. CASE SendSucceeds(f)
    BY <1>2, Counted
    DEF SendSucceeds, Typed, ControlOK, StoreOK, LostOK, ReplayOK, Over, Deliver
<1>3. CASE SendVanishes(f)
    <2>1. LostOK'
        BY <1>3, Lost DEF SendVanishes, Typed, Losses
    <2>2. ControlOK' /\ StoreOK' /\ ReplayOK'
        BY <1>3, Counted DEF SendVanishes, Typed, ControlOK, StoreOK, ReplayOK, Over
    <2> QED
        BY <2>1, <2>2 DEF Typed
<1>4. CASE SendRetries(f)
    BY <1>4, OutboxAssumption
    DEF SendRetries, Typed, ControlOK, StoreOK, LostOK, ReplayOK
<1>5. CASE SendGivesUp(f)
    <2>1. LostOK'
        BY <1>5, Lost DEF SendGivesUp, Typed, Losses
    <2>2. ControlOK' /\ StoreOK' /\ ReplayOK'
        BY <1>5, OutboxAssumption DEF SendGivesUp, Typed, ControlOK, StoreOK, ReplayOK, Over
    <2> QED
        BY <2>1, <2>2 DEF Typed
<1>6. CASE SendRaises(f)
    <2>1. LostOK'
        BY <1>6, Lost DEF SendRaises, Typed, Losses
    <2>2. ControlOK' /\ StoreOK' /\ ReplayOK'
        BY <1>6, Counted DEF SendRaises, Typed, ControlOK, StoreOK, ReplayOK, Over
    <2> QED
        BY <2>1, <2>2 DEF Typed
<1> QED
    BY <1>1, <1>2, <1>3, <1>4, <1>5, <1>6 DEF Send

LEMMA TypedListen ==
    ASSUME Typed, Listen \/ LinkBreaks
    PROVE  Typed'
<1>1. StoreOK' /\ LostOK'
    BY DEF Typed, Listen, Connects, Notices, Reconnects, ReconnectsAgain, LinkBreaks, StoreOK,
        LostOK
<1>3. ControlOK'
    <2>1. CASE Connects \/ Notices
        BY <2>1 DEF Typed, Connects, Notices, ControlOK
    <2>2. CASE Reconnects \/ ReconnectsAgain
        BY <2>2 DEF Typed, Reconnects, ReconnectsAgain, ControlOK
    <2>3. CASE LinkBreaks
        BY <2>3, Counted DEF Typed, LinkBreaks, ControlOK
    <2> QED
        BY <2>1, <2>2, <2>3 DEF Listen
<1>2. ReplayOK'
    BY DEF Typed, Listen, Connects, Notices, Reconnects, ReconnectsAgain, LinkBreaks, ReplayOK
<1> QED
    BY <1>1, <1>2, <1>3 DEF Typed

LEMMA TypedReplay ==
    ASSUME Typed, Replay \/ ReplayVanishes \/ ReplayRaises
    PROVE  Typed'
<1> USE DEF Typed
<1>1. CASE ReplayBegins
    <2>1. ReplayOK'
        <3>1. memory \in Queue /\ Len(memory) \in 0..MaxQueue
            BY QueuesAreSequences DEF StoreOK
        <3>2. /\ replay'.pending = memory /\ replay'.sent = 0 /\ replay'.at = 1
              /\ replay' = [pending |-> memory, sent |-> 0, at |-> 1, tries |-> 0]
            BY <1>1 DEF ReplayBegins, NoReplay
        <3>3. replay' \in ReplayType
            BY <3>1, <3>2, OutboxAssumption DEF ReplayType
        <3> QED
            BY <1>1, <3>1, <3>2, <3>3 DEF ReplayBegins, ReplayOK
    <2>2. ControlOK' /\ StoreOK' /\ LostOK'
        BY <1>1, NoReplayTyped DEF ReplayBegins, ControlOK, StoreOK, LostOK
    <2> QED
        BY <2>1, <2>2
<1>2. CASE ReplayEnds
    <2>1. replay.sent \in Nat
        BY ReplayTyped, OutboxAssumption
    <2>2. StoreOK'
        BY <1>2, <2>1, Deleted DEF ReplayEnds, StoreOK
    <2>3. ControlOK' /\ LostOK' /\ ReplayOK'
        BY <1>2, NoReplayTyped DEF ReplayEnds, ControlOK, LostOK, ReplayOK
    <2> QED
        BY <2>2, <2>3
<1>3. CASE ReplayInterrupted
    <2>1. replay.sent \in Nat /\ replay.pending \in Seq(Frames)
        BY ReplayTyped, OutboxAssumption
    <2>2. memory \o Rest \in Seq(Frames)
        BY <2>1, Deleted, QueuesAreSequences, ConcatProperties DEF StoreOK, Rest
    <2>3. StoreOK'
        BY <1>3, <2>1, <2>2, Deleted, Kept DEF ReplayInterrupted, StoreOK
    <2>4. LostOK'
        BY <1>3, Lost DEF ReplayInterrupted, Losses
    <2>5. ControlOK' /\ ReplayOK'
        BY <1>3, NoReplayTyped DEF ReplayInterrupted, ControlOK, ReplayOK
    <2> QED
        BY <2>3, <2>4, <2>5
<1>4. CASE ReplaySucceeds
    <2>1. ReplayOK'
        BY <1>4, GoesOn DEF ReplaySucceeds
    <2>2. ControlOK' /\ StoreOK' /\ LostOK'
        BY <1>4, Counted, GoesOn DEF ReplaySucceeds, ControlOK, StoreOK, LostOK, Deliver
    <2> QED
        BY <2>1, <2>2
<1>5. CASE ReplayRetries
    <2>1. /\ replay' = [replay EXCEPT !.tries = replay.tries + 1]
          /\ replay.tries + 1 \in 0..MaxRetries
        BY <1>5, ReplayTyped, OutboxAssumption DEF ReplayRetries
    <2>2. ReplayOK'
        BY <1>5, <2>1 DEF ReplayRetries, Replaying, ReplayOK, ReplayType
    <2>3. ControlOK' /\ StoreOK' /\ LostOK'
        BY <1>5 DEF ReplayRetries, ControlOK, StoreOK, LostOK
    <2> QED
        BY <2>2, <2>3
<1>6. CASE ReplayGivesUp
    <2>1. ReplayOK' /\ LostOK'
        BY <1>6, GoesOn, Lost DEF ReplayGivesUp, Losses
    <2>2. ControlOK' /\ StoreOK'
        BY <1>6 DEF ReplayGivesUp, ControlOK, StoreOK
    <2> QED
        BY <2>1, <2>2
<1>7. CASE ReplaySkips
    <2>1. ReplayOK' /\ LostOK'
        BY <1>7, GoesOn, Lost DEF ReplaySkips, Losses
    <2>2. ControlOK' /\ StoreOK'
        BY <1>7 DEF ReplaySkips, ControlOK, StoreOK
    <2> QED
        BY <2>1, <2>2
<1>8. CASE ReplayVanishes
    <2>1. ReplayOK' /\ LostOK'
        BY <1>8, GoesOn, Lost DEF ReplayVanishes, Losses
    <2>2. ControlOK' /\ StoreOK'
        BY <1>8, Counted DEF ReplayVanishes, ControlOK, StoreOK
    <2> QED
        BY <2>1, <2>2
<1>9. CASE ReplayRaises
    <2>1. ReplayOK' /\ LostOK'
        BY <1>9, GoesOn, Lost DEF ReplayRaises, Losses
    <2>2. ControlOK' /\ StoreOK'
        BY <1>9, Counted DEF ReplayRaises, ControlOK, StoreOK
    <2> QED
        BY <2>1, <2>2
<1> QED
    BY <1>1, <1>2, <1>3, <1>4, <1>5, <1>6, <1>7, <1>8, <1>9 DEF Replay

LEMMA TypedRestarts ==
    ASSUME Typed, Restarts
    PROVE  Typed'
<1>1. StoreOK'
    BY Kept DEF Typed, StoreOK, Restarts
<1>2. LostOK'
    BY DEF Typed, LostOK, Restarts, Losses
<1>3. ReplayOK'
    BY NoReplayTyped DEF Restarts, ReplayOK
<1>4. ControlOK'
    <2>1. sender' \in [Frames -> {"new", "sends", "over"}]
        BY DEF Typed, ControlOK, Restarts
    <2>2. tries' \in [Frames -> 0..MaxRetries] /\ crashes' \in 0..MaxCrashes
        BY Counted DEF Typed, Restarts
    <2>3. restored' \in BOOLEAN
        BY DEF Restarts
    <2> QED
        BY <2>1, <2>2, <2>3 DEF Typed, ControlOK, Restarts
<1> QED
    BY <1>1, <1>2, <1>3, <1>4 DEF Typed

LEMMA TypedStutters ==
    ASSUME Typed, UNCHANGED vars
    PROVE  Typed'
BY DEF Typed, ControlOK, StoreOK, LostOK, ReplayOK, vars

LEMMA TypedAlways == Spec => []Typed
<1>1. Typed /\ [Next]_vars => Typed'
    BY TypedSend, TypedListen, TypedReplay, TypedRestarts, TypedStutters DEF Next
<1> QED
    BY <1>1, TypedInit, PTL DEF Spec

-----------------------------------------------------------------------------
(* No frame vanishes.  The invariant needs no disk: until the process dies *)
(* a frame is in memory, and a crash accounts for what it takes.           *)

LEMMA From ==
    ASSUME NEW q \in Seq(Frames), NEW a \in 1 .. Len(q) + 1
    PROVE  /\ ToSet(DeleteFirst(q, a - 1)) = {q[j] : j \in a .. Len(q)}
           /\ ToSet(DeleteFirst(q, a - 1)) \subseteq ToSet(q)
           /\ ToSet(q) \subseteq Frames
<1> DEFINE n == a - 1
           r == DeleteFirst(q, n)
<1>1. Len(q) \in Nat /\ n \in Nat /\ n <= Len(q) /\ a = n + 1
    BY Elements
<1> HIDE DEF n
<1>2. /\ r \in Seq(Frames) /\ Len(r) = Len(q) - n
      /\ \A i \in 1..Len(r) : r[i] = q[n + i]
      /\ ToSet(r) \subseteq ToSet(q)
    BY <1>1, Deleted
<1> HIDE DEF r
<1>3. ToSet(r) = {r[i] : i \in 1..Len(r)} /\ ToSet(q) \subseteq Frames
    BY <1>1, <1>2, Elements
<1>4. {r[i] : i \in 1..Len(r)} = {q[j] : j \in n + 1 .. Len(q)}
    <2>1. ASSUME NEW i \in 1..Len(r) PROVE r[i] \in {q[j] : j \in n + 1 .. Len(q)}
        <3>1. n + i \in n + 1 .. Len(q) /\ r[i] = q[n + i]
            BY <1>1, <1>2
        <3> QED
            BY <3>1
    <2>2. ASSUME NEW j \in n + 1 .. Len(q) PROVE q[j] \in {r[i] : i \in 1..Len(r)}
        <3>1. j - n \in 1..Len(r) /\ n + (j - n) = j
            BY <1>1, <1>2
        <3>2. r[j - n] = q[j]
            BY <1>2, <3>1
        <3> QED
            BY <3>1, <3>2
    <2> QED
        BY <2>1, <2>2
<1> QED
    BY <1>1, <1>2, <1>3, <1>4 DEF r, n

LEMMA WaitingIs ==
    ASSUME Typed
    PROVE  /\ Waiting = {replay.pending[j] : j \in replay.at .. Len(replay.pending)}
           /\ Waiting \subseteq ToSet(replay.pending)
           /\ Waiting \subseteq Frames
<1>1. replay.pending \in Seq(Frames) /\ replay.at \in 1 .. Len(replay.pending) + 1
    BY ReplayTyped DEF Typed
<1> QED
    BY <1>1, From DEF Waiting

LEMMA WaitingNext == Waiting' = ToSet(DeleteFirst(replay'.pending, replay'.at - 1))
BY DEF Waiting

(* One frame less waits when a replay goes on. *)
LEMMA OneLess ==
    ASSUME Typed, Replaying, replay' \in {Onward, CountSent(Onward)}, UNCHANGED listener
    PROVE  /\ Current \in Waiting /\ Waiting' \subseteq Waiting
           /\ Waiting \subseteq Waiting' \cup {Current}
           /\ NoDup(replay.pending) => Current \notin Waiting'
<1> DEFINE q == replay.pending
           a == replay.at
<1>1. q \in Seq(Frames) /\ Len(q) \in Nat /\ a \in 1..Len(q)
    BY ReplayTyped DEF Typed, Replaying
<1>2. replay'.pending = q /\ replay'.at = a + 1
    BY GoesOn
<1>3. Waiting = {q[j] : j \in a..Len(q)}
    BY WaitingIs
<1>4. Waiting' = {q[j] : j \in a + 1 .. Len(q)}
    <2> PICK b : b = a + 1
        OBVIOUS
    <2>1. b \in 1 .. Len(q) + 1
        BY <1>1
    <2>2. ToSet(DeleteFirst(q, b - 1)) = {q[j] : j \in b .. Len(q)}
        BY <1>1, <2>1, From
    <2>3. Waiting' = ToSet(DeleteFirst(q, b - 1))
        BY <1>2, WaitingNext
    <2> QED
        BY <2>2, <2>3
<1>5. Current = q[a]
    BY DEF Current
<1> HIDE DEF q, a
<1>6. a..Len(q) = (a + 1 .. Len(q)) \cup {a}
    BY <1>1
<1>7. NoDup(q) => \A j \in a + 1 .. Len(q) : q[j] # q[a]
    BY <1>1 DEF NoDup
<1> QED
    BY <1>3, <1>4, <1>5, <1>6, <1>7 DEF q

Accounted ==
    \A f \in Frames :
        \/ sender[f] \in {"new", "sends"} \/ delivered[f] > 0 \/ lost[f] # {}
        \/ f \in ToSet(memory) \cup Waiting

LEMMA AccountedReplay ==
    ASSUME Typed, Typed', Accounted, Replaying, replay' \in {Onward, CountSent(Onward)},
           UNCHANGED <<listener, sender, memory>>,
           delivered'[Current] > 0 \/ lost'[Current] # {},
           \A f \in Frames : delivered'[f] >= delivered[f] /\ lost[f] \subseteq lost'[f]
    PROVE  Accounted'
<1> SUFFICES ASSUME NEW f \in Frames
             PROVE  \/ sender'[f] \in {"new", "sends"} \/ delivered'[f] > 0 \/ lost'[f] # {}
                    \/ f \in ToSet(memory') \cup Waiting'
    BY DEF Accounted
<1>1. CASE f = Current
    BY <1>1
<1>2. CASE f # Current
    <2>1. f \in Waiting => f \in Waiting'
        BY <1>2, OneLess
    <2>2. delivered[f] > 0 => delivered'[f] > 0
        BY DEF Typed, ControlOK
    <2> QED
        BY <2>1, <2>2 DEF Accounted
<1> QED
    BY <1>1, <1>2

LEMMA AccountedStep ==
    ASSUME Typed, Typed', Accounted, [Next]_vars
    PROVE  Accounted'
<1>1. ASSUME NEW f \in Frames, Send(f) \/ SendVanishes(f) \/ SendRaises(f)
      PROVE  Accounted'
    <2>1. \A g \in Frames : g # f => sender'[g] = sender[g]
        BY <1>1 DEF Send, SendQueues, SendSucceeds, SendVanishes, SendRetries, SendGivesUp,
            SendRaises, Over, Typed, ControlOK
    <2>2. \A g \in Frames : delivered[g] > 0 => delivered'[g] > 0
        BY <1>1, Counted DEF Send, SendQueues, SendSucceeds, SendVanishes, SendRetries,
            SendGivesUp, SendRaises, Deliver, Typed, ControlOK
    <2>3. \A g \in Frames : lost[g] \subseteq lost'[g]
        BY <1>1, Lost DEF Send, SendQueues, SendSucceeds, SendVanishes, SendRetries,
            SendGivesUp, SendRaises, Enqueue, Typed, Losses
    <2>4. Waiting' = Waiting
        BY <1>1 DEF Send, SendQueues, SendSucceeds, SendVanishes, SendRetries, SendGivesUp,
            SendRaises, Waiting
    <2>5. \A g \in ToSet(memory) : g \in ToSet(memory') \/ (g \in Frames /\ lost'[g] # {})
        <3>1. CASE SendQueues(f)
            <4>1. memory \in Seq(Frames)
                BY QueuesAreSequences DEF Typed, StoreOK
            <4>2. Append(memory, f) \in Seq(Frames) /\ ToSet(memory) \subseteq ToSet(Append(memory, f))
                BY <4>1, Appended
            <4>3. /\ ToSet(Append(memory, f)) \subseteq ToSet(memory') \cup Dropped(Append(memory, f))
                  /\ Dropped(Append(memory, f)) \subseteq Frames
                BY <3>1, <4>2, Kept DEF SendQueues, Enqueue
            <4>4. \A g \in Dropped(Append(memory, f)) : g \in Frames /\ lost'[g] # {}
                BY <3>1, <4>3, Lost DEF SendQueues, Enqueue, Typed, Losses
            <4> QED
                BY <4>2, <4>3, <4>4
        <3>2. CASE UNCHANGED memory
            BY <3>2
        <3> QED
            BY <1>1, <3>1, <3>2
            DEF Send, SendSucceeds, SendVanishes, SendRetries, SendGivesUp, SendRaises
    <2>6. \/ sender'[f] \in {"new", "sends"} \/ delivered'[f] > 0 \/ lost'[f] # {}
          \/ f \in ToSet(memory')
        <3>1. CASE SendQueues(f)
            <4>1. memory \in Seq(Frames)
                BY QueuesAreSequences DEF Typed, StoreOK
            <4>2. Append(memory, f) \in Seq(Frames) /\ f \in ToSet(Append(memory, f))
                BY <4>1, Appended
            <4>3. ToSet(Append(memory, f)) \subseteq ToSet(memory') \cup Dropped(Append(memory, f))
                BY <3>1, <4>2, Kept DEF SendQueues, Enqueue
            <4>4. f \in Dropped(Append(memory, f)) => lost'[f] # {}
                BY <3>1, <4>1, Lost DEF SendQueues, Enqueue, Typed, Losses
            <4> QED
                BY <4>2, <4>3, <4>4
        <3>2. CASE SendSucceeds(f)
            BY <3>2, Counted DEF SendSucceeds, Deliver, Typed, ControlOK
        <3>3. CASE SendRetries(f)
            BY <3>3 DEF SendRetries, Typed, ControlOK
        <3>4. CASE SendVanishes(f) \/ SendGivesUp(f) \/ SendRaises(f)
            BY <3>4, Lost DEF SendVanishes, SendGivesUp, SendRaises, Typed, Losses
        <3> QED
            BY <1>1, <3>1, <3>2, <3>3, <3>4 DEF Send
    <2> QED
        BY <2>1, <2>2, <2>3, <2>4, <2>5, <2>6 DEF Accounted
<1>2. CASE Listen \/ LinkBreaks \/ ReplayRetries \/ UNCHANGED vars
    <2>1. UNCHANGED <<sender, delivered, lost, memory>>
        BY <1>2 DEF Listen, Connects, Notices, Reconnects, ReconnectsAgain, LinkBreaks,
            ReplayRetries, vars
    <2>2. UNCHANGED <<replay.pending, replay.at>>
        BY <1>2 DEF Listen, Connects, Notices, Reconnects, ReconnectsAgain, LinkBreaks,
            ReplayRetries, vars, Typed, ReplayOK, ReplayType
    <2> QED
        BY <2>1, <2>2 DEF Accounted, Waiting
<1>3. CASE ReplayBegins
    <2>1. replay'.pending = memory /\ replay'.at = 1
        BY <1>3 DEF ReplayBegins, NoReplay
    <2>2. Waiting' = ToSet(memory)
        <3>1. memory \in Seq(Frames) /\ Len(memory) \in Nat
            BY QueuesAreSequences, Elements DEF Typed, StoreOK
        <3>2. ToSet(DeleteFirst(memory, 1 - 1)) = {memory[j] : j \in 1..Len(memory)}
            BY <3>1, From
        <3> QED
            BY <2>1, <3>1, <3>2, Elements DEF Waiting
    <2>3. replay = NoReplay
        BY <1>3 DEF ReplayBegins, Typed, ReplayOK
    <2>4. Waiting = {}
        BY <2>3, NoReplayTyped, WaitingIs, Elements, EmptySeq
    <2>5. UNCHANGED <<sender, delivered, lost>>
        BY <1>3 DEF ReplayBegins
    <2> QED
        BY <2>2, <2>4, <2>5 DEF Accounted
<1>4. CASE ReplayEnds
    <2>1. Waiting = {}
        <3>1. replay.at .. Len(replay.pending) = {}
            BY <1>4, ReplayTyped DEF ReplayEnds, Typed
        <3> QED
            BY <3>1, WaitingIs
    <2>2. UNCHANGED <<sender, delivered, lost, memory>>
        BY <1>4 DEF ReplayEnds
    <2> QED
        BY <2>1, <2>2 DEF Accounted
<1>5. CASE ReplayInterrupted
    <2>1. /\ replay.pending \in Seq(Frames) /\ replay.sent \in Nat
          /\ memory \in Seq(Frames) /\ Rest \in Seq(Frames) /\ memory \o Rest \in Seq(Frames)
          /\ replay.sent < replay.at /\ replay.at \in Nat
          /\ replay.at <= Len(replay.pending) + 1
        <3>1. /\ replay.pending \in Seq(Frames) /\ replay.sent \in Nat
              /\ replay.sent < replay.at /\ replay.at \in Nat
              /\ replay.at <= Len(replay.pending) + 1
            BY ReplayTyped, OutboxAssumption DEF Typed
        <3>2. memory \in Seq(Frames)
            BY QueuesAreSequences DEF Typed, StoreOK
        <3>3. Rest \in Seq(Frames)
            BY <3>1, Deleted DEF Rest
        <3> QED
            BY <3>1, <3>2, <3>3, ConcatProperties
    <2>2. ToSet(memory) \cup ToSet(Rest) \subseteq ToSet(memory \o Rest)
        BY <2>1, Concatenated
    <2>3. Waiting \subseteq ToSet(Rest)
        <3>1. Len(replay.pending) \in Nat /\ replay.sent + 1 \in 1 .. Len(replay.pending) + 1
            BY <2>1, Elements
        <3>2. ToSet(DeleteFirst(replay.pending, replay.sent + 1 - 1))
                  = {replay.pending[j] : j \in replay.sent + 1 .. Len(replay.pending)}
            BY <2>1, <3>1, From
        <3>3. ToSet(Rest) = {replay.pending[j] : j \in replay.sent + 1 .. Len(replay.pending)}
            <4>1. replay.sent + 1 - 1 = replay.sent
                BY <2>1
            <4> QED
                BY <3>2, <4>1 DEF Rest
        <3>4. \A j \in replay.at .. Len(replay.pending) :
                  j \in replay.sent + 1 .. Len(replay.pending)
            BY <2>1, <3>1
        <3> QED
            BY <3>3, <3>4, WaitingIs
    <2>4. /\ ToSet(memory \o Rest) \subseteq ToSet(memory') \cup Dropped(memory \o Rest)
          /\ Dropped(memory \o Rest) \subseteq Frames
        BY <1>5, <2>1, Kept DEF ReplayInterrupted
    <2>5. \A f \in Frames : /\ lost[f] \subseteq lost'[f]
                            /\ f \in Dropped(memory \o Rest) => lost'[f] # {}
        BY <1>5, Lost DEF ReplayInterrupted, Typed, Losses
    <2>6. UNCHANGED <<sender, delivered>>
        BY <1>5 DEF ReplayInterrupted
    <2> QED
        BY <2>2, <2>3, <2>4, <2>5, <2>6 DEF Accounted
<1>6. CASE ReplaySucceeds
    <2>1. /\ \A f \in Frames : delivered'[f] >= delivered[f] /\ lost[f] \subseteq lost'[f]
          /\ delivered'[Current] > 0
        BY <1>6, Counted, GoesOn DEF ReplaySucceeds, Deliver, Typed, ControlOK
    <2> QED
        BY <1>6, <2>1, AccountedReplay DEF ReplaySucceeds
<1>7. CASE ReplayGivesUp \/ ReplaySkips \/ ReplayVanishes \/ ReplayRaises
    <2>1. /\ Replaying /\ replay' \in {Onward, CountSent(Onward)}
          /\ UNCHANGED <<listener, sender, memory, delivered>>
          /\ \E how \in Losses : Lose({Current}, how)
        BY <1>7 DEF ReplayGivesUp, ReplaySkips, ReplayVanishes, ReplayRaises, Losses
    <2>2. Current \in Frames
        BY <2>1, GoesOn
    <2>3. lost'[Current] # {} /\ \A f \in Frames : lost[f] \subseteq lost'[f]
        BY <2>1, <2>2, Lost DEF Typed
    <2>4. \A f \in Frames : delivered'[f] >= delivered[f]
        BY <2>1, Counted DEF Typed
    <2> QED
        BY <2>1, <2>3, <2>4, AccountedReplay
<1>8. CASE Restarts
    <2> SUFFICES ASSUME NEW f \in Frames
                 PROVE  \/ sender'[f] \in {"new", "sends"} \/ delivered'[f] > 0 \/ lost'[f] # {}
                        \/ f \in ToSet(memory') \cup Waiting'
        BY DEF Accounted
    <2>1. lost[f] \subseteq lost'[f] /\ delivered' = delivered
        BY <1>8 DEF Restarts, Typed, LostOK
    <2>2. sender[f] = "new" => sender'[f] = "new"
        BY <1>8 DEF Restarts, Typed, ControlOK
    <2>3. CASE f \in InProcess \ ToSet(disk)
        BY <1>8, <2>3 DEF Restarts, Typed, LostOK
    <2>4. CASE f \in ToSet(disk)
        <3>1. ToSet(disk) \subseteq ToSet(memory') \cup Dropped(disk)
            BY <1>8, Kept DEF Restarts, Typed, StoreOK
        <3>2. f \in Dropped(disk) => lost'[f] # {}
            BY <1>8 DEF Restarts, Typed, LostOK
        <3> QED
            BY <2>4, <3>1, <3>2
    <2>5. CASE f \notin InProcess
        BY <2>1, <2>2, <2>5 DEF Accounted, InProcess, Waiting
    <2> QED
        BY <2>3, <2>4, <2>5
<1> QED
    BY <1>1, <1>2, <1>3, <1>4, <1>5, <1>6, <1>7, <1>8 DEF Next, Replay

(* A frame that has been offered is somewhere, or was given up in a way    *)
(* that is known: send_message and _flush_outbox never just forget one.    *)
THEOREM NoFrameVanishes == Spec => []NoneVanishes
<1>1. Init => Accounted
    BY DEF Init, Accounted
<1>2. Accounted => NoneVanishes
    BY DEF Accounted, NoneVanishes, InProcess, Waiting
<1>3. Typed /\ Typed' /\ Accounted /\ [Next]_vars => Accounted'
    BY AccountedStep
<1> QED
    BY <1>1, <1>2, <1>3, TypedAlways, PTL DEF Spec

-----------------------------------------------------------------------------
(* A frame is delivered once.  It has one place: with its sender, or once  *)
(* in the queue, or once in what is left of the replay; only its row       *)
(* outlives its delivery, and only a crash reads the rows.                 *)

Extra == IF persistent THEN crashes ELSE 0

\* What has not left its sender is nowhere else.
Fresh ==
    \A f \in Frames :
        sender[f] # "over" =>
            /\ delivered[f] = 0
            /\ f \notin ToSet(memory) \cup ToSet(replay.pending) \cup ToSet(disk)

OnePlace ==
    /\ NoDup(memory) /\ NoDup(replay.pending)
    /\ ToSet(memory) \cap Waiting = {}
    /\ \A f \in ToSet(memory) \cup Waiting : delivered[f] <= Extra

Once ==
    /\ Fresh
    /\ NoDup(disk)
    /\ \A f \in Frames : delivered[f] <= 1 + Extra
    /\ listener # "ended" => OnePlace

LEMMA ExtraIs ==
    ASSUME Typed
    PROVE  Extra \in Nat /\ Extra <= MaxCrashes
BY OutboxAssumption DEF Typed, ControlOK, Extra

(* The elements of the queue, of a replay and of the store are frames. *)
LEMMA Stored ==
    ASSUME Typed
    PROVE  /\ memory \in Seq(Frames) /\ disk \in Seq(Frames) /\ replay.pending \in Seq(Frames)
           /\ ToSet(memory) \subseteq Frames /\ ToSet(disk) \subseteq Frames
           /\ ToSet(replay.pending) \subseteq Frames
           /\ Waiting \subseteq ToSet(replay.pending)
<1>1. memory \in Seq(Frames) /\ disk \in Seq(Frames) /\ replay.pending \in Seq(Frames)
    BY QueuesAreSequences, ReplayTyped DEF Typed, StoreOK
<1> QED
    BY <1>1, Elements, WaitingIs

LEMMA EmptyQueue ==
    NoDup(<<>>) /\ ToSet(<<>>) = {} /\ (NoReplay.pending = <<>>)
        /\ ToSet(DeleteFirst(NoReplay.pending, NoReplay.at - 1)) = {}
<1>1. <<>> \in Seq(Frames) /\ Len(<<>>) = 0
    BY EmptySeq
<1>2. NoDup(<<>>) /\ ToSet(<<>>) = {}
    <2> PICK q \in Seq(Frames) : q = <<>> /\ Len(q) = 0
        BY <1>1
    <2>1. 1..Len(q) = {}
        BY SMT
    <2>2. ToSet(q) = {q[i] : i \in 1..Len(q)}
        BY Elements
    <2>3. NoDup(q) /\ ToSet(q) = {}
        BY <2>1, <2>2 DEF NoDup
    <2> QED
        BY <2>3
<1>3. DeleteFirst(<<>>, 0) = <<>>
    BY <1>1, Deleted
<1> QED
    BY <1>2, <1>3 DEF NoReplay

LEMMA OnceQueues ==
    ASSUME Typed, Typed', Once, NEW f \in Frames, SendQueues(f)
    PROVE  Once'
<1>1. /\ sender[f] # "over" /\ sender'[f] = "over" /\ listener # "ended"
      /\ \A g \in Frames : g # f => sender'[g] = sender[g]
      /\ UNCHANGED <<persistent, crashes, delivered, replay, listener>>
    BY DEF SendQueues, Attempts, Running, Over, Typed, ControlOK
<1>2. /\ delivered[f] = 0
      /\ f \notin ToSet(memory) \cup ToSet(replay.pending) \cup ToSet(disk)
    BY <1>1 DEF Once, Fresh
<1>3. /\ NoDup(memory') /\ ToSet(memory') \subseteq ToSet(memory) \cup {f}
    <2>1. /\ Append(memory, f) \in Seq(Frames) /\ NoDup(Append(memory, f))
          /\ ToSet(Append(memory, f)) \subseteq ToSet(memory) \cup {f}
        BY <1>1, <1>2, Stored, Appended DEF Once, OnePlace
    <2> QED
        BY <2>1, Kept DEF SendQueues, Enqueue
<1>4. NoDup(disk') /\ ToSet(disk') \subseteq ToSet(disk) \cup {f}
    <2>1. CASE persistent
        <3> DEFINE n == IF Len(memory) >= MaxQueue THEN 1 ELSE 0
        <3>1. n \in Nat
            OBVIOUS
        <3> HIDE DEF n
        <3>2. /\ DeleteFirst(disk, n) \in Seq(Frames) /\ NoDup(DeleteFirst(disk, n))
              /\ ToSet(DeleteFirst(disk, n)) \subseteq ToSet(disk)
            BY <3>1, Deleted, Stored DEF Once
        <3>3. disk' = Append(DeleteFirst(disk, n), f)
            BY <2>1 DEF SendQueues, Enqueue, StoreFrame, n
        <3> QED
            BY <1>2, <3>2, <3>3, Appended
    <2>2. CASE ~persistent
        BY <2>2 DEF SendQueues, Enqueue, StoreFrame, Once
    <2> QED
        BY <2>1, <2>2
<1>5. Waiting' = Waiting
    BY <1>1, WaitingNext DEF Waiting
<1>6. Fresh'
    BY <1>1, <1>3, <1>4 DEF Once, Fresh
<1>7. OnePlace'
    <2>1. Extra' = Extra /\ Extra >= 0
        BY <1>1, ExtraIs DEF Extra
    <2>2. f \notin Waiting
        BY <1>2, Stored
    <2> QED
        BY <1>1, <1>2, <1>3, <1>5, <2>1, <2>2 DEF Once, OnePlace
<1> QED
    BY <1>1, <1>4, <1>6, <1>7 DEF Once, Extra

LEMMA OnceSends ==
    ASSUME Typed, Typed', Once, NEW f \in Frames,
           \/ SendSucceeds(f) \/ SendVanishes(f) \/ SendRetries(f) \/ SendGivesUp(f)
           \/ SendRaises(f)
    PROVE  Once'
<1>1. /\ sender[f] # "over" /\ sender'[f] \in {"sends", "over"} /\ listener # "ended"
      /\ SendSucceeds(f) => sender'[f] = "over"
      /\ \A g \in Frames : g # f => sender'[g] = sender[g]
      /\ UNCHANGED <<persistent, crashes, memory, disk, replay, listener>>
    BY DEF SendSucceeds, SendVanishes, SendRetries, SendGivesUp, SendRaises, Attempts, Running,
        Over, Typed, ControlOK
<1>2. /\ delivered[f] = 0
      /\ f \notin ToSet(memory) \cup ToSet(replay.pending) \cup ToSet(disk)
    BY <1>1 DEF Once, Fresh
<1>3. /\ delivered'[f] <= 1 /\ (~SendSucceeds(f) => delivered'[f] = 0)
      /\ \A g \in Frames : g # f => delivered'[g] = delivered[g]
    BY <1>2 DEF SendSucceeds, SendVanishes, SendRetries, SendGivesUp, SendRaises, Deliver,
        Typed, ControlOK
<1>4. Extra' = Extra /\ Extra \in Nat /\ Waiting' = Waiting
    BY <1>1, ExtraIs, WaitingNext DEF Extra, Waiting
<1>5. Fresh'
    BY <1>1, <1>3 DEF Once, Fresh
<1>6. OnePlace'
    BY <1>1, <1>2, <1>3, <1>4, Stored DEF Once, OnePlace
<1>7. \A g \in Frames : delivered'[g] <= 1 + Extra'
    BY <1>3, <1>4 DEF Once, Typed, ControlOK
<1> QED
    BY <1>1, <1>5, <1>6, <1>7 DEF Once

LEMMA OnceListens ==
    ASSUME Typed, Once, Listen \/ LinkBreaks \/ ReplayRetries \/ UNCHANGED vars
    PROVE  Once'
<1>1. /\ UNCHANGED <<persistent, crashes, sender, delivered, memory, disk>>
      /\ listener' = "ended" => listener = "ended"
    BY DEF Listen, Connects, Notices, Reconnects, ReconnectsAgain, LinkBreaks, ReplayRetries,
        vars
<1>2. UNCHANGED <<replay.pending, replay.at>>
    BY DEF Listen, Connects, Notices, Reconnects, ReconnectsAgain, LinkBreaks, ReplayRetries,
        vars, Typed, ReplayOK, ReplayType
<1>3. listener' # "ended" => listener # "ended"
    BY DEF Listen, Connects, Notices, Reconnects, ReconnectsAgain, LinkBreaks, ReplayRetries,
        vars
<1>4. Waiting' = Waiting
    BY <1>2, WaitingNext DEF Waiting
<1> QED
    BY <1>1, <1>2, <1>3, <1>4 DEF Once, Fresh, OnePlace, Extra

(* A replay that goes on, whether it delivered its frame or not. *)
LEMMA OnceGoesOn ==
    ASSUME Typed, Once, Replaying, replay' \in {Onward, CountSent(Onward)},
           UNCHANGED <<listener, persistent, crashes, sender, memory, disk>>,
           UNCHANGED delivered \/ Deliver(Current)
    PROVE  Once'
<1>1. listener # "ended" /\ OnePlace
    BY DEF Replaying, Once
<1>2. /\ Current \in Waiting /\ Current \notin Waiting' /\ Waiting' \subseteq Waiting
      /\ replay'.pending = replay.pending /\ Current \in Frames
    BY <1>1, OneLess, GoesOn DEF OnePlace
<1>3. /\ \A f \in Frames : f # Current => delivered'[f] = delivered[f]
      /\ delivered'[Current] <= delivered[Current] + 1
      /\ delivered[Current] <= Extra
    BY <1>1, <1>2, Counted DEF Deliver, Typed, ControlOK, OnePlace
<1>4. Extra' = Extra /\ Extra \in Nat
    BY ExtraIs DEF Extra
<1>5. sender[Current] = "over" /\ Current \notin ToSet(memory)
    BY <1>1, <1>2, Stored DEF Once, Fresh, OnePlace
<1>6. Fresh'
    BY <1>2, <1>3, <1>5 DEF Once, Fresh
<1>7. OnePlace'
    BY <1>1, <1>2, <1>3, <1>4, <1>5, Stored DEF OnePlace
<1>8. \A f \in Frames : delivered'[f] <= 1 + Extra'
    <2> SUFFICES ASSUME NEW f \in Frames PROVE delivered'[f] <= 1 + Extra
        BY <1>4
    <2>1. CASE f = Current
        BY <1>2, <1>3, <1>4, <2>1, Counted DEF Deliver, Typed, ControlOK
    <2>2. CASE f # Current
        BY <1>3, <2>2 DEF Once
    <2> QED
        BY <2>1, <2>2
<1> QED
    BY <1>6, <1>7, <1>8 DEF Once

LEMMA OnceReplays ==
    ASSUME Typed, Typed', Once, ReplayBegins \/ ReplayEnds \/ ReplayInterrupted
    PROVE  Once'
<1>1. UNCHANGED <<persistent, crashes, sender, delivered>>
    BY DEF ReplayBegins, ReplayEnds, ReplayInterrupted
<1>2. Extra' = Extra
    BY <1>1 DEF Extra
<1>3. CASE ReplayBegins
    <2>1. replay'.pending = memory /\ replay'.at = 1 /\ memory' = <<>> /\ disk' = disk
        BY <1>3 DEF ReplayBegins, NoReplay
    <2>2. Waiting' = ToSet(memory)
        <3>1. memory \in Seq(Frames) /\ Len(memory) \in Nat
            BY Stored, Elements
        <3>2. ToSet(DeleteFirst(memory, 1 - 1)) = {memory[j] : j \in 1..Len(memory)}
            BY <3>1, From
        <3> QED
            BY <2>1, <3>1, <3>2, Elements, WaitingNext
    <2>3. listener # "ended"
        BY <1>3 DEF ReplayBegins
    <2>4. Fresh'
        BY <1>1, <2>1, EmptyQueue DEF Once, Fresh
    <2>5. OnePlace'
        BY <1>1, <1>2, <2>1, <2>2, <2>3, EmptyQueue DEF Once, OnePlace
    <2> QED
        BY <1>1, <1>2, <2>1, <2>4, <2>5 DEF Once
<1>4. CASE ReplayEnds
    <2>1. replay' = NoReplay /\ memory' = memory /\ disk' = DeleteFirst(disk, replay.sent)
        BY <1>4 DEF ReplayEnds
    <2>2. replay.sent \in Nat
        BY ReplayTyped, OutboxAssumption DEF Typed
    <2>3. NoDup(disk') /\ ToSet(disk') \subseteq ToSet(disk)
        BY <2>1, <2>2, Stored, Deleted DEF Once
    <2>4. Waiting' = {} /\ ToSet(replay'.pending) = {} /\ NoDup(replay'.pending)
        BY <2>1, EmptyQueue, WaitingNext
    <2>5. Fresh'
        BY <1>1, <2>1, <2>3, <2>4 DEF Once, Fresh
    <2>6. OnePlace'
        BY <1>1, <1>2, <1>4, <2>1, <2>4 DEF Once, OnePlace, ReplayEnds
    <2> QED
        BY <1>1, <1>2, <2>3, <2>5, <2>6 DEF Once
<1>5. CASE ReplayInterrupted
    <2>1. /\ replay' = NoReplay /\ listener' = "ended" /\ memory' = Keep(memory \o Rest)
          /\ disk' = DeleteFirst(disk, replay.sent)
        BY <1>5 DEF ReplayInterrupted
    <2>2. replay.sent \in Nat
        BY ReplayTyped, OutboxAssumption DEF Typed
    <2>3. NoDup(disk') /\ ToSet(disk') \subseteq ToSet(disk)
        BY <2>1, <2>2, Stored, Deleted DEF Once
    <2>4. ToSet(replay'.pending) = {}
        BY <2>1, EmptyQueue
    <2>5. ToSet(memory') \subseteq ToSet(memory) \cup ToSet(replay.pending)
        <3>1. Rest \in Seq(Frames) /\ ToSet(Rest) \subseteq ToSet(replay.pending)
            BY <2>2, Stored, Deleted DEF Rest
        <3>2. /\ memory \o Rest \in Seq(Frames)
              /\ ToSet(memory \o Rest) = ToSet(memory) \cup ToSet(Rest)
            BY <3>1, Stored, Concatenated, ConcatProperties
        <3>3. ToSet(memory') \subseteq ToSet(memory \o Rest)
            BY <2>1, <3>2, Kept
        <3> QED
            BY <3>1, <3>2, <3>3
    <2>6. Fresh'
        BY <1>1, <2>3, <2>4, <2>5 DEF Once, Fresh
    <2> QED
        BY <1>1, <1>2, <2>1, <2>3, <2>6 DEF Once
<1> QED
    BY <1>3, <1>4, <1>5

LEMMA OnceRestarts ==
    ASSUME Typed, Typed', Once, Restarts
    PROVE  Once'
<1>1. /\ replay' = NoReplay /\ memory' = Keep(disk)
      /\ UNCHANGED <<persistent, disk, delivered>> /\ crashes' = crashes + 1
    BY DEF Restarts
<1>2. NoDup(memory') /\ ToSet(memory') \subseteq ToSet(disk)
    BY <1>1, Stored, Kept DEF Once
<1>3. Waiting' = {} /\ ToSet(replay'.pending) = {} /\ NoDup(replay'.pending)
    BY <1>1, EmptyQueue, WaitingNext
<1>4. \A f \in Frames : sender'[f] # "over" => sender[f] # "over"
    BY DEF Restarts, Typed, ControlOK
<1>5. Fresh'
    BY <1>1, <1>2, <1>3, <1>4 DEF Once, Fresh
<1>6. Extra \in Nat /\ Extra' = IF persistent THEN Extra + 1 ELSE Extra
    BY <1>1, ExtraIs DEF Extra
<1>7. \A f \in Frames : delivered'[f] <= 1 + Extra'
    BY <1>1, <1>6 DEF Once, Typed, ControlOK
<1>8. \A f \in ToSet(memory') : delivered'[f] <= Extra'
    <2>1. CASE persistent
        BY <1>1, <1>2, <1>6, <2>1, Stored DEF Once
    <2>2. CASE ~persistent
        BY <1>2, <2>2, EmptyQueue DEF Typed, StoreOK
    <2> QED
        BY <2>1, <2>2
<1>9. OnePlace'
    BY <1>2, <1>3, <1>8 DEF OnePlace
<1> QED
    BY <1>1, <1>5, <1>7, <1>9 DEF Once

LEMMA OnceAlways == Spec => []Once
<1>1. Init => Once
    <2> SUFFICES ASSUME Init PROVE Once
        OBVIOUS
    <2>1. Waiting = {}
        BY EmptyQueue DEF Init, Waiting
    <2>2. Fresh
        BY EmptyQueue DEF Init, Fresh
    <2>3. OnePlace
        BY <2>1, EmptyQueue DEF Init, OnePlace
    <2>4. Extra = 0
        BY DEF Init, Extra
    <2> QED
        BY <2>2, <2>3, <2>4, EmptyQueue DEF Init, Once
<1>2. Typed /\ Typed' /\ Once /\ [Next]_vars => Once'
    <2> SUFFICES ASSUME Typed, Typed', Once, [Next]_vars PROVE Once'
        OBVIOUS
    <2>1. CASE ReplaySucceeds \/ ReplayGivesUp \/ ReplaySkips \/ ReplayVanishes \/ ReplayRaises
        BY <2>1, OnceGoesOn
        DEF ReplaySucceeds, ReplayGivesUp, ReplaySkips, ReplayVanishes, ReplayRaises
    <2> QED
        BY <2>1, OnceQueues, OnceSends, OnceListens, OnceReplays, OnceRestarts
        DEF Next, Send, Replay
<1> QED
    BY <1>1, <1>2, TypedAlways, PTL DEF Spec

(* The server receives a frame once, however its sending, its retries and  *)
(* replays meet broken connections; with a store, once more per crash,     *)
(* because a row is deleted only when the whole replay is over.            *)
THEOREM FramesDeliveredOnce == Spec => []DeliveredOnce
<1>1. Once => DeliveredOnce
    BY DEF Once, DeliveredOnce, Extra
<1> QED
    BY <1>1, OnceAlways, PTL

(* Every variable keeps its type, however large the queue and the bounds;  *)
(* the queue never grows beyond its limit.                                 *)
THEOREM TypeCorrect == Spec => []TypeOK
<1>1. Typed /\ Once => TypeOK
    <2> SUFFICES ASSUME Typed, Once PROVE TypeOK
        OBVIOUS
    <2>1. \A f \in Frames : delivered[f] \in 0 .. 1 + MaxCrashes
        BY ExtraIs, OutboxAssumption DEF Typed, ControlOK, Once
    <2>2. delivered \in [Frames -> 0 .. 1 + MaxCrashes]
        BY <2>1 DEF Typed, ControlOK
    <2> QED
        BY <2>2 DEF TypeOK, Typed, ControlOK, StoreOK, LostOK, ReplayOK
<1> QED
    BY <1>1, TypedAlways, OnceAlways, PTL

-----------------------------------------------------------------------------
(* What is queued is on disk.  Behind the queue, the replay and the rows   *)
(* is one sequence P of frames: the rows are all of it but the first k,    *)
(* the queue is its end, and between what is replayed and the queue stand  *)
(* k frames that a full queue has dropped.  k grows only while a replay    *)
(* runs: the rows deleted for those k are those of older frames.           *)

Spans(P, k, M, D, N) ==
    /\ P \in Seq(Frames) /\ M \in Seq(Frames) /\ D \in Seq(Frames) /\ N \in Seq(Frames)
    /\ k \in Nat /\ k + Len(N) + Len(M) <= Len(P)
    /\ Len(D) = Len(P) - k
    /\ \A i \in 1..Len(D) : D[i] = P[k + i]
    /\ \A i \in 1..Len(M) : M[i] = P[Len(P) - Len(M) + i]
    /\ \A i \in 1..Len(N) : N[i] = P[Len(P) - Len(M) - k - Len(N) + i]

Aligned(P, k) ==
    /\ Spans(P, k, memory, disk, replay.pending)
    /\ NoDup(P)
    /\ \A i \in 1..Len(P) : sender[P[i]] = "over"
    /\ \A i \in 1..k : "overflow" \in lost[P[Len(P) - Len(memory) - k + i]]

Overflowed == {f \in Frames : "overflow" \in lost[f]}

Bound == Cardinality((ToSet(memory) \cup Waiting) \ ToSet(disk)) <= Cardinality(Overflowed)

\* When listen() has ended the rest of a replay may be back in the queue, which
\* leaves only the bound.
DiskInv ==
    persistent =>
        \/ \E P, k : Aligned(P, k)
        \/ listener = "ended" /\ Bound

(* k frames of P are at most as many as k other frames of P. *)
LEMMA AtMost ==
    ASSUME NEW P \in Seq(Frames), NoDup(P), NEW k \in Nat, NEW b \in Nat, NEW c \in Nat,
           b + k <= Len(P), c + k <= Len(P),
           NEW S, S \subseteq {P[c + i] : i \in 1..k},
           NEW O, O \subseteq Frames, \A i \in 1..k : P[b + i] \in O
    PROVE  Cardinality(S) <= Cardinality(O)
<1>1. Len(P) \in Nat
    BY Elements
<1>2. IsFiniteSet(O)
    BY OutboxAssumption, FS_Subset
<1>3. IsFiniteSet(1..k) /\ Cardinality(1..k) = k
    BY FS_Interval
<1> DEFINE T == {P[c + i] : i \in 1..k}
           into == [i \in 1..k |-> P[c + i]]
           from == [i \in 1..k |-> P[b + i]]
<1>4. IsFiniteSet(T) /\ Cardinality(T) <= k
    <2>1. into \in Surjection(1..k, T)
        BY DEF Surjection
    <2> QED
        BY <1>3, <2>1, FS_Surjection
<1>5. k <= Cardinality(O)
    <2>1. from \in [1..k -> O]
        OBVIOUS
    <2>2. ASSUME NEW i \in 1..k, NEW j \in 1..k, from[i] = from[j]
          PROVE  i = j
        <3>1. b + i \in 1..Len(P) /\ b + j \in 1..Len(P)
            BY <1>1
        <3>2. P[b + i] = P[b + j]
            BY <2>2
        <3>3. b + i = b + j
            BY <3>1, <3>2 DEF NoDup
        <3> QED
            BY <3>3
    <2>3. from \in Injection(1..k, O)
        BY <2>1, <2>2 DEF Injection, IsInjective
    <2> QED
        BY <1>2, <1>3, <2>3, FS_Injection
<1>6. IsFiniteSet(S) /\ Cardinality(S) <= Cardinality(T)
    BY <1>4, FS_Subset
<1>7. Cardinality(S) \in Nat /\ Cardinality(T) \in Nat /\ Cardinality(O) \in Nat
    BY <1>2, <1>4, <1>6, FS_CardinalityType
<1> HIDE DEF T
<1> QED
    BY <1>4, <1>5, <1>6, <1>7

(* The lengths that Aligned compares. *)
LEMMA Lengths ==
    ASSUME Typed, NEW P, NEW k, Aligned(P, k)
    PROVE  /\ Len(P) \in Nat /\ k \in Nat /\ Len(memory) \in Nat /\ Len(disk) \in Nat
           /\ Len(replay.pending) \in Nat /\ replay.sent \in Nat /\ replay.at \in Nat
           /\ replay.sent <= Len(replay.pending) /\ replay.sent < replay.at
           /\ replay.at <= Len(replay.pending) + 1
           /\ Len(disk) = Len(P) - k
           /\ k + Len(replay.pending) + Len(memory) <= Len(P)
<1>1. Len(P) \in Nat /\ k \in Nat
    BY Elements DEF Aligned, Spans
<1>2. Len(memory) \in Nat /\ Len(disk) \in Nat /\ Len(replay.pending) \in Nat
    BY Stored, Elements
<1>3. /\ replay.sent \in Nat /\ replay.at \in Nat /\ replay.sent < replay.at
      /\ replay.at <= Len(replay.pending) + 1
    BY ReplayTyped, OutboxAssumption DEF Typed
<1> QED
    BY <1>1, <1>2, <1>3 DEF Aligned, Spans

LEMMA AlignedQueue ==
    ASSUME Typed, NEW P, NEW k, Aligned(P, k)
    PROVE  ToSet(memory) \subseteq ToSet(disk)
<1> SUFFICES ASSUME NEW i \in 1..Len(memory)
             PROVE  memory[i] \in ToSet(disk)
    BY Stored, Elements
<1>0. /\ Len(P) \in Nat /\ k \in Nat /\ Len(memory) \in Nat /\ Len(disk) \in Nat
      /\ Len(replay.pending) \in Nat /\ replay.sent \in Nat /\ replay.at \in Nat
      /\ replay.sent <= Len(replay.pending) /\ replay.sent < replay.at
      /\ replay.at <= Len(replay.pending) + 1
      /\ Len(disk) = Len(P) - k
      /\ k + Len(replay.pending) + Len(memory) <= Len(P)
    BY Lengths
<1> DEFINE j == Len(P) - Len(memory) + i - k
<1>1. j \in 1..Len(disk) /\ k + j = Len(P) - Len(memory) + i
    BY <1>0
<1>2. disk[j] = P[k + j]
    BY <1>1 DEF Aligned, Spans
<1>3. memory[i] = P[k + j]
    BY <1>1 DEF Aligned, Spans
<1> HIDE DEF j
<1> QED
    BY <1>1, <1>2, <1>3, Stored, Elements

LEMMA AlignedBounds ==
    ASSUME Typed, NEW P, NEW k, Aligned(P, k)
    PROVE  Bound
<1> DEFINE n == Len(replay.pending)
           x == Len(P) - Len(memory) - k - n
           b == Len(P) - Len(memory) - k
           S == (ToSet(memory) \cup Waiting) \ ToSet(disk)
<1>0. /\ Len(P) \in Nat /\ k \in Nat /\ Len(memory) \in Nat /\ Len(disk) \in Nat
      /\ Len(replay.pending) \in Nat /\ replay.sent \in Nat /\ replay.at \in Nat
      /\ replay.sent <= Len(replay.pending) /\ replay.sent < replay.at
      /\ replay.at <= Len(replay.pending) + 1
      /\ Len(disk) = Len(P) - k
      /\ k + Len(replay.pending) + Len(memory) <= Len(P)
    BY Lengths
<1>1. /\ x \in Nat /\ n \in Nat /\ b \in Nat /\ b + k <= Len(P) /\ 0 + k <= Len(P)
      /\ x + n = b
    BY <1>0
<1>2. \A j \in 1..n : replay.pending[j] = P[x + j]
    BY DEF Aligned, Spans
<1>3. Waiting = {replay.pending[j] : j \in replay.at .. n}
    BY WaitingIs
<1> HIDE DEF x, n, b
<1>4. S \subseteq {P[0 + i] : i \in 1..k}
    <2> SUFFICES ASSUME NEW f \in S PROVE f \in {P[0 + i] : i \in 1..k}
        OBVIOUS
    <2>1. f \in Waiting /\ f \notin ToSet(disk)
        BY AlignedQueue
    <2>2. PICK j \in replay.at .. n : f = replay.pending[j]
        BY <2>1, <1>3
    <2>3. j \in 1..n
        <3>1. replay.at >= 1 /\ replay.at \in Nat
            BY <1>0
        <3> QED
            BY <1>1, <2>2, <3>1
    <2> PICK y : y = x + j
        OBVIOUS
    <2>4. y \in 1..Len(P) /\ y \in Nat
        BY <1>0, <1>1, <2>3
    <2>5. f = P[y]
        BY <1>2, <2>2, <2>3
    <2>6. CASE y <= k
        <3>1. y \in 1..k /\ 0 + y = y
            BY <1>0, <2>6, <2>4
        <3> QED
            BY <2>5, <3>1
    <2>7. CASE y > k
        <3> DEFINE i == y - k
        <3>1. i \in 1..Len(disk) /\ k + i = y
            BY <1>0, <2>7, <2>4
        <3>2. disk[i] = P[k + i]
            BY <3>1 DEF Aligned, Spans
        <3>3. disk[i] = f
            BY <2>5, <3>1, <3>2
        <3> HIDE DEF i
        <3>4. f \in ToSet(disk)
            BY <3>1, <3>3, Stored, Elements
        <3> QED
            BY <2>1, <3>4
    <2> QED
        BY <1>0, <2>6, <2>7, <2>4
<1>5. \A i \in 1..k : P[b + i] \in Overflowed
    <2> SUFFICES ASSUME NEW i \in 1..k PROVE P[b + i] \in Overflowed
        OBVIOUS
    <2>1. b + i \in 1..Len(P)
        BY <1>1, <1>0
    <2>2. "overflow" \in lost[P[b + i]]
        BY DEF Aligned, Spans, b
    <2>3. P[b + i] \in Frames
        BY <2>1, Elements DEF Aligned, Spans
    <2> QED
        BY <2>2, <2>3 DEF Overflowed
<1>6. P \in Seq(Frames) /\ NoDup(P) /\ k \in Nat /\ 0 \in Nat /\ Overflowed \subseteq Frames
    BY DEF Aligned, Spans, Overflowed
<1> HIDE DEF S
<1>7. Cardinality(S) <= Cardinality(Overflowed)
    BY <1>1, <1>4, <1>5, <1>6, AtMost
<1> QED
    BY <1>7 DEF Bound, S

(* A step that changes neither queue, nor rows, nor what is replayed. *)
LEMMA AlignedStays ==
    ASSUME Typed, NEW P, NEW k, Aligned(P, k),
           UNCHANGED <<memory, disk, replay.pending>>,
           \A f \in Frames : sender[f] = "over" => sender'[f] = "over",
           \A f \in Frames : lost[f] \subseteq lost'[f]
    PROVE  Aligned(P, k)'
<1>1. \A i \in 1..Len(P) : P[i] \in Frames
    BY Elements DEF Aligned, Spans
<1>2. \A i \in 1..k : Len(P) - Len(memory) - k + i \in 1..Len(P)
    BY Lengths
<1> QED
    BY <1>1, <1>2 DEF Aligned, Spans

LEMMA AppendedAs ==
    ASSUME NEW q \in Seq(Frames), NEW f \in Frames, NEW r, r = Append(q, f),
           NEW n, n = Len(q)
    PROVE  /\ r \in Seq(Frames) /\ Len(r) = n + 1 /\ r[n + 1] = f
           /\ \A i \in 1..n : r[i] = q[i]
BY Appended

LEMMA DeletedAs ==
    ASSUME NEW q \in Seq(Frames), NEW s \in Nat, s <= Len(q)
    PROVE  /\ DeleteFirst(q, s) \in Seq(Frames) /\ Len(DeleteFirst(q, s)) = Len(q) - s
           /\ \A i \in 1 .. Len(q) - s : DeleteFirst(q, s)[i] = q[s + i]
<1>1. /\ DeleteFirst(q, s) \in Seq(Frames)
      /\ Len(DeleteFirst(q, s)) = IF s <= Len(q) THEN Len(q) - s ELSE 0
      /\ \A i \in 1..Len(DeleteFirst(q, s)) : DeleteFirst(q, s)[i] = q[s + i]
    BY Deleted
<1> QED
    BY <1>1

(* A frame is added at the end. *)
LEMMA SpansGrows ==
    ASSUME NEW P, NEW k, NEW M, NEW D, NEW N, Spans(P, k, M, D, N), NEW f \in Frames
    PROVE  Spans(Append(P, f), k, Append(M, f), Append(D, f), N)
<1>8. PICK p, m, d, n : p = Len(P) /\ m = Len(M) /\ d = Len(D) /\ n = Len(N)
    OBVIOUS
<1>9. PICK Q, L, E : Q = Append(P, f) /\ L = Append(M, f) /\ E = Append(D, f)
    OBVIOUS
<1>1. /\ P \in Seq(Frames) /\ M \in Seq(Frames) /\ D \in Seq(Frames) /\ N \in Seq(Frames)
      /\ k \in Nat /\ k + n + m <= p /\ d = p - k
      /\ \A i \in 1..d : D[i] = P[k + i]
      /\ \A i \in 1..m : M[i] = P[p - m + i]
      /\ \A i \in 1..n : N[i] = P[p - m - k - n + i]
    BY <1>8 DEF Spans
<1>2. p \in Nat /\ m \in Nat /\ d \in Nat /\ n \in Nat
    BY <1>1, <1>8, Elements
<1>3. /\ Q \in Seq(Frames) /\ Len(Q) = p + 1 /\ Q[p + 1] = f /\ \A i \in 1..p : Q[i] = P[i]
      /\ L \in Seq(Frames) /\ Len(L) = m + 1 /\ L[m + 1] = f /\ \A i \in 1..m : L[i] = M[i]
      /\ E \in Seq(Frames) /\ Len(E) = d + 1 /\ E[d + 1] = f /\ \A i \in 1..d : E[i] = D[i]
    <2>1. Q \in Seq(Frames) /\ Len(Q) = p + 1 /\ Q[p + 1] = f /\ \A i \in 1..p : Q[i] = P[i]
        BY <1>1, <1>8, <1>9, AppendedAs
    <2>2. L \in Seq(Frames) /\ Len(L) = m + 1 /\ L[m + 1] = f /\ \A i \in 1..m : L[i] = M[i]
        BY <1>1, <1>8, <1>9, AppendedAs
    <2>3. E \in Seq(Frames) /\ Len(E) = d + 1 /\ E[d + 1] = f /\ \A i \in 1..d : E[i] = D[i]
        BY <1>1, <1>8, <1>9, AppendedAs
    <2> QED
        BY <2>1, <2>2, <2>3
<1>4. ASSUME NEW i \in 1 .. d + 1 PROVE E[i] = Q[k + i]
    <2>1. CASE i = d + 1
        <3>1. k + i = p + 1
            BY <1>1, <1>2, <2>1
        <3> QED
            BY <1>3, <2>1, <3>1
    <2>2. CASE i \in 1..d
        <3>1. k + i \in 1..p
            BY <1>1, <1>2, <2>2
        <3> QED
            BY <1>1, <1>3, <2>2, <3>1
    <2> QED
        BY <1>2, <2>1, <2>2
<1>5. ASSUME NEW i \in 1 .. m + 1 PROVE L[i] = Q[p + 1 - (m + 1) + i]
    <2>1. CASE i = m + 1
        <3>1. p + 1 - (m + 1) + i = p + 1
            BY <1>2, <2>1
        <3> QED
            BY <1>3, <2>1, <3>1
    <2>2. CASE i \in 1..m
        <3>1. p + 1 - (m + 1) + i = p - m + i /\ p - m + i \in 1..p
            BY <1>1, <1>2, <2>2
        <3> QED
            BY <1>1, <1>3, <2>2, <3>1
    <2> QED
        BY <1>2, <2>1, <2>2
<1>6. ASSUME NEW i \in 1..n PROVE N[i] = Q[p + 1 - (m + 1) - k - n + i]
    <2>1. /\ p + 1 - (m + 1) - k - n + i = p - m - k - n + i
          /\ p - m - k - n + i \in 1..p
        BY <1>1, <1>2
    <2> QED
        BY <1>1, <1>3, <2>1
<1>7. k + n + (m + 1) <= p + 1 /\ d + 1 = (p + 1) - k
    BY <1>1, <1>2
<1>10. n = Len(N)
    BY <1>8
<1>11. Spans(Q, k, L, E, N)
    <2>1. \A i \in 1..Len(E) : E[i] = Q[k + i]
        BY <1>3, <1>4
    <2>2. \A i \in 1..Len(L) : L[i] = Q[Len(Q) - Len(L) + i]
        <3> SUFFICES ASSUME NEW i \in 1 .. m + 1 PROVE L[i] = Q[Len(Q) - Len(L) + i]
            BY <1>3
        <3>1. L[i] = Q[p + 1 - (m + 1) + i]
            BY <1>5
        <3>2. Len(Q) = p + 1 /\ Len(L) = m + 1
            BY <1>3
        <3> QED
            BY <1>2, <3>1, <3>2
    <2>3. \A i \in 1..Len(N) : N[i] = Q[Len(Q) - Len(L) - k - Len(N) + i]
        <3> SUFFICES ASSUME NEW i \in 1..n
                     PROVE  N[i] = Q[Len(Q) - Len(L) - k - Len(N) + i]
            BY <1>10
        <3>1. N[i] = Q[p + 1 - (m + 1) - k - n + i]
            BY <1>6
        <3>2. Len(Q) = p + 1 /\ Len(L) = m + 1 /\ k \in Nat
            BY <1>1, <1>3
        <3> QED
            BY <1>2, <1>10, <3>1, <3>2
    <2>4. k \in Nat /\ k + Len(N) + Len(L) <= Len(Q) /\ Len(E) = Len(Q) - k
        BY <1>1, <1>2, <1>3, <1>7, <1>10
    <2>5. Q \in Seq(Frames) /\ L \in Seq(Frames) /\ E \in Seq(Frames) /\ N \in Seq(Frames)
        BY <1>1, <1>3
    <2> QED
        BY <2>1, <2>2, <2>3, <2>4, <2>5 DEF Spans
<1> QED
    BY <1>9, <1>11

(* The oldest of the queue and the oldest row go. *)
LEMMA SpansDrops ==
    ASSUME NEW P, NEW k, NEW M, NEW D, NEW N, Spans(P, k, M, D, N), Len(M) >= 1
    PROVE  Spans(P, k + 1, DeleteFirst(M, 1), DeleteFirst(D, 1), N)
<1>8. PICK p, m, d, n : p = Len(P) /\ m = Len(M) /\ d = Len(D) /\ n = Len(N)
    OBVIOUS
<1>9. PICK L, E : L = DeleteFirst(M, 1) /\ E = DeleteFirst(D, 1)
    OBVIOUS
<1>1. /\ P \in Seq(Frames) /\ M \in Seq(Frames) /\ D \in Seq(Frames) /\ N \in Seq(Frames)
      /\ k \in Nat /\ k + n + m <= p /\ d = p - k /\ m >= 1
      /\ \A i \in 1..d : D[i] = P[k + i]
      /\ \A i \in 1..m : M[i] = P[p - m + i]
      /\ \A i \in 1..n : N[i] = P[p - m - k - n + i]
    BY <1>8 DEF Spans
<1>2. p \in Nat /\ m \in Nat /\ d \in Nat /\ n \in Nat /\ d >= 1
    <2>1. p \in Nat /\ m \in Nat /\ d \in Nat /\ n \in Nat
        BY <1>1, <1>8, Elements
    <2> QED
        BY <1>1, <2>1
<1>3. /\ L \in Seq(Frames) /\ Len(L) = m - 1 /\ \A i \in 1 .. m - 1 : L[i] = M[1 + i]
      /\ E \in Seq(Frames) /\ Len(E) = d - 1 /\ \A i \in 1 .. d - 1 : E[i] = D[1 + i]
    <2>1. 1 <= m /\ 1 <= d /\ 1 \in Nat
        BY <1>1, <1>2
    <2> QED
        <3>0. M \in Seq(Frames) /\ D \in Seq(Frames)
            BY <1>1
        <3>1. L \in Seq(Frames) /\ Len(L) = m - 1 /\ \A i \in 1 .. m - 1 : L[i] = M[1 + i]
            <4>1. L = DeleteFirst(M, 1) /\ m = Len(M) /\ m \in Nat /\ 1 <= m /\ 1 \in Nat
                BY <1>2, <1>8, <1>9, <2>1, <3>0
            <4>2. M \in Seq(Frames)
                BY <2>1, <3>0
            <4> QED
                BY <4>1, <4>2, DeletedAs
        <3>2. E \in Seq(Frames) /\ Len(E) = d - 1 /\ \A i \in 1 .. d - 1 : E[i] = D[1 + i]
            <4>1. E = DeleteFirst(D, 1) /\ d = Len(D) /\ d \in Nat /\ 1 <= d /\ 1 \in Nat
                BY <1>2, <1>8, <1>9, <2>1, <3>0
            <4>2. D \in Seq(Frames)
                BY <2>1, <3>0
            <4> QED
                BY <4>1, <4>2, DeletedAs
        <3> QED
            BY <3>1, <3>2
<1>4. ASSUME NEW i \in 1 .. d - 1 PROVE E[i] = P[(k + 1) + i]
    <2>1. 1 + i \in 1..d /\ k + (1 + i) = (k + 1) + i
        BY <1>1, <1>2
    <2> QED
        BY <1>1, <1>3, <2>1
<1>5. ASSUME NEW i \in 1 .. m - 1 PROVE L[i] = P[p - (m - 1) + i]
    <2>1. 1 + i \in 1..m /\ p - m + (1 + i) = p - (m - 1) + i
        BY <1>1, <1>2
    <2> QED
        BY <1>1, <1>3, <2>1
<1>6. ASSUME NEW i \in 1..n PROVE N[i] = P[p - (m - 1) - (k + 1) - n + i]
    <2>1. p - (m - 1) - (k + 1) - n + i = p - m - k - n + i
        BY <1>1, <1>2
    <2> QED
        BY <1>1, <2>1
<1>7. k + 1 \in Nat /\ (k + 1) + n + (m - 1) <= p /\ d - 1 = p - (k + 1)
    BY <1>1, <1>2
<1>10. Len(P) = p /\ Len(N) = n /\ Len(L) = m - 1 /\ Len(E) = d - 1
    BY <1>3, <1>8
<1>11. Spans(P, k + 1, L, E, N)
    <2>1. P \in Seq(Frames) /\ L \in Seq(Frames) /\ E \in Seq(Frames) /\ N \in Seq(Frames)
        BY <1>1, <1>3
    <2>2. /\ k + 1 \in Nat /\ (k + 1) + Len(N) + Len(L) <= Len(P)
          /\ Len(E) = Len(P) - (k + 1)
        BY <1>7, <1>10
    <2>3. \A i \in 1..Len(E) : E[i] = P[(k + 1) + i]
        BY <1>4, <1>10
    <2>4. \A i \in 1..Len(L) : L[i] = P[Len(P) - Len(L) + i]
        BY <1>5, <1>10
    <2>5. \A i \in 1..Len(N) : N[i] = P[Len(P) - Len(L) - (k + 1) - Len(N) + i]
        BY <1>6, <1>10
    <2> QED
        BY <2>1, <2>2, <2>3, <2>4, <2>5 DEF Spans
<1> QED
    BY <1>9, <1>11

(* The rows of what a replay has sent go. *)
LEMMA SpansSent ==
    ASSUME NEW P, NEW k, NEW M, NEW D, NEW N, Spans(P, k, M, D, N),
           NEW s \in Nat, s <= Len(N)
    PROVE  Spans(DeleteFirst(P, s), k, M, DeleteFirst(D, s), <<>>)
<1>8. PICK p, m, d, n : p = Len(P) /\ m = Len(M) /\ d = Len(D) /\ n = Len(N)
    OBVIOUS
<1>9. PICK Q, E : Q = DeleteFirst(P, s) /\ E = DeleteFirst(D, s)
    OBVIOUS
<1>1. /\ P \in Seq(Frames) /\ M \in Seq(Frames) /\ D \in Seq(Frames) /\ N \in Seq(Frames)
      /\ k \in Nat /\ k + n + m <= p /\ d = p - k /\ s <= n
      /\ \A i \in 1..d : D[i] = P[k + i]
      /\ \A i \in 1..m : M[i] = P[p - m + i]
    BY <1>8 DEF Spans
<1>2. p \in Nat /\ m \in Nat /\ d \in Nat /\ n \in Nat /\ s <= d /\ s <= p
    <2>1. p \in Nat /\ m \in Nat /\ d \in Nat /\ n \in Nat
        BY <1>1, <1>8, Elements
    <2> QED
        BY <1>1, <2>1
<1>3. /\ Q \in Seq(Frames) /\ Len(Q) = p - s /\ \A i \in 1 .. p - s : Q[i] = P[s + i]
      /\ E \in Seq(Frames) /\ Len(E) = d - s /\ \A i \in 1 .. d - s : E[i] = D[s + i]
    <2>0. P \in Seq(Frames) /\ D \in Seq(Frames) /\ s <= p /\ s <= d
        BY <1>1, <1>2
    <2>1. Q \in Seq(Frames) /\ Len(Q) = p - s /\ \A i \in 1 .. p - s : Q[i] = P[s + i]
        <3>1. Q = DeleteFirst(P, s) /\ p = Len(P) /\ p \in Nat /\ s <= p /\ s \in Nat
            BY <1>2, <1>8, <1>9, <2>0
        <3>2. P \in Seq(Frames)
            BY <2>0
        <3> QED
            BY <3>1, <3>2, DeletedAs
    <2>2. E \in Seq(Frames) /\ Len(E) = d - s /\ \A i \in 1 .. d - s : E[i] = D[s + i]
        <3>1. E = DeleteFirst(D, s) /\ d = Len(D) /\ d \in Nat /\ s <= d /\ s \in Nat
            BY <1>2, <1>8, <1>9, <2>0
        <3>2. D \in Seq(Frames)
            BY <2>0
        <3> QED
            BY <3>1, <3>2, DeletedAs
    <2> QED
        BY <2>1, <2>2
<1>4. ASSUME NEW i \in 1 .. d - s PROVE E[i] = Q[k + i]
    <2>1. s + i \in 1..d /\ k + i \in 1 .. p - s /\ k + (s + i) = s + (k + i)
        BY <1>1, <1>2
    <2>2. E[i] = D[s + i]
        BY <1>3
    <2>3. D[s + i] = P[k + (s + i)]
        BY <1>1, <2>1
    <2>4. Q[k + i] = P[s + (k + i)]
        BY <1>3, <2>1
    <2> QED
        BY <2>1, <2>2, <2>3, <2>4
<1>5. ASSUME NEW i \in 1..m PROVE M[i] = Q[p - s - m + i]
    <2>1. p - s - m + i \in 1 .. p - s /\ s + (p - s - m + i) = p - m + i
        BY <1>1, <1>2
    <2>2. M[i] = P[p - m + i]
        BY <1>1
    <2>3. Q[p - s - m + i] = P[s + (p - s - m + i)]
        BY <1>3, <2>1
    <2> QED
        BY <2>1, <2>2, <2>3
<1>6. k + 0 + m <= p - s /\ d - s = p - s - k
    BY <1>1, <1>2
<1>7. <<>> \in Seq(Frames) /\ Len(<<>>) = 0 /\ 1..0 = {}
    BY EmptySeq, SMT
<1> QED
    BY <1>1, <1>3, <1>4, <1>5, <1>6, <1>7, <1>8, <1>9 DEF Spans

(* The queue becomes what is replayed. *)
LEMMA SpansBegins ==
    ASSUME NEW P, NEW k, NEW M, NEW D, NEW N, Spans(P, k, M, D, N)
    PROVE  Spans(D, 0, <<>>, D, M)
<1>8. PICK p, m, d, n : p = Len(P) /\ m = Len(M) /\ d = Len(D) /\ n = Len(N)
    OBVIOUS
<1>1. /\ P \in Seq(Frames) /\ M \in Seq(Frames) /\ D \in Seq(Frames) /\ N \in Seq(Frames)
      /\ k \in Nat /\ k + n + m <= p /\ d = p - k
      /\ \A i \in 1..d : D[i] = P[k + i]
      /\ \A i \in 1..m : M[i] = P[p - m + i]
    BY <1>8 DEF Spans
<1>2. p \in Nat /\ m \in Nat /\ d \in Nat /\ n \in Nat
    BY <1>1, <1>8, Elements
<1>3. ASSUME NEW i \in 1..m PROVE M[i] = D[d - 0 - 0 - m + i]
    <2>1. d - 0 - 0 - m + i \in 1..d /\ k + (d - 0 - 0 - m + i) = p - m + i
        BY <1>1, <1>2
    <2> QED
        BY <1>1, <2>1
<1>4. ASSUME NEW i \in 1..d PROVE D[i] = D[0 + i]
    BY <1>2
<1>5. 0 \in Nat /\ 0 + m + 0 <= d /\ d = d - 0
    BY <1>1, <1>2
<1>6. <<>> \in Seq(Frames) /\ Len(<<>>) = 0 /\ 1..0 = {}
    BY EmptySeq, SMT
<1> QED
    BY <1>1, <1>3, <1>4, <1>5, <1>6, <1>8 DEF Spans

(* A queue that was loaded is the end of the rows. *)
LEMMA SpansLoads ==
    ASSUME NEW D \in Seq(Frames)
    PROVE  Spans(D, 0, Keep(D), D, <<>>)
<1>8. PICK d, m, M : d = Len(D) /\ M = Keep(D) /\ m = Len(M)
    OBVIOUS
<1>1. /\ M \in Seq(Frames) /\ m = (IF d <= MaxQueue THEN d ELSE MaxQueue)
      /\ \A i \in 1..m : M[i] = D[d - m + i]
    BY <1>8, Kept
<1>2. d \in Nat /\ m \in Nat /\ m <= d
    <2>1. d \in Nat /\ m \in Nat
        BY <1>1, <1>8, Elements
    <2> QED
        BY <1>1, <2>1, OutboxAssumption
<1>3. ASSUME NEW i \in 1..d PROVE D[i] = D[0 + i]
    BY <1>2
<1>4. 0 \in Nat /\ 0 + 0 + m <= d /\ d = d - 0
    BY <1>2
<1>5. <<>> \in Seq(Frames) /\ Len(<<>>) = 0 /\ 1..0 = {}
    BY EmptySeq, SMT
<1> QED
    BY <1>1, <1>3, <1>4, <1>5, <1>8 DEF Spans

(* A full queue drops its oldest frame for a new one. *)
LEMMA KeepsAllButOne ==
    ASSUME NEW q \in Seq(Frames), Len(q) = MaxQueue + 1
    PROVE  Keep(q) = DeleteFirst(q, 1)
<1>1. Len(q) \in Nat /\ MaxQueue \in Nat
    BY Elements, OutboxAssumption
<1>2. ~(Len(q) <= MaxQueue) /\ Len(q) - MaxQueue + 1 = 1 + 1
    BY <1>1
<1>3. Keep(q) = SubSeq(q, Len(q) - MaxQueue + 1, Len(q))
    BY <1>2 DEF Keep, Newest
<1>4. Keep(q) = SubSeq(q, 1 + 1, Len(q))
    BY <1>2, <1>3
<1> QED
    BY <1>4 DEF DeleteFirst

LEMMA DeleteThenAppend ==
    ASSUME NEW q \in Seq(Frames), NEW f \in Frames, Len(q) >= 1
    PROVE  Append(DeleteFirst(q, 1), f) = DeleteFirst(Append(q, f), 1)
<1>1. PICK n : n = Len(q) /\ n \in Nat /\ n >= 1
    BY Elements
<1>2. PICK d : d = DeleteFirst(q, 1)
    OBVIOUS
<1>3. PICK a : a = Append(q, f)
    OBVIOUS
<1>4. d \in Seq(Frames) /\ Len(d) = n - 1 /\ \A i \in 1 .. n - 1 : d[i] = q[1 + i]
    <2>1. 1 <= Len(q) /\ 1 \in Nat
        BY <1>1
    <2>2. /\ DeleteFirst(q, 1) \in Seq(Frames) /\ Len(DeleteFirst(q, 1)) = Len(q) - 1
          /\ \A i \in 1 .. Len(q) - 1 : DeleteFirst(q, 1)[i] = q[1 + i]
        BY <2>1, DeletedAs
    <2> QED
        BY <1>1, <1>2, <2>2
<1>5. a \in Seq(Frames) /\ Len(a) = n + 1 /\ a[n + 1] = f /\ \A i \in 1..n : a[i] = q[i]
    BY <1>1, <1>3, AppendedAs
<1>6. PICK l : l = Append(d, f)
    OBVIOUS
<1>7. PICK r : r = DeleteFirst(a, 1)
    OBVIOUS
<1>8. PICK m : m = n - 1
    OBVIOUS
<1>9. /\ l \in Seq(Frames) /\ Len(l) = m + 1 /\ l[m + 1] = f
      /\ \A i \in 1..m : l[i] = d[i]
    <2>1. d \in Seq(Frames) /\ m = Len(d)
        BY <1>4, <1>8
    <2> QED
        BY <1>6, <2>1, AppendedAs
<1>10. r \in Seq(Frames) /\ Len(r) = n /\ \A i \in 1..n : r[i] = a[1 + i]
    <2>1. 1 <= Len(a) /\ 1 \in Nat /\ Len(a) - 1 = n
        BY <1>1, <1>5
    <2>2. /\ DeleteFirst(a, 1) \in Seq(Frames) /\ Len(DeleteFirst(a, 1)) = Len(a) - 1
          /\ \A i \in 1 .. Len(a) - 1 : DeleteFirst(a, 1)[i] = a[1 + i]
        BY <1>5, <2>1, DeletedAs
    <2> QED
        BY <1>7, <2>1, <2>2
<1>11. m \in Nat /\ m + 1 = n
    BY <1>1, <1>8
<1>12. ASSUME NEW i \in 1..n PROVE l[i] = r[i]
    <2>1. CASE i = n
        <3>1. l[i] = f
            BY <1>9, <1>11, <2>1
        <3>2. 1 + i = n + 1
            BY <1>1, <2>1
        <3> QED
            BY <1>5, <1>10, <3>1, <3>2
    <2>2. CASE i \in 1..m
        <3>1. 1 + i \in 1..n /\ i \in 1 .. n - 1
            BY <1>8, <1>11, <2>2
        <3> QED
            BY <1>4, <1>5, <1>9, <1>10, <2>2, <3>1
    <2> QED
        BY <1>11, <2>1, <2>2
<1>13. l = r
    BY <1>9, <1>10, <1>11, <1>12, SeqEqual
<1> QED
    BY <1>2, <1>3, <1>6, <1>7, <1>13

(* A frame is queued: the sequence grows at its end, and k by one if the   *)
(* queue was full.                                                         *)
LEMMA AlignedQueues ==
    ASSUME Typed, Once, NEW P, NEW k, Aligned(P, k), NEW f \in Frames, SendQueues(f), persistent
    PROVE  \E Q, l : Aligned(Q, l)'
<1>1. PICK Q : Q = Append(P, f)
    OBVIOUS
<1>2. PICK p, m : p = Len(P) /\ m = Len(memory)
    OBVIOUS
<1>3. /\ Spans(P, k, memory, disk, replay.pending) /\ NoDup(P)
      /\ \A i \in 1..p : sender[P[i]] = "over"
      /\ \A i \in 1..k : "overflow" \in lost[P[p - m - k + i]]
    BY <1>2 DEF Aligned
<1>4. /\ p \in Nat /\ m \in Nat /\ k \in Nat /\ k + m <= p /\ m <= MaxQueue
      /\ MaxQueue \in Nat /\ MaxQueue >= 1 /\ Len(disk) \in Nat /\ Len(disk) >= m
    <2>1. /\ Len(P) \in Nat /\ k \in Nat /\ Len(memory) \in Nat /\ Len(replay.pending) \in Nat
          /\ Len(disk) \in Nat
          /\ Len(disk) = Len(P) - k /\ k + Len(replay.pending) + Len(memory) <= Len(P)
        BY Lengths
    <2>2. Len(memory) <= MaxQueue /\ MaxQueue \in Nat /\ MaxQueue >= 1
        BY OutboxAssumption, QueuesAreSequences DEF Typed, StoreOK
    <2> QED
        BY <1>2, <2>1, <2>2
<1>5. /\ P \in Seq(Frames) /\ memory \in Seq(Frames) /\ disk \in Seq(Frames)
      /\ \A i \in 1..p : P[i] \in Frames
      /\ \A i \in 1..m : memory[i] = P[p - m + i]
    BY <1>2, <1>3, Elements DEF Spans
<1>6. /\ sender[f] # "over" /\ sender' = [sender EXCEPT ![f] = "over"]
      /\ replay' = replay /\ memory' = Keep(Append(memory, f))
      /\ disk' = Append(DeleteFirst(disk, IF Len(memory) >= MaxQueue THEN 1 ELSE 0), f)
      /\ Lose(Dropped(Append(memory, f)), "overflow")
    BY DEF SendQueues, Enqueue, StoreFrame, Attempts, Over
<1>7. Q \in Seq(Frames) /\ Len(Q) = p + 1 /\ Q[p + 1] = f /\ \A i \in 1..p : Q[i] = P[i]
    BY <1>1, <1>2, <1>5, AppendedAs
<1>8. NoDup(Q)
    <2>1. f \notin ToSet(P)
        BY <1>2, <1>3, <1>5, <1>6, Elements
    <2> QED
        BY <1>1, <1>3, <1>5, <2>1, Appended
<1>9. \A i \in 1..Len(Q) : sender'[Q[i]] = "over"
    <2> SUFFICES ASSUME NEW i \in 1 .. p + 1 PROVE sender'[Q[i]] = "over"
        BY <1>7
    <2>1. CASE i = p + 1
        BY <1>6, <1>7, <2>1 DEF Typed, ControlOK
    <2>2. CASE i \in 1..p
        BY <1>3, <1>5, <1>6, <1>7, <2>2 DEF Typed, ControlOK
    <2> QED
        BY <1>4, <2>1, <2>2
<1>10. Spans(Q, k, Append(memory, f), Append(disk, f), replay.pending)
    BY <1>1, <1>3, SpansGrows
<1>11. PICK r : r = Append(memory, f)
    OBVIOUS
<1>12. /\ r \in Seq(Frames) /\ Len(r) = m + 1 /\ r[m + 1] = f
       /\ \A i \in 1..m : r[i] = memory[i]
    BY <1>2, <1>5, <1>11, AppendedAs
<1>13. \A g \in Frames : /\ lost[g] \subseteq lost'[g]
                         /\ g \in Dropped(r) => "overflow" \in lost'[g]
    BY <1>6, <1>11, Lost DEF Typed, Losses
<1>14. \A i \in 1..k : /\ p - m - k + i \in 1..p
                       /\ "overflow" \in lost'[Q[p - m - k + i]]
    <2> SUFFICES ASSUME NEW i \in 1..k
                 PROVE  /\ p - m - k + i \in 1..p
                        /\ "overflow" \in lost'[Q[p - m - k + i]]
        OBVIOUS
    <2>1. p - m - k + i \in 1..p
        BY <1>4
    <2> QED
        BY <1>3, <1>5, <1>7, <1>13, <2>1
<1>15. CASE m < MaxQueue
    <2>1. memory' = r
        <3>1. Len(r) <= MaxQueue
            BY <1>4, <1>12, <1>15
        <3> QED
            BY <1>6, <1>11, <3>1 DEF Keep
    <2>2. disk' = Append(disk, f)
        <3>1. ~(Len(memory) >= MaxQueue)
            BY <1>2, <1>4, <1>15
        <3>2. /\ DeleteFirst(disk, 0) \in Seq(Frames) /\ Len(DeleteFirst(disk, 0)) = Len(disk) - 0
              /\ \A i \in 1 .. Len(disk) - 0 : DeleteFirst(disk, 0)[i] = disk[0 + i]
            <4>1. 0 <= Len(disk) /\ 0 \in Nat
                BY <1>4
            <4> QED
                BY <1>5, <4>1, DeletedAs
        <3>3. DeleteFirst(disk, 0) = disk
            BY <1>4, <1>5, <3>2, SeqEqual
        <3> QED
            BY <1>6, <3>1, <3>3
    <2>3. Spans(Q, k, memory', disk', replay'.pending)
        BY <1>6, <1>10, <1>11, <2>1, <2>2
    <2>4. \A i \in 1..k : "overflow" \in lost'[Q[Len(Q) - Len(memory') - k + i]]
        <3>1. Len(Q) = p + 1 /\ Len(memory') = m + 1
            BY <1>7, <1>12, <2>1
        <3> SUFFICES ASSUME NEW i \in 1..k
                     PROVE  "overflow" \in lost'[Q[Len(Q) - Len(memory') - k + i]]
            OBVIOUS
        <3>2. PICK j : j = p - m - k + i
            OBVIOUS
        <3>3. "overflow" \in lost'[Q[j]]
            BY <1>14, <3>2
        <3>4. Len(Q) - Len(memory') - k + i = j
            BY <1>4, <3>1, <3>2
        <3> QED
            BY <3>3, <3>4
    <2>5. Aligned(Q, k)'
        BY <1>8, <1>9, <2>3, <2>4 DEF Aligned
    <2> QED
        BY <2>5
<1>16. CASE m = MaxQueue
    <2>1. memory' = DeleteFirst(r, 1)
        <3>1. Len(r) = MaxQueue + 1
            BY <1>12, <1>16
        <3> QED
            BY <1>6, <1>11, <1>12, <3>1, KeepsAllButOne
    <2>2. disk' = DeleteFirst(Append(disk, f), 1)
        <3>1. Len(memory) >= MaxQueue /\ Len(disk) >= 1
            BY <1>2, <1>4, <1>16
        <3> QED
            BY <1>5, <1>6, <3>1, DeleteThenAppend
    <2>3. Spans(Q, k + 1, memory', disk', replay'.pending)
        <3>1. Len(r) >= 1
            BY <1>4, <1>12
        <3> QED
            BY <1>6, <1>10, <1>11, <2>1, <2>2, <3>1, SpansDrops
    <2>4. Len(memory') = m
        <3>1. 1 <= Len(r) /\ 1 \in Nat /\ Len(r) - 1 = m
            BY <1>4, <1>12
        <3>2. Len(DeleteFirst(r, 1)) = Len(r) - 1
            BY <1>12, <3>1, DeletedAs
        <3> QED
            BY <2>1, <3>1, <3>2
    <2>5. PICK l : l = k + 1
        OBVIOUS
    <2>6. \A i \in 1..l : "overflow" \in lost'[Q[Len(Q) - Len(memory') - l + i]]
        <3> SUFFICES ASSUME NEW i \in 1..k + 1
                     PROVE  "overflow" \in lost'[Q[Len(Q) - Len(memory') - l + i]]
            BY <2>5
        <3>1. PICK j : j = p - m - k + i
            OBVIOUS
        <3>2. Len(Q) - Len(memory') - l + i = j
            BY <1>4, <1>7, <2>4, <2>5, <3>1
        <3>3. CASE i \in 1..k
            BY <1>14, <3>1, <3>2, <3>3
        <3>4. CASE i = k + 1
            <4>1. 1 \in 1..m /\ j = p - m + 1 /\ j \in 1..p /\ 1 \in 1 .. m + 1 - MaxQueue
                BY <1>4, <1>16, <3>1, <3>4
            <4>2. r[1] = P[j] /\ Q[j] = P[j] /\ P[j] \in Frames
                <5>1. r[1] = memory[1] /\ memory[1] = P[p - m + 1]
                    BY <1>5, <1>12, <4>1
                <5>2. p - m + 1 = j
                    BY <4>1
                <5>3. r[1] = P[j]
                    BY <5>1, <5>2
                <5>4. j \in 1..p
                    BY <4>1
                <5>5. Q[j] = P[j] /\ P[j] \in Frames
                    BY <1>5, <1>7, <5>4
                <5> QED
                    BY <5>3, <5>5
            <4>3. Dropped(r) = {r[x] : x \in 1 .. m + 1 - MaxQueue}
                <5>1. Dropped(r) = {r[x] : x \in 1 .. Len(r) - MaxQueue}
                    BY <1>12, Kept
                <5>2. Len(r) - MaxQueue = m + 1 - MaxQueue
                    BY <1>4, <1>12
                <5> QED
                    BY <5>1, <5>2
            <4>4. P[j] \in Dropped(r)
                BY <4>1, <4>2, <4>3
            <4> QED
                BY <1>13, <3>2, <4>2, <4>4
        <3> QED
            BY <1>4, <3>3, <3>4
    <2>7. Aligned(Q, l)'
        BY <1>8, <1>9, <2>3, <2>5, <2>6 DEF Aligned
    <2> QED
        BY <2>7
<1> QED
    BY <1>4, <1>15, <1>16

(* A replay begins: the rows are a sequence, and the queue its end. *)
LEMMA AlignedBegins ==
    ASSUME Typed, Once, NEW P, NEW k, Aligned(P, k), ReplayBegins
    PROVE  \E Q, l : Aligned(Q, l)'
<1>1. PICK Q : Q = disk
    OBVIOUS
<1>2. /\ replay'.pending = memory /\ memory' = <<>> /\ disk' = disk
      /\ UNCHANGED <<sender, lost>>
    BY DEF ReplayBegins, NoReplay
<1>3. Spans(Q, 0, memory', disk', replay'.pending)
    BY <1>1, <1>2, SpansBegins DEF Aligned
<1>4. NoDup(Q) /\ \A i \in 1..Len(Q) : sender'[Q[i]] = "over"
    <2>1. disk \in Seq(Frames) /\ NoDup(disk)
        BY Stored DEF Once
    <2>2. \A f \in ToSet(disk) : f \in Frames /\ sender[f] = "over"
        BY Stored DEF Once, Fresh
    <2> QED
        BY <1>1, <1>2, <2>1, <2>2, Elements
<1>5. 1..0 = {}
    BY SMT
<1>6. Aligned(Q, 0)'
    BY <1>3, <1>4, <1>5 DEF Aligned
<1> QED
    BY <1>6

(* A replay ends: as many rows go as frames have been sent. *)
LEMMA AlignedEnds ==
    ASSUME Typed, NEW P, NEW k, Aligned(P, k), ReplayEnds
    PROVE  \E Q, l : Aligned(Q, l)'
<1>1. PICK d : d = replay.sent
    OBVIOUS
<1>2. PICK Q : Q = DeleteFirst(P, d)
    OBVIOUS
<1>3. PICK p, m : p = Len(P) /\ m = Len(memory)
    OBVIOUS
<1>4. /\ replay'.pending = <<>> /\ memory' = memory /\ disk' = DeleteFirst(disk, d)
      /\ UNCHANGED <<sender, lost>>
    BY <1>1, EmptyQueue DEF ReplayEnds
<1>5. /\ d \in Nat /\ p \in Nat /\ m \in Nat /\ k \in Nat /\ k + d + m <= p
      /\ d <= Len(replay.pending) /\ d <= Len(P)
    <2>1. /\ Len(P) \in Nat /\ k \in Nat /\ Len(memory) \in Nat /\ Len(replay.pending) \in Nat
          /\ replay.sent \in Nat /\ replay.sent <= Len(replay.pending)
          /\ k + Len(replay.pending) + Len(memory) <= Len(P)
        BY Lengths
    <2> QED
        BY <1>1, <1>3, <2>1
<1>6. /\ Spans(P, k, memory, disk, replay.pending) /\ NoDup(P) /\ P \in Seq(Frames)
      /\ \A i \in 1..p : sender[P[i]] = "over"
      /\ \A i \in 1..k : "overflow" \in lost[P[p - m - k + i]]
    BY <1>3 DEF Aligned, Spans
<1>7. Spans(Q, k, memory', disk', replay'.pending)
    BY <1>2, <1>4, <1>5, <1>6, SpansSent
<1>8. Q \in Seq(Frames) /\ Len(Q) = p - d /\ NoDup(Q) /\ \A i \in 1 .. p - d : Q[i] = P[d + i]
    <2>1. /\ DeleteFirst(P, d) \in Seq(Frames) /\ Len(DeleteFirst(P, d)) = Len(P) - d
          /\ \A i \in 1 .. Len(P) - d : DeleteFirst(P, d)[i] = P[d + i]
        BY <1>5, <1>6, DeletedAs
    <2>2. NoDup(DeleteFirst(P, d))
        BY <1>5, <1>6, Deleted
    <2> QED
        BY <1>2, <1>3, <2>1, <2>2
<1>9. \A i \in 1..Len(Q) : sender'[Q[i]] = "over"
    <2> SUFFICES ASSUME NEW i \in 1 .. p - d PROVE sender'[Q[i]] = "over"
        BY <1>8
    <2>1. d + i \in 1..p
        BY <1>5
    <2> QED
        BY <1>4, <1>6, <1>8, <2>1
<1>10. \A i \in 1..k : "overflow" \in lost'[Q[Len(Q) - Len(memory') - k + i]]
    <2> SUFFICES ASSUME NEW i \in 1..k
                 PROVE  "overflow" \in lost'[Q[Len(Q) - Len(memory') - k + i]]
        OBVIOUS
    <2>1. PICK j : j = Len(Q) - Len(memory') - k + i
        OBVIOUS
    <2>2. j \in 1 .. p - d /\ d + j = p - m - k + i
        BY <1>3, <1>4, <1>5, <1>8, <2>1
    <2>3. Q[j] = P[p - m - k + i]
        BY <1>8, <2>2
    <2> QED
        BY <1>4, <1>6, <2>1, <2>3
<1>11. Aligned(Q, k)'
    BY <1>7, <1>8, <1>9, <1>10 DEF Aligned
<1> QED
    BY <1>11

(* A restart reads the rows and starts a sequence of its own. *)
LEMMA AlignedRestarts ==
    ASSUME Typed, Once, Restarts
    PROVE  \E Q, l : Aligned(Q, l)'
<1>1. PICK Q : Q = disk
    OBVIOUS
<1>2. replay'.pending = <<>> /\ memory' = Keep(disk) /\ disk' = disk
    BY EmptyQueue DEF Restarts
<1>3. disk \in Seq(Frames) /\ NoDup(disk)
    BY Stored DEF Once
<1>4. Spans(Q, 0, memory', disk', replay'.pending)
    BY <1>1, <1>2, <1>3, SpansLoads
<1>5. \A i \in 1..Len(Q) : sender'[Q[i]] = "over"
    <2>1. \A f \in ToSet(disk) : f \in Frames /\ sender[f] = "over"
        BY Stored DEF Once, Fresh
    <2>2. \A f \in ToSet(disk) : sender'[f] = "over"
        BY <2>1 DEF Restarts
    <2> QED
        BY <1>1, <1>3, <2>2, Elements
<1>6. 1..0 = {}
    BY SMT
<1>7. Aligned(Q, 0)'
    BY <1>1, <1>3, <1>4, <1>5, <1>6 DEF Aligned
<1> QED
    BY <1>7

(* A replay is interrupted: what it has not sent goes back to the queue,   *)
(* and its rows, but for those that stood for dropped frames, stay.        *)
LEMMA AlignedInterrupted ==
    ASSUME Typed, Typed', NEW P, NEW k, Aligned(P, k), ReplayInterrupted
    PROVE  Bound'
<1>1. PICK d, p, m, n, c, x :
          /\ d = replay.sent /\ p = Len(P) /\ m = Len(memory) /\ n = Len(replay.pending)
          /\ c = Len(disk) /\ x = p - m - k - n
    OBVIOUS
<1>2. /\ d \in Nat /\ p \in Nat /\ m \in Nat /\ k \in Nat /\ n \in Nat /\ c \in Nat /\ x \in Nat
      /\ d <= n /\ c = p - k /\ x + n + k + m = p
    <2>1. /\ Len(P) \in Nat /\ k \in Nat /\ Len(memory) \in Nat /\ Len(replay.pending) \in Nat
          /\ Len(disk) \in Nat
          /\ replay.sent \in Nat /\ replay.sent <= Len(replay.pending)
          /\ Len(disk) = Len(P) - k /\ k + Len(replay.pending) + Len(memory) <= Len(P)
        BY Lengths
    <2> QED
        BY <1>1, <2>1
<1>3. /\ P \in Seq(Frames) /\ NoDup(P)
      /\ \A i \in 1..c : disk[i] = P[k + i]
      /\ \A i \in 1..m : memory[i] = P[p - m + i]
      /\ \A i \in 1..n : replay.pending[i] = P[p - m - k - n + i]
      /\ \A i \in 1..k : "overflow" \in lost[P[p - m - k + i]]
    BY <1>1 DEF Aligned, Spans
<1>4. /\ memory' = Keep(memory \o Rest) /\ disk' = DeleteFirst(disk, d)
      /\ Lose(Dropped(memory \o Rest), "overflow") /\ replay' = NoReplay
    BY <1>1 DEF ReplayInterrupted
<1>5. /\ memory \in Seq(Frames) /\ disk \in Seq(Frames) /\ replay.pending \in Seq(Frames)
      /\ ToSet(memory) = {memory[i] : i \in 1..m}
    BY <1>1, Stored, Elements
<1>6. ToSet(disk') = {disk[j] : j \in d + 1 .. c}
    <2>1. PICK a : a = d + 1
        OBVIOUS
    <2>2. a \in 1 .. Len(disk) + 1 /\ a - 1 = d
        BY <1>1, <1>2, <2>1
    <2>3. ToSet(DeleteFirst(disk, a - 1)) = {disk[j] : j \in a .. Len(disk)}
        BY <1>5, <2>2, From
    <2> QED
        BY <1>1, <1>4, <2>1, <2>2, <2>3
<1>7. Rest \in Seq(Frames) /\ ToSet(Rest) = {replay.pending[j] : j \in d + 1 .. n}
    <2>1. PICK a : a = d + 1
        OBVIOUS
    <2>2. a \in 1 .. Len(replay.pending) + 1 /\ a - 1 = d
        BY <1>1, <1>2, <2>1
    <2>3. ToSet(DeleteFirst(replay.pending, a - 1))
              = {replay.pending[j] : j \in a .. Len(replay.pending)}
        BY <1>5, <2>2, From
    <2>4. DeleteFirst(replay.pending, d) \in Seq(Frames)
        BY <1>2, <1>5, Deleted
    <2> QED
        BY <1>1, <2>1, <2>2, <2>3, <2>4 DEF Rest
<1>8. ToSet(memory') \subseteq ToSet(memory) \cup ToSet(Rest)
    <2>1. /\ memory \o Rest \in Seq(Frames)
          /\ ToSet(memory \o Rest) = ToSet(memory) \cup ToSet(Rest)
        BY <1>5, <1>7, Concatenated, ConcatProperties
    <2> QED
        BY <1>4, <2>1, Kept
<1>9. \A i \in k + d + 1 .. p : P[i] \in ToSet(disk')
    <2> SUFFICES ASSUME NEW i \in k + d + 1 .. p PROVE P[i] \in ToSet(disk')
        OBVIOUS
    <2>1. PICK j : j = i - k
        OBVIOUS
    <2>2. j \in d + 1 .. c /\ j \in 1..c /\ k + j = i
        BY <1>2, <2>1
    <2> QED
        BY <1>3, <1>6, <2>2
<1>10. ToSet(memory) \subseteq ToSet(disk')
    <2> SUFFICES ASSUME NEW i \in 1..m PROVE memory[i] \in ToSet(disk')
        BY <1>5
    <2>1. p - m + i \in k + d + 1 .. p
        BY <1>2
    <2> QED
        BY <1>3, <1>9, <2>1
<1>11. PICK S : S = ToSet(memory') \ ToSet(disk')
    OBVIOUS
<1>12. S \subseteq {P[d + i] : i \in 1..k}
    <2> SUFFICES ASSUME NEW f \in S PROVE f \in {P[d + i] : i \in 1..k}
        OBVIOUS
    <2>1. f \in ToSet(Rest) /\ f \notin ToSet(disk')
        BY <1>8, <1>10, <1>11
    <2>2. PICK j \in d + 1 .. n : f = replay.pending[j]
        BY <1>7, <2>1
    <2>3. PICK y : y = x + j
        OBVIOUS
    <2>4. j \in 1..n /\ p - m - k - n + j = y /\ y \in d + 1 .. p
        BY <1>2, <2>3
    <2>5. f = P[y]
        BY <1>3, <2>2, <2>4
    <2>6. y <= k + d
        <3>1. ~(y \in k + d + 1 .. p)
            BY <1>9, <2>1, <2>5
        <3> QED
            BY <1>2, <2>4, <3>1
    <2>7. PICK z : z = y - d
        OBVIOUS
    <2>8. z \in 1..k /\ d + z = y
        BY <1>2, <2>4, <2>6, <2>7
    <2> QED
        BY <2>5, <2>8
<1>13. PICK b : b = p - m - k
    OBVIOUS
<1>14. b \in Nat /\ b + k <= p /\ d + k <= p
    BY <1>2, <1>13
<1>15. PICK O : O = Overflowed'
    OBVIOUS
<1>16. O \subseteq Frames /\ \A i \in 1..k : P[b + i] \in O
    <2>1. O = {f \in Frames : "overflow" \in lost'[f]}
        BY <1>15 DEF Overflowed
    <2>2. \A f \in Frames : lost[f] \subseteq lost'[f]
        BY <1>4, Lost DEF Typed, Losses
    <2>3. \A i \in 1..k : b + i \in 1..p
        BY <1>2, <1>13
    <2>4. \A i \in 1..k : P[b + i] \in Frames
        BY <1>1, <1>3, <2>3, Elements
    <2>5. ASSUME NEW i \in 1..k PROVE "overflow" \in lost[P[b + i]]
        <3>1. p - m - k + i = b + i
            BY <1>13
        <3> QED
            BY <1>3, <3>1
    <2> QED
        BY <2>1, <2>2, <2>4, <2>5
<1>17. Cardinality(S) <= Cardinality(O)
    <2>1. /\ P \in Seq(Frames) /\ NoDup(P) /\ k \in Nat /\ b \in Nat /\ d \in Nat
          /\ b + k <= Len(P) /\ d + k <= Len(P)
        BY <1>1, <1>2, <1>3, <1>14
    <2> QED
        BY <1>12, <1>16, <2>1, AtMost
<1>18. Waiting' = {}
    BY <1>4, EmptyQueue, WaitingNext
<1>19. Bound' = (Cardinality((ToSet(memory') \cup Waiting') \ ToSet(disk')) <= Cardinality(O))
    BY <1>15 DEF Bound
<1>20. (ToSet(memory') \cup Waiting') \ ToSet(disk') = S
    BY <1>11, <1>18
<1> QED
    BY <1>17, <1>19, <1>20

(* Sending, breaking, replaying a frame: queue and rows stay as they are. *)
LEMMA AlignedKept ==
    ASSUME Typed, NEW P, NEW k, Aligned(P, k),
           \/ \E f \in Frames : \/ SendSucceeds(f) \/ SendRetries(f) \/ SendGivesUp(f)
                               \/ SendVanishes(f) \/ SendRaises(f)
           \/ Listen \/ LinkBreaks \/ UNCHANGED vars
           \/ ReplaySucceeds \/ ReplayRetries \/ ReplayGivesUp \/ ReplaySkips
           \/ ReplayVanishes \/ ReplayRaises
    PROVE  Aligned(P, k)'
<1>1. /\ UNCHANGED <<memory, disk, replay.pending>>
      /\ \A f \in Frames : sender[f] = "over" => sender'[f] = "over"
      /\ \A f \in Frames : lost[f] \subseteq lost'[f]
    <2>1. CASE \E f \in Frames : \/ SendSucceeds(f) \/ SendRetries(f) \/ SendGivesUp(f)
                                \/ SendVanishes(f) \/ SendRaises(f)
        <3>1. PICK f \in Frames : \/ SendSucceeds(f) \/ SendRetries(f) \/ SendGivesUp(f)
                                 \/ SendVanishes(f) \/ SendRaises(f)
            BY <2>1
        <3>2. UNCHANGED <<memory, disk, replay>>
            BY <3>1 DEF SendSucceeds, SendRetries, SendGivesUp, SendVanishes, SendRaises
        <3>3. /\ sender' \in {[sender EXCEPT ![f] = "over"], [sender EXCEPT ![f] = "sends"]}
              /\ sender' = [sender EXCEPT ![f] = "sends"] => sender[f] # "over"
            BY <3>1 DEF SendSucceeds, SendRetries, SendGivesUp, SendVanishes, SendRaises, Over,
                        Attempts, Typed, ControlOK
        <3>4. \A g \in Frames : lost[g] \subseteq lost'[g]
            BY <3>1 DEF SendSucceeds, SendRetries, SendGivesUp, SendVanishes, SendRaises, Lose
        <3>5. \A g \in Frames : sender[g] = "over" => sender'[g] = "over"
            BY <3>3 DEF Typed, ControlOK
        <3> QED
            BY <3>2, <3>4, <3>5
    <2>2. CASE Listen \/ LinkBreaks \/ UNCHANGED vars
        BY <2>2 DEF Listen, Connects, Notices, Reconnects, ReconnectsAgain, LinkBreaks, vars
    <2>3. CASE ReplaySucceeds \/ ReplayGivesUp \/ ReplaySkips \/ ReplayVanishes \/ ReplayRaises
        <3>1. /\ Replaying /\ replay' \in {Onward, CountSent(Onward)} /\ UNCHANGED listener
              /\ UNCHANGED <<memory, disk, sender>>
            BY <2>3
            DEF ReplaySucceeds, ReplayGivesUp, ReplaySkips, ReplayVanishes, ReplayRaises
        <3>2. \A g \in Frames : lost[g] \subseteq lost'[g]
            BY <2>3
            DEF ReplaySucceeds, ReplayGivesUp, ReplaySkips, ReplayVanishes, ReplayRaises, Lose
        <3>3. replay'.pending = replay.pending
            BY <3>1, GoesOn
        <3> QED
            BY <3>1, <3>2, <3>3
    <2>4. CASE ReplayRetries
        BY <2>4, ReplayTyped DEF ReplayRetries, Typed
    <2> QED
        BY <2>1, <2>2, <2>3, <2>4
<1> QED
    BY <1>1, AlignedStays

LEMMA DiskStep ==
    ASSUME Typed, Typed', Once, DiskInv, [Next]_vars
    PROVE  DiskInv'
<1> SUFFICES ASSUME persistent
             PROVE  (\E P, k : Aligned(P, k)') \/ (listener' = "ended" /\ Bound')
    <2>1. persistent' = persistent
        BY DEF Next, Send, Listen, Replay, SendQueues, SendSucceeds, SendRetries, SendGivesUp,
               SendVanishes, SendRaises, Connects, Notices, Reconnects, ReconnectsAgain,
               ReplayBegins, ReplayEnds, ReplayInterrupted, ReplaySucceeds, ReplayRetries,
               ReplayGivesUp, ReplaySkips, ReplayVanishes, ReplayRaises, LinkBreaks, Restarts,
               vars
    <2> QED
        BY <2>1 DEF DiskInv
<1>1. CASE Restarts
    BY <1>1, AlignedRestarts
<1>2. CASE \E P, k : Aligned(P, k)
    <2>1. PICK P, k : Aligned(P, k)
        BY <1>2
    <2>2. CASE \E f \in Frames : SendQueues(f)
        BY <2>1, <2>2, AlignedQueues
    <2>3. CASE ReplayBegins
        BY <2>1, <2>3, AlignedBegins
    <2>4. CASE ReplayEnds
        BY <2>1, <2>4, AlignedEnds
    <2>5. CASE ReplayInterrupted
        BY <2>1, <2>5, AlignedInterrupted DEF ReplayInterrupted
    <2>6. CASE \/ \E f \in Frames : \/ SendSucceeds(f) \/ SendRetries(f) \/ SendGivesUp(f)
                                    \/ SendVanishes(f) \/ SendRaises(f)
               \/ Listen \/ LinkBreaks \/ UNCHANGED vars
               \/ ReplaySucceeds \/ ReplayRetries \/ ReplayGivesUp \/ ReplaySkips
               \/ ReplayVanishes \/ ReplayRaises
        <3>1. Aligned(P, k)'
            BY <2>1, <2>6, AlignedKept
        <3> QED
            BY <3>1
    <2> QED
        BY <1>1, <2>2, <2>3, <2>4, <2>5, <2>6 DEF Next, Send, Replay
<1>3. CASE listener = "ended" /\ Bound
    <2>1. CASE LinkBreaks \/ UNCHANGED vars
        BY <1>3, <2>1, WaitingNext DEF LinkBreaks, vars, Bound, Overflowed, Waiting
    <2>2. LinkBreaks \/ UNCHANGED vars \/ Restarts
        BY <1>3 DEF Next, Send, Listen, Replay, Attempts, Running, Replaying, SendQueues,
               SendSucceeds, SendRetries, SendGivesUp, SendVanishes, SendRaises, Connects,
               Notices, Reconnects, ReconnectsAgain, ReplayBegins, ReplayEnds,
               ReplayInterrupted, ReplaySucceeds, ReplayRetries, ReplayGivesUp, ReplaySkips,
               ReplayVanishes, ReplayRaises
    <2> QED
        BY <1>1, <1>3, <2>1, <2>2
<1> QED
    BY <1>2, <1>3 DEF DiskInv

(* With a store, a crash loses nothing that is queued or waits to be       *)
(* replayed, except that for each frame the full queue dropped during a    *)
(* replay one frame of the replay may lack its row (_enqueue_outbox and    *)
(* _flush_outbox delete the oldest rows, whichever frames they are of).    *)
THEOREM QueuedAlwaysOnDisk == Spec => []QueuedIsOnDisk
<1>1. Init => DiskInv
    <2> SUFFICES ASSUME Init PROVE \E P, k : Aligned(P, k)
        BY DEF DiskInv
    <2>1. memory = <<>> /\ disk = <<>> /\ replay.pending = <<>>
        BY DEF Init, NoReplay
    <2>2. <<>> \in Seq(Frames) /\ Len(<<>>) = 0 /\ 1..0 = {} /\ NoDup(<<>>)
        BY EmptySeq, EmptyQueue, SMT
    <2>3. PICK P, k : P = <<>> /\ k = 0
        OBVIOUS
    <2>4. Spans(P, k, memory, disk, replay.pending)
        BY <2>1, <2>2, <2>3 DEF Spans
    <2>5. Aligned(P, k)
        BY <2>2, <2>3, <2>4 DEF Aligned
    <2> QED
        BY <2>5
<1>2. Typed /\ DiskInv => QueuedIsOnDisk
    <2> SUFFICES ASSUME Typed, DiskInv, persistent PROVE QueuedIsOnDisk
        BY DEF QueuedIsOnDisk
    <2>1. listener # "ended" => ToSet(memory) \subseteq ToSet(disk)
        BY AlignedQueue DEF DiskInv
    <2>2. Bound
        BY AlignedBounds DEF DiskInv
    <2> QED
        BY <2>1, <2>2 DEF QueuedIsOnDisk, Bound, Overflowed, Waiting
<1>3. Typed /\ Typed' /\ Once /\ DiskInv /\ [Next]_vars => DiskInv'
    BY DiskStep
<1> QED
    BY <1>1, <1>2, <1>3, TypedAlways, OnceAlways, PTL DEF Spec

===============================================================================
