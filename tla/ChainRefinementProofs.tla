------------------------ MODULE ChainRefinementProofs ------------------------
(* A chain that nothing disturbs does what SequentialChain promises: each  *)
(* of its steps is one of that specification, or none.                     *)
EXTENDS ChainVerdictProofs

(* No message and no run is repeated, no operator cancels, and the sweep   *)
(* does not come.  Pauses, refused dispatches and lost workers may happen. *)
Undisturbed == MaxRedelivered = 0 /\ MaxDuplicates = 0 /\ MaxCancels = 0 /\ ~Ages

(* A chain that is over has nothing left to do. *)
Calm == ~aged /\ ~sweeping /\ (Open \/ Idle)

CalmInv == TokenInv /\ Walk /\ Calm

-----------------------------------------------------------------------------
(* What the rows of a calm chain tell of the nodes.                        *)

(* The maximum of an interval's subset is the member that bounds it. *)
LEMMA GreatestIs ==
    ASSUME NEW n \in Nat, NEW S, S \subseteq 1..n, NEW k \in S, \A j \in S : j <= k
    PROVE  Max(S) = k
<1>1. Max(S) \in S /\ \A y \in S : y <= Max(S)
    BY GreatestExists
<1>2. k \in 1..n /\ Max(S) \in 1..n
    BY <1>1
<1> QED
    BY <1>1, <1>2

(* What the promise sees of each status of a run. *)
LEMMA OutcomeOf ==
    ASSUME NEW s \in RunStatus
    PROVE  /\ Outcome(s) = IF s = "success" THEN "passed"
                           ELSE IF s = "failed" THEN "failed" ELSE "active"
           /\ Outcome(s) # "none"
BY DEF Outcome, RunStatus, RunTerminal

(* Without operators and repetitions no run is cancelled or about to be. *)
LEMMA NothingCancelled ==
    ASSUME Undisturbed, TokenInv, Walk
    PROVE  /\ NoRepeats /\ used.cancels = 0 /\ Cancels = {}
           /\ \A i \in 1..Len(runs) : runs[i].status # "cancelled" /\ <<i, "cancel">> \notin writers
<1>1. TypeOK
    BY DEF TokenInv
<1>2. used.redelivered \in 0..0 /\ used.duplicates \in 0..0 /\ used.cancels \in 0..0
    BY <1>1 DEF TypeOK, Undisturbed
<1>3. Cancels = {}
    <2>1. IsFiniteSet(1..Len(runs)) /\ Cancels \subseteq 1..Len(runs)
        BY <1>1, FS_Interval DEF TypeOK, Cancels
    <2>2. IsFiniteSet(Cancels) /\ Cardinality(Cancels) \in Nat
        BY <2>1, FS_Subset, FS_CardinalityType
    <2>3. Cardinality(Cancels) = 0
        BY <1>2, <2>2 DEF Walk, CancelsCounted
    <2> QED
        BY <2>2, <2>3, FS_EmptySet
<1> QED
    BY <1>2, <1>3 DEF NoRepeats, Cancels

(* A node's runs are finitely many, and the latest one by number gives its outcome. *)
LEMMA Rows ==
    ASSUME Undisturbed, TokenInv, Walk
    PROVE  /\ Len(runs) \in Nat /\ Nodes \in Nat /\ chain.current \in 0..Nodes
           /\ \A i \in 1..Len(runs) : runs[i] \in Run /\ runs[i].status \in RunStatus
           /\ \A n \in 1..Nodes :
                 /\ RunsOf(n) \subseteq 1..Len(runs)
                 /\ IsFiniteSet(RunsOf(n)) /\ Cardinality(RunsOf(n)) \in Nat
           /\ \A n \in 1..Nodes : \A k \in RunsOf(n) :
                 (\A j \in RunsOf(n) : j <= k) => LastStatus(n) = runs[k].status
           /\ \A n \in 1..Nodes : Cleared(n) =>
                 LastStatus(n) = "success" \/ (LastStatus(n) = "failed" /\ OnFailure[n] = "skip")
           /\ \A n \in chain.current + 1 .. Nodes : RunsOf(n) = {} /\ LastStatus(n) = "none"
           /\ Len(runs) > 0 =>
                 /\ chain.current \in 1..Nodes /\ runs[Len(runs)].node = chain.current
                 /\ Len(runs) \in RunsOf(chain.current)
                 /\ LastStatus(chain.current) = runs[Len(runs)].status
<1>1. TypeOK
    BY DEF TokenInv
<1>2. Len(runs) \in Nat /\ Nodes \in Nat /\ chain.current \in 0..Nodes /\ runs \in Seq(Run)
    BY <1>1, ChainAssumption DEF TypeOK
<1>3. \A i \in 1..Len(runs) : /\ runs[i] \in Run /\ runs[i].status \in RunStatus
                              /\ runs[i].node \in 1..Nodes
    <2>1. \A i \in 1..Len(runs) : runs[i] \in Run
        BY <1>2
    <2> QED
        BY <2>1 DEF Run
<1>4. \A n \in 1..Nodes : /\ RunsOf(n) \subseteq 1..Len(runs)
                          /\ IsFiniteSet(RunsOf(n)) /\ Cardinality(RunsOf(n)) \in Nat
    <2>1. IsFiniteSet(1..Len(runs))
        BY <1>2, FS_Interval
    <2>2. \A n \in 1..Nodes : RunsOf(n) \subseteq 1..Len(runs)
        BY DEF RunsOf
    <2> QED
        BY <2>1, <2>2, FS_Subset, FS_CardinalityType
<1>5. ASSUME NEW n \in 1..Nodes, NEW k \in RunsOf(n), \A j \in RunsOf(n) : j <= k
      PROVE  LastStatus(n) = runs[k].status
    <2>1. Max(RunsOf(n)) = k
        BY <1>2, <1>4, <1>5, GreatestIs
    <2> QED
        BY <2>1 DEF LastStatus
<1>6. ASSUME NEW n \in 1..Nodes, Cleared(n)
      PROVE  LastStatus(n) = "success" \/ (LastStatus(n) = "failed" /\ OnFailure[n] = "skip")
    <2>1. PICK k \in RunsOf(n) : Passed(k) /\ \A j \in RunsOf(n) : j <= k
        BY <1>6 DEF Cleared
    <2>2. k \in 1..Len(runs) /\ runs[k].node = n /\ LastStatus(n) = runs[k].status
        BY <1>5, <2>1 DEF RunsOf
    <2> QED
        BY <2>1, <2>2, NothingCancelled DEF Passed
<1>7. ASSUME NEW n \in chain.current + 1 .. Nodes PROVE RunsOf(n) = {} /\ LastStatus(n) = "none"
    <2>1. \A i \in 1..Len(runs) : runs[i].node # n
        BY <1>2, <1>3 DEF Walk, InOrder
    <2> QED
        BY <2>1 DEF RunsOf, LastStatus
<1>8. ASSUME Len(runs) > 0
      PROVE  /\ chain.current \in 1..Nodes /\ runs[Len(runs)].node = chain.current
             /\ Len(runs) \in RunsOf(chain.current)
             /\ LastStatus(chain.current) = runs[Len(runs)].status
    <2>1. runs[Len(runs)].node = chain.current /\ Len(runs) \in 1..Len(runs)
        BY <1>2, <1>8 DEF Walk, InOrder
    <2>2. chain.current \in 1..Nodes
        BY <1>3, <2>1
    <2>3. /\ Len(runs) \in RunsOf(chain.current)
          /\ \A j \in RunsOf(chain.current) : j <= Len(runs)
        BY <1>2, <2>1 DEF RunsOf
    <2> QED
        BY <1>5, <2>1, <2>2, <2>3
<1> QED
    BY <1>2, <1>3, <1>4, <1>5, <1>6, <1>7, <1>8

-----------------------------------------------------------------------------
(* A chain that is over has nothing left to do.                            *)

(* A chain stays calm: its verdict is written by whoever holds the only token. *)
LEMMA CalmKept ==
    ASSUME Undisturbed, CalmInv, TokenInv', [Next]_vars
    PROVE  Calm'
<1>1. /\ TypeOK /\ ~aged /\ ~sweeping /\ (Open \/ Idle)
      /\ NoRepeats /\ \A i \in 1..Len(runs) : <<i, "cancel">> \notin writers
    BY NothingCancelled DEF CalmInv, Calm, TokenInv
<1>2. /\ ~Spend("redelivered", MaxRedelivered) /\ ~Spend("duplicates", MaxDuplicates)
      /\ ~Spend("cancels", MaxCancels)
    BY <1>1 DEF Spend, Undisturbed, TypeOK
<1>3. \A i \in 1..Len(runs) : i \notin Active =>
            /\ runs[i].status \in RunTerminal
            /\ <<i, "result">> \notin writers
    BY DEF Active
<1>4. CASE NodeStep
    <2>1. UNCHANGED <<aged, sweeping>>
        <3>1. ASSUME NEW n \in 1..Nodes, NEW t \in Threads, DispatchChecked(t, n)
              PROVE  UNCHANGED <<aged, sweeping>>
            BY <3>1 DEF DispatchChecked
        <3>2. ASSUME NEW n \in 1..Nodes, DispatchDropped(n) PROVE UNCHANGED <<aged, sweeping>>
            BY <3>2 DEF DispatchDropped
        <3>3. ASSUME NEW t \in Threads, StartNode(t) \/ StartNodeRefused(t)
              PROVE  UNCHANGED <<aged, sweeping>>
            BY <3>3 DEF StartNode, StartNodeRefused, NodeStarted
        <3> QED
            BY <1>4, <3>1, <3>2, <3>3 DEF NodeStep
    <2>2. CASE \E n \in 1..Nodes : DispatchDropped(n) \/ \E t \in Threads : DispatchChecked(t, n)
        <3>1. PICK n \in 1..Nodes : DispatchDropped(n) \/ \E t \in Threads : DispatchChecked(t, n)
            BY <2>2
        <3>2. dispatches[n] > 0 /\ UNCHANGED chain
            BY <3>1 DEF DispatchDropped, DispatchChecked
        <3>3. Open
            BY <1>1, <3>2 DEF Idle, Coming
        <3> QED
            BY <1>1, <2>1, <3>2, <3>3 DEF Calm, Open
    <2>3. ASSUME NEW t \in Threads, StartNode(t) PROVE Open'
        BY <2>3 DEF StartNode, NodeStarted, Open
    <2>4. ASSUME NEW t \in Threads, StartNodeRefused(t) PROVE Idle'
        <3>1. /\ starting[t] # 0 /\ starting' = [starting EXCEPT ![t] = 0]
              /\ runs' = Append(runs, [node |-> starting[t], status |-> "failed"])
              /\ UNCHANGED <<advances, writers, dispatches>>
            BY <2>4 DEF StartNodeRefused, NodeStarted
        <3>2. /\ advances = 0 /\ Active = {} /\ \A n \in 1..Nodes : dispatches[n] = 0
              /\ \A u \in Threads : u # t => starting[u] = 0
            BY <1>1, <3>1, Exclusive DEF CalmInv
        <3>3. \A u \in Threads : starting'[u] = 0
            BY <1>1, <3>1, <3>2 DEF TypeOK
        <3>4. \A n \in 1..Nodes : ~Coming(n)'
            BY <3>1, <3>2, <3>3 DEF Coming
        <3>5. Active' = {}
            <4>1. /\ runs \in Seq(Run) /\ Len(runs) \in Nat
                  /\ writers \subseteq (1..Len(runs)) \X {"result", "cancel"}
                BY <1>1 DEF TypeOK
            <4>2. /\ Len(runs') = Len(runs) + 1 /\ runs'[Len(runs) + 1].status = "failed"
                  /\ \A j \in 1..Len(runs) : runs'[j] = runs[j]
                BY <3>1, <4>1
            <4>3. \A j \in 1..Len(runs') : j \in 1..Len(runs) \/ j = Len(runs) + 1
                BY <4>1, <4>2
            <4>4. <<Len(runs) + 1, "result">> \notin writers
                BY <4>1
            <4> QED
                BY <3>1, <3>2, <4>2, <4>3, <4>4 DEF Active, RunTerminal
        <3> QED
            BY <3>1, <3>2, <3>4, <3>5 DEF Idle
    <2> QED
        BY <1>1, <1>4, <2>1, <2>2, <2>3, <2>4 DEF NodeStep, Calm
<1>5. CASE RunStep
    <2>1. PICK i \in 1..Len(runs) :
            \/ RunBegins(i) \/ RunRejected(i) \/ RunSentAgain(i) \/ RunReported(i)
            \/ RunLost(i) \/ OperatorStep(i)
        BY <1>5 DEF RunStep
    <2>2. UNCHANGED <<chain, aged, sweeping>>
        BY <2>1 DEF RunBegins, RunRejected, RunSentAgain, RunReported, ResultChecked, ResultSaved,
                    RunLost, RunTimedOut, RunCutOff, OperatorStep, CancelChecked, CancelSaved,
                    RunPaused, RunResumed, RunBecomes
    <2>3. i \in Active
        BY <1>1, <1>2, <1>3, <2>1
           DEF RunBegins, RunRejected, RunSentAgain, RunReported, ResultChecked, ResultSaved,
               RunLost, RunTimedOut, RunCutOff, OperatorStep, CancelChecked, CancelSaved,
               RunPaused, RunResumed, RunBecomes, RunTerminal
    <2> QED
        BY <1>1, <2>2, <2>3 DEF Calm, Open, Idle
<1>6. CASE Advance
    <2>1. /\ advances = 1 /\ Active = {} /\ \A n \in 1..Nodes : ~Coming(n)
        BY <1>1, <1>6, Exclusive DEF CalmInv, Advance
    <2>2. Open
        BY <1>1, <2>1 DEF Idle
    <2>3. /\ UNCHANGED <<runs, starting, writers, aged, sweeping>> /\ advances' = 0
        BY <1>2, <1>6, <2>1 DEF Advance, Again
    <2>4. UNCHANGED chain \/ UNCHANGED dispatches
        BY <1>6 DEF Advance, NothingToDo, OnSuccess, OnFailed, OnCancelled, DispatchNext,
                    Dispatch, ChainBecomes
    <2>5. UNCHANGED dispatches => Idle'
        BY <2>1, <2>3 DEF Idle, Active, Coming
    <2> QED
        BY <1>1, <2>2, <2>3, <2>4, <2>5 DEF Calm, Open
<1>7. CASE SweepStep \/ UNCHANGED vars
    <2>1. UNCHANGED vars
        BY <1>1, <1>7 DEF SweepStep, BecomeAged, StuckFound, StuckFailed, Undisturbed
    <2> QED
        BY <1>1, <2>1 DEF vars, Calm, Open, Idle, Active, Coming
<1> QED
    BY <1>4, <1>5, <1>6, <1>7 DEF Next

-----------------------------------------------------------------------------
(* Each step is one of the promise, or none.                               *)

(* A run that a thread creates, or refuses, is a try the promise allows. *)
LEMMA NodeIsBegun ==
    ASSUME Undisturbed, CalmInv, NEW t \in Threads,
           NEW r \in {"pending", "failed"}, NEW c \in {"running", "failed"},
           NodeStarted(t, r, c)
    PROVE  \E n \in 1..Nodes :
              Promised!MayBegin(n) /\ Promised!Tried(n, IF r = "pending" THEN "active" ELSE "failed")
<1> DEFINE l == Len(runs) + 1
<1>1. TypeOK /\ Walk /\ TokenInv /\ (Open \/ Idle) /\ NoRepeats /\ used.cancels = 0
    BY NothingCancelled DEF CalmInv, Calm, TokenInv
<1>2. /\ Len(runs) \in Nat /\ Nodes \in Nat /\ chain.current \in 0..Nodes /\ MaxRetries \in Nat
      /\ runs \in Seq(Run) /\ starting \in [Threads -> 0..Nodes]
    BY <1>1, ChainAssumption DEF TypeOK
<1>3. PICK n \in 1..Nodes : n = starting[t]
    BY <1>2 DEF NodeStarted
<1>4. /\ Len(runs') = l /\ runs'[l] = [node |-> n, status |-> r]
      /\ \A j \in 1..Len(runs) : runs'[j] = runs[j]
    BY <1>2, <1>3 DEF NodeStarted
<1>5. Coming(n) /\ MayStart(n) /\ Open
    <2>1. Coming(n)
        BY <1>3 DEF Coming
    <2> QED
        BY <1>1, <2>1 DEF Walk, ComingMayStart, Idle
<1>6. /\ 1..Len(runs') = (1..Len(runs)) \cup {l} /\ l \notin 1..Len(runs)
      /\ \A j \in 1..Len(runs) : j <= l
    BY <1>2, <1>4
<1> HIDE DEF l
<1>7. /\ \A m \in 1..Nodes : m # n => RunsOf(m)' = RunsOf(m)
      /\ RunsOf(n)' = RunsOf(n) \cup {l}
    <2>1. runs'[l].node = n
        BY <1>4
    <2>2. ASSUME NEW m \in 1..Nodes, m # n PROVE RunsOf(m)' = RunsOf(m)
        BY <1>4, <1>6, <2>1, <2>2 DEF RunsOf
    <2>3. RunsOf(n)' = RunsOf(n) \cup {l}
        BY <1>4, <1>6, <2>1 DEF RunsOf
    <2> QED
        BY <2>2, <2>3
<1>8. Promised!MayBegin(n)
    <2>1. \A m \in 1 .. n - 1 : Outcome(LastStatus(m)) = "passed"
                    \/ (Outcome(LastStatus(m)) = "failed" /\ OnFailure[m] = "skip")
        <3>1. \A m \in 1 .. n - 1 : m \in 1..Nodes /\ Cleared(m)
            BY <1>2, <1>5 DEF MayStart
        <3>2. \A m \in 1 .. n - 1 : LastStatus(m) = "success"
                    \/ (LastStatus(m) = "failed" /\ OnFailure[m] = "skip")
            BY <1>1, <3>1, Rows
        <3> QED
            BY <3>2 DEF Outcome
    <2>2. \A m \in n + 1 .. Nodes : Outcome(LastStatus(m)) = "none"
        <3>1. \A m \in n + 1 .. Nodes : m \in chain.current + 1 .. Nodes
            BY <1>2, <1>5 DEF MayStart
        <3> QED
            BY <1>1, <3>1, Rows DEF Outcome
    <2>3. CASE n = chain.current + 1
        <3>1. n \in chain.current + 1 .. Nodes
            BY <1>2, <2>3
        <3>2. Outcome(LastStatus(n)) = "none"
            BY <1>1, <3>1, Rows DEF Outcome
        <3> QED
            BY <1>2, <1>5, <2>1, <2>2, <3>2 DEF Promised!MayBegin, Promised!Cleared
    <2>4. CASE n # chain.current + 1
        <3>1. /\ n = chain.current /\ OnFailure[n] = "retry"
              /\ runs[Len(runs)].status \in {"failed", "cancelled"}
              /\ Cardinality(RunsOf(n)) <= MaxRetries
            BY <1>1, <1>2, <1>5, <2>4 DEF MayStart
        <3>2. Len(runs) > 0
            BY <1>1, <1>2, <3>1 DEF Walk, InOrder
        <3>3. Outcome(LastStatus(n)) = "failed"
            <4>1. Len(runs) \in 1..Len(runs)
                BY <1>2, <3>2
            <4>2. runs[Len(runs)].status = "failed"
                BY <1>1, <3>1, <4>1, NothingCancelled
            <4> QED
                BY <1>1, <3>1, <3>2, <4>2, Rows DEF Outcome
        <3> QED
            BY <1>2, <1>5, <2>1, <2>2, <3>1, <3>3
               DEF Promised!MayBegin, Promised!Cleared, Promised!Retriable
    <2> QED
        BY <2>3, <2>4
<1>9. \A m \in 1..Nodes :
        /\ Cardinality(RunsOf(m)') = IF m = n THEN Cardinality(RunsOf(n)) + 1 ELSE Cardinality(RunsOf(m))
        /\ LastStatus(m)' = IF m = n THEN r ELSE LastStatus(m)
    <2>1. Cardinality(RunsOf(n)') = Cardinality(RunsOf(n)) + 1
        <3>1. IsFiniteSet(RunsOf(n)) /\ l \notin RunsOf(n)
            BY <1>1, <1>6, Rows
        <3> QED
            BY <1>7, <3>1, FS_AddElement
    <2>2. LastStatus(n)' = r
        <3>1. l \in Nat /\ RunsOf(n)' \subseteq 1..l /\ l \in RunsOf(n)' /\ \A j \in RunsOf(n)' : j <= l
            BY <1>2, <1>4, <1>6, <1>7 DEF RunsOf, l
        <3>2. Max(RunsOf(n)') = l
            BY <3>1, GreatestIs
        <3>3. RunsOf(n)' # {} /\ runs'[l].status = r
            BY <1>4, <3>1
        <3> QED
            BY <3>2, <3>3 DEF LastStatus
    <2>3. ASSUME NEW m \in 1..Nodes, m # n PROVE LastStatus(m)' = LastStatus(m)
        <3>1. RunsOf(m)' = RunsOf(m)
            BY <1>7, <2>3
        <3>2. CASE RunsOf(m) = {}
            BY <3>1, <3>2 DEF LastStatus
        <3>3. CASE RunsOf(m) # {}
            <4>1. Max(RunsOf(m)) \in 1..Len(runs)
                <5>1. RunsOf(m) \subseteq 1..Len(runs)
                    BY DEF RunsOf
                <5> QED
                    BY <1>2, <3>3, <5>1, GreatestExists
            <4>2. runs'[Max(RunsOf(m))] = runs[Max(RunsOf(m))]
                BY <1>4, <4>1
            <4> QED
                BY <3>1, <3>3, <4>2 DEF LastStatus
        <3> QED
            BY <3>2, <3>3
    <2> QED
        BY <1>7, <2>1, <2>2, <2>3
<1>10. Promised!Tried(n, Outcome(r))
    BY <1>9 DEF Promised!Tried
<1>11. Outcome(r) = IF r = "pending" THEN "active" ELSE "failed"
    BY DEF Outcome
<1> QED
    BY <1>8, <1>10, <1>11

(* The last run gets another status: nothing, or the end of its node. *)
LEMMA RunEnds ==
    ASSUME Undisturbed, CalmInv, NEW i \in Active, NEW from, NEW to \in RunStatus \ {"cancelled"},
           RunBecomes(i, from, to), stamp' = stamp \/ stamp' = Touch(i),
           to \in {"success", "failed"} \/ runs[i].status \notin RunTerminal
    PROVE  \/ UNCHANGED Promised!vars
           \/ \E n \in 1..Nodes : Promised!End(n, "passed") \/ Promised!End(n, "failed")
<1>1. TypeOK /\ Stamped /\ Walk /\ TokenInv /\ (Open \/ Idle) /\ UNCHANGED chain
    <2>1. TypeOK /\ Stamped /\ Walk /\ TokenInv /\ (Open \/ Idle)
        BY DEF CalmInv, Calm, TokenInv
    <2>2. UNCHANGED chain
        BY DEF RunBecomes
    <2> QED
        BY <2>1, <2>2
<1>2. Len(runs) \in Nat /\ i = Len(runs) /\ i \in 1..Len(runs) /\ Len(runs) > 0 /\ Open /\ Open'
    <2>1. Len(runs) \in Nat
        BY <1>1 DEF TypeOK
    <2>2. i = Len(runs) /\ i \in 1..Len(runs)
        BY <1>1 DEF Walk, LastOnly, Active
    <2>3. Open /\ Open'
        BY <1>1 DEF Idle, Open
    <2> QED
        BY <2>1, <2>2, <2>3
<1>3. /\ Len(runs') = Len(runs) /\ runs'[i].status = to
      /\ \A j \in 1..Len(runs) : j # i => runs'[j] = runs[j]
      /\ \A n \in 1..Nodes : RunsOf(n)' = RunsOf(n)
    BY <1>1, <1>2, StatusChanges
<1>4. PICK n \in 1..Nodes : n = chain.current
    BY <1>1, <1>2, Rows
<1>5. /\ i \in RunsOf(n) /\ LastStatus(n) = runs[i].status /\ runs[i].status \in RunStatus
      /\ runs[i].status # "cancelled"
    BY <1>1, <1>2, <1>4, Rows, NothingCancelled
<1>6. \A m \in 1..Nodes : LastStatus(m)' = IF m = n THEN to ELSE LastStatus(m)
    <2>1. LastStatus(n)' = to
        <3>1. RunsOf(n) \subseteq 1..Len(runs) /\ \A j \in RunsOf(n) : j <= i
            BY <1>2 DEF RunsOf
        <3>2. Max(RunsOf(n)) = i
            BY <1>2, <1>5, <3>1, GreatestIs
        <3> QED
            BY <1>3, <1>5, <3>2 DEF LastStatus
    <2>2. ASSUME NEW m \in 1..Nodes, m # n PROVE LastStatus(m)' = LastStatus(m)
        <3>1. CASE RunsOf(m) = {}
            BY <1>3, <3>1 DEF LastStatus
        <3>2. CASE RunsOf(m) # {}
            <4>1. Max(RunsOf(m)) \in RunsOf(m)
                <5>1. RunsOf(m) \subseteq 1..Len(runs)
                    BY DEF RunsOf
                <5> QED
                    BY <1>2, <3>2, <5>1, GreatestExists
            <4>2. Max(RunsOf(m)) # i /\ Max(RunsOf(m)) \in 1..Len(runs)
                <5>1. runs[i].node = n
                    BY <1>5 DEF RunsOf
                <5> QED
                    BY <2>2, <4>1, <5>1 DEF RunsOf
            <4>3. runs'[Max(RunsOf(m))] = runs[Max(RunsOf(m))]
                BY <1>3, <4>2
            <4> QED
                BY <1>3, <3>2, <4>3 DEF LastStatus
        <3> QED
            BY <3>1, <3>2
    <2> QED
        BY <2>1, <2>2
<1>7. \A m \in 1..Nodes : Cardinality(RunsOf(m)') = Cardinality(RunsOf(m))
    BY <1>3
<1>8. CASE to \in {"success", "failed"}
    <2>1. \A m \in n + 1 .. Nodes : Outcome(LastStatus(m)) = "none"
        BY <1>1, <1>4, Rows DEF Outcome
    <2>2. Outcome(LastStatus(n)) # "none"
        BY <1>5, OutcomeOf
    <2>3. Outcome(to) = IF to = "success" THEN "passed" ELSE "failed"
        BY <1>8 DEF Outcome
    <2>4. Promised!End(n, Outcome(to))
        <3>1. [m \in 1..Nodes |-> Outcome(LastStatus(m))]'
                = [[m \in 1..Nodes |-> Outcome(LastStatus(m))] EXCEPT ![n] = Outcome(to)]
            BY <1>6
        <3>2. [m \in 1..Nodes |-> Cardinality(RunsOf(m))]' = [m \in 1..Nodes |-> Cardinality(RunsOf(m))]
            BY <1>7
        <3>3. \A m \in n + 1 .. Nodes : m \in 1..Nodes
            OBVIOUS
        <3> QED
            BY <1>1, <1>2, <2>1, <2>2, <3>1, <3>2, <3>3 DEF Promised!End
    <2> QED
        BY <2>3, <2>4
<1>9. CASE to \notin {"success", "failed"}
    <2>1. Outcome(to) = "active" /\ Outcome(LastStatus(n)) = "active"
        BY <1>5, <1>9, OutcomeOf DEF RunTerminal
    <2>2. UNCHANGED Promised!vars
        BY <1>1, <1>2, <1>6, <1>7, <2>1 DEF Promised!vars
    <2> QED
        BY <2>2
<1> QED
    BY <1>8, <1>9

(* A step that touches neither the runs nor, but for a verdict, the chain. *)
LEMMA RowsStay ==
    ASSUME UNCHANGED runs
    PROVE  /\ \A n \in 1..Nodes : RunsOf(n)' = RunsOf(n) /\ LastStatus(n)' = LastStatus(n)
           /\ UNCHANGED chain => UNCHANGED Promised!vars
<1>1. \A n \in 1..Nodes : RunsOf(n)' = RunsOf(n) /\ LastStatus(n)' = LastStatus(n)
    BY DEF RunsOf, LastStatus
<1>2. ASSUME UNCHANGED chain PROVE UNCHANGED Promised!vars
    BY <1>1, <1>2 DEF Promised!vars, Open
<1> QED
    BY <1>1, <1>2

(* An advance closes the chain as promised, or only sends a message. *)
LEMMA ChainAdvances ==
    ASSUME Undisturbed, CalmInv, Advance
    PROVE  UNCHANGED Promised!vars \/ Promised!Close
<1>1. TypeOK /\ Walk /\ TokenInv /\ (Open \/ Idle) /\ UNCHANGED runs
    BY DEF CalmInv, Calm, TokenInv, Advance
<1>2. advances = 1 /\ Active = {} /\ Open
    <2>1. NoRepeats /\ advances > 0
        BY <1>1, NothingCancelled DEF Advance
    <2>2. advances = 1 /\ Active = {}
        BY <1>1, <2>1, Exclusive
    <2> QED
        BY <1>1, <2>2 DEF Idle
<1>3. CASE UNCHANGED chain
    BY <1>1, <1>3, RowsStay
<1>4. ASSUME NEW s \in {"success", "failed"}, ChainBecomes(s),
             \/ s = "success" /\ \A n \in 1..Nodes : Promised!Cleared(n)
             \/ s = "failed" /\ \E n \in 1..Nodes : Promised!Fatal(n)
      PROVE  Promised!Close
    <2>1. chain'.status = s /\ ~Open'
        BY <1>1, <1>4 DEF ChainBecomes, TypeOK, Open
    <2>2. \A n \in 1..Nodes : /\ Cardinality(RunsOf(n)') = Cardinality(RunsOf(n))
                              /\ LastStatus(n)' = LastStatus(n)
        BY <1>1, RowsStay
    <2> QED
        BY <1>2, <1>4, <2>1, <2>2 DEF Promised!Close
<1>5. ASSUME LastDone # 0, NEW s \in RunTerminal, runs[LastDone].status = s
      PROVE  /\ s # "cancelled" /\ Len(runs) > 0 /\ runs[Len(runs)].status = s
             /\ chain.current \in 1..Nodes /\ LastStatus(chain.current) = s
    <2>1. /\ Len(runs) > 0 /\ LastDone \in 1..Len(runs)
          /\ LastDone = Len(runs) \/ runs[LastDone].status = "cancelled"
        BY <1>1, <1>2, <1>5, LastDecides DEF Walk
    <2>2. s # "cancelled" /\ runs[Len(runs)].status = s
        BY <1>1, <1>5, <2>1, NothingCancelled
    <2> QED
        BY <1>1, <2>1, <2>2, Rows
<1>6. ASSUME DispatchNext, Len(runs) > 0, Passed(Len(runs)) PROVE UNCHANGED chain \/ Promised!Close
    <2>1. chain.current \in 0..Nodes /\ Nodes \in Nat
        BY <1>1, Rows
    <2>2. CASE chain.current < Nodes
        BY <1>6, <2>2 DEF DispatchNext, Dispatch
    <2>3. CASE ~(chain.current < Nodes)
        <3>1. chain.current = Nodes /\ ChainBecomes("success")
            BY <1>6, <2>1, <2>3 DEF DispatchNext
        <3>2. \A n \in 1..Nodes : Cleared(n)
            BY <1>1, <1>6, <3>1, LastClears DEF Walk
        <3>3. \A n \in 1..Nodes : LastStatus(n) = "success"
                    \/ (LastStatus(n) = "failed" /\ OnFailure[n] = "skip")
            BY <1>1, <3>2, Rows
        <3>4. \A n \in 1..Nodes : Promised!Cleared(n)
            BY <3>3 DEF Promised!Cleared, Outcome
        <3> QED
            BY <1>4, <3>1, <3>4
    <2> QED
        BY <2>2, <2>3
<1>7. CASE LastDone # 0 /\ OnSuccess
    <2>1. Len(runs) > 0 /\ runs[Len(runs)].status = "success" /\ DispatchNext
        BY <1>5, <1>7 DEF OnSuccess, RunTerminal
    <2> QED
        BY <1>3, <1>6, <2>1 DEF Passed
<1>8. CASE LastDone # 0 /\ OnFailed
    <2>1. /\ Len(runs) > 0 /\ runs[Len(runs)].status = "failed"
          /\ chain.current \in 1..Nodes /\ LastStatus(chain.current) = "failed"
        BY <1>5, <1>8 DEF OnFailed, RunTerminal
    <2>2. PICK n \in 1..Nodes : n = chain.current
        BY <2>1
    <2>3. runs[Len(runs)].node = n
        BY <1>1, <2>1, <2>2, Rows
    <2>4. CASE OnFailure[n] = "skip" /\ DispatchNext
        BY <1>3, <1>6, <2>1, <2>3, <2>4 DEF Passed
    <2>5. CASE OnFailure[n] = "retry" /\ Dispatch(n)
        BY <1>3, <2>5 DEF Dispatch
    <2>6. ASSUME OnFailure[n] # "skip", ChainBecomes("failed"),
                 OnFailure[n] = "retry" => ~(Cardinality(RunsOf(n)) <= MaxRetries)
          PROVE  Promised!Close
        <3>1. Outcome(LastStatus(n)) = "failed"
            BY <2>1, <2>2 DEF Outcome
        <3>2. Promised!Fatal(n)
            BY <2>6, <3>1 DEF Promised!Fatal, Promised!Cleared, Promised!Retriable
        <3> QED
            BY <1>4, <2>6, <3>2
    <2>7. ~(Cardinality(FailedRuns(n)) <= MaxRetries) => ~(Cardinality(RunsOf(n)) <= MaxRetries)
        <3>1. FailedRuns(n) \subseteq RunsOf(n)
            BY DEF FailedRuns, RunsOf
        <3>2. IsFiniteSet(RunsOf(n)) /\ Cardinality(RunsOf(n)) \in Nat
            BY <1>1, Rows
        <3>3. /\ Cardinality(FailedRuns(n)) \in Nat
              /\ Cardinality(FailedRuns(n)) <= Cardinality(RunsOf(n))
            BY <3>1, <3>2, NoMore
        <3>4. MaxRetries \in Nat
            BY ChainAssumption
        <3> QED
            BY <3>2, <3>3, <3>4
    <2>8. /\ runs[LastDone].status = "failed"
          /\ \/ OnFailure[n] = "skip" /\ DispatchNext
             \/ OnFailure[n] = "abort" /\ ChainBecomes("failed")
             \/ /\ OnFailure[n] = "retry"
                /\ IF Cardinality(FailedRuns(n)) <= MaxRetries
                      THEN Dispatch(n) ELSE ChainBecomes("failed")
        BY <1>8, <2>2 DEF OnFailed
    <2> QED
        BY <2>4, <2>5, <2>6, <2>7, <2>8
<1>9. ~(LastDone # 0 /\ OnCancelled)
    BY <1>5 DEF OnCancelled, RunTerminal
<1> QED
    BY <1>3, <1>7, <1>8, <1>9 DEF Advance, NothingToDo

(* Each step of the chain is a step of the promise, or none. *)
LEMMA StepPromised ==
    ASSUME Undisturbed, CalmInv, [Next]_vars
    PROVE  [Promised!Next]_(Promised!vars)
<1>1. /\ TokenInv /\ Walk /\ TypeOK /\ ~aged /\ ~sweeping /\ (Open \/ Idle) /\ NoRepeats
      /\ \A i \in 1..Len(runs) : <<i, "cancel">> \notin writers
    BY NothingCancelled DEF CalmInv, Calm, TokenInv
<1>2. /\ ~Spend("redelivered", MaxRedelivered) /\ ~Spend("duplicates", MaxDuplicates)
      /\ ~Spend("cancels", MaxCancels)
    BY <1>1 DEF Spend, Undisturbed, TypeOK
<1>3. ASSUME UNCHANGED <<chain, runs>> PROVE UNCHANGED Promised!vars
    BY <1>3, RowsStay
<1>4. ASSUME NEW t \in Threads, StartNode(t) PROVE \E n \in 1..Nodes : Promised!Begin(n)
    <2>1. NodeStarted(t, "pending", "running")
        BY <1>4 DEF StartNode
    <2>2. PICK n \in 1..Nodes : Promised!MayBegin(n) /\ Promised!Tried(n, "active")
        BY <2>1, NodeIsBegun
    <2>3. Open /\ Open'
        <3>1. Open
            <4>1. chain.status # "open"
                BY <1>1 DEF TypeOK, ChainStatus, ChainTerminal
            <4> QED
                BY <2>2, <4>1 DEF Promised!MayBegin
        <3> QED
            BY <2>1, <3>1 DEF NodeStarted, Open
    <2> QED
        BY <2>2, <2>3 DEF Promised!Begin
<1>5. ASSUME NEW t \in Threads, StartNodeRefused(t) PROVE \E n \in 1..Nodes : Promised!Refuse(n)
    <2>1. NodeStarted(t, "failed", "failed")
        BY <1>5 DEF StartNodeRefused
    <2>2. PICK n \in 1..Nodes : Promised!MayBegin(n) /\ Promised!Tried(n, "failed")
        BY <2>1, NodeIsBegun
    <2>3. ~Open' /\ chain'.status = "failed"
        BY <2>1 DEF NodeStarted, Open
    <2> QED
        BY <2>2, <2>3 DEF Promised!Refuse
<1>6. CASE NodeStep
    <2>1. ASSUME NEW n \in 1..Nodes,
                 DispatchDropped(n) \/ \E t \in Threads : DispatchChecked(t, n)
          PROVE  UNCHANGED <<chain, runs>>
        BY <2>1 DEF DispatchDropped, DispatchChecked
    <2> QED
        BY <1>3, <1>4, <1>5, <1>6, <2>1 DEF NodeStep, Promised!Next
<1>7. CASE RunStep
    <2>1. PICK i \in 1..Len(runs) :
            \/ RunBegins(i) \/ RunRejected(i) \/ RunSentAgain(i) \/ RunReported(i)
            \/ RunLost(i) \/ OperatorStep(i)
        BY <1>7 DEF RunStep
    <2>2. ASSUME NEW from, NEW to \in {"running", "paused", "success", "failed"},
                 RunBecomes(i, from, to), stamp' = stamp \/ stamp' = Touch(i), i \in Active,
                 to \in {"success", "failed"} \/ runs[i].status \notin RunTerminal
          PROVE  [Promised!Next]_(Promised!vars)
        <3>1. to \in RunStatus \ {"cancelled"}
            BY DEF RunStatus, RunTerminal
        <3> QED
            BY <2>2, <3>1, RunEnds DEF Promised!Next
    <2>3. ASSUME NEW from \in SUBSET {"pending", "running", "paused"},
                 NEW to \in {"running", "paused", "success", "failed"},
                 RunBecomes(i, from, to), stamp' = stamp \/ stamp' = Touch(i)
          PROVE  [Promised!Next]_(Promised!vars)
        <3>1. runs[i].status \notin RunTerminal /\ i \in Active
            BY <2>3 DEF RunBecomes, RunTerminal, Active
        <3> QED
            BY <2>2, <2>3, <3>1
    <2>4. CASE RunBegins(i) \/ RunRejected(i)
        BY <2>3, <2>4 DEF RunBegins, RunRejected
    <2>5. CASE RunTimedOut(i) \/ RunCutOff(i)
        BY <2>3, <2>5 DEF RunTimedOut, RunCutOff
    <2>6. CASE RunPaused(i) \/ RunResumed(i)
        BY <2>3, <2>6 DEF RunPaused, RunResumed
    <2>7. ASSUME NEW to \in {"success", "failed"}, ResultSaved(i, to)
          PROVE  [Promised!Next]_(Promised!vars)
        <3>1. RunBecomes(i, RunStatus, to) /\ stamp' = Touch(i) /\ i \in Active
            BY <2>7 DEF ResultSaved, Active
        <3> QED
            BY <2>2, <2>7, <3>1
    <2>8. CASE ResultChecked(i)
        BY <1>3, <2>8 DEF ResultChecked
    <2>9. ~RunSentAgain(i) /\ ~CancelChecked(i) /\ ~CancelSaved(i)
        BY <1>1, <1>2 DEF RunSentAgain, CancelChecked, CancelSaved
    <2> QED
        BY <2>1, <2>4, <2>5, <2>6, <2>7, <2>8, <2>9 DEF RunReported, RunLost, OperatorStep
<1>8. CASE Advance
    BY <1>8, ChainAdvances DEF Promised!Next
<1>9. CASE SweepStep \/ UNCHANGED vars
    <2>1. UNCHANGED <<chain, runs>>
        BY <1>1, <1>9 DEF SweepStep, BecomeAged, StuckFound, StuckFailed, vars
    <2> QED
        BY <1>3, <2>1
<1> QED
    BY <1>6, <1>7, <1>8, <1>9 DEF Next

-----------------------------------------------------------------------------
(* The theorem.                                                            *)

(* A new chain is a new promise. *)
LEMMA PromisedAtFirst ==
    ASSUME Init
    PROVE  Promised!Init
<1>1. runs = <<>> /\ Len(runs) = 0 /\ Open
    BY DEF Init, Open
<1>2. \A n \in 1..Nodes : RunsOf(n) = {} /\ LastStatus(n) = "none"
    BY <1>1 DEF RunsOf, LastStatus
<1>3. \A n \in 1..Nodes : Cardinality(RunsOf(n)) = 0 /\ Outcome(LastStatus(n)) = "none"
    BY <1>2, FS_EmptySet DEF Outcome
<1> QED
    BY <1>1, <1>3 DEF Promised!Init

(* The inductive invariant of an undisturbed chain. *)
LEMMA CalmHolds ==
    ASSUME Undisturbed
    PROVE  Spec => []CalmInv
<1>1. Init => CalmInv
    <2>1. Init => Calm
        BY DEF Init, Calm, Open
    <2> QED
        BY <2>1, TokensAtFirst, WalkAtFirst DEF CalmInv
<1>2. ASSUME CalmInv, [Next]_vars PROVE CalmInv'
    <2>1. TokenInv /\ Walk /\ NoRepeats /\ TypeOK
        BY <1>2, NothingCancelled DEF CalmInv, TokenInv
    <2>2. TokenInv'
        BY <1>2, <2>1, NodeStepKeeps, RunStepKeeps, AdvanceKeeps, SweepStepKeeps DEF Next
    <2>3. NoRepeats'
        <3>1. used' \in UsedType
            BY <2>2 DEF TokenInv, TypeOK, UsedType
        <3>2. used'.redelivered \in 0..0 /\ used'.duplicates \in 0..0
            BY <1>2, <3>1 DEF UsedType, Undisturbed
        <3> QED
            BY <3>2 DEF NoRepeats
    <2>4. Walk'
        BY <1>2, <2>1, <2>2, <2>3, WalkKept
    <2> QED
        BY <1>2, <2>2, <2>4, CalmKept DEF CalmInv
<1> QED
    BY <1>1, <1>2, PTL DEF Spec

(* A chain that nothing disturbs implements the sequential chain its user  *)
(* is promised: its nodes are run one at a time and in order, a failed one *)
(* again only while its condition allows, and the verdict follows from     *)
(* what became of them, whatever the threads, lost workers, refused        *)
(* dispatches and pauses do.                                               *)
THEOREM PromiseIsKept ==
    ASSUME Undisturbed
    PROVE  Spec => ImplementsPromise
<1>1. Init => Promised!Init
    BY PromisedAtFirst
<1>2. ASSUME CalmInv, [Next]_vars PROVE [Promised!Next]_(Promised!vars)
    BY <1>2, StepPromised
<1> QED
    BY <1>1, <1>2, CalmHolds, PTL DEF Spec, ImplementsPromise, Promised!Spec


=============================================================================
