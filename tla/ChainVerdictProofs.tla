-------------------------- MODULE ChainVerdictProofs --------------------------
(* How a chain walks through its nodes: when no message and no run is      *)
(* repeated, a node is started only when those before it are cleared, no   *)
(* node is run too often, and SUCCESS means that every node was run.       *)
EXTENDS ChainExecutionProofs, WellFoundedInduction

NoRepeats == used.redelivered + used.duplicates = 0

-----------------------------------------------------------------------------
(* The walk.                                                               *)

Passed(i) ==
    \/ runs[i].status \in {"success", "cancelled"}
    \/ runs[i].status = "failed" /\ OnFailure[runs[i].node] = "skip"

(* The node was run and the last of its runs lets the chain go on. *)
Cleared(n) == \E i \in RunsOf(n) : Passed(i) /\ \A j \in RunsOf(n) : j <= i

(* A message waits for the node, or a thread is about to start it. *)
Coming(n) == dispatches[n] > 0 \/ \E t \in Threads : starting[t] = n

Idle ==
    /\ \A n \in 1..Nodes : ~Coming(n)
    /\ Active = {} /\ advances = 0

(* The next node, or the one the chain is at once more. *)
MayStart(n) ==
    /\ \A m \in 1 .. n - 1 : Cleared(m)
    /\ \/ n = chain.current + 1
       \/ /\ n = chain.current /\ OnFailure[n] = "retry"
          /\ runs[Len(runs)].status \in {"failed", "cancelled"}
          /\ Cardinality(RunsOf(n)) <= MaxRetries + used.cancels

InOrder ==
    /\ chain.current = IF Len(runs) = 0 THEN 0 ELSE runs[Len(runs)].node
    /\ \A i \in 1..Len(runs) : runs[i].node <= chain.current

LastOnly ==
    /\ Active \subseteq {Len(runs)}
    /\ \A i \in 1 .. Len(runs) - 1 :
          runs[i].node = chain.current => runs[i].status \in {"failed", "cancelled"}

BehindCleared == \A n \in 1 .. chain.current - 1 : Cleared(n)

ComingMayStart == \A n \in 1..Nodes : Coming(n) => MayStart(n)

Final == {"success", "cancelled"}

VerdictFinal ==
    /\ chain.status \in Final => Idle
    /\ chain.status = "success" => \A n \in 1..Nodes : Cleared(n)

(* A run is cancelled, or will be, by a request of an operator.            *)
Cancels == {i \in 1..Len(runs) : runs[i].status = "cancelled" \/ <<i, "cancel">> \in writers}

CancelsCounted == Cardinality(Cancels) <= used.cancels

(* Only a run that was cancelled late has a later updated_at than the last *)
(* run, so the last run is the one that decides, or the chain is cancelled.*)
LatestStamped ==
    Len(runs) > 0 =>
        \E a \in 1..Len(stamp) :
            /\ stamp[a] = Len(runs)
            /\ \A b \in a + 1 .. Len(stamp) :
                  stamp[b] = Len(runs) \/ runs[stamp[b]].status = "cancelled"

Walk ==
    /\ InOrder /\ LastOnly /\ BehindCleared /\ ComingMayStart
    /\ RetryBound /\ VerdictFinal /\ CancelsCounted /\ LatestStamped

WalkInv == TokenInv /\ (NoRepeats => Walk)

-----------------------------------------------------------------------------
(* Least and greatest elements.                                            *)

(* A non-empty set of natural numbers has a least member. *)
LEMMA LeastExists ==
    ASSUME NEW T, T \subseteq Nat, T # {}
    PROVE  \E t \in T : \A u \in T : t <= u
<1> DEFINE R == OpToRel(<, Nat)
<1>1. IsWellFoundedOn(R, Nat)
    BY NatLessThanWellFounded
<1>2. \A t, u \in T : <<u, t>> \notin R => t <= u
    BY DEF OpToRel
<1> HIDE DEF R
<1>3. PICK t \in T : \A u \in T : ~ (<<u, t>> \in R)
    BY <1>1, WFMin
<1> QED
    BY <1>2, <1>3

(* A non-empty set of numbers from 1 to n has a greatest member, which Max picks. *)
LEMMA GreatestExists ==
    ASSUME NEW n \in Nat, NEW S, S \subseteq 1..n, S # {}
    PROVE  Max(S) \in S /\ \A y \in S : y <= Max(S)
<1> DEFINE T == {n - x : x \in S}
<1>1. T \subseteq Nat
    <2>1. \A x \in S : n - x \in Nat
        OBVIOUS
    <2> QED
        BY <2>1
<1>2. T # {}
    OBVIOUS
<1>3. PICK x \in S : \A u \in T : n - x <= u
    <2> HIDE DEF T
    <2>1. PICK t \in T : \A u \in T : t <= u
        BY <1>1, <1>2, LeastExists
    <2> QED
        BY <2>1 DEF T
<1>4. ASSUME NEW y \in S PROVE x >= y
    <2>1. n - x <= n - y
        BY <1>3
    <2> QED
        BY <2>1
<1>5. Max(S) \in S /\ \A y \in S : Max(S) >= y
    BY <1>4 DEF Max
<1> QED
    BY <1>5

-----------------------------------------------------------------------------
(* Without repetitions there is one token.                                 *)

(* While nothing was repeated, one token excludes every other. *)
LEMMA Exclusive ==
    ASSUME TokenInv, NoRepeats
    PROVE  /\ advances \in Nat
           /\ advances > 0 => advances = 1 /\ Active = {} /\ \A n \in 1..Nodes : ~Coming(n)
           /\ Active # {} => advances = 0 /\ \A n \in 1..Nodes : ~Coming(n)
           /\ \A t \in Threads : starting[t] # 0 =>
                 /\ advances = 0 /\ Active = {}
                 /\ \A n \in 1..Nodes : dispatches[n] = 0
                 /\ \A u \in Threads : u # t => starting[u] = 0
<1> DEFINE w == Cardinality(Waiting)
           s == Cardinality(Started)
           a == Cardinality(Active)
<1>1. TypeOK /\ Stamped /\ Finite /\ Tokens <= Allowed
    BY DEF TokenInv
<1>2. /\ w \in Nat /\ s \in Nat /\ a \in Nat /\ advances \in Nat
      /\ IsFiniteSet(Waiting) /\ IsFiniteSet(Started) /\ IsFiniteSet(Active)
    BY <1>1, Untouched DEF Finite
<1>3. w + s + a + advances <= 1
    <2>1. used.redelivered \in Nat /\ used.duplicates \in Nat
        BY <1>1, ChainAssumption DEF TypeOK
    <2>2. Allowed = 1
        BY <2>1 DEF NoRepeats, Allowed
    <2> QED
        BY <1>1, <2>2 DEF Tokens
<1>4. (w = 0 <=> Waiting = {}) /\ (s = 0 <=> Started = {}) /\ (a = 0 <=> Active = {})
    BY <1>2, FS_EmptySet
<1>5. ASSUME Waiting = {}, NEW n \in 1..Nodes PROVE dispatches[n] = 0
    <2>1. dispatches[n] \in Nat
        BY <1>1 DEF TypeOK
    <2>2. <<n, 1>> \notin Waiting
        BY <1>5
    <2> QED
        BY <2>1, <2>2 DEF Waiting
<1>6. ASSUME Waiting = {}, Started = {}, NEW n \in 1..Nodes PROVE ~Coming(n)
    <2>1. dispatches[n] = 0
        BY <1>5, <1>6
    <2>2. \A t \in Threads : starting[t] = 0
        BY <1>6 DEF Started
    <2> QED
        BY <2>1, <2>2 DEF Coming
<1> HIDE DEF w, s, a
<1>7. advances > 0 => advances = 1 /\ w = 0 /\ s = 0 /\ a = 0
    BY <1>2, <1>3
<1>8. a # 0 => advances = 0 /\ w = 0 /\ s = 0
    BY <1>2, <1>3
<1>9. s # 0 => s = 1 /\ advances = 0 /\ w = 0 /\ a = 0
    BY <1>2, <1>3
<1>10. ASSUME NEW t \in Threads, starting[t] # 0
       PROVE  /\ advances = 0 /\ Active = {}
              /\ \A n \in 1..Nodes : dispatches[n] = 0
              /\ \A u \in Threads : u # t => starting[u] = 0
    <2>1. t \in Started
        BY <1>10 DEF Started
    <2>2. s = 1 /\ advances = 0 /\ Waiting = {} /\ Active = {}
        BY <1>4, <1>9, <2>1
    <2>3. \E x : Started = {x}
        BY <1>2, <2>2, FS_Singleton DEF s
    <2>4. Started = {t}
        BY <2>1, <2>3
    <2>5. \A u \in Threads : u # t => starting[u] = 0
        BY <2>4 DEF Started
    <2> QED
        BY <1>5, <2>2, <2>5
<1> QED
    BY <1>2, <1>4, <1>6, <1>7, <1>8, <1>10

(* The bound of repetitions is only spent. *)
LEMMA RepeatsGrow ==
    ASSUME TypeOK, [Next]_vars, NoRepeats'
    PROVE  NoRepeats
<1>1. used \in UsedType /\ used.redelivered \in Nat /\ used.duplicates \in Nat
    BY ChainAssumption DEF TypeOK, UsedType
<1>2. \/ UNCHANGED used
      \/ \E b \in {"redelivered", "duplicates", "pauses", "cancels", "refused"} :
            used' = [used EXCEPT ![b] = used[b] + 1]
    <2>1. NodeStep => UNCHANGED used \/ \E b \in {"redelivered", "refused"} : used' = [used EXCEPT ![b] = used[b] + 1]
        BY DEF NodeStep, DispatchDropped, DispatchChecked, StartNode, StartNodeRefused, Again, Spend
    <2>2. RunStep => UNCHANGED used \/ \E b \in {"duplicates", "pauses", "cancels"} : used' = [used EXCEPT ![b] = used[b] + 1]
        BY DEF RunStep, RunBegins, RunRejected, RunSentAgain, RunReported, ResultChecked,
               ResultSaved, RunLost, RunTimedOut, RunCutOff, OperatorStep, CancelChecked,
               CancelSaved, RunPaused, RunResumed, Again, Spend
    <2>3. Advance => UNCHANGED used \/ used' = [used EXCEPT !["duplicates"] = used["duplicates"] + 1]
        BY DEF Advance, Again, Spend
    <2>4. SweepStep \/ UNCHANGED vars => UNCHANGED used
        BY DEF SweepStep, BecomeAged, StuckFound, StuckFailed, vars
    <2> QED
        BY <2>1, <2>2, <2>3, <2>4 DEF Next
<1>3. CASE UNCHANGED used
    BY <1>3 DEF NoRepeats
<1>4. ASSUME NEW b \in {"redelivered", "duplicates", "pauses", "cancels", "refused"},
             used' = [used EXCEPT ![b] = used[b] + 1]
      PROVE  used.redelivered <= used'.redelivered /\ used.duplicates <= used'.duplicates
             /\ used'.redelivered \in Nat /\ used'.duplicates \in Nat
    BY <1>1, <1>4 DEF UsedType
<1> QED
    BY <1>1, <1>2, <1>3, <1>4 DEF NoRepeats

-----------------------------------------------------------------------------
(* A run changes its status.                                               *)

(* Only the status of one row changes. *)
LEMMA StatusChanges ==
    ASSUME TypeOK, Stamped, NEW i \in 1..Len(runs), NEW from, NEW to \in RunStatus,
           RunBecomes(i, from, to), stamp' = stamp \/ stamp' = Touch(i)
    PROVE  /\ Len(runs') = Len(runs) /\ runs'[i].status = to
           /\ \A j \in 1..Len(runs) : j # i => runs'[j] = runs[j]
           /\ \A j \in 1..Len(runs) : runs'[j].node = runs[j].node
           /\ \A n \in 1..Nodes : RunsOf(n)' = RunsOf(n)
<1>1. /\ Len(runs') = Len(runs) /\ runs'[i].status = to
      /\ \A j \in 1..Len(runs) : j # i => runs'[j] = runs[j]
    BY RunChanges
<1>2. runs'[i].node = runs[i].node
    <2>1. runs \in Seq(Run) /\ runs[i] \in Run
        BY DEF TypeOK
    <2>2. runs' = [runs EXCEPT ![i] = [runs[i] EXCEPT !.status = to]]
        BY <2>1 DEF RunBecomes
    <2>3. [runs[i] EXCEPT !.status = to].node = runs[i].node
        BY <2>1 DEF Run
    <2> QED
        BY <2>1, <2>2, <2>3
<1>3. \A j \in 1..Len(runs) : runs'[j].node = runs[j].node
    BY <1>1, <1>2
<1>4. \A n \in 1..Nodes : RunsOf(n)' = RunsOf(n)
    BY <1>1, <1>3 DEF RunsOf
<1> QED
    BY <1>1, <1>3, <1>4

(* Where the runs are found after one of them was touched. *)
LEMMA TouchPlaces ==
    ASSUME TypeOK, Stamped, NEW i \in 1..Len(runs)
    PROVE  /\ Place(i) \in 1..Len(stamp) /\ stamp[Place(i)] = i
           /\ Len(stamp) \in Nat /\ Len(Touch(i)) = Len(stamp)
           /\ Touch(i)[Len(stamp)] = i
           /\ \A k \in 1 .. Len(stamp) - 1 :
                 Touch(i)[k] = IF k < Place(i) THEN stamp[k] ELSE stamp[k + 1]
<1> DEFINE p == Place(i)
           R == 1..Len(runs)
           t == Touch(i)
<1>1. stamp \in Seq(R) /\ Len(stamp) \in Nat /\ i \in R
    BY DEF TypeOK
<1>2. p \in 1..Len(stamp) /\ stamp[p] = i
    BY DEF Stamped, Place
<1>3. t = Append(RemoveAt(stamp, p), i)
    BY DEF Touch
<1> HIDE DEF p, R, t
<1>4. /\ Len(t) = Len(stamp) /\ t[Len(stamp)] = i
      /\ \A k \in 1 .. p - 1 : t[k] = stamp[k]
      /\ \A k \in p + 1 .. Len(stamp) : t[k - 1] = stamp[k]
    BY <1>1, <1>2, <1>3, MoveLast
<1>5. ASSUME NEW k \in 1 .. Len(stamp) - 1
      PROVE  t[k] = IF k < p THEN stamp[k] ELSE stamp[k + 1]
    <2>1. CASE k < p
        <3>1. k \in 1 .. p - 1
            BY <1>1, <1>2, <2>1
        <3> QED
            BY <1>4, <2>1, <3>1
    <2>2. CASE ~(k < p)
        <3>1. k + 1 \in p + 1 .. Len(stamp) /\ (k + 1) - 1 = k
            BY <1>1, <1>2, <2>2
        <3>2. t[(k + 1) - 1] = stamp[k + 1]
            BY <1>4, <3>1
        <3> QED
            BY <2>2, <3>1, <3>2
    <2> QED
        BY <2>1, <2>2
<1> QED
    BY <1>1, <1>2, <1>4, <1>5 DEF p, t

(* The last run stays the one that decides when it changes, or when        *)
(* another run is cancelled.                                               *)
LEMMA LatestKept ==
    ASSUME TypeOK, Stamped, LatestStamped, NEW i \in 1..Len(runs), NEW from, NEW to \in RunStatus,
           RunBecomes(i, from, to), stamp' = stamp \/ stamp' = Touch(i),
           i = Len(runs) \/ to = "cancelled"
    PROVE  LatestStamped'
<1> DEFINE l == Len(runs)
           p == Place(i)
           Late(k) == k = l \/ runs[k].status = "cancelled"
<1>1. l \in Nat /\ l > 0 /\ Len(runs') = l /\ Len(stamp) \in Nat
    BY StatusChanges DEF TypeOK
<1>2. \A k \in 1..Len(stamp) : stamp[k] \in 1..Len(runs)
    BY DEF TypeOK
<1>3. PICK a \in 1..Len(stamp) : stamp[a] = l /\ \A b \in a + 1 .. Len(stamp) : Late(stamp[b])
    BY <1>1 DEF LatestStamped
<1>4. ASSUME NEW k \in 1..Len(runs), Late(k) PROVE k = l \/ runs'[k].status = "cancelled"
    <2>1. CASE k = i
        BY <2>1, StatusChanges
    <2>2. CASE k # i
        BY <1>4, <2>2, StatusChanges
    <2> QED
        BY <2>1, <2>2
<1>5. CASE stamp' = stamp
    <2>1. \A b \in a + 1 .. Len(stamp) : b \in 1..Len(stamp)
        BY <1>1, <1>3
    <2>2. \A b \in a + 1 .. Len(stamp) : stamp[b] = l \/ runs'[stamp[b]].status = "cancelled"
        BY <1>2, <1>3, <1>4, <2>1
    <2> QED
        BY <1>1, <1>3, <1>5, <2>2 DEF LatestStamped
<1>6. CASE stamp' = Touch(i)
    <2>1. /\ p \in 1..Len(stamp) /\ stamp[p] = i
          /\ Len(stamp') = Len(stamp) /\ stamp'[Len(stamp)] = i
          /\ \A k \in 1 .. Len(stamp) - 1 :
                stamp'[k] = IF k < p THEN stamp[k] ELSE stamp[k + 1]
        BY <1>6, TouchPlaces
    <2> HIDE DEF p
    <2>2. CASE i = l
        <3>1. Len(stamp) \in 1..Len(stamp') /\ \A b \in Len(stamp) + 1 .. Len(stamp') : FALSE
            BY <1>1, <2>1
        <3> QED
            BY <1>1, <2>1, <2>2, <3>1 DEF LatestStamped
    <2>3. CASE i # l
        <3> DEFINE c == IF a < p THEN a ELSE a - 1
        <3>1. a # p
            BY <1>3, <2>1, <2>3
        <3>2. c \in 1 .. Len(stamp) - 1 /\ c <= a
            BY <1>1, <1>3, <2>1, <3>1
        <3>3. stamp'[c] = l
            <4>1. CASE a < p
                BY <1>3, <2>1, <3>2, <4>1
            <4>2. CASE ~(a < p)
                <5>1. c = a - 1 /\ ~(c < p) /\ c + 1 = a
                    BY <1>1, <1>3, <2>1, <3>1, <4>2
                <5> QED
                    BY <1>3, <2>1, <3>2, <5>1
            <4> QED
                BY <4>1, <4>2
        <3>4. ASSUME NEW b \in c + 1 .. Len(stamp)
              PROVE  stamp'[b] = l \/ runs'[stamp'[b]].status = "cancelled"
            <4>1. CASE b = Len(stamp)
                BY <2>1, <2>3, <4>1, StatusChanges
            <4>2. CASE b # Len(stamp) /\ b < p
                <5>1. b \in 1 .. Len(stamp) - 1 /\ b \in a + 1 .. Len(stamp) /\ b \in 1..Len(stamp)
                    BY <1>1, <1>3, <2>1, <3>1, <3>2, <4>2
                <5> QED
                    BY <1>2, <1>3, <1>4, <2>1, <4>2, <5>1
            <4>3. CASE b # Len(stamp) /\ ~(b < p)
                <5>1. /\ b \in 1 .. Len(stamp) - 1 /\ b + 1 \in a + 1 .. Len(stamp)
                      /\ b + 1 \in 1..Len(stamp)
                    BY <1>1, <1>3, <2>1, <3>1, <3>2, <4>3
                <5> QED
                    BY <1>2, <1>3, <1>4, <2>1, <4>3, <5>1
            <4> QED
                BY <4>1, <4>2, <4>3
        <3>5. c \in 1..Len(stamp') /\ Len(stamp') = Len(stamp)
            BY <1>1, <2>1, <3>2
        <3> HIDE DEF c
        <3> QED
            BY <1>1, <3>3, <3>4, <3>5 DEF LatestStamped
    <2> QED
        BY <2>2, <2>3
<1> QED
    BY <1>5, <1>6

(* A run that is over only becomes CANCELLED, which keeps a node cleared.  *)
LEMMA ClearedKept ==
    ASSUME TypeOK, Stamped, NEW i \in 1..Len(runs), NEW from, NEW to \in RunStatus,
           RunBecomes(i, from, to), stamp' = stamp \/ stamp' = Touch(i),
           NEW n \in 1..Nodes, Cleared(n), to = "cancelled" \/ i \notin RunsOf(n)
    PROVE  Cleared(n)'
<1>1. PICK k \in RunsOf(n) : Passed(k) /\ \A j \in RunsOf(n) : j <= k
    BY DEF Cleared
<1>2. k \in 1..Len(runs) /\ RunsOf(n)' = RunsOf(n)
    BY <1>1, StatusChanges DEF RunsOf
<1>3. Passed(k)'
    <2>1. CASE k = i
        BY <1>1, <2>1, StatusChanges DEF Passed
    <2>2. CASE k # i
        <3>1. runs'[k] = runs[k]
            BY <1>2, <2>2, StatusChanges
        <3> QED
            BY <1>1, <3>1 DEF Passed
    <2> QED
        BY <2>1, <2>2
<1> QED
    BY <1>1, <1>2, <1>3 DEF Cleared

(* An unfinished run changes, which is the last one, or a run that is over *)
(* is cancelled late.                                                      *)
LEMMA WalkRun ==
    ASSUME TokenInv, NoRepeats, Walk,
           NEW i \in 1..Len(runs), NEW from, NEW to \in RunStatus,
           RunBecomes(i, from, to), stamp' = stamp \/ stamp' = Touch(i),
           writers' \subseteq writers, used'.cancels = used.cancels,
           i \in Active \/ (to = "cancelled" /\ advances' = advances),
           to = "cancelled" => <<i, "cancel">> \in writers
    PROVE  Walk'
<1>1. /\ TypeOK /\ Stamped
      /\ UNCHANGED <<chain, dispatches, starting>>
    BY DEF TokenInv, RunBecomes
<1>2. /\ Len(runs') = Len(runs) /\ runs'[i].status = to /\ Len(runs) \in Nat /\ Len(runs) > 0
      /\ \A j \in 1..Len(runs) : j # i => runs'[j] = runs[j]
      /\ \A j \in 1..Len(runs) : runs'[j].node = runs[j].node
      /\ \A n \in 1..Nodes : RunsOf(n)' = RunsOf(n)
    <2>1. Len(runs) \in Nat
        BY <1>1 DEF TypeOK
    <2> QED
        BY <1>1, <2>1, StatusChanges
<1>3. i \in Active => i = Len(runs) /\ chain.status \notin Final /\ \A n \in 1..Nodes : ~Coming(n)
    BY Exclusive DEF Walk, LastOnly, VerdictFinal, Idle
<1>4. i \notin Active => to = "cancelled" /\ advances' = advances /\ i \notin Active'
    BY <1>2 DEF Active, RunTerminal
<1>5. \A n \in 1..Nodes : Coming(n)' <=> Coming(n)
    BY <1>1 DEF Coming
<1>6. InOrder'
    <2>1. Len(runs) \in 1..Len(runs)
        BY <1>2
    <2>2. runs'[Len(runs')].node = runs[Len(runs)].node
        BY <1>2, <2>1
    <2>3. chain'.current = runs'[Len(runs')].node /\ Len(runs') # 0
        BY <1>1, <1>2, <2>2 DEF Walk, InOrder
    <2>4. \A j \in 1..Len(runs') : runs'[j].node <= chain'.current
        BY <1>1, <1>2 DEF Walk, InOrder
    <2> QED
        BY <2>3, <2>4 DEF InOrder
<1>7. Active' \subseteq Active \cup {i}
    BY <1>2 DEF Active
<1>8. LastOnly'
    <2>1. Active' \subseteq {Len(runs')}
        BY <1>2, <1>3, <1>4, <1>7 DEF Walk, LastOnly
    <2>2. ASSUME NEW j \in 1 .. Len(runs') - 1, runs'[j].node = chain'.current
          PROVE  runs'[j].status \in {"failed", "cancelled"}
        <3>1. j \in 1 .. Len(runs) - 1 /\ j \in 1..Len(runs) /\ j # Len(runs)
            BY <1>2, <2>2
        <3>2. runs[j].node = chain.current
            BY <1>1, <1>2, <2>2, <3>1
        <3>3. runs[j].status \in {"failed", "cancelled"}
            BY <3>1, <3>2 DEF Walk, LastOnly
        <3>4. CASE j = i
            BY <1>2, <1>3, <1>4, <3>1, <3>4
        <3>5. CASE j # i
            BY <1>2, <3>1, <3>3, <3>5
        <3> QED
            BY <3>4, <3>5
    <2> QED
        BY <2>1, <2>2 DEF LastOnly
<1>9. ASSUME NEW n \in 1..Nodes, Cleared(n), i \in Active => n # chain.current PROVE Cleared(n)'
    <2>1. i \in Active => i \notin RunsOf(n)
        <3>1. i \in Active => runs[i].node = chain.current
            BY <1>2, <1>3 DEF Walk, InOrder
        <3> QED
            BY <1>9, <3>1 DEF RunsOf
    <2> QED
        BY <1>1, <1>4, <1>9, <2>1, ClearedKept
<1>10. chain.current \in 0..Nodes /\ Nodes \in Nat
    BY <1>1, ChainAssumption DEF TypeOK
<1>11. BehindCleared'
    <2>1. ASSUME NEW n \in 1 .. chain.current - 1 PROVE Cleared(n)'
        <3>1. n \in 1..Nodes /\ n # chain.current
            BY <1>10
        <3>2. Cleared(n)
            BY DEF Walk, BehindCleared
        <3> QED
            BY <1>9, <3>1, <3>2
    <2> QED
        BY <1>1, <2>1 DEF BehindCleared
<1>12. ComingMayStart'
    <2>1. ASSUME NEW n \in 1..Nodes, Coming(n)' PROVE MayStart(n)'
        <3>1. Coming(n) /\ MayStart(n) /\ i \notin Active /\ to = "cancelled"
            BY <1>3, <1>4, <1>5, <2>1 DEF Walk, ComingMayStart
        <3>2. \A m \in 1 .. n - 1 : Cleared(m)'
            <4>1. \A m \in 1 .. n - 1 : m \in 1..Nodes
                BY <1>10
            <4> QED
                BY <1>9, <3>1, <4>1 DEF MayStart
        <3>3. ASSUME runs[Len(runs)].status \in {"failed", "cancelled"}
              PROVE  runs'[Len(runs')].status \in {"failed", "cancelled"}
            <4>1. CASE i = Len(runs)
                BY <1>2, <3>1, <4>1
            <4>2. CASE i # Len(runs)
                BY <1>2, <3>3, <4>2
            <4> QED
                BY <4>1, <4>2
        <3>4. RunsOf(n)' = RunsOf(n)
            BY <1>2
        <3> QED
            BY <1>1, <1>2, <3>1, <3>2, <3>3, <3>4 DEF MayStart
    <2> QED
        BY <2>1 DEF ComingMayStart
<1>13. RetryBound'
    BY <1>2 DEF Walk, RetryBound
<1>14. VerdictFinal'
    <2>1. ASSUME chain'.status \in Final PROVE i \notin Active /\ Idle'
        <3>1. i \notin Active /\ Idle
            BY <1>1, <1>3, <2>1 DEF Walk, VerdictFinal
        <3>2. Active' = {}
            BY <1>4, <1>7, <3>1 DEF Idle
        <3> QED
            BY <1>4, <1>5, <3>1, <3>2 DEF Idle
    <2>2. ASSUME chain'.status = "success", NEW n \in 1..Nodes PROVE Cleared(n)'
        <3>1. Cleared(n) /\ i \notin Active
            BY <1>1, <2>1, <2>2 DEF Walk, VerdictFinal, Final
        <3> QED
            BY <1>9, <3>1
    <2> QED
        BY <2>1, <2>2 DEF VerdictFinal
<1>15. CancelsCounted'
    <2>1. Cancels' \subseteq Cancels
        BY <1>2 DEF Cancels
    <2>2. IsFiniteSet(1..Len(runs)) /\ Cancels \subseteq 1..Len(runs)
        BY <1>2, FS_Interval DEF Cancels
    <2>3. IsFiniteSet(Cancels)
        BY <2>2, FS_Subset
    <2>4. Cardinality(Cancels') <= Cardinality(Cancels) /\ Cardinality(Cancels') \in Nat
          /\ Cardinality(Cancels) \in Nat
        BY <2>1, <2>3, NoMore
    <2>5. Cardinality(Cancels) <= used.cancels /\ used.cancels \in Nat
        BY <1>1, ChainAssumption DEF Walk, CancelsCounted, TypeOK
    <2> QED
        BY <2>4, <2>5 DEF CancelsCounted
<1>16. LatestStamped'
    <2>1. i = Len(runs) \/ to = "cancelled"
        BY <1>3, <1>4
    <2> QED
        BY <1>1, <2>1, LatestKept DEF Walk
<1> QED
    BY <1>6, <1>8, <1>11, <1>12, <1>13, <1>14, <1>15, <1>16 DEF Walk

-----------------------------------------------------------------------------
(* The runs stay as they are.                                              *)

(* A step that changes no run and starts nothing new keeps the way. *)
LEMMA WalkFrame ==
    ASSUME TypeOK, TypeOK', Walk, UNCHANGED <<runs, stamp>>, Active' \subseteq Active,
           chain'.current = chain.current, used.cancels <= used'.cancels, CancelsCounted',
           \A n \in 1..Nodes : Coming(n)' => Coming(n) \/ MayStart(n),
           chain'.status \in Final => Idle',
           chain'.status = "success" => \A n \in 1..Nodes : Cleared(n)
    PROVE  Walk'
<1>1. \A n \in 1..Nodes : RunsOf(n)' = RunsOf(n) /\ (Cleared(n)' <=> Cleared(n))
    BY DEF RunsOf, Cleared, Passed
<1>2. /\ chain.current \in 0..Nodes /\ Nodes \in Nat /\ MaxRetries \in Nat
      /\ used.cancels \in Nat /\ used'.cancels \in Nat /\ Len(runs) \in Nat
    BY ChainAssumption DEF TypeOK
<1>3. \A n \in 1..Nodes : Cardinality(RunsOf(n)) \in Nat
    <2>1. IsFiniteSet(1..Len(runs))
        BY <1>2, FS_Interval
    <2>2. \A n \in 1..Nodes : RunsOf(n) \subseteq 1..Len(runs)
        BY DEF RunsOf
    <2> QED
        BY <2>1, <2>2, FS_Subset, FS_CardinalityType
<1>4. ASSUME NEW n \in 1..Nodes, MayStart(n) PROVE MayStart(n)'
    <2>1. \A m \in 1 .. n - 1 : Cleared(m)'
        <3>1. \A m \in 1 .. n - 1 : m \in 1..Nodes
            BY <1>2
        <3> QED
            BY <1>1, <1>4, <3>1 DEF MayStart
    <2>2. ASSUME Cardinality(RunsOf(n)) <= MaxRetries + used.cancels
          PROVE  Cardinality(RunsOf(n)') <= MaxRetries + used'.cancels
        <3>1. Cardinality(RunsOf(n)') = Cardinality(RunsOf(n))
            BY <1>1
        <3> QED
            BY <1>2, <1>3, <2>2, <3>1
    <2> QED
        BY <1>4, <2>1, <2>2 DEF MayStart
<1>5. InOrder'
    BY DEF Walk, InOrder
<1>6. LastOnly'
    BY DEF Walk, LastOnly
<1>7. BehindCleared'
    <2>1. \A n \in 1 .. chain.current - 1 : n \in 1..Nodes
        BY <1>2
    <2> QED
        BY <1>1, <2>1 DEF Walk, BehindCleared
<1>8. ComingMayStart'
    BY <1>4 DEF Walk, ComingMayStart
<1>9. RetryBound'
    <2>1. ASSUME NEW n \in 1..Nodes
          PROVE  Cardinality(RunsOf(n)') <=
                    IF OnFailure[n] = "retry" THEN MaxRetries + 1 + used'.cancels ELSE 1
        <3>1. Cardinality(RunsOf(n)) <=
                IF OnFailure[n] = "retry" THEN MaxRetries + 1 + used.cancels ELSE 1
            BY DEF Walk, RetryBound
        <3>2. Cardinality(RunsOf(n)') = Cardinality(RunsOf(n))
            BY <1>1
        <3> QED
            BY <1>2, <1>3, <3>1, <3>2
    <2> QED
        BY <2>1 DEF RetryBound
<1>10. VerdictFinal'
    BY <1>1 DEF VerdictFinal
<1>11. LatestStamped'
    BY DEF Walk, LatestStamped
<1> QED
    BY <1>5, <1>6, <1>7, <1>8, <1>9, <1>10, <1>11 DEF Walk

-----------------------------------------------------------------------------
(* A step that is no run's.                                                *)

(* Nothing is repeated, so nothing is spent on repetitions. *)
LEMMA NothingRepeated ==
    ASSUME TypeOK, NoRepeats, NoRepeats'
    PROVE  /\ ~Spend("redelivered", MaxRedelivered)
           /\ ~Spend("duplicates", MaxDuplicates)
           /\ \A twice \in BOOLEAN :
                 Again(twice, "redelivered", MaxRedelivered) \/ Again(twice, "duplicates", MaxDuplicates)
                    => ~twice /\ UNCHANGED used
<1>1. used.redelivered \in Nat /\ used.duplicates \in Nat
    BY ChainAssumption DEF TypeOK
<1>2. Allowed = 1
    BY <1>1 DEF NoRepeats, Allowed
<1>3. ASSUME used' \in UsedType PROVE Allowed' = 1
    <2>1. used'.redelivered \in Nat /\ used'.duplicates \in Nat
        BY <1>3, ChainAssumption DEF UsedType
    <2> QED
        BY <2>1 DEF NoRepeats, Allowed
<1>4. /\ ~Spend("redelivered", MaxRedelivered)
      /\ ~Spend("duplicates", MaxDuplicates)
    BY <1>2, <1>3, Spent
<1> QED
    BY <1>4 DEF Again

(* A result or a cancellation passes its check: the run is unfinished.     *)
LEMMA WalkCheck ==
    ASSUME TokenInv, TokenInv', Walk, NEW i \in 1..Len(runs),
           ResultChecked(i) \/ CancelChecked(i)
    PROVE  Walk'
<1>1. /\ TypeOK /\ TypeOK' /\ i \in Active
      /\ UNCHANGED <<chain, runs, stamp, dispatches, advances, starting>>
    BY DEF TokenInv, ResultChecked, CancelChecked, Active, RunTerminal
<1>2. Len(runs) \in Nat /\ used.cancels \in Nat
    BY <1>1, ChainAssumption DEF TypeOK
<1>3. Active' \subseteq Active
    BY <1>1 DEF ResultChecked, CancelChecked, Active
<1>4. IsFiniteSet(Cancels) /\ Cardinality(Cancels) \in Nat /\ Cardinality(Cancels) <= used.cancels
    <2>1. IsFiniteSet(1..Len(runs)) /\ Cancels \subseteq 1..Len(runs)
        BY <1>2, FS_Interval DEF Cancels
    <2> QED
        BY <2>1, FS_Subset, FS_CardinalityType DEF Walk, CancelsCounted
<1>5. used.cancels <= used'.cancels /\ CancelsCounted'
    <2>1. CASE ResultChecked(i)
        <3>1. Cancels' = Cancels /\ used' = used
            BY <2>1 DEF ResultChecked, Cancels
        <3> QED
            BY <1>2, <1>4, <3>1 DEF CancelsCounted
    <2>2. CASE CancelChecked(i)
        <3>1. Cancels' \subseteq Cancels \cup {i}
            BY <1>1, <2>2 DEF CancelChecked, Cancels
        <3>2. Cardinality(Cancels') \in Nat /\ Cardinality(Cancels') <= Cardinality(Cancels) + 1
            BY <1>4, <3>1, OneMore
        <3>3. used'.cancels = used.cancels + 1
            BY <1>1, <2>2 DEF CancelChecked, Spend, TypeOK
        <3> QED
            BY <1>2, <1>4, <3>2, <3>3 DEF CancelsCounted
    <2> QED
        BY <2>1, <2>2
<1>6. \A n \in 1..Nodes : Coming(n)' => Coming(n)
    BY <1>1 DEF Coming
<1>7. /\ chain'.status \in Final => Idle'
      /\ chain'.status = "success" => \A n \in 1..Nodes : Cleared(n)
    BY <1>1, <1>3, <1>6 DEF Walk, VerdictFinal, Idle
<1> QED
    BY <1>1, <1>3, <1>5, <1>6, <1>7, WalkFrame

(* A message for a node is taken. *)
LEMMA WalkTaken ==
    ASSUME TokenInv, TokenInv', Walk, NEW n \in 1..Nodes,
           DispatchDropped(n) \/ \E t \in Threads : DispatchChecked(t, n)
    PROVE  Walk'
<1>1. /\ TypeOK /\ TypeOK' /\ dispatches[n] > 0
      /\ UNCHANGED <<chain, runs, stamp, advances, writers, used>>
      /\ dispatches' = [dispatches EXCEPT ![n] = @ - 1]
    BY DEF TokenInv, DispatchDropped, DispatchChecked
<1>2. Coming(n)
    BY <1>1 DEF Coming
<1>3. \A m \in 1..Nodes : Coming(m)' => Coming(m)
    <2>1. \A m \in 1..Nodes : dispatches'[m] = IF m = n THEN dispatches[m] - 1 ELSE dispatches[m]
        BY <1>1 DEF TypeOK
    <2>2. \A m \in 1..Nodes : dispatches'[m] > 0 => dispatches[m] > 0
        BY <1>1, <2>1 DEF TypeOK
    <2>3. \A t \in Threads : starting'[t] = starting[t] \/ starting'[t] = n
        BY DEF DispatchDropped, DispatchChecked, TokenInv, TypeOK
    <2> QED
        BY <1>2, <2>2, <2>3 DEF Coming
<1>4. Active' \subseteq Active /\ CancelsCounted' /\ used.cancels <= used'.cancels
    <2>1. Active' = Active /\ Cancels' = Cancels /\ used' = used
        BY <1>1 DEF Active, Cancels
    <2>2. used.cancels \in Nat
        BY <1>1, ChainAssumption DEF TypeOK
    <2> QED
        BY <2>1, <2>2 DEF Walk, CancelsCounted
<1>5. chain'.status \notin Final /\ chain'.status # "success"
    BY <1>1, <1>2 DEF Walk, VerdictFinal, Final, Idle
<1> QED
    BY <1>1, <1>3, <1>4, <1>5, WalkFrame

(* A node is started. *)
LEMMA WalkStarted ==
    ASSUME TokenInv, TokenInv', NoRepeats, Walk, NEW t \in Threads,
           NEW r \in {"pending", "failed"}, NEW c \in {"running", "failed"},
           NodeStarted(t, r, c), dispatches' = dispatches, used'.cancels = used.cancels
    PROVE  Walk'
<1> DEFINE l == Len(runs) + 1
<1>1. /\ TypeOK /\ Stamped /\ Len(runs) \in Nat /\ Nodes \in Nat /\ MaxRetries \in Nat
      /\ chain.current \in 0..Nodes /\ used.cancels \in Nat
      /\ starting \in [Threads -> 0..Nodes]
      /\ runs \in Seq(Run) /\ stamp \in Seq(1..Len(runs))
      /\ writers \subseteq (1..Len(runs)) \X {"result", "cancel"}
    <2>1. TypeOK /\ Stamped
        BY DEF TokenInv
    <2>2. Nodes \in Nat /\ MaxRetries \in Nat /\ MaxCancels \in Nat
        BY ChainAssumption
    <2>3. /\ runs \in Seq(Run) /\ chain.current \in 0..Nodes /\ used.cancels \in 0..MaxCancels
          /\ starting \in [Threads -> 0..Nodes] /\ stamp \in Seq(1..Len(runs))
          /\ writers \subseteq (1..Len(runs)) \X {"result", "cancel"}
        BY <2>1 DEF TypeOK
    <2> QED
        BY <2>1, <2>2, <2>3
<1>2. PICK n \in 1..Nodes : n = starting[t]
    BY <1>1 DEF NodeStarted
<1>3. /\ chain' = [status |-> c, current |-> n]
      /\ starting' = [starting EXCEPT ![t] = 0]
      /\ UNCHANGED <<advances, writers>>
    BY <1>2 DEF NodeStarted
<1>4. /\ Len(runs') = l /\ runs'[l] = [node |-> n, status |-> r]
      /\ \A j \in 1..Len(runs) : runs'[j] = runs[j]
    BY <1>1, <1>2 DEF NodeStarted
<1>5. Len(stamp') = Len(stamp) + 1 /\ Len(stamp) \in Nat /\ stamp'[Len(stamp) + 1] = l
    BY <1>1 DEF NodeStarted
<1>6. \A j \in 1..Len(runs) : runs[j].node \in Nat /\ runs[j].node <= chain.current
    <2>1. \A j \in 1..Len(runs) : runs[j] \in Run
        BY <1>1
    <2>2. \A j \in 1..Len(runs) : runs[j].node \in 1..Nodes
        BY <2>1 DEF Run
    <2> QED
        BY <1>1, <2>2 DEF Walk, InOrder
<1>7. MayStart(n)
    <2>1. Coming(n)
        BY <1>2 DEF Coming
    <2> QED
        BY <1>2, <2>1 DEF Walk, ComingMayStart
<1>8. Active = {} /\ \A m \in 1..Nodes : ~Coming(m)'
    <2>1. starting[t] # 0
        BY DEF NodeStarted
    <2>2. /\ Active = {} /\ \A m \in 1..Nodes : dispatches[m] = 0
          /\ \A u \in Threads : u # t => starting[u] = 0
        BY <2>1, Exclusive
    <2>3. \A u \in Threads : starting'[u] = 0
        BY <1>1, <1>3, <2>2
    <2> QED
        BY <2>2, <2>3 DEF Coming
<1> HIDE DEF l
<1>9. /\ \A m \in 1..Nodes : m # n => RunsOf(m)' = RunsOf(m)
      /\ RunsOf(n)' = RunsOf(n) \cup {l}
    <2>1. 1..Len(runs') = (1..Len(runs)) \cup {l}
        BY <1>1, <1>4 DEF l
    <2>2. runs'[l].node = n
        BY <1>4
    <2>3. ASSUME NEW m \in 1..Nodes, m # n PROVE RunsOf(m)' = RunsOf(m)
        BY <1>4, <2>1, <2>2, <2>3 DEF RunsOf
    <2>4. RunsOf(n)' = RunsOf(n) \cup {l}
        BY <1>4, <2>1, <2>2 DEF RunsOf
    <2> QED
        BY <2>3, <2>4
<1>10. n = chain.current + 1 \/ n = chain.current
    BY <1>7 DEF MayStart
<1>11. InOrder'
    <2>1. chain'.current = runs'[Len(runs')].node /\ Len(runs') # 0
        BY <1>1, <1>3, <1>4 DEF l
    <2>2. ASSUME NEW j \in 1..Len(runs') PROVE runs'[j].node <= chain'.current
        <3>1. CASE j = l
            BY <1>2, <1>3, <1>4, <3>1
        <3>2. CASE j # l
            <4>1. j \in 1..Len(runs)
                BY <1>1, <1>4, <2>2, <3>2 DEF l
            <4>2. chain.current <= n
                BY <1>1, <1>10
            <4> QED
                BY <1>1, <1>3, <1>4, <1>6, <4>1, <4>2
        <3> QED
            BY <3>1, <3>2
    <2> QED
        BY <2>1, <2>2 DEF InOrder
<1>12. LastOnly'
    <2>1. Active' \subseteq {Len(runs')}
        <3>1. ASSUME NEW j \in Active', j # l PROVE FALSE
            <4>1. j \in 1..Len(runs)
                BY <1>1, <1>4, <3>1 DEF Active, l
            <4>2. j \in Active
                BY <1>3, <1>4, <3>1, <4>1 DEF Active
            <4> QED
                BY <1>8, <4>2
        <3> QED
            BY <1>4, <3>1
    <2>2. ASSUME NEW j \in 1 .. Len(runs') - 1, runs'[j].node = chain'.current
          PROVE  runs'[j].status \in {"failed", "cancelled"}
        <3>1. j \in 1..Len(runs) /\ runs'[j] = runs[j] /\ runs[j].node = n
            BY <1>1, <1>3, <1>4, <2>2 DEF l
        <3>3. n = chain.current /\ n # chain.current + 1
            BY <1>1, <1>10, <1>6, <3>1
        <3>4. CASE j = Len(runs)
            BY <1>7, <3>1, <3>3, <3>4 DEF MayStart
        <3>5. CASE j # Len(runs)
            <4>1. j \in 1 .. Len(runs) - 1
                BY <1>1, <3>1, <3>5
            <4> QED
                BY <3>1, <3>3, <4>1 DEF Walk, LastOnly
        <3> QED
            BY <3>4, <3>5
    <2> QED
        BY <2>1, <2>2 DEF LastOnly
<1>13. BehindCleared'
    <2>1. ASSUME NEW m \in 1 .. n - 1 PROVE Cleared(m)'
        <3>1. m \in 1..Nodes /\ m # n /\ RunsOf(m)' = RunsOf(m)
            BY <1>1, <1>2, <1>9
        <3>2. PICK k \in RunsOf(m) : Passed(k) /\ \A j \in RunsOf(m) : j <= k
            BY <1>7 DEF MayStart, Cleared
        <3>3. Passed(k)'
            <4>1. runs'[k] = runs[k]
                BY <1>4, <3>2 DEF RunsOf
            <4> QED
                BY <3>2, <4>1 DEF Passed
        <3> QED
            BY <3>1, <3>2, <3>3 DEF Cleared
    <2> QED
        BY <1>3, <2>1 DEF BehindCleared
<1>14. RetryBound'
    <2>1. ASSUME NEW m \in 1..Nodes
          PROVE  Cardinality(RunsOf(m)') <=
                    IF OnFailure[m] = "retry" THEN MaxRetries + 1 + used'.cancels ELSE 1
        <3>1. CASE m # n
            <4>1. Cardinality(RunsOf(m)') = Cardinality(RunsOf(m))
                BY <1>9, <3>1
            <4> QED
                BY <4>1 DEF Walk, RetryBound
        <3>2. CASE m = n /\ n = chain.current + 1
            <4>1. RunsOf(n) = {}
                <5>1. \A j \in 1..Len(runs) : runs[j].node # n
                    BY <1>1, <1>6, <3>2
                <5> QED
                    BY <5>1 DEF RunsOf
            <4>2. Cardinality(RunsOf(n)') = 1
                <5>1. RunsOf(n)' = {l}
                    BY <1>2, <1>9, <4>1
                <5> QED
                    BY <5>1, FS_Singleton
            <4>3. 1 <= MaxRetries + 1 + used'.cancels
                BY <1>1
            <4> QED
                BY <3>2, <4>2, <4>3
        <3>3. CASE m = n /\ n # chain.current + 1
            <4>1. OnFailure[n] = "retry" /\ Cardinality(RunsOf(n)) <= MaxRetries + used.cancels
                BY <1>7, <3>3 DEF MayStart
            <4>2. IsFiniteSet(RunsOf(n)) /\ Cardinality(RunsOf(n)) \in Nat
                <5>1. IsFiniteSet(1..Len(runs)) /\ RunsOf(n) \subseteq 1..Len(runs)
                    BY <1>1, FS_Interval DEF RunsOf
                <5> QED
                    BY <5>1, FS_Subset, FS_CardinalityType
            <4>3. /\ Cardinality(RunsOf(n)') \in Nat
                  /\ Cardinality(RunsOf(n)') <= Cardinality(RunsOf(n)) + 1
                <5>1. RunsOf(n)' \subseteq RunsOf(n) \cup {l}
                    BY <1>2, <1>9
                <5> QED
                    BY <4>2, <5>1, OneMore
            <4>4. Cardinality(RunsOf(n)') <= MaxRetries + 1 + used'.cancels
                BY <1>1, <4>1, <4>2, <4>3
            <4> QED
                BY <3>3, <4>1, <4>4
        <3> QED
            BY <3>1, <3>2, <3>3
    <2> QED
        BY <2>1 DEF RetryBound
<1>15. CancelsCounted'
    <2>1. Cancels' = Cancels
        <3>1. \A j : j \in 1..l <=> j \in 1..Len(runs) \/ j = l
            BY <1>1 DEF l
        <3>2. l \notin 1..Len(runs) /\ <<l, "cancel">> \notin writers
            BY <1>1 DEF l
        <3> QED
            BY <1>3, <1>4, <3>1, <3>2 DEF Cancels
    <2> QED
        BY <2>1 DEF Walk, CancelsCounted
<1>16. LatestStamped'
    <2>1. Len(stamp) + 1 \in 1..Len(stamp') /\ \A b \in (Len(stamp) + 1) + 1 .. Len(stamp') : FALSE
        BY <1>5
    <2> QED
        BY <1>4, <1>5, <2>1 DEF LatestStamped
<1> QED
    BY <1>3, <1>8, <1>11, <1>12, <1>13, <1>14, <1>15, <1>16 DEF Walk, ComingMayStart, VerdictFinal, Final

(* The run that advance_chain_execution looks at is the last one, unless it *)
(* is one that was cancelled late.                                         *)
LEMMA LastDecides ==
    ASSUME TypeOK, LatestStamped, Active = {}, LastDone # 0
    PROVE  /\ Len(runs) \in Nat /\ Len(runs) > 0 /\ LastDone \in 1..Len(runs)
           /\ LastDone = Len(runs) \/ runs[LastDone].status = "cancelled"
<1> DEFINE done == {k \in 1..Len(stamp) : runs[stamp[k]].status \notin {"pending", "running"}}
           e == Len(stamp)
<1>1. stamp \in Seq(1..Len(runs)) /\ e \in Nat /\ Len(runs) \in Nat
    BY DEF TypeOK
<1>2. done # {} /\ LastDone = stamp[Max(done)]
    BY DEF LastDone
<1>3. \A k \in 1..e : stamp[k] \in 1..Len(runs)
    BY <1>1
<1>4. \A i \in 1..Len(runs) : runs[i].status \notin {"pending", "running"}
    BY DEF Active, RunTerminal
<1>5. done = 1..e
    BY <1>3, <1>4
<1>6. Max(done) \in done /\ \A y \in done : y <= Max(done)
    <2>1. done \subseteq 1..e
        OBVIOUS
    <2> HIDE DEF done
    <2> QED
        BY <1>1, <1>2, <2>1, GreatestExists
<1>7. Max(done) = e /\ e \in 1..e
    <2> HIDE DEF done
    <2>1. e \in done
        BY <1>1, <1>2, <1>5
    <2>2. e <= Max(done) /\ Max(done) \in 1..e
        BY <1>5, <1>6, <2>1
    <2> QED
        BY <1>1, <1>5, <2>1, <2>2
<1> HIDE DEF done
<1>8. LastDone = stamp[e] /\ stamp[e] \in 1..Len(runs) /\ Len(runs) > 0
    BY <1>1, <1>2, <1>3, <1>7
<1>9. PICK a \in 1..e : /\ stamp[a] = Len(runs)
                        /\ \A b \in a + 1 .. e :
                              stamp[b] = Len(runs) \/ runs[stamp[b]].status = "cancelled"
    BY <1>8 DEF LatestStamped
<1>10. a = e \/ e \in a + 1 .. e
    BY <1>1
<1> QED
    BY <1>1, <1>8, <1>9, <1>10

(* When the last run lets the chain go on, every node so far is cleared. *)
LEMMA LastClears ==
    ASSUME TypeOK, InOrder, BehindCleared, Len(runs) > 0, Passed(Len(runs))
    PROVE  \A m \in 1..chain.current : Cleared(m)
<1>1. Len(runs) \in Nat /\ chain.current \in 0..Nodes /\ Nodes \in Nat
    BY ChainAssumption DEF TypeOK
<1>2. runs[Len(runs)].node = chain.current
    BY <1>1 DEF InOrder
<1>3. Cleared(chain.current)
    <2>1. Len(runs) \in RunsOf(chain.current)
        BY <1>1, <1>2 DEF RunsOf
    <2>2. \A j \in RunsOf(chain.current) : j <= Len(runs)
        BY <1>1 DEF RunsOf
    <2> QED
        BY <2>1, <2>2 DEF Cleared
<1>4. ASSUME NEW m \in 1..chain.current, m # chain.current PROVE Cleared(m)
    <2>1. m \in 1 .. chain.current - 1
        BY <1>1, <1>4
    <2> QED
        BY <2>1 DEF BehindCleared
<1> QED
    BY <1>3, <1>4

(* An advance decides on the last run, and the one token it used is gone or passed on. *)
LEMMA WalkAdvance ==
    ASSUME TokenInv, TokenInv', NoRepeats, NoRepeats', Walk, Advance
    PROVE  Walk'
<1>1. /\ TypeOK /\ TypeOK' /\ UNCHANGED <<runs, stamp, starting, writers, used>>
      /\ advances' = advances - 1
    <2>1. TypeOK /\ TypeOK'
        BY DEF TokenInv
    <2> QED
        BY <2>1, NothingRepeated DEF Advance
<1>2. /\ advances = 1 /\ Active = {} /\ Active' = {} /\ \A n \in 1..Nodes : ~Coming(n)
      /\ chain.status \notin Final /\ chain.status # "success"
    <2>1. advances = 1 /\ Active = {} /\ \A n \in 1..Nodes : ~Coming(n)
        BY Exclusive DEF Advance
    <2> QED
        BY <1>1, <2>1 DEF Walk, VerdictFinal, Final, Idle, Active
<1>3. CancelsCounted' /\ used.cancels <= used'.cancels
    <2>1. Cancels' = Cancels /\ used.cancels \in Nat
        BY <1>1, ChainAssumption DEF Cancels, TypeOK
    <2> QED
        BY <1>1, <2>1 DEF Walk, CancelsCounted
<1>4. \A n \in 1..Nodes : Coming(n)' => dispatches'[n] > 0 /\ ~(dispatches[n] > 0)
    BY <1>1, <1>2 DEF Coming
<1>5. ASSUME UNCHANGED dispatches, chain'.current = chain.current,
             chain'.status = "success" => \A n \in 1..Nodes : Cleared(n)
      PROVE  Walk'
    <2>1. \A n \in 1..Nodes : ~Coming(n)'
        BY <1>4, <1>5
    <2>2. chain'.status \in Final => Idle'
        BY <1>1, <1>2, <2>1 DEF Idle
    <2> QED
        BY <1>1, <1>2, <1>3, <1>5, <2>1, <2>2, WalkFrame
<1>6. ASSUME NEW s \in {"failed", "cancelled"}, ChainBecomes(s) PROVE Walk'
    BY <1>1, <1>5, <1>6 DEF ChainBecomes, TypeOK
<1>7. ASSUME NEW n \in 1..Nodes, MayStart(n), Dispatch(n) PROVE Walk'
    <2>1. UNCHANGED chain /\ \A m \in 1..Nodes : m # n => dispatches'[m] = dispatches[m]
        BY <1>1, <1>7 DEF Dispatch, TypeOK
    <2>2. \A m \in 1..Nodes : Coming(m)' => MayStart(m)
        BY <1>4, <1>7, <2>1
    <2> QED
        BY <1>1, <1>2, <1>3, <2>1, <2>2, WalkFrame
<1>8. ASSUME DispatchNext, Len(runs) > 0, Passed(Len(runs)) PROVE Walk'
    <2>1. \A m \in 1..chain.current : Cleared(m)
        BY <1>1, <1>8, LastClears DEF Walk
    <2>2. chain.current \in 0..Nodes /\ Nodes \in Nat
        BY <1>1, ChainAssumption DEF TypeOK
    <2>3. CASE chain.current < Nodes
        <3>1. PICK n \in 1..Nodes : n = chain.current + 1
            BY <2>2, <2>3
        <3>2. n - 1 = chain.current
            BY <2>2, <3>1
        <3>3. MayStart(n)
            BY <2>1, <3>1, <3>2 DEF MayStart
        <3> QED
            BY <1>7, <1>8, <2>3, <3>1, <3>3 DEF DispatchNext
    <2>4. CASE ~(chain.current < Nodes)
        <3>1. chain.current = Nodes
            BY <2>2, <2>4
        <3> QED
            BY <1>1, <1>5, <1>8, <2>1, <2>4, <3>1 DEF DispatchNext, ChainBecomes, TypeOK
    <2> QED
        BY <2>3, <2>4
<1>9. CASE NothingToDo
    BY <1>2, <1>5, <1>9 DEF NothingToDo
<1>10. CASE LastDone # 0 /\ OnSuccess
    <2>1. Len(runs) > 0 /\ LastDone = Len(runs)
        BY <1>1, <1>2, <1>10, LastDecides DEF Walk, OnSuccess
    <2> QED
        BY <1>8, <1>10, <2>1 DEF OnSuccess, Passed
<1>11. CASE LastDone # 0 /\ OnFailed
    <2>1. /\ Len(runs) \in Nat /\ Len(runs) > 0 /\ LastDone = Len(runs)
          /\ runs[Len(runs)].status = "failed"
        BY <1>1, <1>2, <1>11, LastDecides DEF Walk, OnFailed
    <2>2. runs[Len(runs)].node = chain.current /\ chain.current \in 1..Nodes
        <3>1. runs[Len(runs)].node = chain.current
            BY <2>1 DEF Walk, InOrder
        <3>2. runs[Len(runs)] \in Run
            BY <1>1, <2>1 DEF TypeOK
        <3> QED
            BY <3>1, <3>2 DEF Run
    <2>3. CASE OnFailure[chain.current] = "skip" /\ DispatchNext
        BY <1>8, <2>1, <2>2, <2>3 DEF Passed
    <2>4. CASE ChainBecomes("failed")
        BY <1>6, <2>4
    <2>5. CASE /\ OnFailure[chain.current] = "retry"
               /\ Cardinality(FailedRuns(chain.current)) <= MaxRetries
               /\ Dispatch(chain.current)
        <3>1. PICK n \in 1..Nodes : n = chain.current
            BY <2>2
        <3>2. /\ IsFiniteSet(FailedRuns(n)) /\ Cardinality(FailedRuns(n)) \in Nat
              /\ IsFiniteSet(Cancels) /\ Cardinality(Cancels) \in Nat
            <4>1. IsFiniteSet(1..Len(runs))
                BY <2>1, FS_Interval
            <4>2. FailedRuns(n) \subseteq 1..Len(runs) /\ Cancels \subseteq 1..Len(runs)
                BY DEF FailedRuns, Cancels
            <4> QED
                BY <4>1, <4>2, FS_Subset, FS_CardinalityType
        <3>3. RunsOf(n) \subseteq FailedRuns(n) \cup Cancels
            <4>1. ASSUME NEW j \in RunsOf(n) PROVE j \in FailedRuns(n) \cup Cancels
                <5>1. j \in 1..Len(runs) /\ runs[j].node = n
                    BY <4>1 DEF RunsOf
                <5>2. runs[j].status \in {"failed", "cancelled"}
                    <6>1. CASE j = Len(runs)
                        BY <2>1, <6>1
                    <6>2. CASE j # Len(runs)
                        <7>1. j \in 1 .. Len(runs) - 1
                            BY <2>1, <5>1, <6>2
                        <7> QED
                            BY <3>1, <5>1, <7>1 DEF Walk, LastOnly
                    <6> QED
                        BY <6>1, <6>2
                <5>3. runs[j] = [node |-> n, status |-> runs[j].status]
                    <6>1. runs[j] \in Run
                        BY <1>1, <5>1 DEF TypeOK
                    <6> QED
                        BY <5>1, <6>1 DEF Run
                <5> QED
                    BY <5>1, <5>2, <5>3 DEF FailedRuns, Cancels
            <4> QED
                BY <4>1
        <3>4. /\ Cardinality(RunsOf(n)) \in Nat
              /\ Cardinality(RunsOf(n)) <= Cardinality(FailedRuns(n)) + Cardinality(Cancels)
            <4>1. /\ IsFiniteSet(FailedRuns(n) \cup Cancels)
                  /\ Cardinality(FailedRuns(n) \cup Cancels) <=
                        Cardinality(FailedRuns(n)) + Cardinality(Cancels)
                <5>1. /\ IsFiniteSet(FailedRuns(n) \cup Cancels)
                      /\ Cardinality(FailedRuns(n) \cup Cancels) =
                            Cardinality(FailedRuns(n)) + Cardinality(Cancels)
                               - Cardinality(FailedRuns(n) \cap Cancels)
                    BY <3>2, FS_Union
                <5>2. Cardinality(FailedRuns(n) \cap Cancels) \in Nat
                    BY <3>2, FS_Intersection, FS_CardinalityType
                <5> QED
                    BY <3>2, <5>1, <5>2
            <4>2. /\ Cardinality(RunsOf(n)) \in Nat /\ Cardinality(FailedRuns(n) \cup Cancels) \in Nat
                  /\ Cardinality(RunsOf(n)) <= Cardinality(FailedRuns(n) \cup Cancels)
                BY <3>3, <4>1, FS_Subset, FS_CardinalityType
            <4> QED
                BY <3>2, <4>1, <4>2
        <3>5. Cardinality(RunsOf(n)) <= MaxRetries + used.cancels
            <4>1. Cardinality(Cancels) <= used.cancels /\ used.cancels \in Nat /\ MaxRetries \in Nat
                BY <1>1, ChainAssumption DEF Walk, CancelsCounted, TypeOK
            <4>2. Cardinality(FailedRuns(n)) <= MaxRetries
                BY <2>5, <3>1
            <4> QED
                BY <3>2, <3>4, <4>1, <4>2
        <3>6. \A m \in 1 .. n - 1 : Cleared(m)
            BY <3>1 DEF Walk, BehindCleared
        <3>7. MayStart(n)
            BY <2>1, <2>5, <3>1, <3>5, <3>6 DEF MayStart
        <3> QED
            BY <1>7, <2>5, <3>1, <3>7
    <2> QED
        BY <1>11, <2>3, <2>4, <2>5 DEF OnFailed
<1>12. CASE OnCancelled
    BY <1>6, <1>12 DEF OnCancelled
<1> QED
    BY <1>9, <1>10, <1>11, <1>12 DEF Advance

(* The sweep fails the chain, or only notes it. *)
LEMMA WalkSweep ==
    ASSUME TokenInv, TokenInv', Walk, SweepStep \/ UNCHANGED vars
    PROVE  Walk'
<1>1. /\ TypeOK /\ TypeOK'
      /\ UNCHANGED <<runs, stamp, dispatches, advances, starting, writers, used>>
      /\ chain' = chain \/ chain' = [chain EXCEPT !.status = "failed"]
    BY DEF TokenInv, SweepStep, BecomeAged, StuckFound, StuckFailed, ChainBecomes, vars
<1>2. chain'.current = chain.current /\ (chain' = chain \/ chain'.status = "failed")
    BY <1>1 DEF TypeOK
<1>3. Active' = Active /\ \A n \in 1..Nodes : Coming(n)' <=> Coming(n)
    BY <1>1 DEF Active, Coming
<1>4. CancelsCounted' /\ used.cancels <= used'.cancels
    <2>1. Cancels' = Cancels /\ used.cancels \in Nat
        BY <1>1, ChainAssumption DEF Cancels, TypeOK
    <2> QED
        BY <1>1, <2>1 DEF Walk, CancelsCounted
<1>5. /\ chain'.status \in Final => Idle'
      /\ chain'.status = "success" => \A n \in 1..Nodes : Cleared(n)
    BY <1>1, <1>2, <1>3 DEF Walk, VerdictFinal, Final, Idle
<1> QED
    BY <1>1, <1>2, <1>3, <1>4, <1>5, WalkFrame

-----------------------------------------------------------------------------
(* The theorems.                                                           *)

(* A new chain stands before its first node. *)
LEMMA WalkAtFirst ==
    ASSUME Init, TokenInv
    PROVE  Walk
<1>1. /\ runs = <<>> /\ stamp = <<>> /\ Len(runs) = 0 /\ writers = {}
      /\ chain = [status |-> "pending", current |-> 0]
      /\ used.cancels = 0 /\ Nodes \in Nat /\ MaxRetries \in Nat
    BY ChainAssumption DEF Init
<1>2. InOrder /\ LastOnly /\ BehindCleared /\ VerdictFinal /\ LatestStamped
    BY <1>1 DEF InOrder, LastOnly, BehindCleared, VerdictFinal, Final, LatestStamped, Active
<1>3. ComingMayStart
    <2>1. ASSUME NEW n \in 1..Nodes, Coming(n) PROVE n = 1
        BY <2>1 DEF Init, Coming
    <2>2. MayStart(1)
        BY <1>1 DEF MayStart
    <2> QED
        BY <2>1, <2>2 DEF ComingMayStart
<1>4. RetryBound
    <2>1. \A n \in 1..Nodes : RunsOf(n) = {}
        BY <1>1 DEF RunsOf
    <2>2. \A n \in 1..Nodes : Cardinality(RunsOf(n)) = 0
        BY <2>1, FS_EmptySet
    <2>3. 0 <= MaxRetries + 1 + used.cancels
        BY <1>1
    <2> QED
        BY <2>2, <2>3 DEF RetryBound
<1>5. CancelsCounted
    <2>1. Cancels = {}
        BY <1>1 DEF Cancels
    <2> QED
        BY <1>1, <2>1, FS_EmptySet DEF CancelsCounted
<1> QED
    BY <1>2, <1>3, <1>4, <1>5 DEF Walk

(* Every step keeps the way while nothing is repeated. *)
LEMMA WalkKept ==
    ASSUME TokenInv, TokenInv', NoRepeats, NoRepeats', Walk, [Next]_vars
    PROVE  Walk'
<1>1. TypeOK
    BY DEF TokenInv
<1>2. CASE NodeStep
    <2>1. ASSUME NEW t \in Threads, StartNode(t) PROVE Walk'
        <3>1. NodeStarted(t, "pending", "running") /\ UNCHANGED <<used, dispatches>>
            BY <1>1, <2>1, NothingRepeated DEF StartNode
        <3> QED
            BY <3>1, WalkStarted
    <2>2. ASSUME NEW t \in Threads, StartNodeRefused(t) PROVE Walk'
        <3>1. NodeStarted(t, "failed", "failed") /\ UNCHANGED dispatches
            BY <2>2 DEF StartNodeRefused
        <3>2. used'.cancels = used.cancels
            BY <1>1, <2>2 DEF StartNodeRefused, Spend, TypeOK
        <3> QED
            BY <3>1, <3>2, WalkStarted
    <2> QED
        BY <1>2, <2>1, <2>2, WalkTaken DEF NodeStep
<1>3. CASE RunStep
    <2>1. PICK i \in 1..Len(runs) :
            \/ RunBegins(i) \/ RunRejected(i) \/ RunSentAgain(i) \/ RunReported(i)
            \/ RunLost(i) \/ OperatorStep(i)
        BY <1>3 DEF RunStep
    <2>2. runs[i].status \notin RunTerminal => i \in Active
        BY DEF Active
    <2>3. /\ {"pending", "running", "paused"} \cap RunTerminal = {}
          /\ {"pending", "running", "paused", "success", "failed", "cancelled"} \subseteq RunStatus
        BY DEF RunTerminal, RunStatus
    <2>4. ASSUME NEW from \in SUBSET {"pending", "running", "paused"},
                 NEW to \in {"running", "paused", "failed"}, RunBecomes(i, from, to),
                 stamp' = stamp \/ stamp' = Touch(i), writers' = writers, used'.cancels = used.cancels
          PROVE  Walk'
        <3>1. i \in Active
            BY <2>2, <2>3, <2>4 DEF RunBecomes
        <3>2. to \in RunStatus /\ to # "cancelled" /\ writers' \subseteq writers
            BY <2>3, <2>4
        <3> QED
            BY <2>4, <3>1, <3>2, WalkRun
    <2>5. CASE RunBegins(i) \/ RunRejected(i)
        BY <2>4, <2>5 DEF RunBegins, RunRejected
    <2>6. CASE RunCutOff(i) \/ RunResumed(i)
        BY <2>4, <2>6 DEF RunCutOff, RunResumed
    <2>7. CASE RunTimedOut(i)
        <3>1. UNCHANGED used
            BY <1>1, <2>7, NothingRepeated DEF RunTimedOut, Again
        <3> QED
            BY <2>4, <2>7, <3>1 DEF RunTimedOut
    <2>8. CASE RunPaused(i)
        <3>1. used'.cancels = used.cancels
            BY <1>1, <2>8 DEF RunPaused, Spend, TypeOK
        <3> QED
            BY <2>4, <2>8, <3>1 DEF RunPaused
    <2>9. ASSUME NEW to \in {"success", "failed"}, ResultSaved(i, to) PROVE Walk'
        <3>1. /\ RunBecomes(i, RunStatus, to) /\ stamp' = Touch(i)
              /\ writers' \subseteq writers /\ UNCHANGED used /\ <<i, "result">> \in writers
            BY <2>9 DEF ResultSaved
        <3>2. i \in Active
            BY <3>1 DEF Active
        <3> QED
            BY <2>3, <3>1, <3>2, WalkRun
    <2>10. CASE CancelSaved(i)
        <3>1. /\ RunBecomes(i, RunStatus, "cancelled") /\ stamp' = Touch(i)
              /\ writers' \subseteq writers /\ UNCHANGED <<advances, used>>
              /\ <<i, "cancel">> \in writers
            BY <2>10 DEF CancelSaved
        <3> QED
            BY <2>3, <3>1, WalkRun
    <2>11. CASE ResultChecked(i) \/ CancelChecked(i)
        BY <2>11, WalkCheck
    <2>12. ~RunSentAgain(i)
        BY <1>1, NothingRepeated DEF RunSentAgain
    <2> QED
        BY <2>1, <2>5, <2>6, <2>9, <2>10, <2>11, <2>12, <2>7, <2>8 DEF RunReported, RunLost, OperatorStep
<1> QED
    BY <1>2, <1>3, WalkAdvance, WalkSweep DEF Next

(* The inductive invariant of a chain's way through its nodes. *)
LEMMA WalkHolds == Spec => []WalkInv
<1>1. Init => WalkInv
    BY TokensAtFirst, WalkAtFirst DEF WalkInv
<1>2. ASSUME WalkInv, [Next]_vars PROVE WalkInv'
    <2>1. TokenInv /\ TypeOK
        BY <1>2 DEF WalkInv, TokenInv
    <2>2. TokenInv'
        BY <1>2, <2>1, NodeStepKeeps, RunStepKeeps, AdvanceKeeps, SweepStepKeeps DEF Next
    <2>3. NoRepeats' => Walk'
        BY <1>2, <2>1, <2>2, RepeatsGrow, WalkKept DEF WalkInv
    <2> QED
        BY <2>2, <2>3 DEF WalkInv
<1> QED
    BY <1>1, <1>2, PTL DEF Spec

(* A node is run once, and again at most MaxRetries times when it is to be *)
(* retried, and as often as an operator cancelled a run late.  Nothing is  *)
(* said of chains whose messages or runs were repeated, which can be run   *)
(* once more for each.                                                     *)
THEOREM RetriesAreBounded == Spec => [](NoRepeats => RetryBound)
<1>1. WalkInv => (NoRepeats => RetryBound)
    BY DEF WalkInv, Walk
<1> QED
    BY <1>1, WalkHolds, PTL

(* SUCCESS is earned: every node of the chain was run and its last run     *)
(* passed or its failure is to be skipped, but for those an operator       *)
(* cancelled late, at most one for each request.                           *)
THEOREM VerdictIsEarned == Spec => [](NoRepeats => ChainVerdict)
<1>1. ASSUME TokenInv, Walk PROVE ChainVerdict
    <2>1. TypeOK /\ Len(runs) \in Nat /\ used.cancels \in Nat
        BY <1>1, ChainAssumption DEF TokenInv, TypeOK
    <2>2. SUFFICES ASSUME chain.status = "success"
                   PROVE  /\ \A n \in 1..Nodes :
                                \/ LastStatus(n) \in {"success", "cancelled"}
                                \/ LastStatus(n) = "failed" /\ OnFailure[n] = "skip"
                          /\ Cardinality({n \in 1..Nodes : LastStatus(n) = "cancelled"}) <= used.cancels
        BY DEF ChainVerdict
    <2>3. ASSUME NEW n \in 1..Nodes
          PROVE  \E k \in 1..Len(runs) : /\ runs[k].node = n /\ Passed(k)
                                         /\ LastStatus(n) = runs[k].status
        <3>1. PICK k \in RunsOf(n) : Passed(k) /\ \A j \in RunsOf(n) : j <= k
            BY <1>1, <2>2 DEF Walk, VerdictFinal, Cleared
        <3>2. Max(RunsOf(n)) = k
            <4>1. RunsOf(n) \subseteq 1..Len(runs) /\ RunsOf(n) # {}
                BY <3>1 DEF RunsOf
            <4>2. Max(RunsOf(n)) \in RunsOf(n) /\ \A y \in RunsOf(n) : y <= Max(RunsOf(n))
                BY <2>1, <4>1, GreatestExists
            <4> QED
                BY <2>1, <3>1, <4>1, <4>2
        <3> QED
            BY <3>1, <3>2 DEF LastStatus, RunsOf
    <2>4. \A n \in 1..Nodes : \/ LastStatus(n) \in {"success", "cancelled"}
                              \/ LastStatus(n) = "failed" /\ OnFailure[n] = "skip"
        BY <2>3 DEF Passed
    <2>5. Cardinality({n \in 1..Nodes : LastStatus(n) = "cancelled"}) <= used.cancels
        <3> DEFINE C == {n \in 1..Nodes : LastStatus(n) = "cancelled"}
                   D == {runs[k].node : k \in Cancels}
        <3>1. IsFiniteSet(Cancels)
            <4>1. IsFiniteSet(1..Len(runs)) /\ Cancels \subseteq 1..Len(runs)
                BY <2>1, FS_Interval DEF Cancels
            <4> QED
                BY <4>1, FS_Subset
        <3>2. IsFiniteSet(D) /\ Cardinality(D) <= Cardinality(Cancels)
            <4> DEFINE f == [k \in Cancels |-> runs[k].node]
            <4>1. f \in Surjection(Cancels, D)
                BY DEF Surjection
            <4> HIDE DEF f, D
            <4> QED
                BY <3>1, <4>1, FS_Surjection
        <3>3. C \subseteq D
            <4>1. ASSUME NEW n \in C PROVE n \in D
                <5>1. PICK k \in 1..Len(runs) : runs[k].node = n /\ runs[k].status = "cancelled"
                    BY <2>3, <4>1
                <5>2. k \in Cancels
                    BY <5>1 DEF Cancels
                <5> QED
                    BY <5>1, <5>2
            <4> QED
                BY <4>1
        <3> HIDE DEF C, D
        <3>4. Cardinality(C) <= Cardinality(D) /\ Cardinality(C) \in Nat /\ Cardinality(D) \in Nat
            BY <3>2, <3>3, NoMore, FS_CardinalityType
        <3>5. Cardinality(Cancels) \in Nat /\ Cardinality(Cancels) <= used.cancels
            BY <1>1, <3>1, FS_CardinalityType DEF Walk, CancelsCounted
        <3>6. Cardinality(C) <= used.cancels
            BY <2>1, <3>2, <3>4, <3>5
        <3> QED
            BY <3>6 DEF C
    <2> QED
        BY <2>4, <2>5
<1>2. WalkInv => (NoRepeats => ChainVerdict)
    BY <1>1 DEF WalkInv
<1> QED
    BY <1>2, WalkHolds, PTL

(* SUCCESS and CANCELLED are final: when the verdict is given nothing is   *)
(* left that could write the chain, neither a waiting message nor a thread *)
(* past its check, and a late cancel does not queue anything.              *)
THEOREM VerdictsAreFinal == Spec => VerdictStays
<1> DEFINE Stays == /\ used.redelivered + used.duplicates = 0 /\ ~sweeping
                    /\ chain.status \in {"success", "cancelled"}
                    => UNCHANGED chain
<1>1. ASSUME WalkInv, [Next]_vars, NoRepeats, ~sweeping, chain.status \in Final
      PROVE  UNCHANGED chain
    <2>1. Idle
        BY <1>1 DEF WalkInv, Walk, VerdictFinal
    <2>2. CASE NodeStep
        <3>1. ASSUME NEW t \in Threads PROVE ~StartNode(t) /\ ~StartNodeRefused(t)
            <4>1. starting \in [Threads -> 0..Nodes] /\ Nodes \in Nat
                BY <1>1, ChainAssumption DEF WalkInv, TokenInv, TypeOK
            <4>2. starting[t] # 0 => starting[t] \in 1..Nodes
                BY <4>1
            <4>3. starting[t] = 0
                BY <2>1, <4>2 DEF Idle, Coming
            <4> QED
                BY <4>3 DEF StartNode, StartNodeRefused, NodeStarted
        <3>2. ASSUME NEW n \in 1..Nodes, NEW t \in Threads PROVE ~DispatchChecked(t, n)
            BY <2>1 DEF Idle, Coming, DispatchChecked
        <3>3. ASSUME NEW n \in 1..Nodes PROVE ~DispatchDropped(n)
            BY <2>1 DEF Idle, Coming, DispatchDropped
        <3> QED
            BY <2>2, <3>1, <3>2, <3>3 DEF NodeStep
    <2>3. CASE RunStep
        BY <2>3 DEF RunStep, RunBegins, RunRejected, RunSentAgain, RunReported, ResultChecked,
                    ResultSaved, RunLost, RunTimedOut, RunCutOff, OperatorStep, CancelChecked,
                    CancelSaved, RunPaused, RunResumed, RunBecomes
    <2>4. ~Advance /\ ~StuckFailed
        BY <1>1, <2>1 DEF Advance, StuckFailed, Idle
    <2>5. CASE SweepStep \/ UNCHANGED vars
        BY <2>4, <2>5 DEF SweepStep, BecomeAged, StuckFound, vars
    <2> QED
        BY <1>1, <2>2, <2>3, <2>4, <2>5 DEF Next
<1>2. ASSUME WalkInv, [Next]_vars PROVE [Stays]_vars
    BY <1>1, <1>2 DEF NoRepeats, Final
<1> QED
    BY <1>2, WalkHolds, PTL DEF Spec, VerdictStays


=============================================================================
