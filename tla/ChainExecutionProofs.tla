------------------------- MODULE ChainExecutionProofs -------------------------
(* Proofs about ChainExecution: any number of nodes, threads and repeated  *)
(* messages, any conditions on the nodes.                                  *)
EXTENDS ChainExecution, FiniteSetTheorems, SequenceTheorems, TLAPS

-----------------------------------------------------------------------------
(* Every run has its place in the order of updated_at, which Touch needs.  *)
Stamped == \A i \in 1..Len(runs) : \E k \in 1..Len(stamp) : stamp[k] = i

(* What moves a chain on is conserved: a waiting message for a node, a     *)
(* thread that is starting one, a run that is unfinished or whose result   *)
(* is being saved, a waiting advance.  Each of them becomes at most one of *)
(* the next kind; a repetition is what makes two of one.                   *)
Waiting == {w \in (1..Nodes) \X Nat : 1 <= w[2] /\ w[2] <= dispatches[w[1]]}

Started == {t \in Threads : starting[t] # 0}

Active == {i \in 1..Len(runs) : runs[i].status \notin RunTerminal \/ <<i, "result">> \in writers}

Finite == IsFiniteSet(Waiting) /\ IsFiniteSet(Started) /\ IsFiniteSet(Active)

Tokens == Cardinality(Waiting) + Cardinality(Started) + Cardinality(Active) + advances

Allowed == 1 + used.redelivered + used.duplicates

TokenInv == TypeOK /\ Stamped /\ Finite /\ Tokens <= Allowed

-----------------------------------------------------------------------------
(* The order of updated_at.                                                *)

(* An element is taken out of a sequence, and one is put at its end. *)
LEMMA MoveLast ==
    ASSUME NEW R, NEW s \in Seq(R), NEW p \in 1..Len(s), NEW e \in R
    PROVE  /\ Append(RemoveAt(s, p), e) \in Seq(R)
           /\ Len(Append(RemoveAt(s, p), e)) = Len(s)
           /\ Append(RemoveAt(s, p), e)[Len(s)] = e
           /\ \A k \in 1 .. p - 1 : Append(RemoveAt(s, p), e)[k] = s[k]
           /\ \A k \in p + 1 .. Len(s) : Append(RemoveAt(s, p), e)[k - 1] = s[k]
<1> DEFINE front == SubSeq(s, 1, p - 1)
           back == SubSeq(s, p + 1, Len(s))
           rest == RemoveAt(s, p)
<1>1. Len(s) \in Nat /\ p \in Nat
    BY LenProperties
<1>2. /\ front \in Seq(R) /\ Len(front) = p - 1
      /\ \A k \in 1 .. p - 1 : front[k] = s[k]
    <2>1. \A k \in 1 .. p - 1 : s[k] \in R
        BY <1>1
    <2>2. 1 \in Int /\ p - 1 \in Int /\ p - 1 >= 0
        BY <1>1
    <2>3. /\ SubSeq(s, 1, p - 1) \in Seq(R)
          /\ Len(SubSeq(s, 1, p - 1)) = IF 1 <= p - 1 THEN (p - 1) - 1 + 1 ELSE 0
          /\ \A k \in 1 .. (p - 1) - 1 + 1 : SubSeq(s, 1, p - 1)[k] = s[1 + k - 1]
        BY <2>1, <2>2, SubSeqProperties
    <2> QED
        BY <1>1, <2>2, <2>3
<1>3. /\ back \in Seq(R) /\ Len(back) = Len(s) - p
      /\ \A k \in 1 .. Len(s) - p : back[k] = s[p + k]
    <2>1. \A k \in p + 1 .. Len(s) : s[k] \in R
        BY <1>1
    <2>2. p + 1 \in Int /\ Len(s) \in Int
        BY <1>1
    <2>3. /\ SubSeq(s, p + 1, Len(s)) \in Seq(R)
          /\ Len(SubSeq(s, p + 1, Len(s))) = IF p + 1 <= Len(s) THEN Len(s) - (p + 1) + 1 ELSE 0
          /\ \A k \in 1 .. Len(s) - (p + 1) + 1 : SubSeq(s, p + 1, Len(s))[k] = s[(p + 1) + k - 1]
        BY <2>1, <2>2, SubSeqProperties
    <2>4. back \in Seq(R) /\ Len(back) = Len(s) - p
        BY <1>1, <2>3
    <2>5. ASSUME NEW k \in 1 .. Len(s) - p PROVE back[k] = s[p + k]
        <3>1. k \in 1 .. Len(s) - (p + 1) + 1 /\ (p + 1) + k - 1 = p + k
            BY <1>1
        <3> QED
            BY <2>3, <3>1
    <2> QED
        BY <2>4, <2>5
<1>4. rest = front \o back
    BY DEF RemoveAt
<1> HIDE DEF front, back, rest
<1>5. /\ rest \in Seq(R) /\ Len(rest) = (p - 1) + (Len(s) - p)
      /\ \A m \in 1 .. (p - 1) + (Len(s) - p) :
            rest[m] = IF m <= p - 1 THEN front[m] ELSE back[m - (p - 1)]
    <2>1. /\ front \o back \in Seq(R) /\ Len(front \o back) = Len(front) + Len(back)
          /\ \A m \in 1 .. Len(front) + Len(back) :
                (front \o back)[m] = IF m <= Len(front) THEN front[m] ELSE back[m - Len(front)]
        BY <1>2, <1>3, ConcatProperties
    <2> QED
        BY <1>2, <1>3, <1>4, <2>1
<1>6. Len(rest) = Len(s) - 1
    BY <1>1, <1>5
<1>7. \A k \in 1 .. p - 1 : rest[k] = s[k]
    BY <1>1, <1>2, <1>5
<1>8. ASSUME NEW k \in p + 1 .. Len(s) PROVE rest[k - 1] = s[k]
    <2>1. k - 1 \in 1 .. (p - 1) + (Len(s) - p) /\ ~(k - 1 <= p - 1)
        BY <1>1
    <2>2. rest[k - 1] = back[(k - 1) - (p - 1)]
        BY <1>5, <2>1
    <2>3. (k - 1) - (p - 1) = k - p /\ k - p \in 1 .. Len(s) - p /\ p + (k - p) = k
        BY <1>1
    <2> QED
        BY <2>2, <2>3, <1>3
<1>9. /\ Append(rest, e) \in Seq(R) /\ Len(Append(rest, e)) = Len(s)
      /\ Append(rest, e)[Len(s)] = e
      /\ \A k \in 1 .. Len(s) - 1 : Append(rest, e)[k] = rest[k]
    BY <1>1, <1>5, <1>6
<1>10. \A k \in 1 .. p - 1 : k \in 1 .. Len(s) - 1
    BY <1>1
<1>11. \A k \in p + 1 .. Len(s) : k - 1 \in 1 .. Len(s) - 1
    BY <1>1
<1> QED
    BY <1>7, <1>8, <1>9, <1>10, <1>11 DEF rest

(* Touch keeps the places of the other runs and gives the run the last.    *)
LEMMA TouchKeeps ==
    ASSUME TypeOK, Stamped, NEW i \in 1..Len(runs)
    PROVE  /\ Touch(i) \in Seq(1..Len(runs))
           /\ \A j \in 1..Len(runs) : \E k \in 1..Len(Touch(i)) : Touch(i)[k] = j
<1> DEFINE p == Place(i)
           R == 1..Len(runs)
<1>1. stamp \in Seq(R) /\ Len(stamp) \in Nat
    BY DEF TypeOK
<1>2. p \in 1..Len(stamp) /\ stamp[p] = i
    BY DEF Stamped, Place
<1>3. \A j \in R : \E k \in 1..Len(stamp) : stamp[k] = j
    BY DEF Stamped
<1>4. i \in R /\ Touch(i) = Append(RemoveAt(stamp, p), i)
    BY DEF Touch
<1> DEFINE t == Touch(i)
<1> HIDE DEF p, R, t
<1>5. /\ t \in Seq(R) /\ Len(t) = Len(stamp)
      /\ t[Len(stamp)] = i
      /\ \A k \in 1 .. p - 1 : t[k] = stamp[k]
      /\ \A k \in p + 1 .. Len(stamp) : t[k - 1] = stamp[k]
    BY <1>1, <1>2, <1>4, MoveLast DEF t
<1>6. ASSUME NEW j \in R PROVE \E k \in 1..Len(stamp) : t[k] = j
    <2>1. CASE j = i
        <3>1. Len(stamp) \in 1..Len(stamp)
            BY <1>1, <1>2
        <3> QED
            BY <2>1, <3>1, <1>5
    <2>2. CASE j # i
        <3>1. PICK k \in 1..Len(stamp) : stamp[k] = j
            BY <1>3
        <3>2. k # p
            BY <3>1, <2>2, <1>2
        <3>3. CASE k < p
            BY <3>1, <3>3, <1>1, <1>2, <1>5
        <3>4. CASE k > p
            <4>1. k - 1 \in 1..Len(stamp) /\ k \in p + 1 .. Len(stamp)
                BY <3>4, <1>1, <1>2
            <4> QED
                BY <4>1, <3>1, <1>5
        <3> QED
            BY <3>2, <3>3, <3>4, <1>1, <1>2
    <2> QED
        BY <2>1, <2>2
<1> QED
    BY <1>5, <1>6 DEF t, R

-----------------------------------------------------------------------------
(* Type correctness.                                                       *)

UsedType == [redelivered : 0..MaxRedelivered, duplicates : 0..MaxDuplicates,
             pauses : 0..MaxPauses, cancels : 0..MaxCancels, refused : 0..MaxRefused]

(* What a repetition, a pause, a cancel or a refusal costs. *)
LEMMA Spent ==
    ASSUME TypeOK
    PROVE  /\ Spend("redelivered", MaxRedelivered) =>
                 used' \in UsedType /\ Allowed' = Allowed + 1
           /\ Spend("duplicates", MaxDuplicates) =>
                 used' \in UsedType /\ Allowed' = Allowed + 1
           /\ Spend("pauses", MaxPauses) => used' \in UsedType /\ Allowed' = Allowed
           /\ Spend("cancels", MaxCancels) => used' \in UsedType /\ Allowed' = Allowed
           /\ Spend("refused", MaxRefused) => used' \in UsedType /\ Allowed' = Allowed
           /\ UNCHANGED used => used' \in UsedType /\ Allowed' = Allowed
           /\ Allowed \in Nat
<1>1. /\ used \in UsedType
      /\ used.redelivered \in Nat /\ used.duplicates \in Nat
      /\ used.pauses \in Nat /\ used.cancels \in Nat /\ used.refused \in Nat
    BY ChainAssumption DEF TypeOK, UsedType
<1>2. ASSUME Spend("redelivered", MaxRedelivered)
      PROVE  used' \in UsedType /\ Allowed' = Allowed + 1
    <2>1. used.redelivered + 1 \in 0..MaxRedelivered
        BY <1>1, <1>2, ChainAssumption DEF Spend
    <2>2. used' = [used EXCEPT !.redelivered = used.redelivered + 1]
        BY <1>2 DEF Spend
    <2> QED
        BY <1>1, <2>1, <2>2 DEF UsedType, Allowed
<1>3. ASSUME Spend("duplicates", MaxDuplicates)
      PROVE  used' \in UsedType /\ Allowed' = Allowed + 1
    <2>1. used.duplicates + 1 \in 0..MaxDuplicates
        BY <1>1, <1>3, ChainAssumption DEF Spend
    <2>2. used' = [used EXCEPT !.duplicates = used.duplicates + 1]
        BY <1>3 DEF Spend
    <2> QED
        BY <1>1, <2>1, <2>2 DEF UsedType, Allowed
<1>4. ASSUME Spend("pauses", MaxPauses) PROVE used' \in UsedType /\ Allowed' = Allowed
    <2>1. used.pauses + 1 \in 0..MaxPauses
        BY <1>1, <1>4, ChainAssumption DEF Spend
    <2>2. used' = [used EXCEPT !.pauses = used.pauses + 1]
        BY <1>4 DEF Spend
    <2> QED
        BY <1>1, <2>1, <2>2 DEF UsedType, Allowed
<1>5. ASSUME Spend("cancels", MaxCancels) PROVE used' \in UsedType /\ Allowed' = Allowed
    <2>1. used.cancels + 1 \in 0..MaxCancels
        BY <1>1, <1>5, ChainAssumption DEF Spend
    <2>2. used' = [used EXCEPT !.cancels = used.cancels + 1]
        BY <1>5 DEF Spend
    <2> QED
        BY <1>1, <2>1, <2>2 DEF UsedType, Allowed
<1>6. ASSUME Spend("refused", MaxRefused) PROVE used' \in UsedType /\ Allowed' = Allowed
    <2>1. used.refused + 1 \in 0..MaxRefused
        BY <1>1, <1>6, ChainAssumption DEF Spend
    <2>2. used' = [used EXCEPT !.refused = used.refused + 1]
        BY <1>6 DEF Spend
    <2> QED
        BY <1>1, <2>1, <2>2 DEF UsedType, Allowed
<1>7. UNCHANGED used => used' \in UsedType /\ Allowed' = Allowed
    BY <1>1 DEF Allowed
<1>8. Allowed \in Nat
    BY <1>1 DEF Allowed
<1> QED
    BY <1>2, <1>3, <1>4, <1>5, <1>6, <1>7, <1>8, ChainAssumption

(* A run that changes its status keeps the types and the places. *)
LEMMA RunChanges ==
    ASSUME TypeOK, Stamped, NEW i \in 1..Len(runs), NEW from, NEW to \in RunStatus,
           RunBecomes(i, from, to), stamp' = stamp \/ stamp' = Touch(i)
    PROVE  /\ runs' \in Seq(Run) /\ Len(runs') = Len(runs)
           /\ runs'[i].status = to
           /\ \A j \in 1..Len(runs) : j # i => runs'[j] = runs[j]
           /\ stamp' \in Seq(1..Len(runs')) /\ Stamped'
<1>1. runs \in Seq(Run) /\ runs[i] \in Run /\ stamp \in Seq(1..Len(runs))
    BY DEF TypeOK
<1>2. [runs[i] EXCEPT !.status = to] \in Run /\ [runs[i] EXCEPT !.status = to].status = to
    BY <1>1 DEF Run
<1>3. runs' = [runs EXCEPT ![i] = [runs[i] EXCEPT !.status = to]]
    BY <1>1 DEF RunBecomes
<1>4. /\ runs' \in Seq(Run) /\ Len(runs') = Len(runs)
      /\ \A j \in 1..Len(runs) :
            runs'[j] = IF j = i THEN [runs[i] EXCEPT !.status = to] ELSE runs[j]
    BY <1>1, <1>2, <1>3, ExceptSeq
<1>5. CASE stamp' = stamp
    BY <1>1, <1>2, <1>4, <1>5 DEF Stamped
<1>6. CASE stamp' = Touch(i)
    <2>1. /\ stamp' \in Seq(1..Len(runs))
          /\ \A j \in 1..Len(runs) : \E k \in 1..Len(stamp') : stamp'[k] = j
        BY <1>6, TouchKeeps
    <2>2. stamp' \in Seq(1..Len(runs')) /\ Stamped'
        BY <1>4, <2>1 DEF Stamped
    <2> QED
        BY <1>2, <1>4, <2>2
<1> QED
    BY <1>5, <1>6

(* A run that is created gets the last place. *)
LEMMA RunCreated ==
    ASSUME TypeOK, Stamped, NEW t \in Threads, NEW r \in RunStatus, NEW c \in ChainStatus,
           NodeStarted(t, r, c)
    PROVE  /\ chain' \in [status : ChainStatus, current : 0..Nodes]
           /\ runs' \in Seq(Run) /\ Len(runs') = Len(runs) + 1
           /\ runs'[Len(runs) + 1].status = r
           /\ \A j \in 1..Len(runs) : runs'[j] = runs[j]
           /\ stamp' \in Seq(1..Len(runs')) /\ Stamped'
           /\ starting' \in [Threads -> 0..Nodes]
           /\ writers' \subseteq (1..Len(runs')) \X {"result", "cancel"}
<1> DEFINE n == starting[t]
           run == [node |-> n, status |-> r]
<1>1. n \in 1..Nodes
    <2>1. starting \in [Threads -> 0..Nodes]
        BY DEF TypeOK
    <2>2. starting[t] \in 0..Nodes /\ starting[t] # 0
        BY <2>1 DEF NodeStarted
    <2>3. Nodes \in Nat
        BY ChainAssumption
    <2> QED
        BY <2>2, <2>3
<1>2. run \in Run /\ run.status = r
    BY <1>1 DEF Run
<1>3. chain' = [status |-> c, current |-> n] /\ starting' = [starting EXCEPT ![t] = 0]
    BY DEF NodeStarted
<1>4. runs \in Seq(Run) /\ runs' = Append(runs, run)
    BY DEF TypeOK, NodeStarted
<1>5. stamp \in Seq(1..Len(runs)) /\ stamp' = Append(stamp, Len(runs) + 1)
    BY DEF TypeOK, NodeStarted
<1>6. writers \subseteq (1..Len(runs)) \X {"result", "cancel"} /\ writers' = writers
    BY DEF TypeOK, NodeStarted
<1> HIDE DEF run
<1>7. /\ runs' \in Seq(Run) /\ Len(runs') = Len(runs) + 1 /\ Len(runs) \in Nat
      /\ runs'[Len(runs) + 1] = run
      /\ \A j \in 1..Len(runs) : runs'[j] = runs[j]
    BY <1>2, <1>4
<1>8. stamp' \in Seq(1..Len(runs')) /\ Stamped'
    <2>1. stamp \in Seq(1..Len(runs')) /\ Len(runs) + 1 \in 1..Len(runs')
        BY <1>5, <1>7, SeqMonotonic
    <2> DEFINE R == 1..Len(runs')
    <2> HIDE DEF R
    <2>2. /\ stamp' \in Seq(R) /\ Len(stamp') = Len(stamp) + 1 /\ Len(stamp) \in Nat
          /\ stamp'[Len(stamp) + 1] = Len(runs) + 1
          /\ \A k \in 1..Len(stamp) : stamp'[k] = stamp[k]
        BY <2>1, <1>5 DEF R
    <2>3. ASSUME NEW j \in 1..Len(runs') PROVE \E k \in 1..Len(stamp') : stamp'[k] = j
        <3>1. CASE j = Len(runs) + 1
            BY <3>1, <2>2
        <3>2. CASE j \in 1..Len(runs)
            BY <3>2, <2>2 DEF Stamped
        <3> QED
            BY <3>1, <3>2, <1>7
    <2> QED
        BY <2>2, <2>3 DEF Stamped, R
<1>9. chain' \in [status : ChainStatus, current : 0..Nodes]
    BY <1>1, <1>3
<1>10. starting' \in [Threads -> 0..Nodes]
    BY <1>3, ChainAssumption DEF TypeOK
<1>11. writers' \subseteq (1..Len(runs')) \X {"result", "cancel"}
    <2>1. 1..Len(runs) \subseteq 1..Len(runs')
        BY <1>7
    <2> QED
        BY <2>1, <1>6
<1> QED
    BY <1>2, <1>7, <1>8, <1>9, <1>10, <1>11

-----------------------------------------------------------------------------
(* What a step does to the tokens.                                         *)

(* Sets that lose, keep or gain an element. *)
LEMMA OneLess ==
    ASSUME NEW S, IsFiniteSet(S), NEW x \in S, NEW T, T \subseteq S \ {x}
    PROVE  IsFiniteSet(T) /\ Cardinality(T) \in Nat /\ Cardinality(T) + 1 <= Cardinality(S)
<1>1. IsFiniteSet(S \ {x}) /\ Cardinality(S \ {x}) = Cardinality(S) - 1
    BY FS_RemoveElement
<1>2. IsFiniteSet(T) /\ Cardinality(T) <= Cardinality(S \ {x})
    BY <1>1, FS_Subset
<1> QED
    BY <1>1, <1>2, FS_CardinalityType

LEMMA NoMore ==
    ASSUME NEW S, IsFiniteSet(S), NEW T, T \subseteq S
    PROVE  IsFiniteSet(T) /\ Cardinality(T) \in Nat /\ Cardinality(T) <= Cardinality(S)
BY FS_Subset, FS_CardinalityType

LEMMA OneMore ==
    ASSUME NEW S, IsFiniteSet(S), NEW x, NEW T, T \subseteq S \cup {x}
    PROVE  IsFiniteSet(T) /\ Cardinality(T) \in Nat /\ Cardinality(T) <= Cardinality(S) + 1
<1>1. IsFiniteSet(S \cup {x}) /\ Cardinality(S \cup {x}) <= Cardinality(S) + 1
    <2>1. /\ IsFiniteSet(S \cup {x})
          /\ Cardinality(S \cup {x}) = IF x \in S THEN Cardinality(S) ELSE Cardinality(S) + 1
        BY FS_AddElement
    <2>2. Cardinality(S) \in Nat
        BY FS_CardinalityType
    <2> QED
        BY <2>1, <2>2
<1>2. IsFiniteSet(T) /\ Cardinality(T) <= Cardinality(S \cup {x})
    BY <1>1, FS_Subset
<1> QED
    BY <1>1, <1>2, FS_CardinalityType

(* A message for a node is taken from the queue, or put into it. *)
LEMMA MessageTaken ==
    ASSUME TypeOK, IsFiniteSet(Waiting), NEW n \in 1..Nodes, dispatches[n] > 0,
           dispatches' = [dispatches EXCEPT ![n] = @ - 1]
    PROVE  /\ dispatches' \in [1..Nodes -> Nat]
           /\ IsFiniteSet(Waiting') /\ Cardinality(Waiting') \in Nat
           /\ Cardinality(Waiting') + 1 <= Cardinality(Waiting)
<1>1. dispatches \in [1..Nodes -> Nat]
    BY DEF TypeOK
<1>2. <<n, dispatches[n]>> \in Waiting
    BY <1>1 DEF Waiting
<1>3. dispatches' \in [1..Nodes -> Nat]
    BY <1>1
<1>4. ASSUME NEW w \in Waiting' PROVE w \in Waiting \ {<<n, dispatches[n]>>}
    <2>1. w \in (1..Nodes) \X Nat /\ 1 <= w[2] /\ w[2] <= dispatches'[w[1]]
        BY <1>4 DEF Waiting
    <2>2. PICK m \in 1..Nodes, k \in Nat : w = <<m, k>>
        BY <2>1
    <2>3. 1 <= k /\ k <= dispatches'[m]
        BY <2>1, <2>2
    <2>4. CASE m = n
        BY <2>2, <2>3, <2>4, <1>1 DEF Waiting
    <2>5. CASE m # n
        BY <2>2, <2>3, <2>5, <1>1 DEF Waiting
    <2> QED
        BY <2>4, <2>5
<1>5. Waiting' \subseteq Waiting \ {<<n, dispatches[n]>>}
    BY <1>4
<1> HIDE DEF Waiting
<1> QED
    BY <1>2, <1>3, <1>5, OneLess

LEMMA MessagePut ==
    ASSUME TypeOK, IsFiniteSet(Waiting), NEW n,
           dispatches' = [dispatches EXCEPT ![n] = @ + 1]
    PROVE  /\ dispatches' \in [1..Nodes -> Nat]
           /\ IsFiniteSet(Waiting') /\ Cardinality(Waiting') \in Nat
           /\ Cardinality(Waiting') <= Cardinality(Waiting) + 1
<1>1. dispatches \in [1..Nodes -> Nat]
    BY DEF TypeOK
<1>2. CASE n \in 1..Nodes
    <2>1. dispatches' \in [1..Nodes -> Nat]
        BY <1>1, <1>2
    <2>2. ASSUME NEW w \in Waiting' PROVE w \in Waiting \cup {<<n, dispatches[n] + 1>>}
        <3>1. w \in (1..Nodes) \X Nat /\ 1 <= w[2] /\ w[2] <= dispatches'[w[1]]
            BY <2>2 DEF Waiting
        <3>2. PICK m \in 1..Nodes, k \in Nat : w = <<m, k>>
            BY <3>1
        <3>3. 1 <= k /\ k <= dispatches'[m]
            BY <3>1, <3>2
        <3>4. CASE m = n
            BY <3>2, <3>3, <3>4, <1>1 DEF Waiting
        <3>5. CASE m # n
            BY <3>2, <3>3, <3>5, <1>1 DEF Waiting
        <3> QED
            BY <3>4, <3>5
    <2>3. Waiting' \subseteq Waiting \cup {<<n, dispatches[n] + 1>>}
        BY <2>2
    <2> QED
        BY <2>1, <2>3, OneMore
<1>3. CASE n \notin 1..Nodes
    <2>1. dispatches' = dispatches
        BY <1>1, <1>3
    <2>2. Waiting' \subseteq Waiting \cup {n}
        BY <2>1 DEF Waiting
    <2> QED
        BY <1>1, <2>1, <2>2, OneMore
<1> QED
    BY <1>2, <1>3

(* What an action leaves alone. *)
LEMMA Untouched ==
    ASSUME TypeOK, Stamped, Finite
    PROVE  /\ UNCHANGED dispatches =>
                 /\ dispatches' \in [1..Nodes -> Nat]
                 /\ IsFiniteSet(Waiting') /\ Cardinality(Waiting') = Cardinality(Waiting)
           /\ UNCHANGED starting =>
                 /\ starting' \in [Threads -> 0..Nodes]
                 /\ IsFiniteSet(Started') /\ Cardinality(Started') = Cardinality(Started)
           /\ UNCHANGED <<runs, writers>> =>
                 IsFiniteSet(Active') /\ Cardinality(Active') = Cardinality(Active)
           /\ UNCHANGED <<runs, stamp>> =>
                 /\ runs' \in Seq(Run) /\ Len(runs') = Len(runs)
                 /\ stamp' \in Seq(1..Len(runs')) /\ Stamped'
           /\ Cardinality(Waiting) \in Nat /\ Cardinality(Started) \in Nat
           /\ Cardinality(Active) \in Nat /\ advances \in Nat
<1>1. UNCHANGED dispatches => Waiting' = Waiting
    BY DEF Waiting
<1>2. UNCHANGED starting => Started' = Started
    BY DEF Started
<1>3. UNCHANGED <<runs, writers>> => Active' = Active
    BY DEF Active
<1>4. UNCHANGED <<runs, stamp>> => (Stamped' <=> Stamped)
    BY DEF Stamped
<1>5. /\ Cardinality(Waiting) \in Nat /\ Cardinality(Started) \in Nat
      /\ Cardinality(Active) \in Nat
    BY FS_CardinalityType DEF Finite
<1> QED
    BY <1>1, <1>2, <1>3, <1>4, <1>5 DEF TypeOK, Finite

-----------------------------------------------------------------------------
(* The steps of Next.                                                      *)

(* Two counts that pay for each other; all counts against the limit.       *)
LEMMA Moved ==
    ASSUME NEW w \in Nat, NEW s \in Nat, NEW w2 \in Nat, NEW s2 \in Nat,
           NEW a \in Nat, NEW v \in Nat, w2 + 1 <= w, s2 <= s + 1
    PROVE  w2 + s2 + a + v <= w + s + a + v
    OBVIOUS

LEMMA Counts ==
    ASSUME NEW w \in Nat, NEW s \in Nat, NEW a \in Nat, NEW v \in Nat, NEW l \in Nat,
           NEW w2 \in Nat, NEW s2 \in Nat, NEW a2 \in Nat,
           w + s + a + v <= l, s2 + a2 <= s + a
    PROVE  /\ w2 <= w => w2 + s2 + a2 + v <= l
           /\ w2 <= w + 1 => w2 + s2 + a2 + v <= l + 1
    OBVIOUS

LEMMA NodeStepKeeps ==
    ASSUME TokenInv, NodeStep
    PROVE  TokenInv'
<1> USE DEF TokenInv
<1>1. ASSUME NEW n \in 1..Nodes, DispatchDropped(n) PROVE TokenInv'
    <2>1. /\ dispatches' \in [1..Nodes -> Nat] /\ IsFiniteSet(Waiting')
          /\ Cardinality(Waiting') \in Nat /\ Cardinality(Waiting') + 1 <= Cardinality(Waiting)
        BY <1>1, MessageTaken DEF Finite, DispatchDropped
    <2>2. TypeOK'
        BY <1>1, <2>1 DEF TypeOK, DispatchDropped
    <2>3. Finite' /\ Tokens' <= Allowed'
        BY <1>1, <2>1, Untouched, Spent DEF Finite, Tokens, DispatchDropped
    <2> QED
        BY <1>1, <2>2, <2>3, Untouched DEF DispatchDropped
<1>2. ASSUME NEW t \in Threads, NEW n \in 1..Nodes, DispatchChecked(t, n) PROVE TokenInv'
    <2>1. /\ dispatches' \in [1..Nodes -> Nat] /\ IsFiniteSet(Waiting')
          /\ Cardinality(Waiting') \in Nat /\ Cardinality(Waiting') + 1 <= Cardinality(Waiting)
        BY <1>2, MessageTaken DEF Finite, DispatchChecked
    <2>2. starting' \in [Threads -> 0..Nodes] /\ Started' \subseteq Started \cup {t}
        <3>1. starting \in [Threads -> 0..Nodes] /\ n \in 0..Nodes
            BY ChainAssumption DEF TypeOK
        <3>2. starting' = [starting EXCEPT ![t] = n]
            BY <1>2 DEF DispatchChecked
        <3>3. starting' \in [Threads -> 0..Nodes]
            BY <3>1, <3>2
        <3>4. ASSUME NEW u \in Started' PROVE u \in Started \cup {t}
            BY <3>1, <3>2, <3>4 DEF Started
        <3> QED
            BY <3>3, <3>4
    <2>3. /\ IsFiniteSet(Started') /\ Cardinality(Started') \in Nat
          /\ Cardinality(Started') <= Cardinality(Started) + 1
        BY <2>2, OneMore DEF Finite
    <2>4. TypeOK'
        BY <1>2, <2>1, <2>2 DEF TypeOK, DispatchChecked
    <2>5. Finite' /\ Tokens' <= Allowed'
        <3>1. UNCHANGED <<runs, advances, writers, used>>
            BY <1>2 DEF DispatchChecked
        <3>2. /\ IsFiniteSet(Active') /\ Cardinality(Active') = Cardinality(Active)
              /\ Cardinality(Waiting) \in Nat /\ Cardinality(Started) \in Nat
              /\ Cardinality(Active) \in Nat /\ advances \in Nat
            BY <3>1, Untouched
        <3>3. Allowed' = Allowed /\ Allowed \in Nat
            BY <3>1, Spent
        <3>4. Tokens' <= Tokens
            BY <2>1, <2>3, <3>1, <3>2, Moved DEF Tokens
        <3>5. Tokens \in Nat /\ Tokens' \in Nat
            BY <2>1, <2>3, <3>1, <3>2 DEF Tokens
        <3>6. Finite'
            BY <2>1, <2>3, <3>2 DEF Finite
        <3> QED
            BY <3>3, <3>4, <3>5, <3>6
    <2> QED
        BY <1>2, <2>4, <2>5, Untouched DEF DispatchChecked
<1>3. ASSUME NEW t \in Threads, StartNode(t) PROVE TokenInv'
    <2>1. NodeStarted(t, "pending", "running")
        BY <1>3 DEF StartNode
    <2>2. /\ chain' \in [status : ChainStatus, current : 0..Nodes]
          /\ runs' \in Seq(Run) /\ Len(runs') = Len(runs) + 1
          /\ \A j \in 1..Len(runs) : runs'[j] = runs[j]
          /\ stamp' \in Seq(1..Len(runs')) /\ Stamped'
          /\ starting' \in [Threads -> 0..Nodes]
          /\ writers' \subseteq (1..Len(runs')) \X {"result", "cancel"}
        BY <2>1, RunCreated DEF RunStatus, ChainStatus
    <2>3. /\ IsFiniteSet(Started') /\ Cardinality(Started') \in Nat
          /\ Cardinality(Started') + 1 <= Cardinality(Started)
        <3>1. t \in Started /\ Started' \subseteq Started \ {t}
            BY <2>1 DEF TypeOK, Started, NodeStarted
        <3> QED
            BY <3>1, OneLess DEF Finite
    <2>4. /\ IsFiniteSet(Active') /\ Cardinality(Active') \in Nat
          /\ Cardinality(Active') <= Cardinality(Active) + 1
        <3>1. writers' = writers /\ Len(runs) \in Nat
            BY <2>1 DEF NodeStarted, TypeOK
        <3>2. Active' \subseteq Active \cup {Len(runs) + 1}
            BY <2>2, <3>1 DEF Active
        <3> QED
            BY <3>2, OneMore DEF Finite
    <2>5. \/ Cardinality(Waiting') <= Cardinality(Waiting) /\ Allowed' = Allowed
          \/ Cardinality(Waiting') <= Cardinality(Waiting) + 1 /\ Allowed' = Allowed + 1
        <3>1. CASE UNCHANGED <<dispatches, used>>
            BY <3>1, Untouched, Spent
        <3>2. CASE Spend("redelivered", MaxRedelivered)
                     /\ dispatches' = [dispatches EXCEPT ![starting[t]] = @ + 1]
            BY <3>2, MessagePut, Spent DEF Finite
        <3> QED
            BY <1>3, <3>1, <3>2 DEF StartNode, Again
    <2>6. /\ dispatches' \in [1..Nodes -> Nat] /\ IsFiniteSet(Waiting')
          /\ Cardinality(Waiting') \in Nat /\ used' \in UsedType
        <3>1. CASE UNCHANGED <<dispatches, used>>
            BY <3>1, Untouched, Spent
        <3>2. CASE Spend("redelivered", MaxRedelivered)
                     /\ dispatches' = [dispatches EXCEPT ![starting[t]] = @ + 1]
            BY <3>2, MessagePut, Spent DEF Finite
        <3> QED
            BY <1>3, <3>1, <3>2 DEF StartNode, Again
    <2>7. UNCHANGED <<advances, aged, sweeping>>
        BY <2>1 DEF NodeStarted
    <2>8. TypeOK'
        BY <2>2, <2>6, <2>7 DEF TypeOK, UsedType
    <2>9. Finite' /\ Tokens' <= Allowed'
        <3>1. /\ Cardinality(Waiting) \in Nat /\ Cardinality(Started) \in Nat
              /\ Cardinality(Active) \in Nat /\ advances \in Nat /\ Allowed \in Nat
            BY Untouched, Spent
        <3>2. Finite'
            BY <2>3, <2>4, <2>6 DEF Finite
        <3>3. Tokens' = Cardinality(Waiting') + Cardinality(Started') + Cardinality(Active') + advances
            BY <2>7 DEF Tokens
        <3>4. Cardinality(Waiting) + Cardinality(Started) + Cardinality(Active) + advances <= Allowed
            BY DEF Tokens
        <3>5. Cardinality(Started') + Cardinality(Active') <= Cardinality(Started) + Cardinality(Active)
            BY <2>3, <2>4, <3>1
        <3>6. CASE Cardinality(Waiting') <= Cardinality(Waiting) /\ Allowed' = Allowed
            BY <2>3, <2>4, <2>6, <3>1, <3>2, <3>3, <3>4, <3>5, <3>6, Counts
        <3>7. CASE Cardinality(Waiting') <= Cardinality(Waiting) + 1 /\ Allowed' = Allowed + 1
            BY <2>3, <2>4, <2>6, <3>1, <3>2, <3>3, <3>4, <3>5, <3>7, Counts
        <3> QED
            BY <2>5, <3>6, <3>7
    <2> QED
        BY <2>2, <2>8, <2>9
<1>4. ASSUME NEW t \in Threads, StartNodeRefused(t) PROVE TokenInv'
    <2>1. NodeStarted(t, "failed", "failed") /\ UNCHANGED dispatches
        BY <1>4 DEF StartNodeRefused
    <2>2. /\ chain' \in [status : ChainStatus, current : 0..Nodes]
          /\ runs' \in Seq(Run) /\ Len(runs') = Len(runs) + 1
          /\ runs'[Len(runs) + 1].status = "failed"
          /\ \A j \in 1..Len(runs) : runs'[j] = runs[j]
          /\ stamp' \in Seq(1..Len(runs')) /\ Stamped'
          /\ starting' \in [Threads -> 0..Nodes]
          /\ writers' \subseteq (1..Len(runs')) \X {"result", "cancel"}
        BY <2>1, RunCreated DEF RunStatus, RunTerminal, ChainStatus, ChainTerminal
    <2>3. /\ IsFiniteSet(Started') /\ Cardinality(Started') \in Nat
          /\ Cardinality(Started') <= Cardinality(Started)
        <3>1. Started' \subseteq Started
            BY <2>1 DEF TypeOK, Started, NodeStarted
        <3> QED
            BY <3>1, NoMore DEF Finite
    <2>4. /\ IsFiniteSet(Active') /\ Cardinality(Active') \in Nat
          /\ Cardinality(Active') <= Cardinality(Active)
        <3>1. /\ writers' = writers /\ Len(runs) \in Nat
              /\ writers \subseteq (1..Len(runs)) \X {"result", "cancel"}
            BY <2>1 DEF NodeStarted, TypeOK
        <3>2. Active' \subseteq Active
            BY <2>2, <3>1 DEF Active, RunTerminal
        <3> QED
            BY <3>2, NoMore DEF Finite
    <2>5. used' \in UsedType /\ Allowed' = Allowed
        BY <1>4, Spent DEF StartNodeRefused
    <2>6. UNCHANGED <<advances, aged, sweeping>>
        BY <2>1 DEF NodeStarted
    <2>7. TypeOK'
        BY <2>1, <2>2, <2>5, <2>6 DEF TypeOK, UsedType
    <2>8. Finite' /\ Tokens' <= Allowed'
        BY <2>1, <2>3, <2>4, <2>5, <2>6, Untouched, Spent DEF Finite, Tokens
    <2> QED
        BY <2>2, <2>7, <2>8
<1> QED
    BY <1>1, <1>2, <1>3, <1>4 DEF NodeStep

(* Only the run i and its writers change: Active can gain, keep or lose it. *)
LEMMA OneRun ==
    ASSUME IsFiniteSet(Active), NEW i \in 1..Len(runs), Len(runs') = Len(runs),
           \A j \in 1..Len(runs) : j # i => runs'[j] = runs[j],
           \A j \in 1..Len(runs) : j # i /\ <<j, "result">> \in writers' => <<j, "result">> \in writers
    PROVE  /\ IsFiniteSet(Active') /\ Cardinality(Active') \in Nat
           /\ Cardinality(Active') <= Cardinality(Active) + 1
           /\ i \in Active \/ i \notin Active' => Cardinality(Active') <= Cardinality(Active)
           /\ i \in Active /\ i \notin Active' => Cardinality(Active') + 1 <= Cardinality(Active)
<1>1. Active' \subseteq Active \cup {i}
    BY DEF Active
<1>2. i \in Active \/ i \notin Active' => Active' \subseteq Active
    BY <1>1
<1>3. i \in Active /\ i \notin Active' => Active' \subseteq Active \ {i}
    BY <1>1
<1> QED
    BY <1>1, <1>2, <1>3, OneMore, NoMore, OneLess

(* What a run that becomes active or queues an advance is paid with. *)
LEMMA Paid ==
    ASSUME NEW a \in Nat, NEW a2 \in Nat, NEW v \in Nat, NEW v2 \in Nat, NEW l \in Nat,
           NEW l2 \in Nat,
           \/ v2 = v /\ l2 = l + 1 /\ a2 <= a + 1
           \/ v2 = v /\ l2 = l /\ a2 <= a
           \/ v2 = v + 1 /\ l2 = l /\ a2 + 1 <= a
           \/ v2 = v + 1 /\ l2 = l + 1 /\ a2 <= a
    PROVE  a2 + v2 + l <= a + v + l2
    OBVIOUS

(* If one count grows by no more than the limit does, the limit is kept. *)
LEMMA Balance ==
    ASSUME NEW rest \in Nat, NEW n \in Nat, NEW m \in Nat, NEW l \in Nat, NEW k \in Nat,
           rest + n <= l, m + l <= n + k
    PROVE  rest + m <= k
    OBVIOUS

(* A run changes its status, and what that does to Active pays for the     *)
(* advances it queues.                                                     *)
LEMMA RunKeeps ==
    ASSUME TokenInv, NEW i \in 1..Len(runs), NEW from, NEW to \in RunStatus,
           RunBecomes(i, from, to), stamp' = stamp \/ stamp' = Touch(i),
           writers' \subseteq writers, advances' \in Nat,
           used' \in UsedType, Allowed' \in Nat,
           \/ advances' = advances /\ Allowed' = Allowed + 1
           \/ advances' = advances /\ Allowed' = Allowed /\ (i \in Active \/ i \notin Active')
           \/ advances' = advances + 1 /\ Allowed' = Allowed /\ i \in Active /\ i \notin Active'
           \/ advances' = advances + 1 /\ Allowed' = Allowed + 1 /\ i \in Active
    PROVE  TokenInv'
<1>1. /\ TypeOK /\ Stamped /\ Finite /\ Tokens <= Allowed
      /\ IsFiniteSet(Active)
    BY DEF TokenInv, Finite
<1>2. /\ runs' \in Seq(Run) /\ Len(runs') = Len(runs)
      /\ \A j \in 1..Len(runs) : j # i => runs'[j] = runs[j]
      /\ stamp' \in Seq(1..Len(runs')) /\ Stamped'
    BY <1>1, RunChanges
<1>3. /\ IsFiniteSet(Active') /\ Cardinality(Active') \in Nat
      /\ Cardinality(Active') <= Cardinality(Active) + 1
      /\ i \in Active \/ i \notin Active' => Cardinality(Active') <= Cardinality(Active)
      /\ i \in Active /\ i \notin Active' => Cardinality(Active') + 1 <= Cardinality(Active)
    BY <1>1, <1>2, OneRun
<1>4. UNCHANGED <<chain, dispatches, starting, aged, sweeping>>
    BY DEF RunBecomes
<1>5. TypeOK'
    BY <1>1, <1>2, <1>4 DEF TypeOK, UsedType
<1>6. Finite' /\ Tokens' <= Allowed'
    <2>1. /\ Cardinality(Waiting) \in Nat /\ Cardinality(Started) \in Nat
          /\ Cardinality(Active) \in Nat /\ advances \in Nat /\ Allowed \in Nat
          /\ IsFiniteSet(Waiting') /\ Cardinality(Waiting') = Cardinality(Waiting)
          /\ IsFiniteSet(Started') /\ Cardinality(Started') = Cardinality(Started)
        BY <1>1, <1>4, Untouched, Spent
    <2>2. Finite'
        BY <1>3, <2>1 DEF Finite
    <2>3. Cardinality(Active') + advances' + Allowed <= Cardinality(Active) + advances + Allowed'
        <3> DEFINE a == Cardinality(Active)
                   a2 == Cardinality(Active')
        <3>1. a \in Nat /\ a2 \in Nat /\ advances \in Nat /\ Allowed \in Nat
            BY <1>3, <2>1
        <3>2. \/ advances' = advances /\ Allowed' = Allowed + 1 /\ a2 <= a + 1
              \/ advances' = advances /\ Allowed' = Allowed /\ a2 <= a
              \/ advances' = advances + 1 /\ Allowed' = Allowed /\ a2 + 1 <= a
              \/ advances' = advances + 1 /\ Allowed' = Allowed + 1 /\ a2 <= a
            <4>1. CASE advances' = advances /\ Allowed' = Allowed + 1
                BY <4>1, <1>3
            <4>2. CASE advances' = advances /\ Allowed' = Allowed
                       /\ (i \in Active \/ i \notin Active')
                BY <4>2, <1>3
            <4>3. CASE advances' = advances + 1 /\ Allowed' = Allowed
                       /\ i \in Active /\ i \notin Active'
                BY <4>3, <1>3
            <4>4. CASE advances' = advances + 1 /\ Allowed' = Allowed + 1 /\ i \in Active
                BY <4>4, <1>3
            <4> QED
                BY <4>1, <4>2, <4>3, <4>4
        <3> HIDE DEF a, a2
        <3>3. a2 + advances' + Allowed <= a + advances + Allowed'
            BY <3>1, <3>2, Paid
        <3> QED
            BY <3>3 DEF a, a2
    <2>4. Tokens' = Cardinality(Waiting) + Cardinality(Started) + Cardinality(Active') + advances'
        BY <2>1 DEF Tokens
    <2>5. Cardinality(Waiting) + Cardinality(Started) + Cardinality(Active) + advances <= Allowed
        BY <1>1 DEF Tokens
    <2>6. advances' \in Nat /\ Allowed' \in Nat
        OBVIOUS
    <2>7. Cardinality(Waiting) + Cardinality(Started) + Cardinality(Active') + advances' <= Allowed'
        <3> DEFINE rest == Cardinality(Waiting) + Cardinality(Started)
                   n == Cardinality(Active) + advances
                   m == Cardinality(Active') + advances'
        <3>1. rest \in Nat /\ n \in Nat /\ m \in Nat
            <4>1. rest \in Nat
                BY <2>1
            <4>2. n \in Nat
                BY <2>1
            <4>3. m \in Nat
                BY <1>3, <2>6
            <4> QED
                BY <4>1, <4>2, <4>3
        <3>2. rest + n <= Allowed /\ m + Allowed <= n + Allowed'
            <4> HIDE DEF rest
            <4>1. Cardinality(Waiting) + Cardinality(Started) = rest
                BY DEF rest
            <4>2. rest + n <= Allowed
                BY <2>1, <2>5, <3>1, <4>1
            <4>3. m + Allowed <= n + Allowed'
                BY <1>3, <2>1, <2>3, <2>6
            <4> QED
                BY <4>2, <4>3
        <3>3. rest + m <= Allowed'
            <4> HIDE DEF rest, n, m
            <4> QED
                BY <2>1, <2>6, <3>1, <3>2, Balance
        <3> QED
            BY <1>3, <2>1, <2>6, <3>3
    <2>8. Tokens' <= Allowed'
        BY <2>4, <2>7
    <2> QED
        BY <2>2, <2>8
<1> QED
    BY <1>2, <1>5, <1>6 DEF TokenInv

(* A check adds a writer and leaves the rows alone. *)
LEMMA CheckKeeps ==
    ASSUME TokenInv, NEW i \in 1..Len(runs), NEW what \in {"result", "cancel"},
           writers' = writers \cup {<<i, what>>}, what = "result" => i \in Active,
           UNCHANGED <<chain, runs, stamp, dispatches, advances, starting, aged, sweeping>>,
           used' \in UsedType, Allowed' = Allowed
    PROVE  TokenInv'
<1>1. TypeOK /\ Stamped /\ Finite /\ Tokens <= Allowed
    BY DEF TokenInv
<1>2. Active' \subseteq Active
    <2>1. ASSUME NEW j \in Active' PROVE j \in Active
        <3>1. j \in 1..Len(runs)
              /\ (runs[j].status \notin RunTerminal \/ <<j, "result">> \in writers \cup {<<i, what>>})
            BY <2>1 DEF Active
        <3>2. CASE <<j, "result">> = <<i, what>>
            BY <3>2
        <3>3. CASE <<j, "result">> # <<i, what>>
            BY <3>1, <3>3 DEF Active
        <3> QED
            BY <3>2, <3>3
    <2> QED
        BY <2>1
<1>3. /\ IsFiniteSet(Active') /\ Cardinality(Active') \in Nat
      /\ Cardinality(Active') <= Cardinality(Active)
    BY <1>1, <1>2, NoMore DEF Finite
<1>4. TypeOK'
    <2>1. writers' \subseteq (1..Len(runs')) \X {"result", "cancel"}
        BY <1>1 DEF TypeOK
    <2> QED
        BY <1>1, <2>1 DEF TypeOK, UsedType
<1>5. Finite' /\ Tokens' <= Allowed'
    BY <1>1, <1>3, Untouched, Spent DEF Finite, Tokens
<1> QED
    BY <1>1, <1>4, <1>5, Untouched DEF TokenInv

LEMMA RunStepKeeps ==
    ASSUME TokenInv, RunStep
    PROVE  TokenInv'
<1>1. PICK i \in 1..Len(runs) :
        \/ RunBegins(i) \/ RunRejected(i) \/ RunSentAgain(i) \/ RunReported(i)
        \/ RunLost(i) \/ OperatorStep(i)
    BY DEF RunStep
<1>2. /\ TypeOK /\ advances \in Nat /\ runs[i] \in Run
      /\ writers \subseteq (1..Len(runs)) \X {"result", "cancel"}
      /\ Allowed \in Nat /\ advances + 1 \in Nat /\ Allowed + 1 \in Nat
    <2>1. TypeOK
        BY DEF TokenInv
    <2>2. /\ advances \in Nat /\ runs \in Seq(Run)
          /\ writers \subseteq (1..Len(runs)) \X {"result", "cancel"}
        BY <2>1 DEF TypeOK
    <2>3. Allowed \in Nat
        BY <2>1, Spent
    <2>4. runs[i] \in Run
        BY <2>2
    <2> QED
        BY <2>1, <2>2, <2>3, <2>4
<1>3. runs[i].status \notin RunTerminal => i \in Active
    BY DEF Active
<1>4. ASSUME NEW from, NEW to \in RunStatus, RunBecomes(i, from, to)
      PROVE  runs[i].status \in from /\ Len(runs') = Len(runs) /\ runs'[i].status = to
    <2>1. runs \in Seq(Run)
        BY <1>2 DEF TypeOK
    <2>2. runs' = [runs EXCEPT ![i] = [runs[i] EXCEPT !.status = to]] /\ runs[i].status \in from
        BY <1>4, <2>1 DEF RunBecomes
    <2>3. [runs[i] EXCEPT !.status = to].status = to
        BY <1>2 DEF Run
    <2> QED
        BY <2>1, <2>2, <2>3
<1>5. ASSUME NEW from, NEW to \in RunTerminal, RunBecomes(i, from, to), <<i, "result">> \notin writers'
      PROVE  i \notin Active'
    BY <1>4, <1>5 DEF Active, RunStatus
<1>6. /\ "pending" \in RunStatus /\ "running" \in RunStatus /\ "paused" \in RunStatus
      /\ "failed" \in RunTerminal /\ "success" \in RunTerminal /\ "cancelled" \in RunTerminal
      /\ RunTerminal \subseteq RunStatus
      /\ "pending" \notin RunTerminal /\ "running" \notin RunTerminal /\ "paused" \notin RunTerminal
    BY DEF RunStatus, RunTerminal
<1>7. CASE RunBegins(i)
    <2>1. /\ RunBecomes(i, {"pending"}, "running") /\ stamp' = Touch(i)
          /\ UNCHANGED <<advances, writers, used>>
        BY <1>7 DEF RunBegins
    <2>2. i \in Active
        BY <2>1, <1>3, <1>4, <1>6
    <2> QED
        BY <1>2, <1>6, <2>1, <2>2, RunKeeps, Spent
<1>8. CASE RunRejected(i)
    <2>1. /\ RunBecomes(i, {"pending"}, "failed") /\ stamp' = Touch(i)
          /\ UNCHANGED <<advances, writers, used>>
        BY <1>8 DEF RunRejected
    <2>2. i \in Active
        BY <2>1, <1>3, <1>4, <1>6
    <2> QED
        BY <1>2, <1>6, <2>1, <2>2, RunKeeps, Spent
<1>9. CASE RunSentAgain(i)
    <2>1. /\ RunBecomes(i, RunStatus \ {"pending"}, "running") /\ stamp' = Touch(i)
          /\ UNCHANGED <<advances, writers>> /\ Spend("duplicates", MaxDuplicates)
        BY <1>9 DEF RunSentAgain
    <2> QED
        BY <1>2, <1>6, <2>1, RunKeeps, Spent
<1>10. CASE ResultChecked(i)
    <2>1. i \in Active
        BY <1>3, <1>10 DEF ResultChecked, RunTerminal
    <2>2. /\ writers' = writers \cup {<<i, "result">>}
          /\ UNCHANGED <<chain, runs, stamp, dispatches, advances, starting, aged, sweeping, used>>
        BY <1>10 DEF ResultChecked
    <2> QED
        BY <1>2, <2>1, <2>2, CheckKeeps, Spent
<1>11. ASSUME NEW to \in {"success", "failed"}, ResultSaved(i, to) PROVE TokenInv'
    <2>1. /\ <<i, "result">> \in writers /\ writers' = writers \ {<<i, "result">>}
          /\ RunBecomes(i, RunStatus, to) /\ stamp' = Touch(i)
          /\ advances' = advances + 1 /\ UNCHANGED used
        BY <1>11 DEF ResultSaved
    <2>2. i \in Active /\ to \in RunTerminal /\ to \in RunStatus
        BY <2>1, <1>6, <1>11 DEF Active
    <2>3. i \notin Active'
        BY <2>1, <2>2, <1>5
    <2> QED
        BY <1>2, <2>1, <2>2, <2>3, RunKeeps, Spent
<1>12. CASE RunTimedOut(i)
    <2>1. /\ RunBecomes(i, {"running"}, "failed") /\ advances' = advances + 1
          /\ UNCHANGED <<stamp, writers>>
          /\ Again(<<i, "result">> \in writers, "duplicates", MaxDuplicates)
        BY <1>12 DEF RunTimedOut
    <2>2. i \in Active
        BY <2>1, <1>3, <1>4, <1>6
    <2>3. CASE <<i, "result">> \in writers
        <3>1. Spend("duplicates", MaxDuplicates)
            BY <2>1, <2>3 DEF Again
        <3> QED
            BY <1>2, <1>6, <2>1, <2>2, <3>1, RunKeeps, Spent
    <2>4. CASE <<i, "result">> \notin writers
        <3>1. UNCHANGED used /\ i \notin Active'
            BY <2>1, <2>4, <1>5, <1>6 DEF Again
        <3> QED
            BY <1>2, <1>6, <2>1, <2>2, <3>1, RunKeeps, Spent
    <2> QED
        BY <2>3, <2>4
<1>13. CASE RunCutOff(i)
    <2>1. /\ RunBecomes(i, {"running"}, "failed") /\ UNCHANGED <<stamp, advances, writers, used>>
        BY <1>13 DEF RunCutOff
    <2>2. i \in Active
        BY <2>1, <1>3, <1>4, <1>6
    <2> QED
        BY <1>2, <1>6, <2>1, <2>2, RunKeeps, Spent
<1>14. CASE CancelChecked(i)
    <2>1. /\ writers' = writers \cup {<<i, "cancel">>} /\ Spend("cancels", MaxCancels)
          /\ UNCHANGED <<chain, runs, stamp, dispatches, advances, starting, aged, sweeping>>
        BY <1>14 DEF CancelChecked
    <2> QED
        BY <1>2, <2>1, CheckKeeps, Spent
<1>15. CASE CancelSaved(i)
    <2>1. /\ writers' = writers \ {<<i, "cancel">>} /\ stamp' = Touch(i)
          /\ RunBecomes(i, RunStatus, "cancelled") /\ UNCHANGED <<advances, used>>
        BY <1>15 DEF CancelSaved
    <2>2. i \in Active \/ i \notin Active'
        <3>1. CASE <<i, "result">> \in writers
            BY <3>1 DEF Active
        <3>2. CASE <<i, "result">> \notin writers
            BY <3>2, <2>1, <1>5, <1>6
        <3> QED
            BY <3>1, <3>2
    <2> QED
        BY <1>2, <1>6, <2>1, <2>2, RunKeeps, Spent
<1>16. CASE RunPaused(i)
    <2>1. /\ RunBecomes(i, {"running"}, "paused") /\ Spend("pauses", MaxPauses)
          /\ UNCHANGED <<stamp, advances, writers>>
        BY <1>16 DEF RunPaused
    <2>2. i \in Active
        BY <2>1, <1>3, <1>4, <1>6
    <2> QED
        BY <1>2, <1>6, <2>1, <2>2, RunKeeps, Spent
<1>17. CASE RunResumed(i)
    <2>1. /\ RunBecomes(i, {"paused"}, "running") /\ UNCHANGED <<stamp, advances, writers, used>>
        BY <1>17 DEF RunResumed
    <2>2. i \in Active
        BY <2>1, <1>3, <1>4, <1>6
    <2> QED
        BY <1>2, <1>6, <2>1, <2>2, RunKeeps, Spent
<1> QED
    BY <1>1, <1>7, <1>8, <1>9, <1>10, <1>11, <1>12, <1>13, <1>14, <1>15, <1>16, <1>17
       DEF RunReported, RunLost, OperatorStep

(* An advance becomes a message for a node, or nothing. *)
LEMMA AdvanceKeeps ==
    ASSUME TokenInv, Advance
    PROVE  TokenInv'
<1>1. TypeOK /\ Stamped /\ Finite /\ Tokens <= Allowed /\ advances \in Nat /\ advances > 0
    BY DEF TokenInv, TypeOK, Advance
<1>2. UNCHANGED <<runs, stamp, starting, writers, aged, sweeping>>
    BY DEF Advance
<1>3. \/ UNCHANGED <<chain, dispatches>>
      \/ UNCHANGED dispatches /\ \E s \in ChainTerminal : chain' = [chain EXCEPT !.status = s]
      \/ UNCHANGED chain /\ \E n : dispatches' = [dispatches EXCEPT ![n] = @ + 1]
    <2>1. \/ UNCHANGED <<chain, dispatches>>
          \/ \E s \in ChainTerminal : ChainBecomes(s)
          \/ \E n : Dispatch(n)
        BY DEF Advance, NothingToDo, OnSuccess, OnFailed, OnCancelled, DispatchNext, ChainTerminal
    <2> QED
        BY <2>1 DEF ChainBecomes, Dispatch
<1>4. chain' \in [status : ChainStatus, current : 0..Nodes]
    <2>1. chain \in [status : ChainStatus, current : 0..Nodes]
        BY <1>1 DEF TypeOK
    <2>2. ASSUME NEW s \in ChainTerminal, chain' = [chain EXCEPT !.status = s]
          PROVE  chain' \in [status : ChainStatus, current : 0..Nodes]
        BY <2>1, <2>2 DEF ChainStatus
    <2> QED
        BY <1>3, <2>1, <2>2
<1>5. /\ dispatches' \in [1..Nodes -> Nat]
      /\ IsFiniteSet(Waiting') /\ Cardinality(Waiting') \in Nat
      /\ Cardinality(Waiting') <= Cardinality(Waiting) + 1
    <2>1. CASE UNCHANGED dispatches
        BY <2>1, <1>1, Untouched
    <2>2. ASSUME NEW n, dispatches' = [dispatches EXCEPT ![n] = @ + 1]
          PROVE  /\ dispatches' \in [1..Nodes -> Nat]
                 /\ IsFiniteSet(Waiting') /\ Cardinality(Waiting') \in Nat
                 /\ Cardinality(Waiting') <= Cardinality(Waiting) + 1
        BY <2>2, <1>1, MessagePut DEF Finite
    <2> QED
        BY <1>3, <2>1, <2>2
<1>6. /\ used' \in UsedType /\ advances' \in Nat
      /\ \/ Allowed' = Allowed /\ advances' = advances - 1
         \/ Allowed' = Allowed + 1 /\ advances' = advances
    BY <1>1, Spent DEF Advance, Again
<1>7. TypeOK'
    BY <1>1, <1>2, <1>4, <1>5, <1>6 DEF TypeOK, UsedType
<1>8. Finite' /\ Tokens' <= Allowed'
    <2>1. /\ Cardinality(Waiting) \in Nat /\ Cardinality(Started) \in Nat
          /\ Cardinality(Active) \in Nat /\ Allowed \in Nat
          /\ IsFiniteSet(Started') /\ Cardinality(Started') = Cardinality(Started)
          /\ IsFiniteSet(Active') /\ Cardinality(Active') = Cardinality(Active)
        BY <1>1, <1>2, Untouched, Spent
    <2>2. Finite'
        BY <1>5, <2>1 DEF Finite
    <2>3. Tokens' = Cardinality(Waiting') + (Cardinality(Started) + Cardinality(Active)) + advances'
        BY <1>5, <1>6, <2>1 DEF Tokens
    <2>4. Cardinality(Waiting) + Cardinality(Started) + Cardinality(Active) + advances <= Allowed
        BY <1>1 DEF Tokens
    <2>5. Cardinality(Waiting') + (Cardinality(Started) + Cardinality(Active)) + advances' <= Allowed'
        <3> DEFINE w == Cardinality(Waiting)
                   w2 == Cardinality(Waiting')
                   rest == Cardinality(Started) + Cardinality(Active)
                   a == advances
                   a2 == advances'
                   l == Allowed
                   l2 == Allowed'
        <3>1. /\ w \in Nat /\ rest \in Nat /\ a \in Nat /\ l \in Nat
              /\ w2 \in Nat /\ w2 <= w + 1 /\ a2 \in Nat
              /\ (l2 = l /\ a2 = a - 1) \/ (l2 = l + 1 /\ a2 = a)
            <4>1. w \in Nat /\ rest \in Nat /\ l \in Nat
                BY <2>1
            <4>2. a \in Nat
                BY <1>1
            <4>3. w2 \in Nat /\ w2 <= w + 1
                BY <1>5
            <4>4. a2 \in Nat /\ ((l2 = l /\ a2 = a - 1) \/ (l2 = l + 1 /\ a2 = a))
                BY <1>6
            <4> QED
                BY <4>1, <4>2, <4>3, <4>4
        <3>2. w + rest + a <= l
            BY <1>1, <2>1, <2>4
        <3> HIDE DEF w, w2, rest, a, a2, l, l2
        <3>3. w2 + rest + a2 <= l2
            <4>1. CASE l2 = l /\ a2 = a - 1
                BY <3>1, <3>2, <4>1
            <4>2. CASE l2 = l + 1 /\ a2 = a
                BY <3>1, <3>2, <4>2
            <4> QED
                BY <3>1, <4>1, <4>2
        <3> QED
            BY <3>3 DEF w2, rest, a2, l2
    <2>6. Tokens' <= Allowed'
        BY <2>3, <2>5
    <2> QED
        BY <2>2, <2>6
<1> QED
    BY <1>1, <1>2, <1>7, <1>8, Untouched DEF TokenInv

(* The sweep may only write the status of the chain. *)
LEMMA SweepStepKeeps ==
    ASSUME TokenInv, SweepStep \/ UNCHANGED vars
    PROVE  TokenInv'
<1>1. TypeOK /\ Stamped /\ Finite /\ Tokens <= Allowed
    BY DEF TokenInv
<1>2. /\ UNCHANGED <<runs, stamp, dispatches, advances, starting, writers, used>>
      /\ aged' \in BOOLEAN /\ sweeping' \in BOOLEAN
      /\ UNCHANGED chain \/ chain' = [chain EXCEPT !.status = "failed"]
    BY <1>1 DEF SweepStep, BecomeAged, StuckFound, StuckFailed, ChainBecomes, vars, TypeOK
<1>3. chain' \in [status : ChainStatus, current : 0..Nodes]
    BY <1>1, <1>2 DEF TypeOK, ChainStatus, ChainTerminal
<1>4. TypeOK'
    BY <1>1, <1>2, <1>3 DEF TypeOK
<1>5. Finite' /\ Tokens' <= Allowed'
    BY <1>1, <1>2, Untouched, Spent DEF Finite, Tokens
<1> QED
    BY <1>1, <1>2, <1>4, <1>5, Untouched DEF TokenInv

-----------------------------------------------------------------------------
(* The theorems.                                                           *)

LEMMA TokensAtFirst ==
    ASSUME Init
    PROVE  TokenInv
<1>1. /\ runs = <<>> /\ stamp = <<>> /\ Len(runs) = 0
      /\ used = [redelivered |-> 0, duplicates |-> 0, pauses |-> 0, cancels |-> 0, refused |-> 0]
    BY DEF Init
<1>2. used \in UsedType
    BY <1>1, ChainAssumption DEF UsedType
<1>3. chain \in [status : ChainStatus, current : 0..Nodes]
    BY ChainAssumption DEF Init, ChainStatus
<1>4. runs \in Seq(Run) /\ stamp \in Seq(1..Len(runs)) /\ Stamped
    BY <1>1 DEF Stamped
<1>5. TypeOK
    <2>1. dispatches \in [1..Nodes -> Nat] /\ advances \in Nat
        BY DEF Init
    <2>2. starting \in [Threads -> 0..Nodes]
        BY ChainAssumption DEF Init
    <2>3. /\ writers \subseteq (1..Len(runs)) \X {"result", "cancel"}
          /\ aged \in BOOLEAN /\ sweeping \in BOOLEAN
        BY DEF Init
    <2> QED
        BY <1>2, <1>3, <1>4, <2>1, <2>2, <2>3 DEF TypeOK, UsedType
<1>6. Started = {} /\ Active = {}
    BY DEF Init, Started, Active
<1>7. Waiting \subseteq {<<1, 1>>}
    <2>1. ASSUME NEW w \in Waiting PROVE w = <<1, 1>>
        <3>1. PICK m \in 1..Nodes, k \in Nat : w = <<m, k>>
            BY <2>1 DEF Waiting
        <3>2. 1 <= k /\ k <= (IF m = 1 THEN 1 ELSE 0)
            BY <2>1, <3>1 DEF Waiting, Init
        <3> QED
            BY <3>1, <3>2
    <2> QED
        BY <2>1
<1>8. IsFiniteSet(Waiting) /\ Cardinality(Waiting) \in Nat /\ Cardinality(Waiting) <= 1
    <2>1. IsFiniteSet({<<1, 1>>}) /\ Cardinality({<<1, 1>>}) = 1
        BY FS_Singleton
    <2> QED
        BY <1>7, <2>1, NoMore
<1>9. Finite
    BY <1>6, <1>8, FS_EmptySet DEF Finite
<1>10. Cardinality(Started) = 0 /\ Cardinality(Active) = 0
    BY <1>6, FS_EmptySet
<1>11. Tokens <= Allowed
    <2>1. advances = 0 /\ Allowed = 1
        BY <1>1 DEF Init, Allowed
    <2> QED
        BY <1>8, <1>10, <2>1 DEF Tokens
<1> QED
    BY <1>4, <1>5, <1>9, <1>11 DEF TokenInv

LEMMA TokensConserved == Spec => []TokenInv
<1>1. ASSUME TokenInv, [Next]_vars PROVE TokenInv'
    BY <1>1, NodeStepKeeps, RunStepKeeps, AdvanceKeeps, SweepStepKeeps DEF Next
<1> QED
    BY TokensAtFirst, <1>1, PTL DEF Spec

(* Type correctness, for every number of nodes and threads. *)
THEOREM TypeCorrect == Spec => []TypeOK
<1>1. TokenInv => TypeOK
    BY DEF TokenInv
<1> QED
    BY <1>1, TokensConserved, PTL

(* The device is driven by one run of the chain at a time, and by one more *)
(* for each message or run that was repeated, however a node ends and      *)
(* however often it is retried.                                            *)
THEOREM ActiveRunsAreBounded == Spec => []ActiveRunsBounded
<1>1. ASSUME TokenInv PROVE ActiveRunsBounded
    <2>1. TypeOK /\ Stamped /\ Finite /\ Tokens <= Allowed
        BY <1>1 DEF TokenInv
    <2>2. Unfinished \subseteq Active
        BY DEF Unfinished, Active
    <2>3. Cardinality(Unfinished) \in Nat /\ Cardinality(Unfinished) <= Cardinality(Active)
        BY <2>1, <2>2, NoMore DEF Finite
    <2> QED
        BY <2>1, <2>3, Untouched, Spent DEF Tokens, Allowed, ActiveRunsBounded
<1> QED
    BY <1>1, TokensConserved, PTL

=============================================================================
