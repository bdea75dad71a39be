------------------------ MODULE UnattendedSessionProofs ------------------------
(* Proofs about UnattendedSession: any number of start requests, devices,  *)
(* accounts and chains, any conditions for stopping.                       *)
EXTENDS UnattendedSession, FiniteSetTheorems, TLAPS

-----------------------------------------------------------------------------
(* Type correctness.  A message waits for a chain that has not begun, a    *)
(* hook for one that has ended: only so their rows are there.              *)

MessagesWait ==
    /\ \A c \in messages : chain[c].status = "pending"
    /\ \A c \in hooks \cup hooking : chain[c].status = "ended"

Typed == TypeOK /\ MessagesWait

(* The cursor of loop rotation stays on the accounts. *)
LEMMA CursorStays ==
    ASSUME NEW i \in 0 .. Len(Order) - 1
    PROVE  After(i) \in 0 .. Len(Order) - 1 /\ After(0) \in 0 .. Len(Order) - 1
<1>1. Len(Order) \in Nat /\ Len(Order) > 0
    BY UnattendedAssumption
<1>2. i + 1 < Len(Order) => (i + 1) % Len(Order) = i + 1
    BY <1>1
<1>3. \A n \in Nat : n % Len(Order) \in 0 .. Len(Order) - 1
    BY <1>1
<1> QED
    BY <1>1, <1>3 DEF After

(* The accounts that are offered are accounts. *)
LEMMA AccountsOffered ==
    ASSUME TypeOK, NEW s \in Sessions
    PROVE  StartAccounts(s) \subseteq Accounts /\ NextAccounts(s) \subseteq Accounts
<1>1. Len(Order) \in Nat /\ Len(Order) > 0
    BY UnattendedAssumption
<1>2. session[s].index \in Nat
    BY <1>1 DEF TypeOK, SessionType
<1>3. \A n \in Nat : (n % Len(Order)) + 1 \in 1 .. Len(Order)
    BY <1>1
<1>4. ASSUME NEW i \in 1..Len(Order) PROVE FromCursor(s)[i] \in Accounts
    <2> DEFINE n == i - 1 + IF session[s].loop THEN session[s].index ELSE 0
    <2>1. n \in Nat
        BY <1>1, <1>2
    <2>2. FromCursor(s)[i] = Order[(n % Len(Order)) + 1]
        BY DEF FromCursor
    <2> QED
        BY <1>3, <2>1, <2>2 DEF Accounts
<1> QED
    BY <1>1, <1>4 DEF StartAccounts, NextAccounts, Accounts

(* A chain that is created has its row; the others keep theirs. *)
LEMMA TypeCreate ==
    ASSUME Typed, NEW c \in NewChains, NEW d \in Devices, NEW a \in Accounts,
           NEW s \in Sessions, Create(c, d, a, s), UNCHANGED <<hooks, hooking>>
    PROVE  /\ c \in Chains /\ chain[c] = NoChain
           /\ chain' \in [Chains -> ChainType \cup {NoChain}]
           /\ messages' \subseteq Chains /\ MessagesWait'
<1>1. c \in Chains /\ chain[c] = NoChain
    BY DEF NewChains
<1>2. [status |-> "pending", device |-> d, account |-> a, owner |-> s] \in ChainType
    BY DEF ChainType, Live
<1>3. c \notin hooks \cup hooking
    BY <1>1 DEF Typed, MessagesWait, NoChain
<1> QED
    BY <1>1, <1>2, <1>3 DEF Typed, TypeOK, MessagesWait, Create

(* A row that is forgotten belonged to a chain that had ended. *)
LEMMA TypeForget ==
    ASSUME Typed, NEW c \in hooks \cup hooking, NEW active, Forget(c, active),
           hooks' \subseteq hooks, hooking' \subseteq hooking \cup hooks,
           UNCHANGED messages
    PROVE  /\ chain' \in [Chains -> ChainType \cup {NoChain}] /\ MessagesWait'
           /\ chain[c] \in ChainType /\ chain[c].owner \in Sessions
<1>1. c \in Chains /\ chain[c].status = "ended" /\ c \notin messages
    BY DEF Typed, TypeOK, MessagesWait
<1>2. chain[c] \in ChainType
    BY <1>1 DEF Typed, TypeOK, NoChain
<1>3. chain[c].owner \in Sessions
    BY <1>2 DEF ChainType
<1> QED
    BY <1>1, <1>2, <1>3 DEF Forget, Typed, TypeOK, MessagesWait

(* The history of a session may be marked. *)
LEMMA MarkedTwice ==
    ASSUME NEW h \in SeenType, NEW P
    PROVE  [h EXCEPT !.twice = @ \/ P] \in SeenType
<1>1. h.twice \in BOOLEAN
    BY DEF SeenType
<1>2. (h.twice \/ P) \in BOOLEAN
    OBVIOUS
<1> QED
    BY <1>2 DEF SeenType

(* The steps of the start view keep the types. *)
LEMMA TypeStart ==
    ASSUME Typed, NEW s \in Sessions, StartCheck(s) \/ Start(s)
    PROVE  Typed'
<1> USE DEF Typed, TypeOK
<1>0. start[s] \in StartType /\ session[s] \in SessionType /\ seen[s] \in SeenType
    OBVIOUS
<1>1. CASE StartCheck(s)
    <2>1. [start[s] EXCEPT !.pc = "checked"] \in StartType
        BY <1>0 DEF StartType
    <2>2. start' = [start EXCEPT ![s] = [start[s] EXCEPT !.pc = "checked"]]
        BY <1>1 DEF StartCheck
    <2> QED
        BY <1>1, <2>1, <2>2 DEF StartCheck, MessagesWait
<1>2. CASE StartCreate(s)
    <2>1. PICK mode \in Modes :
              session' = [session EXCEPT ![s].loop = mode[1], ![s].rotation = mode[2]]
        BY <1>2 DEF StartCreate
    <2>2. mode[1] \in BOOLEAN /\ mode[2] \in BOOLEAN
        BY UnattendedAssumption
    <2>3. [session[s] EXCEPT !.loop = mode[1], !.rotation = mode[2]] \in SessionType
        BY <1>0, <2>2 DEF SessionType
    <2>4. session' = [session EXCEPT ![s] =
                         [session[s] EXCEPT !.loop = mode[1], !.rotation = mode[2]]]
        BY <2>1
    <2>5. [start[s] EXCEPT !.pc = "loop", !.todo = Devices] \in StartType
        BY <1>0 DEF StartType
    <2>6. start' = [start EXCEPT ![s] = [start[s] EXCEPT !.pc = "loop", !.todo = Devices]]
        BY <1>2 DEF StartCreate
    <2>7. session' \in [Sessions -> SessionType] /\ start' \in [Sessions -> StartType]
        BY <2>3, <2>4, <2>5, <2>6
    <2> QED
        BY <1>2, <2>7 DEF StartCreate, MessagesWait
<1>3. ASSUME NEW d \in Devices, StartLooks(s, d) PROVE Typed'
    <2>1. [start[s] EXCEPT !.todo = @ \ {d}, !.idle = {d}] \in StartType
        BY <1>0 DEF StartType
    <2>2. start' = [start EXCEPT ![s] = [start[s] EXCEPT !.todo = @ \ {d}, !.idle = {d}]]
        BY <1>3 DEF StartLooks
    <2> QED
        BY <1>3, <2>1, <2>2 DEF StartLooks, MessagesWait
<1>4. ASSUME NEW d \in Devices, StartDispatches(s, d) PROVE Typed'
    <2>1. PICK a \in StartAccounts(s), c \in NewChains :
              /\ Create(c, d, a, s)
              /\ start' = [start EXCEPT ![s].idle = {}, ![s].chains = @ \cup {c},
                                        ![s].accounts = @ \cup {a}]
              /\ seen' = [seen EXCEPT
                    ![s].raced = @ \/ Busy(d),
                    ![s].twice = @ \/ a \in start[s].accounts \cup session[s].dispatched]
        BY <1>4 DEF StartDispatches
    <2>2. a \in Accounts
        BY AccountsOffered
    <2>3. c \in Chains /\ chain' \in [Chains -> ChainType \cup {NoChain}]
          /\ messages' \subseteq Chains /\ MessagesWait'
        BY <1>4, <2>1, <2>2, TypeCreate DEF StartDispatches
    <2>4. [start[s] EXCEPT !.idle = {}, !.chains = @ \cup {c},
                           !.accounts = @ \cup {a}] \in StartType
        BY <1>0, <2>2, <2>3 DEF StartType
    <2>5. start' = [start EXCEPT ![s] = [start[s] EXCEPT !.idle = {}, !.chains = @ \cup {c},
                                                         !.accounts = @ \cup {a}]]
        BY <2>1
    <2> DEFINE was == [seen[s] EXCEPT
                    !.raced = @ \/ Busy(d),
                    !.twice = @ \/ a \in start[s].accounts \cup session[s].dispatched]
    <2>6. was \in SeenType
        BY <1>0 DEF SeenType
    <2>7. seen' = [seen EXCEPT ![s] = was]
        BY <2>1
    <2> QED
        BY <1>4, <2>3, <2>4, <2>5, <2>6, <2>7 DEF StartDispatches
<1>5. CASE StartRegisters(s)
    <2>1. [session[s] EXCEPT !.active = @ \cup start[s].chains] \in SessionType
        BY <1>0 DEF SessionType, StartType
    <2>2. [start[s] EXCEPT !.pc = "save", !.todo = {}, !.chains = {}] \in StartType
        BY <1>0 DEF StartType
    <2>3. /\ session' = [session EXCEPT ![s] =
                            [session[s] EXCEPT !.active = @ \cup start[s].chains]]
          /\ start' = [start EXCEPT ![s] =
                            [start[s] EXCEPT !.pc = "save", !.todo = {}, !.chains = {}]]
        BY <1>5 DEF StartRegisters
    <2> QED
        BY <1>5, <2>1, <2>2, <2>3 DEF StartRegisters, MessagesWait
<1>6. CASE StartSaves(s)
    <2> DEFINE next == IF session[s].rotation /\ session[s].loop /\ start[s].accounts # {}
                       THEN After(0) ELSE 0
               row == [session[s] EXCEPT !.dispatched = start[s].accounts, !.index = next]
               was == [seen[s] EXCEPT
                   !.early = @ \/ session[s].dispatched # {},
                   !.missed = @ \/ (session[s].loop
                                      /\ start[s].accounts \ TrackedAccounts(s) # {})]
    <2>1. next \in 0 .. Len(Order) - 1
        BY CursorStays, UnattendedAssumption
    <2>2. row \in SessionType
        BY <1>0, <2>1 DEF SessionType, StartType
    <2>3. was \in SeenType
        BY <1>0 DEF SeenType, SessionType
    <2>4. [start[s] EXCEPT !.pc = "done", !.accounts = {}] \in StartType
        BY <1>0 DEF StartType
    <2>5. /\ session' = [session EXCEPT ![s] = row] /\ seen' = [seen EXCEPT ![s] = was]
          /\ start' = [start EXCEPT ![s] = [start[s] EXCEPT !.pc = "done", !.accounts = {}]]
        BY <1>6 DEF StartSaves
    <2>6. /\ session' \in [Sessions -> SessionType] /\ start' \in [Sessions -> StartType]
          /\ seen' \in [Sessions -> SeenType]
        <3> HIDE DEF row, was
        <3> QED
            BY <2>2, <2>3, <2>4, <2>5
    <2> QED
        BY <1>6, <2>6 DEF StartSaves, MessagesWait
<1> QED
    BY <1>1, <1>2, <1>3, <1>4, <1>5, <1>6 DEF Start

(* The other views and the ticks keep them. *)
LEMMA TypeViewsAndTicks ==
    ASSUME Typed,
           \/ \E s \in Sessions : ViewReads(s) \/ ViewWrites(s) \/ TickRound(s)
           \/ TickStep
    PROVE  Typed'
<1> USE DEF Typed, TypeOK, TickType
<1>1. ASSUME NEW s \in Sessions, ViewReads(s) PROVE Typed'
    BY <1>1, UnattendedAssumption DEF ViewReads, MessagesWait, Changes
<1>2. ASSUME NEW s \in Sessions, ViewWrites(s) PROVE Typed'
    <2> DEFINE row == [session[s] EXCEPT !.reason = IF view[s] = "stopped" THEN "manual" ELSE @]
    <2>0. session[s] \in SessionType
        OBVIOUS
    <2>1. row \in SessionType
        BY <2>0 DEF SessionType
    <2>2. session' = [session EXCEPT ![s] = row]
        BY <1>2 DEF ViewWrites
    <2>3. session' \in [Sessions -> SessionType]
        <3> HIDE DEF row
        <3> QED
            BY <2>1, <2>2
    <2> QED
        BY <1>2, <2>3 DEF ViewWrites, MessagesWait
<1>3. CASE TickBegins
    BY <1>3 DEF TickBegins, NoTick, MessagesWait
<1>4. CASE TickCommits
    BY <1>4 DEF TickCommits, NoTick, MessagesWait
<1>5. ASSUME NEW s \in Sessions, TickSession(s) PROVE Typed'
    BY <1>5 DEF TickSession, MessagesWait
<1>6. ASSUME NEW s \in Sessions, NEW d \in Devices, TickDispatches(s, d) PROVE Typed'
    <2>1. PICK a \in NextAccounts(s), c \in NewChains :
              /\ Create(c, d, a, s)
              /\ session' = [session EXCEPT
                    ![s].active = @ \cup {c},
                    ![s].dispatched = @ \cup {a},
                    ![s].index = IF session[s].loop /\ session[s].rotation
                                 THEN After(@) ELSE @]
              /\ tick' = [tick EXCEPT !.devices = @ \ {d}, !.created = @ \cup {c}]
              /\ seen' = [seen EXCEPT ![s].twice = @ \/ a \in start[s].accounts]
        BY <1>6 DEF TickDispatches
    <2>2. a \in Accounts
        BY AccountsOffered
    <2>3. c \in Chains /\ chain' \in [Chains -> ChainType \cup {NoChain}]
          /\ messages' \subseteq Chains /\ MessagesWait'
        BY <1>6, <2>1, <2>2, TypeCreate DEF TickDispatches
    <2> DEFINE row == [session[s] EXCEPT
                    !.active = @ \cup {c}, !.dispatched = @ \cup {a},
                    !.index = IF session[s].loop /\ session[s].rotation THEN After(@) ELSE @]
               was == [seen[s] EXCEPT !.twice = @ \/ a \in start[s].accounts]
    <2>4. session[s] \in SessionType /\ session[s].index \in 0 .. Len(Order) - 1
        BY DEF SessionType
    <2>5. row \in SessionType
        BY <2>2, <2>3, <2>4, CursorStays DEF SessionType
    <2>6. was \in SeenType
        BY MarkedTwice
    <2>7. session' = [session EXCEPT ![s] = row] /\ seen' = [seen EXCEPT ![s] = was]
        BY <2>1
    <2>8. session' \in [Sessions -> SessionType] /\ seen' \in [Sessions -> SeenType]
        <3> HIDE DEF row, was
        <3> QED
            BY <2>5, <2>6, <2>7
    <2>9. tick' \in TickType
        BY <2>1, <2>3
    <2> QED
        BY <1>6, <2>3, <2>8, <2>9 DEF TickDispatches
<1> QED
    BY <1>1, <1>2, <1>3, <1>4, <1>5, <1>6 DEF TickStep, TickRound

(* The row a completion writes. *)
LEMMA TypeProcessed ==
    ASSUME Typed, NEW c \in hooking, NEW how \in Outcomes
    PROVE  /\ chain[c].owner \in Sessions
           /\ Processed(chain[c].owner, c, how) \in SessionType
<1>1. c \in Chains /\ chain[c].status = "ended"
    BY DEF Typed, TypeOK, MessagesWait
<1>2. chain[c] \in ChainType
    BY <1>1 DEF Typed, TypeOK, NoChain
<1> DEFINE s == chain[c].owner
           row == session[s]
<1>3. s \in Sessions /\ chain[c].account \in Accounts
    BY <1>2 DEF ChainType
<1>4. row \in SessionType
    BY <1>3 DEF Typed, TypeOK
<1>5. Len(Order) \in Nat /\ FailLimit \in Nat \ {0}
    BY UnattendedAssumption
<1>6. Capped(row.completed, IF row.loop THEN 0 ELSE Len(Order)) \in 0 .. Len(Order)
    <2>1. row.completed \in 0 .. Len(Order)
        BY <1>4 DEF SessionType
    <2>2. ASSUME NEW n \in 0 .. Len(Order), NEW max \in {0, Len(Order)}
          PROVE  Capped(n, max) \in 0 .. Len(Order)
        BY <1>5, <2>2 DEF Capped
    <2> HIDE DEF row
    <2> QED
        BY <2>1, <2>2
<1>7. Failures(s, how) \in 0 .. FailLimit
    <2>1. row.failed \in 0 .. FailLimit
        BY <1>4 DEF SessionType
    <2>2. Capped(row.failed, FailLimit) \in 0 .. FailLimit
        <3> HIDE DEF row
        <3> QED
            BY <1>5, <2>1 DEF Capped
    <2>3. 0 \in 0 .. FailLimit
        BY <1>5
    <2> QED
        BY <2>1, <2>2, <2>3 DEF Failures, Outcomes
<1> DEFINE rest == IF row.loop /\ status[s] = "running"
                   THEN row.dispatched \ {chain[c].account} ELSE row.dispatched
           count == Capped(row.completed, IF row.loop THEN 0 ELSE Len(Order))
<1>8. rest \subseteq Accounts /\ row.active \ {c} \subseteq Chains
    BY <1>4 DEF SessionType
<1>9. Processed(s, c, how) =
          [row EXCEPT !.active = row.active \ {c}, !.completed = count,
                      !.failed = Failures(s, how), !.dispatched = rest]
    BY <1>4 DEF Processed, SessionType
<1>10. Processed(s, c, how) \in SessionType
    <2>1. count \in 0 .. Len(Order)
        BY <1>6
    <2>2. [row EXCEPT !.active = row.active \ {c}, !.completed = count,
                      !.failed = Failures(s, how), !.dispatched = rest] \in SessionType
        <3> HIDE DEF row, count, rest, s
        <3> QED
            BY <1>4, <1>7, <1>8, <2>1 DEF SessionType
    <2> QED
        BY <1>9, <2>2
<1> QED
    BY <1>3, <1>10

(* What a completion writes, whether it stops the session or not. *)
LEMMA HookWrites ==
    ASSUME Typed, NEW c \in Chains, HookProcesses(c)
    PROVE  /\ c \in hooking /\ chain[c].owner \in Sessions
           /\ chain[c].owner \notin tick.locked
           /\ \E how \in Outcomes, conds \in SUBSET Conditions :
                 LET s == chain[c].owner
                     row == Processed(s, c, how)
                 IN  /\ row \in SessionType
                     /\ "all_completed" \in conds => AllCompleted(row)
                     /\ \/ /\ session' = [session EXCEPT ![s] = row]
                           /\ UNCHANGED status
                        \/ /\ First(conds) \in Stops
                           /\ First(conds) = "all_completed" <=> "all_completed" \in conds
                           /\ session' = [session EXCEPT ![s] =
                                            [row EXCEPT !.reason = First(conds)]]
                           /\ status' = [status EXCEPT ![s] = "stopped"]
           /\ session' \in [Sessions -> SessionType]
           /\ status' \in [Sessions -> {"none", "running", "paused", "stopped"}]
<1> DEFINE s == chain[c].owner
<1>1. c \in hooking /\ s \notin tick.locked
    BY DEF HookProcesses
<1>2. PICK how \in Outcomes, outside \in BOOLEAN :
          LET row == Processed(s, c, how)
              conds == Triggered(row, outside)
          IN  IF conds = {}
              THEN session' = [session EXCEPT ![s] = row] /\ UNCHANGED status
              ELSE /\ session' = [session EXCEPT ![s] = [row EXCEPT !.reason = First(conds)]]
                   /\ status' = [status EXCEPT ![s] = "stopped"]
    BY DEF HookProcesses
<1> DEFINE row == Processed(s, c, how)
           conds == Triggered(row, outside)
<1>3. s \in Sessions /\ row \in SessionType
    BY <1>1, TypeProcessed
<1>4. conds \in SUBSET Conditions /\ ("all_completed" \in conds => AllCompleted(row))
    BY DEF Triggered
<1>5. /\ First(conds) \in Stops
      /\ First(conds) = "all_completed" <=> "all_completed" \in conds
    BY DEF First, Stops
<1>6. /\ session \in [Sessions -> SessionType]
      /\ status \in [Sessions -> {"none", "running", "paused", "stopped"}]
    BY DEF Typed, TypeOK
<1>7. [row EXCEPT !.reason = First(conds)] \in SessionType
    <2> HIDE DEF row, conds
    <2> QED
        BY <1>3, <1>5 DEF SessionType
<1>8. \/ session' = [session EXCEPT ![s] = row] /\ UNCHANGED status
      \/ /\ session' = [session EXCEPT ![s] = [row EXCEPT !.reason = First(conds)]]
         /\ status' = [status EXCEPT ![s] = "stopped"]
    BY <1>2
<1>9. /\ session' \in [Sessions -> SessionType]
      /\ status' \in [Sessions -> {"none", "running", "paused", "stopped"}]
    <2> HIDE DEF row, conds, s
    <2> QED
        BY <1>3, <1>6, <1>7, <1>8
<1> QED
    <2> HIDE DEF conds
    <2> QED
        BY <1>1, <1>3, <1>4, <1>5, <1>8, <1>9

LEMMA TypeMiss ==
    ASSUME TypeOK, NEW s \in Sessions, Miss(s)
    PROVE  seen' \in [Sessions -> SeenType]
<1>1. seen[s] \in SeenType /\ seen \in [Sessions -> SeenType]
    BY DEF TypeOK
<1>2. [seen[s] EXCEPT !.missed = TRUE] \in SeenType
    BY <1>1 DEF SeenType
<1>3. seen' = [seen EXCEPT ![s] = [seen[s] EXCEPT !.missed = TRUE]]
    BY DEF Miss
<1> QED
    BY <1>1, <1>2, <1>3

(* So do chains and their hooks. *)
LEMMA TypeChains ==
    ASSUME Typed, NEW c \in Chains, ChainStep(c) \/ HookFails(c)
    PROVE  Typed'
<1> USE DEF Typed, TypeOK
<1>1. CASE ChainBegins(c)
    <2>1. c \in messages /\ chain[c].status = "pending"
        BY <1>1 DEF ChainBegins, MessagesWait
    <2>2. chain[c] \in ChainType
        BY <2>1 DEF NoChain
    <2>3. [chain[c] EXCEPT !.status = "running"] \in ChainType /\ chain[c].owner \in Sessions
        BY <2>2 DEF ChainType, Live
    <2>4. /\ \/ chain' = chain /\ Miss(chain[c].owner)
             \/ /\ chain' = [chain EXCEPT ![c] = [chain[c] EXCEPT !.status = "running"]]
                /\ seen' = seen
          /\ seen' \in [Sessions -> SeenType]
        <3>1. Miss(chain[c].owner) => seen' \in [Sessions -> SeenType]
            BY <2>3, TypeMiss
        <3>2. CASE c \in tick.created
            BY <1>1, <3>1, <3>2 DEF ChainBegins
        <3>3. CASE c \notin tick.created
            <4>1. chain' = [chain EXCEPT ![c].status = "running"] /\ seen' = seen
                BY <1>1, <3>3 DEF ChainBegins
            <4> QED
                BY <4>1
        <3> QED
            BY <3>2, <3>3
    <2>5. c \notin hooks \cup hooking
        BY <2>1 DEF MessagesWait
    <2> QED
        BY <1>1, <2>3, <2>4, <2>5 DEF ChainBegins, MessagesWait
<1>2. CASE ChainEnds(c)
    <2>1. chain[c].status = "running"
        BY <1>2 DEF ChainEnds
    <2>2. chain[c] \in ChainType /\ c \notin messages
        BY <2>1 DEF NoChain, MessagesWait
    <2>3. [chain[c] EXCEPT !.status = "ended"] \in ChainType
        BY <2>2 DEF ChainType
    <2>4. chain' = [chain EXCEPT ![c] = [chain[c] EXCEPT !.status = "ended"]]
        BY <1>2 DEF ChainEnds
    <2> QED
        BY <1>2, <2>2, <2>3, <2>4 DEF ChainEnds, MessagesWait
<1>3. CASE HookReads(c)
    <2>1. c \in hooks /\ hooks' = hooks \ {c} /\ UNCHANGED messages
        BY <1>3 DEF HookReads
    <2>2. \/ hooking' = hooking \cup {c} /\ UNCHANGED <<chain, seen>>
          \/ /\ UNCHANGED hooking
             /\ Miss(chain[c].owner) \/ seen' = seen
             /\ Forget(c, session[chain[c].owner].active \cup start[chain[c].owner].chains)
        BY <1>3 DEF HookReads
    <2>3. CASE hooking' = hooking \cup {c} /\ UNCHANGED <<chain, seen>>
        BY <1>3, <2>1, <2>3 DEF HookReads, MessagesWait
    <2>4. CASE /\ UNCHANGED hooking
               /\ Miss(chain[c].owner) \/ seen' = seen
               /\ Forget(c, session[chain[c].owner].active \cup start[chain[c].owner].chains)
        <3>1. /\ chain' \in [Chains -> ChainType \cup {NoChain}] /\ MessagesWait'
              /\ chain[c].owner \in Sessions
            BY <2>1, <2>4, TypeForget
        <3>2. seen' \in [Sessions -> SeenType]
            BY <2>4, <3>1, TypeMiss
        <3> QED
            BY <1>3, <2>1, <2>4, <3>1, <3>2 DEF HookReads
    <2> QED
        BY <2>2, <2>3, <2>4
<1>4. CASE HookProcesses(c)
    <2>1. /\ c \in hooking
          /\ session' \in [Sessions -> SessionType]
          /\ status' \in [Sessions -> {"none", "running", "paused", "stopped"}]
        BY <1>4, HookWrites
    <2>2. /\ hooking' = hooking \ {c} /\ hooks' = hooks
          /\ UNCHANGED <<start, view, tick, messages, seen, views>>
          /\ Forget(c, session'[chain[c].owner].active)
        BY <1>4 DEF HookProcesses
    <2>3. chain' \in [Chains -> ChainType \cup {NoChain}] /\ MessagesWait'
        BY <2>1, <2>2, TypeForget
    <2> QED
        BY <2>1, <2>2, <2>3
<1>5. CASE HookFails(c)
    <2>1. /\ c \in hooking /\ hooking' = hooking \ {c} /\ hooks' = hooks
          /\ UNCHANGED <<status, session, start, view, tick, messages, views>>
          /\ Forget(c, session[chain[c].owner].active) /\ Miss(chain[c].owner)
        BY <1>5 DEF HookFails
    <2>2. /\ chain' \in [Chains -> ChainType \cup {NoChain}] /\ MessagesWait'
          /\ chain[c].owner \in Sessions
        BY <2>1, TypeForget
    <2>3. seen' \in [Sessions -> SeenType]
        BY <2>1, <2>2, TypeMiss
    <2> QED
        BY <2>1, <2>2, <2>3
<1> QED
    BY <1>1, <1>2, <1>3, <1>4, <1>5 DEF ChainStep

LEMMA TypedInit == Init => Typed
<1> SUFFICES ASSUME Init PROVE Typed
    OBVIOUS
<1>1. Len(Order) \in Nat /\ 0 \in 0 .. Len(Order) - 1 /\ 0 \in 0 .. Len(Order)
      /\ FailLimit \in Nat /\ MaxViews \in Nat
    BY UnattendedAssumption
<1>2. [loop |-> FALSE, rotation |-> FALSE, dispatched |-> {}, index |-> 0,
       completed |-> 0, failed |-> 0, active |-> {}, reason |-> "none"] \in SessionType
    BY <1>1 DEF SessionType
<1>3. NoTick \in TickType
    BY DEF NoTick, TickType
<1> QED
    BY <1>1, <1>2, <1>3 DEF Init, Typed, TypeOK, MessagesWait, StartType, SeenType, NoChain

LEMMA TypedStep == Typed /\ [Next]_vars => Typed'
<1> SUFFICES ASSUME Typed, [Next]_vars PROVE Typed'
    OBVIOUS
<1>1. ASSUME NEW s \in Sessions, StartCheck(s) \/ Start(s) PROVE Typed'
    BY <1>1, TypeStart
<1>2. ASSUME \/ \E s \in Sessions : ViewReads(s) \/ ViewWrites(s) \/ TickRound(s)
             \/ TickStep
      PROVE  Typed'
    BY <1>2, TypeViewsAndTicks
<1>3. ASSUME NEW c \in Chains, ChainStep(c) \/ HookFails(c) PROVE Typed'
    BY <1>3, TypeChains
<1>4. CASE UNCHANGED vars
    BY <1>4 DEF vars, Typed, TypeOK, MessagesWait
<1> QED
    BY <1>1, <1>2, <1>3, <1>4 DEF Next

(* Every variable keeps its type, for any number of sessions, devices,     *)
(* accounts and chains: in particular the cursor stays on the accounts.    *)
THEOREM TypeCorrect == Spec => []TypeOK
<1>1. Typed => TypeOK
    BY DEF Typed
<1> QED
    BY <1>1, TypedInit, TypedStep, PTL DEF Spec

-----------------------------------------------------------------------------
(* What steps do to the chains that count: those at work, and those that   *)
(* have ended with their hook still to be heard.                           *)

Counts(c) == IsLive(c) \/ c \in hooks \cup hooking

SameRow(c) ==
    /\ chain'[c].owner = chain[c].owner
    /\ chain'[c].account = chain[c].account
    /\ chain'[c].device = chain[c].device

(* A chain that is created did not count before, and no other changes. *)
LEMMA CreateAdds ==
    ASSUME Typed, NEW c \in NewChains, NEW d \in Devices, NEW a \in Accounts,
           NEW s \in Sessions, Create(c, d, a, s), UNCHANGED <<hooks, hooking>>
    PROVE  /\ c \in Chains /\ ~Counts(c)
           /\ \A x \in Chains \ {c} : chain'[x] = chain[x]
           /\ chain'[c].status = "pending" /\ chain'[c].device = d
           /\ chain'[c].account = a /\ chain'[c].owner = s
<1>1. c \in Chains /\ chain[c] = NoChain
    BY DEF NewChains
<1>2. c \notin hooks \cup hooking /\ chain[c].status = "none"
    BY <1>1 DEF Typed, MessagesWait, NoChain
<1> DEFINE row == [status |-> "pending", device |-> d, account |-> a, owner |-> s]
<1>3. chain' = [chain EXCEPT ![c] = row] /\ chain \in [Chains -> ChainType \cup {NoChain}]
    BY DEF Create, Typed, TypeOK
<1>4. chain'[c] = row /\ \A x \in Chains \ {c} : chain'[x] = chain[x]
    BY <1>1, <1>3
<1> QED
    BY <1>1, <1>2, <1>4 DEF Counts, IsLive, Live

(* A step of a chain or its hook makes none count that did not, moves none *)
(* to another device, account or session, and puts none back to work.      *)
LEMMA ChainsOnlyEnd ==
    ASSUME Typed, NEW c \in Chains, ChainStep(c) \/ HookFails(c)
    PROVE  /\ \A x \in Chains : Counts(x)' => Counts(x) /\ SameRow(x)
           /\ \A x \in Chains : IsLive(x)' => IsLive(x) /\ SameRow(x)
           /\ chain[c].owner \in Sessions
<1> USE DEF Counts, SameRow
<1>0. chain \in [Chains -> ChainType \cup {NoChain}]
    BY DEF Typed, TypeOK
<1>1. ASSUME NEW how \in {"running", "ended"}, chain[c].status \in {"pending", "running"},
             chain' = [chain EXCEPT ![c].status = how]
      PROVE  /\ IsLive(c) /\ SameRow(c) /\ chain[c].owner \in Sessions
             /\ \A x \in Chains \ {c} : chain'[x] = chain[x]
    <2>1. chain[c] \in ChainType
        BY <1>0, <1>1 DEF NoChain
    <2>2. chain'[c] = [chain[c] EXCEPT !.status = how]
        BY <1>0, <1>1
    <2> QED
        BY <1>0, <1>1, <2>1, <2>2 DEF ChainType, IsLive, Live
<1>2. ASSUME NEW active, Forget(c, active), chain[c].status = "ended"
      PROVE  /\ \A x \in Chains : chain'[x] = chain[x] \/ x = c
             /\ c \in hooks' \cup hooking' => chain'[c] = chain[c]
             /\ ~IsLive(c) /\ ~IsLive(c)' /\ chain[c].owner \in Sessions
    <2>1. chain[c] \in ChainType
        BY <1>0, <1>2 DEF NoChain
    <2>2. chain' = chain \/ (c \notin hooks' \cup hooking' /\ chain' = [chain EXCEPT ![c] = NoChain])
        BY <1>2 DEF Forget
    <2>3. chain'[c].status \in {"ended", "none"}
        BY <1>0, <1>2, <2>2 DEF NoChain
    <2> QED
        BY <1>0, <1>2, <2>1, <2>2, <2>3 DEF ChainType, IsLive, Live
<1>3. CASE ChainBegins(c)
    <2>1. chain[c].status = "pending"
        BY <1>3 DEF ChainBegins, Typed, MessagesWait
    <2>2. chain' = chain \/ chain' = [chain EXCEPT ![c].status = "running"]
        BY <1>3 DEF ChainBegins
    <2>3. chain[c].owner \in Sessions
        BY <1>0, <2>1 DEF NoChain, ChainType
    <2> QED
        BY <1>1, <1>3, <2>1, <2>2, <2>3 DEF ChainBegins, IsLive
<1>4. CASE ChainEnds(c)
    <2>1. /\ chain[c].status = "running" /\ chain' = [chain EXCEPT ![c].status = "ended"]
          /\ hooks' = hooks \cup {c} /\ UNCHANGED hooking
        BY <1>4 DEF ChainEnds
    <2> QED
        BY <1>1, <2>1 DEF IsLive
<1>5. ASSUME c \in hooks \cup hooking PROVE chain[c].status = "ended"
    BY <1>5 DEF Typed, MessagesWait
<1>6. CASE HookReads(c)
    <2>1. c \in hooks /\ hooks' = hooks \ {c}
        BY <1>6 DEF HookReads
    <2>2. \/ hooking' = hooking \cup {c} /\ UNCHANGED <<chain, seen>>
          \/ /\ UNCHANGED hooking
             /\ Forget(c, session[chain[c].owner].active \cup start[chain[c].owner].chains)
        BY <1>6 DEF HookReads
    <2>3. chain[c].owner \in Sessions
        BY <1>0, <1>5, <2>1 DEF NoChain, ChainType
    <2> QED
        BY <1>2, <1>5, <2>1, <2>2, <2>3 DEF IsLive
<1>7. CASE HookProcesses(c)
    <2>1. /\ c \in hooking /\ hooking' = hooking \ {c} /\ hooks' = hooks
          /\ Forget(c, session'[chain[c].owner].active)
        BY <1>7 DEF HookProcesses
    <2> QED
        BY <1>2, <1>5, <2>1 DEF IsLive
<1>8. CASE HookFails(c)
    <2>1. /\ c \in hooking /\ hooking' = hooking \ {c} /\ hooks' = hooks
          /\ Forget(c, session[chain[c].owner].active)
        BY <1>8 DEF HookFails
    <2> QED
        BY <1>2, <1>5, <2>1 DEF IsLive
<1> QED
    BY <1>3, <1>4, <1>6, <1>7, <1>8 DEF ChainStep

-----------------------------------------------------------------------------
(* A tick feeds RUNNING sessions only: what it goes through it holds, and  *)
(* whoever changes the status of a session waits for its row.              *)

LockHeld ==
    /\ tick.waiting \cup tick.current \subseteq tick.locked
    /\ \A s \in tick.locked : status[s] = "running"

LockInv == Typed /\ LockHeld

(* Beginning, going through and ending a tick creates nothing. *)
LEMMA TickParts ==
    ASSUME tick \in TickType, TickStep
    PROVE  /\ tick'.created \subseteq tick.created /\ UNCHANGED status
           /\ \/ /\ tick'.locked = {s \in Sessions : status[s] = "running"}
                 /\ tick'.waiting = tick'.locked /\ tick'.current = {}
              \/ tick'.locked = {} /\ tick'.waiting = {} /\ tick'.current = {}
              \/ /\ tick'.locked = tick.locked /\ tick'.waiting \subseteq tick.waiting
                 /\ tick'.current \subseteq tick.waiting
<1>1. CASE TickBegins
    <2> DEFINE running == {s \in Sessions : status[s] = "running"}
    <2>1. tick' = [locked |-> running, waiting |-> running, current |-> {}, devices |-> {},
                   created |-> {}]
        <3>1. tick' = [NoTick EXCEPT !.locked = running, !.waiting = running]
            BY <1>1 DEF TickBegins
        <3> HIDE DEF running
        <3> QED
            BY <3>1 DEF NoTick
    <2>2. /\ tick'.locked = running /\ tick'.waiting = running /\ tick'.current = {}
          /\ tick'.created = {}
        <3> HIDE DEF running
        <3> QED
            BY <2>1
    <2> QED
        BY <1>1, <2>2 DEF TickBegins
<1>2. CASE TickCommits
    BY <1>2 DEF TickCommits, NoTick
<1>3. ASSUME NEW s \in Sessions, TickSession(s)
      PROVE  /\ tick'.created = tick.created /\ UNCHANGED status
             /\ tick'.locked = tick.locked /\ tick'.waiting \subseteq tick.waiting
             /\ tick'.current \subseteq tick.waiting
    BY <1>3 DEF TickSession, TickType
<1> QED
    BY <1>1, <1>2, <1>3 DEF TickStep

LEMMA LockInit == Init => LockInv
    BY TypedInit DEF Init, LockInv, LockHeld, NoTick

LEMMA LockStep == LockInv /\ [Next]_vars => LockInv'
<1> SUFFICES ASSUME LockInv, [Next]_vars PROVE LockHeld'
    BY TypedStep DEF LockInv
<1> USE DEF LockInv, LockHeld
<1>0. /\ tick \in TickType
      /\ status \in [Sessions -> {"none", "running", "paused", "stopped"}]
    BY DEF Typed, TypeOK
<1>1. CASE UNCHANGED <<status, tick>>
    BY <1>1
<1>2. ASSUME NEW s \in Sessions, StartCreate(s) \/ ViewWrites(s) PROVE LockHeld'
    BY <1>0, <1>2 DEF StartCreate, ViewWrites, TickType
<1>3. CASE TickStep
    BY <1>0, <1>3, TickParts
<1>4. ASSUME NEW s \in Sessions, NEW d \in Devices, TickDispatches(s, d) PROVE LockHeld'
    BY <1>0, <1>4 DEF TickDispatches, TickType
<1>5. ASSUME NEW c \in Chains, HookProcesses(c) PROVE LockHeld'
    <2>1. /\ chain[c].owner \in Sessions /\ chain[c].owner \notin tick.locked
          /\ \/ UNCHANGED status
             \/ status' = [status EXCEPT ![chain[c].owner] = "stopped"]
        BY <1>5, HookWrites
    <2>2. UNCHANGED tick
        BY <1>5 DEF HookProcesses
    <2> QED
        BY <1>0, <2>1, <2>2 DEF TickType
<1>6. ASSUME NEW s \in Sessions, Start(s) \/ StartCheck(s) \/ ViewReads(s) PROVE LockHeld'
    BY <1>1, <1>2, <1>6 DEF Start, StartCheck, StartLooks, StartDispatches, StartRegisters,
       StartSaves, ViewReads
<1>7. ASSUME NEW c \in Chains, ChainStep(c) \/ HookFails(c) PROVE LockHeld'
    BY <1>1, <1>5, <1>7 DEF ChainStep, ChainBegins, ChainEnds, HookReads, HookFails
<1>8. CASE UNCHANGED vars
    BY <1>1, <1>8 DEF vars
<1> QED
    BY <1>2, <1>3, <1>4, <1>6, <1>7, <1>8 DEF Next, TickRound

(* Only TickDispatches adds to what a tick has created. *)
LEMMA FedIsRunning ==
    ASSUME LockInv, [Next]_vars, NEW c \in Chains, c \in tick'.created \ tick.created
    PROVE  status[chain'[c].owner] = "running"
<1> USE DEF LockInv
<1>1. tick' # tick
    OBVIOUS
<1>2. ~TickStep
    BY TickParts DEF Typed, TypeOK
<1>3. PICK s \in Sessions, d \in Devices : TickDispatches(s, d)
    <2>1. ASSUME NEW s \in Sessions, StartCheck(s) \/ Start(s) PROVE tick' = tick
        <3>1. StartCheck(s) \/ StartCreate(s) \/ StartRegisters(s) \/ StartSaves(s) => tick' = tick
            BY DEF StartCheck, StartCreate, StartRegisters, StartSaves
        <3>2. \A d \in Devices : StartLooks(s, d) \/ StartDispatches(s, d) => tick' = tick
            BY DEF StartLooks, StartDispatches
        <3> QED
            BY <2>1, <3>1, <3>2 DEF Start
    <2>2. \A s \in Sessions : ViewReads(s) \/ ViewWrites(s) => tick' = tick
        BY DEF ViewReads, ViewWrites
    <2>3. \A x \in Chains : ChainStep(x) \/ HookFails(x) => tick' = tick
        BY DEF ChainStep, ChainBegins, ChainEnds, HookReads, HookProcesses, HookFails
    <2>4. UNCHANGED vars => tick' = tick
        BY DEF vars
    <2>5. \E s \in Sessions : TickRound(s)
        BY <1>1, <1>2, <2>1, <2>2, <2>3, <2>4 DEF Next
    <2> QED
        BY <2>5 DEF TickRound
<1>4. PICK a \in NextAccounts(s), x \in NewChains :
          Create(x, d, a, s) /\ tick' = [tick EXCEPT !.devices = @ \ {d}, !.created = @ \cup {x}]
    BY <1>3 DEF TickDispatches
<1>5. x = c
    BY <1>4 DEF Typed, TypeOK, TickType
<1>6. chain'[c].owner = s
    <2>1. a \in Accounts
        BY AccountsOffered DEF Typed
    <2> QED
        BY <1>3, <1>4, <1>5, <2>1, CreateAdds DEF TickDispatches
<1>7. status[s] = "running"
    BY <1>3 DEF TickDispatches, LockHeld, Typed, TypeOK, TickType
<1> QED
    BY <1>6, <1>7

(* A tick gives chains to devices of RUNNING sessions only, whatever the   *)
(* views and the hooks write while it is under way.                        *)
THEOREM TicksFeedOnlyRunning == Spec => TicksFeedRunning
<1>1. Spec => []LockInv
    BY LockInit, LockStep, PTL DEF Spec
<1>2. LockInv /\ [Next]_vars =>
          [\A c \in Chains :
             c \in tick'.created \ tick.created => status[chain'[c].owner] = "running"]_vars
    BY FedIsRunning
<1> QED
    BY <1>1, <1>2, PTL DEF Spec, TicksFeedRunning

-----------------------------------------------------------------------------
(* How many chains a device can have at work.  What has to be counted is   *)
(* the start requests that have dispatched to this device while it was     *)
(* busy: one that has still to come to it cannot have done so.             *)

AtWork(d) == {c \in Chains : BusyFor(d, c)}

RacedFor(d) ==
    {s \in Sessions : /\ seen[s].raced /\ start[s].pc \notin {"idle", "checked"}
                      /\ d \notin start[s].todo \cup start[s].idle}

(* A start request looks at one device at a time, and at none twice. *)
StartOrder ==
    \A s \in Sessions :
        /\ start[s].idle \cup start[s].chains # {} => start[s].pc = "loop"
        /\ start[s].idle \cap start[s].todo = {}

Overlap == \A d \in Devices : Cardinality(AtWork(d)) <= 1 + Cardinality(RacedFor(d))

OverlapInv == Typed /\ StartOrder /\ Overlap

LEMMA OverlapFinite ==
    ASSUME NEW d \in Devices
    PROVE  /\ IsFiniteSet(AtWork(d)) /\ Cardinality(AtWork(d)) \in Nat
           /\ IsFiniteSet(RacedFor(d)) /\ Cardinality(RacedFor(d)) \in Nat
           /\ IsFiniteSet(AtWork(d)') /\ Cardinality(AtWork(d)') \in Nat
           /\ IsFiniteSet(RacedFor(d)') /\ Cardinality(RacedFor(d)') \in Nat
<1>1. /\ IsFiniteSet(AtWork(d)) /\ IsFiniteSet(RacedFor(d))
      /\ IsFiniteSet(AtWork(d)') /\ IsFiniteSet(RacedFor(d)')
    BY UnattendedAssumption, FS_Subset DEF AtWork, RacedFor
<1> QED
    BY <1>1, FS_CardinalityType

(* A step after which no more chains are at work keeps the bound. *)
LEMMA OverlapKept ==
    ASSUME Overlap, NEW d \in Devices,
           AtWork(d)' \subseteq AtWork(d), RacedFor(d) \subseteq RacedFor(d)'
    PROVE  Cardinality(AtWork(d)') <= 1 + Cardinality(RacedFor(d)')
<1>1. /\ Cardinality(AtWork(d)') <= Cardinality(AtWork(d))
      /\ Cardinality(RacedFor(d)) <= Cardinality(RacedFor(d)')
    BY OverlapFinite, FS_Subset
<1>2. Cardinality(AtWork(d)) <= 1 + Cardinality(RacedFor(d))
    BY DEF Overlap
<1> QED
    BY <1>1, <1>2, OverlapFinite

(* So does one that gives a chain to a device that has none. *)
LEMMA OverlapFirst ==
    ASSUME NEW d \in Devices, NEW c, AtWork(d)' \subseteq {c}
    PROVE  Cardinality(AtWork(d)') <= 1 + Cardinality(RacedFor(d)')
<1>1. IsFiniteSet({c}) /\ Cardinality({c}) = 1
    BY FS_Singleton
<1>2. Cardinality(AtWork(d)') <= 1
    BY <1>1, FS_Subset
<1> QED
    BY <1>2, OverlapFinite

(* And one that counts a start request for the chain that it adds. *)
LEMMA OverlapRaced ==
    ASSUME Overlap, NEW d \in Devices, NEW c, NEW s, s \notin RacedFor(d),
           AtWork(d)' \subseteq AtWork(d) \cup {c}, RacedFor(d) \cup {s} \subseteq RacedFor(d)'
    PROVE  Cardinality(AtWork(d)') <= 1 + Cardinality(RacedFor(d)')
<1>1. Cardinality(AtWork(d)') <= Cardinality(AtWork(d)) + 1
    <2>1. /\ IsFiniteSet(AtWork(d) \cup {c})
          /\ Cardinality(AtWork(d) \cup {c}) <= Cardinality(AtWork(d)) + 1
        <3>1. IsFiniteSet(AtWork(d)) /\ Cardinality(AtWork(d)) \in Nat
            BY OverlapFinite
        <3>2. /\ IsFiniteSet(AtWork(d) \cup {c})
              /\ Cardinality(AtWork(d) \cup {c}) =
                    IF c \in AtWork(d) THEN Cardinality(AtWork(d)) ELSE Cardinality(AtWork(d)) + 1
            BY <3>1, FS_AddElement
        <3> QED
            BY <3>1, <3>2
    <2>2. Cardinality(AtWork(d)') <= Cardinality(AtWork(d) \cup {c})
        BY <2>1, FS_Subset
    <2>3. Cardinality(AtWork(d) \cup {c}) \in Nat
        BY <2>1, FS_CardinalityType
    <2> QED
        BY <2>1, <2>2, <2>3, OverlapFinite
<1>2. Cardinality(RacedFor(d)) + 1 <= Cardinality(RacedFor(d)')
    <2>1. /\ IsFiniteSet(RacedFor(d) \cup {s})
          /\ Cardinality(RacedFor(d) \cup {s}) = Cardinality(RacedFor(d)) + 1
        BY OverlapFinite, FS_AddElement
    <2>2. Cardinality(RacedFor(d) \cup {s}) <= Cardinality(RacedFor(d)')
        BY OverlapFinite, FS_Subset
    <2> QED
        BY <2>1, <2>2
<1>3. Cardinality(AtWork(d)) <= 1 + Cardinality(RacedFor(d))
    BY DEF Overlap
<1> QED
    BY <1>1, <1>2, <1>3, OverlapFinite

(* What each step of a start request does to its own state; it touches no  *)
(* other's.                                                                *)
LEMMA StartParts ==
    ASSUME Typed, StartOrder, NEW s \in Sessions, StartCheck(s) \/ Start(s)
    PROVE  /\ \A x \in Sessions \ {s} : start'[x] = start[x] /\ seen'[x].raced = seen[x].raced
           /\ StartOrder'
           /\ \/ /\ UNCHANGED chain /\ seen'[s].raced = seen[s].raced
                 /\ start[s].pc \in {"idle", "checked"}
              \/ /\ UNCHANGED chain /\ seen'[s].raced = seen[s].raced
                 /\ start'[s].pc \notin {"idle", "checked"}
                 /\ start'[s].todo \cup start'[s].idle \subseteq start[s].todo \cup start[s].idle
              \/ \E d \in start[s].idle, c \in Chains :
                    /\ d \in Devices /\ d \notin start[s].todo /\ ~IsLive(c)
                    /\ chain'[c].device = d
                    /\ \A x \in Chains \ {c} : chain'[x] = chain[x]
                    /\ seen'[s].raced = (seen[s].raced \/ Busy(d))
                    /\ start[s].pc = "loop" /\ start'[s].pc = "loop"
                    /\ start'[s].todo = start[s].todo /\ start'[s].idle = {}
<1>0. /\ start \in [Sessions -> StartType] /\ seen \in [Sessions -> SeenType]
      /\ start[s] \in StartType /\ seen[s] \in SeenType
    BY DEF Typed, TypeOK
<1> USE DEF StartOrder
<1>1. ASSUME NEW now \in StartType, start' = [start EXCEPT ![s] = now],
             now.idle \cup now.chains # {} => now.pc = "loop", now.idle \cap now.todo = {}
      PROVE  /\ \A x \in Sessions \ {s} : start'[x] = start[x]
             /\ start'[s] = now /\ StartOrder'
    BY <1>0, <1>1
<1>2. CASE StartCheck(s)
    <2> DEFINE now == [start[s] EXCEPT !.pc = "checked"]
    <2>1. /\ now \in StartType /\ now.idle = start[s].idle /\ now.chains = start[s].chains
          /\ now.todo = start[s].todo /\ now.pc = "checked"
        BY <1>0 DEF StartType
    <2>2. start' = [start EXCEPT ![s] = now] /\ start[s].pc = "idle" /\ UNCHANGED <<chain, seen>>
        BY <1>2 DEF StartCheck
    <2> QED
        <3> HIDE DEF now
        <3> QED
            BY <1>1, <2>1, <2>2
<1>3. CASE StartCreate(s)
    <2> DEFINE now == [start[s] EXCEPT !.pc = "loop", !.todo = Devices]
    <2>1. /\ now \in StartType /\ now.idle = start[s].idle /\ now.chains = start[s].chains
          /\ now.pc = "loop"
        BY <1>0 DEF StartType
    <2>2. start' = [start EXCEPT ![s] = now] /\ start[s].pc = "checked" /\ UNCHANGED <<chain, seen>>
        BY <1>3 DEF StartCreate
    <2>3. start[s].idle = {}
        BY <2>2
    <2> QED
        <3> HIDE DEF now
        <3> QED
            BY <1>1, <2>1, <2>2, <2>3
<1>4. ASSUME NEW d \in Devices, StartLooks(s, d)
      PROVE  /\ \A x \in Sessions \ {s} : start'[x] = start[x]
             /\ StartOrder' /\ UNCHANGED <<chain, seen>> /\ start'[s].pc = "loop"
             /\ start'[s].todo \cup start'[s].idle \subseteq start[s].todo \cup start[s].idle
    <2> DEFINE now == [start[s] EXCEPT !.todo = @ \ {d}, !.idle = {d}]
    <2>1. /\ start' = [start EXCEPT ![s] = now] /\ start[s].pc = "loop" /\ d \in start[s].todo
          /\ UNCHANGED <<chain, seen>>
        BY <1>4 DEF StartLooks
    <2>2. /\ now \in StartType /\ now.todo = start[s].todo \ {d} /\ now.idle = {d}
          /\ now.pc = "loop"
        BY <1>0, <2>1 DEF StartType
    <2> QED
        <3> HIDE DEF now
        <3> QED
            BY <1>1, <2>1, <2>2
<1>5. CASE StartRegisters(s)
    <2> DEFINE now == [start[s] EXCEPT !.pc = "save", !.todo = {}, !.chains = {}]
    <2>1. /\ start' = [start EXCEPT ![s] = now] /\ start[s].idle = {} /\ UNCHANGED <<chain, seen>>
        BY <1>5 DEF StartRegisters
    <2>2. /\ now \in StartType /\ now.todo = {} /\ now.idle = {} /\ now.chains = {}
          /\ now.pc = "save"
        BY <1>0, <2>1 DEF StartType
    <2> QED
        <3> HIDE DEF now
        <3> QED
            BY <1>1, <2>1, <2>2
<1>6. CASE StartSaves(s)
    <2> DEFINE now == [start[s] EXCEPT !.pc = "done", !.accounts = {}]
               was == [seen[s] EXCEPT
                   !.early = @ \/ session[s].dispatched # {},
                   !.missed = @ \/ (session[s].loop
                                      /\ start[s].accounts \ TrackedAccounts(s) # {})]
    <2>1. /\ start' = [start EXCEPT ![s] = now] /\ start[s].pc = "save" /\ UNCHANGED chain
          /\ seen' = [seen EXCEPT ![s] = was]
        BY <1>6 DEF StartSaves
    <2>2. /\ now \in StartType /\ now.todo = start[s].todo /\ now.idle = start[s].idle
          /\ now.chains = start[s].chains /\ now.pc = "done"
        BY <1>0 DEF StartType
    <2>3. start[s].idle = {} /\ start[s].chains = {}
        BY <2>1
    <2>4. was.raced = seen[s].raced
        BY <1>0 DEF SeenType
    <2> QED
        <3> HIDE DEF now, was
        <3> QED
            BY <1>0, <1>1, <2>1, <2>2, <2>3, <2>4
<1>7. ASSUME NEW d \in Devices, StartDispatches(s, d)
      PROVE  /\ \A x \in Sessions \ {s} : start'[x] = start[x] /\ seen'[x].raced = seen[x].raced
             /\ StartOrder' /\ d \in start[s].idle /\ d \notin start[s].todo
             /\ \E c \in Chains :
                   /\ ~IsLive(c) /\ chain'[c].device = d
                   /\ \A x \in Chains \ {c} : chain'[x] = chain[x]
             /\ seen'[s].raced = (seen[s].raced \/ Busy(d))
             /\ start[s].pc = "loop" /\ start'[s].pc = "loop"
             /\ start'[s].todo = start[s].todo /\ start'[s].idle = {}
    <2>1. PICK a \in StartAccounts(s), c \in NewChains :
              /\ Create(c, d, a, s)
              /\ start' = [start EXCEPT ![s].idle = {}, ![s].chains = @ \cup {c},
                                        ![s].accounts = @ \cup {a}]
              /\ seen' = [seen EXCEPT
                    ![s].raced = @ \/ Busy(d),
                    ![s].twice = @ \/ a \in start[s].accounts \cup session[s].dispatched]
        BY <1>7 DEF StartDispatches
    <2>2. a \in Accounts
        BY AccountsOffered DEF Typed
    <2>3. /\ c \in Chains /\ ~Counts(c) /\ chain'[c].device = d
          /\ \A x \in Chains \ {c} : chain'[x] = chain[x]
        BY <1>7, <2>1, <2>2, CreateAdds DEF StartDispatches
    <2> DEFINE now == [start[s] EXCEPT !.idle = {}, !.chains = @ \cup {c},
                                       !.accounts = @ \cup {a}]
               was == [seen[s] EXCEPT
                    !.raced = @ \/ Busy(d),
                    !.twice = @ \/ a \in start[s].accounts \cup session[s].dispatched]
    <2>4. start' = [start EXCEPT ![s] = now] /\ seen' = [seen EXCEPT ![s] = was]
        BY <2>1
    <2>5. /\ now \in StartType /\ now.pc = start[s].pc /\ now.todo = start[s].todo
          /\ now.idle = {}
        BY <1>0, <2>2, <2>3 DEF StartType
    <2>6. was.raced = (seen[s].raced \/ Busy(d))
        BY <1>0 DEF SeenType
    <2>7. d \in start[s].idle /\ start[s].pc = "loop" /\ d \notin start[s].todo
        BY <1>7 DEF StartDispatches
    <2>8. /\ \A x \in Sessions \ {s} : start'[x] = start[x] /\ seen'[x].raced = seen[x].raced
          /\ start'[s] = now /\ StartOrder' /\ seen'[s].raced = was.raced
        <3> HIDE DEF now, was
        <3> QED
            BY <1>0, <1>1, <2>4, <2>5, <2>7
    <2> QED
        <3> HIDE DEF now, was
        <3> QED
            BY <2>3, <2>5, <2>6, <2>7, <2>8 DEF Counts
<1>8. ASSUME NEW d \in Devices, StartDispatches(s, d) PROVE d \in start[s].idle
    BY <1>8 DEF StartDispatches
<1> QED
    BY <1>2, <1>3, <1>4, <1>5, <1>6, <1>7, <1>8 DEF Start

(* A start request counts for the device it adds a second chain to. *)
LEMMA OverlapStart ==
    ASSUME OverlapInv, NEW s \in Sessions, StartCheck(s) \/ Start(s)
    PROVE  Overlap'
<1> USE DEF OverlapInv
<1>1. \A x \in Sessions \ {s} : start'[x] = start[x] /\ seen'[x].raced = seen[x].raced
    BY StartParts
<1>2. ASSUME NEW d \in Devices, UNCHANGED chain, RacedFor(d) \subseteq RacedFor(d)'
      PROVE  Cardinality(AtWork(d)') <= 1 + Cardinality(RacedFor(d)')
    <2>1. AtWork(d)' \subseteq AtWork(d)
        BY <1>2 DEF AtWork, BusyFor, IsLive
    <2> QED
        BY <1>2, <2>1, OverlapKept
<1>3. CASE /\ UNCHANGED chain /\ seen'[s].raced = seen[s].raced
           /\ \/ start[s].pc \in {"idle", "checked"}
              \/ /\ start'[s].pc \notin {"idle", "checked"}
                 /\ start'[s].todo \cup start'[s].idle \subseteq start[s].todo \cup start[s].idle
    <2>1. \A d \in Devices : RacedFor(d) \subseteq RacedFor(d)'
        BY <1>1, <1>3 DEF RacedFor
    <2> QED
        BY <1>2, <1>3, <2>1 DEF Overlap
<1>4. ASSUME NEW d \in start[s].idle, NEW c \in Chains,
             d \in Devices, d \notin start[s].todo, ~IsLive(c), chain'[c].device = d,
             \A x \in Chains \ {c} : chain'[x] = chain[x],
             seen'[s].raced = (seen[s].raced \/ Busy(d)),
             start[s].pc = "loop", start'[s].pc = "loop",
             start'[s].todo = start[s].todo, start'[s].idle = {}
      PROVE  Overlap'
    <2>1. \A e \in Devices : RacedFor(e) \subseteq RacedFor(e)'
        BY <1>1, <1>4 DEF RacedFor
    <2>2. ASSUME NEW e \in Devices, e # d
          PROVE  Cardinality(AtWork(e)') <= 1 + Cardinality(RacedFor(e)')
        <3>1. AtWork(e)' \subseteq AtWork(e)
            BY <1>4, <2>2 DEF AtWork, BusyFor, IsLive
        <3> QED
            BY <2>1, <2>2, <3>1, OverlapKept
    <2>3. AtWork(d)' \subseteq AtWork(d) \cup {c}
        BY <1>4 DEF AtWork, BusyFor, IsLive
    <2>4. CASE Busy(d)
        <3>1. s \notin RacedFor(d) /\ s \in RacedFor(d)'
            BY <1>4, <2>4 DEF RacedFor
        <3>2. RacedFor(d) \cup {s} \subseteq RacedFor(d)'
            BY <2>1, <3>1, <1>4
        <3>3. Cardinality(AtWork(d)') <= 1 + Cardinality(RacedFor(d)')
            BY <1>4, <2>3, <3>1, <3>2, OverlapRaced
        <3> QED
            BY <2>2, <3>3 DEF Overlap
    <2>5. CASE ~Busy(d)
        <3>1. AtWork(d) = {}
            BY <2>5 DEF AtWork, Busy
        <3>2. Cardinality(AtWork(d)') <= 1 + Cardinality(RacedFor(d)')
            BY <1>4, <2>3, <3>1, OverlapFirst
        <3> QED
            BY <2>2, <3>2 DEF Overlap
    <2> QED
        BY <2>4, <2>5
<1> QED
    BY <1>3, <1>4, StartParts

(* A tick adds to devices that have nothing, chains only end. *)
LEMMA OverlapStep == OverlapInv /\ [Next]_vars => OverlapInv'
<1> SUFFICES ASSUME OverlapInv, [Next]_vars PROVE StartOrder' /\ Overlap'
    BY TypedStep DEF OverlapInv
<1> USE DEF OverlapInv
<1>1. ASSUME NEW s \in Sessions, StartCheck(s) \/ Start(s) PROVE StartOrder' /\ Overlap'
    BY <1>1, OverlapStart, StartParts
<1>2. ASSUME UNCHANGED start PROVE StartOrder'
    BY <1>2 DEF StartOrder
<1>3. ASSUME UNCHANGED <<start, seen>>
      PROVE  \A d \in Devices : RacedFor(d) \subseteq RacedFor(d)'
    BY <1>3 DEF RacedFor
<1>4. ASSUME UNCHANGED <<start, seen, chain>> PROVE StartOrder' /\ Overlap'
    <2>1. \A d \in Devices : AtWork(d)' \subseteq AtWork(d)
        BY <1>4 DEF AtWork, BusyFor, IsLive
    <2> QED
        BY <1>2, <1>3, <1>4, <2>1, OverlapKept DEF Overlap
<1>5. ASSUME NEW s \in Sessions, ViewReads(s) \/ ViewWrites(s) PROVE StartOrder' /\ Overlap'
    BY <1>4, <1>5 DEF ViewReads, ViewWrites
<1>6. CASE TickStep
    BY <1>4, <1>6 DEF TickStep, TickBegins, TickCommits, TickSession
<1>7. ASSUME NEW s \in Sessions, NEW d \in Devices, TickDispatches(s, d)
      PROVE  StartOrder' /\ Overlap'
    <2>1. PICK a \in NextAccounts(s), c \in NewChains :
              /\ Create(c, d, a, s)
              /\ seen' = [seen EXCEPT ![s].twice = @ \/ a \in start[s].accounts]
        BY <1>7 DEF TickDispatches
    <2>2. ~Busy(d) /\ UNCHANGED <<start, hooks, hooking>>
        BY <1>7 DEF TickDispatches
    <2>3. a \in Accounts
        BY AccountsOffered DEF Typed
    <2>4. /\ chain'[c].device = d /\ \A x \in Chains \ {c} : chain'[x] = chain[x]
        BY <2>1, <2>2, <2>3, CreateAdds
    <2>5. \A x \in Sessions : seen'[x].raced = seen[x].raced
        BY <2>1 DEF Typed, TypeOK, SeenType
    <2>6. \A e \in Devices : RacedFor(e) \subseteq RacedFor(e)'
        BY <2>2, <2>5 DEF RacedFor
    <2>7. AtWork(d)' \subseteq {c}
        BY <2>2, <2>4 DEF AtWork, Busy, BusyFor, IsLive
    <2>8. \A e \in Devices \ {d} : AtWork(e)' \subseteq AtWork(e)
        BY <2>4 DEF AtWork, BusyFor, IsLive
    <2> QED
        BY <1>2, <2>2, <2>6, <2>7, <2>8, OverlapFirst, OverlapKept DEF Overlap
<1>8. ASSUME NEW c \in Chains, ChainStep(c) \/ HookFails(c) PROVE StartOrder' /\ Overlap'
    <2>1. \A x \in Chains : IsLive(x)' => IsLive(x) /\ SameRow(x)
        BY <1>8, ChainsOnlyEnd
    <2>2. \A d \in Devices : AtWork(d)' \subseteq AtWork(d)
        BY <2>1 DEF AtWork, BusyFor, SameRow
    <2>3. UNCHANGED start
        BY <1>8 DEF ChainStep, ChainBegins, ChainEnds, HookReads, HookProcesses, HookFails
    <2>4. \A x \in Sessions : seen'[x].raced = seen[x].raced
        <3>1. UNCHANGED seen \/ Miss(chain[c].owner)
            BY <1>8 DEF ChainStep, ChainBegins, ChainEnds, HookReads, HookProcesses, HookFails
        <3> QED
            BY <3>1 DEF Miss, Typed, TypeOK, SeenType
    <2>5. \A d \in Devices : RacedFor(d) \subseteq RacedFor(d)'
        BY <2>3, <2>4 DEF RacedFor
    <2> QED
        BY <1>2, <2>2, <2>3, <2>5, OverlapKept DEF Overlap
<1>9. CASE UNCHANGED vars
    BY <1>4, <1>9 DEF vars
<1> QED
    BY <1>1, <1>5, <1>6, <1>7, <1>8, <1>9 DEF Next, TickRound

LEMMA OverlapInit == Init => OverlapInv
<1> SUFFICES ASSUME Init PROVE StartOrder /\ Overlap
    BY TypedInit DEF OverlapInv
<1>1. StartOrder
    BY DEF Init, StartOrder
<1>2. ASSUME NEW d \in Devices PROVE Cardinality(AtWork(d)) <= 1 + Cardinality(RacedFor(d))
    <2>1. AtWork(d) = {}
        BY DEF Init, AtWork, BusyFor, IsLive, Live, NoChain
    <2>2. Cardinality(AtWork(d)) = 0
        BY <2>1, FS_EmptySet
    <2> QED
        BY <2>2, OverlapFinite
<1> QED
    BY <1>1, <1>2 DEF Overlap

(* A device has one chain at work, and one more for each start request     *)
(* that looked at it before somebody else took it.                         *)
THEOREM OverlapIsBounded == Spec => []OverlapBounded
<1>1. OverlapInv => OverlapBounded
    <2> SUFFICES ASSUME OverlapInv, NEW d \in Devices
                 PROVE  Cardinality({c \in Chains : BusyFor(d, c)}) <=
                            1 + Cardinality({s \in Sessions : seen[s].raced})
        BY DEF OverlapBounded
    <2> DEFINE raced == {s \in Sessions : seen[s].raced}
    <2>1. IsFiniteSet(raced) /\ Cardinality(raced) \in Nat
        BY UnattendedAssumption, FS_Subset, FS_CardinalityType
    <2>2. Cardinality(RacedFor(d)) <= Cardinality(raced)
        <3>1. RacedFor(d) \subseteq raced
            BY DEF RacedFor
        <3> QED
            BY <2>1, <3>1, FS_Subset
    <2>3. Cardinality(AtWork(d)) <= 1 + Cardinality(RacedFor(d))
        BY DEF OverlapInv, Overlap
    <2>4. AtWork(d) = {c \in Chains : BusyFor(d, c)}
        BY DEF AtWork
    <2>5. Cardinality(AtWork(d)) <= 1 + Cardinality(raced)
        BY <2>1, <2>2, <2>3, OverlapFinite
    <2> QED
        BY <2>4, <2>5
<1> QED
    BY <1>1, OverlapInit, OverlapStep, PTL DEF Spec

-----------------------------------------------------------------------------
(* What the steps write, column by column.                                 *)

Columns(s) ==
    <<session[s].dispatched, session[s].active, session[s].reason>>

OthersKept(s) ==
    \A x \in Sessions \ {s} :
        /\ start'[x] = start[x] /\ session'[x] = session[x] /\ status'[x] = status[x]
        /\ seen'[x] = seen[x]

LEMMA CheckWrites ==
    ASSUME Typed, NEW s \in Sessions, StartCheck(s) \/ \E d \in Devices : StartLooks(s, d)
    PROVE  /\ UNCHANGED <<status, session, view, chain, tick, hooks, hooking, seen>>
           /\ \A x \in Sessions : /\ start'[x].accounts = start[x].accounts
                                  /\ start'[x].chains = start[x].chains
                                  /\ \/ start'[x].pc = start[x].pc
                                     \/ start[x].pc = "idle" /\ start'[x].pc = "checked"
<1>1. start \in [Sessions -> StartType] /\ start[s] \in StartType
    BY DEF Typed, TypeOK
<1>2. CASE StartCheck(s)
    BY <1>1, <1>2 DEF StartCheck, StartType
<1>3. ASSUME NEW d \in Devices, StartLooks(s, d)
      PROVE  \A x \in Sessions : /\ start'[x].accounts = start[x].accounts
                                 /\ start'[x].chains = start[x].chains
                                 /\ start'[x].pc = start[x].pc
    <2> DEFINE now == [start[s] EXCEPT !.todo = @ \ {d}, !.idle = {d}]
    <2>1. start' = [start EXCEPT ![s] = now]
        BY <1>3 DEF StartLooks
    <2>2. /\ now.accounts = start[s].accounts /\ now.chains = start[s].chains
          /\ now.pc = start[s].pc
        BY <1>1 DEF StartType
    <2> QED
        <3> HIDE DEF now
        <3> QED
            BY <1>1, <2>1, <2>2
<1> QED
    BY <1>2, <1>3 DEF StartCheck, StartLooks

LEMMA CreateWrites ==
    ASSUME Typed, NEW s \in Sessions, StartCreate(s)
    PROVE  /\ OthersKept(s) /\ UNCHANGED <<view, chain, tick, hooks, hooking, seen>>
           /\ Columns(s)' = Columns(s) /\ status'[s] = "running"
           /\ start'[s].accounts = start[s].accounts /\ start'[s].chains = start[s].chains
           /\ start[s].pc = "checked" /\ start'[s].pc = "loop"
<1>1. /\ start \in [Sessions -> StartType] /\ start[s] \in StartType
      /\ session \in [Sessions -> SessionType] /\ session[s] \in SessionType
      /\ status \in [Sessions -> {"none", "running", "paused", "stopped"}]
    BY DEF Typed, TypeOK
<1>2. PICK mode \in Modes :
          session' = [session EXCEPT ![s].loop = mode[1], ![s].rotation = mode[2]]
    BY DEF StartCreate
<1> DEFINE now == [start[s] EXCEPT !.pc = "loop", !.todo = Devices]
           row == [session[s] EXCEPT !.loop = mode[1], !.rotation = mode[2]]
<1>3. start' = [start EXCEPT ![s] = now] /\ session' = [session EXCEPT ![s] = row]
    BY <1>2 DEF StartCreate
<1>4. /\ now.accounts = start[s].accounts /\ now.chains = start[s].chains /\ now.pc = "loop"
      /\ row.dispatched = session[s].dispatched /\ row.active = session[s].active
      /\ row.reason = session[s].reason
    BY <1>1 DEF StartType, SessionType
<1>5. /\ start[s].pc = "checked" /\ status' = [status EXCEPT ![s] = "running"]
      /\ UNCHANGED <<view, chain, tick, hooks, hooking, seen>>
    BY DEF StartCreate
<1> QED
    <2> HIDE DEF now, row
    <2> QED
        BY <1>1, <1>3, <1>4, <1>5 DEF OthersKept, Columns

LEMMA DispatchWrites ==
    ASSUME Typed, NEW s \in Sessions, NEW d \in Devices, StartDispatches(s, d)
    PROVE  /\ OthersKept(s) /\ UNCHANGED <<status, session, view, tick, hooks, hooking>>
           /\ \E a \in Accounts, c \in Chains :
                 /\ ~Counts(c) /\ \A x \in Chains \ {c} : chain'[x] = chain[x]
                 /\ chain'[c].owner = s /\ chain'[c].account = a
                 /\ start'[s].accounts = start[s].accounts \cup {a}
                 /\ start'[s].chains = start[s].chains \cup {c}
                 /\ seen'[s].twice = (seen[s].twice \/ a \in start[s].accounts
                                                            \cup session[s].dispatched)
                 /\ seen'[s].early = seen[s].early
           /\ start'[s].pc = start[s].pc /\ d \in start[s].idle
<1>1. /\ start \in [Sessions -> StartType] /\ start[s] \in StartType
      /\ seen \in [Sessions -> SeenType] /\ seen[s] \in SeenType
    BY DEF Typed, TypeOK
<1>2. PICK a \in StartAccounts(s), c \in NewChains :
          /\ Create(c, d, a, s)
          /\ start' = [start EXCEPT ![s].idle = {}, ![s].chains = @ \cup {c},
                                    ![s].accounts = @ \cup {a}]
          /\ seen' = [seen EXCEPT
                ![s].raced = @ \/ Busy(d),
                ![s].twice = @ \/ a \in start[s].accounts \cup session[s].dispatched]
    BY DEF StartDispatches
<1>3. a \in Accounts
    BY AccountsOffered DEF Typed
<1>4. d \in start[s].idle /\ UNCHANGED <<status, session, view, tick, hooks, hooking>>
    BY DEF StartDispatches
<1>5. /\ c \in Chains /\ ~Counts(c) /\ chain'[c].owner = s /\ chain'[c].account = a
      /\ \A x \in Chains \ {c} : chain'[x] = chain[x]
    BY <1>2, <1>3, <1>4, CreateAdds
<1> DEFINE now == [start[s] EXCEPT !.idle = {}, !.chains = @ \cup {c}, !.accounts = @ \cup {a}]
           was == [seen[s] EXCEPT
                !.raced = @ \/ Busy(d),
                !.twice = @ \/ a \in start[s].accounts \cup session[s].dispatched]
<1>6. start' = [start EXCEPT ![s] = now] /\ seen' = [seen EXCEPT ![s] = was]
    BY <1>2
<1>7. /\ now.accounts = start[s].accounts \cup {a} /\ now.chains = start[s].chains \cup {c}
      /\ now.pc = start[s].pc /\ was.early = seen[s].early
      /\ was.twice = (seen[s].twice \/ a \in start[s].accounts \cup session[s].dispatched)
    BY <1>1 DEF StartType, SeenType
<1>8. /\ start'[s] = now /\ seen'[s] = was
      /\ \A x \in Sessions \ {s} : start'[x] = start[x] /\ seen'[x] = seen[x]
    <2> HIDE DEF now, was
    <2> QED
        BY <1>1, <1>6
<1>9. OthersKept(s)
    BY <1>4, <1>8 DEF OthersKept
<1> QED
    <2> HIDE DEF now, was
    <2> QED
        BY <1>3, <1>4, <1>5, <1>7, <1>8, <1>9

LEMMA RegisterWrites ==
    ASSUME Typed, NEW s \in Sessions, StartRegisters(s)
    PROVE  /\ OthersKept(s) /\ UNCHANGED <<status, view, chain, tick, hooks, hooking, seen>>
           /\ session'[s].dispatched = session[s].dispatched
           /\ session'[s].active = session[s].active \cup start[s].chains
           /\ session'[s].reason = session[s].reason
           /\ start'[s].accounts = start[s].accounts /\ start'[s].chains = {}
           /\ start[s].pc = "loop" /\ start'[s].pc = "save"
<1>1. /\ start \in [Sessions -> StartType] /\ start[s] \in StartType
      /\ session \in [Sessions -> SessionType] /\ session[s] \in SessionType
    BY DEF Typed, TypeOK
<1> DEFINE now == [start[s] EXCEPT !.pc = "save", !.todo = {}, !.chains = {}]
           row == [session[s] EXCEPT !.active = @ \cup start[s].chains]
<1>2. start' = [start EXCEPT ![s] = now] /\ session' = [session EXCEPT ![s] = row]
    BY DEF StartRegisters
<1>3. /\ now.accounts = start[s].accounts /\ now.chains = {} /\ now.pc = "save"
      /\ row.dispatched = session[s].dispatched /\ row.reason = session[s].reason
      /\ row.active = session[s].active \cup start[s].chains
    BY <1>1 DEF StartType, SessionType
<1>4. start[s].pc = "loop" /\ UNCHANGED <<status, view, chain, tick, hooks, hooking, seen>>
    BY DEF StartRegisters
<1> QED
    <2> HIDE DEF now, row
    <2> QED
        BY <1>1, <1>2, <1>3, <1>4 DEF OthersKept

LEMMA SaveWrites ==
    ASSUME Typed, NEW s \in Sessions, StartSaves(s)
    PROVE  /\ OthersKept(s) /\ UNCHANGED <<status, view, chain, tick, hooks, hooking>>
           /\ session'[s].dispatched = start[s].accounts
           /\ session'[s].active = session[s].active /\ session'[s].reason = session[s].reason
           /\ start'[s].accounts = {} /\ start'[s].chains = start[s].chains
           /\ start[s].pc = "save" /\ start'[s].pc = "done"
           /\ seen'[s].twice = seen[s].twice
           /\ seen'[s].early = (seen[s].early \/ session[s].dispatched # {})
<1>1. /\ start \in [Sessions -> StartType] /\ start[s] \in StartType
      /\ session \in [Sessions -> SessionType] /\ session[s] \in SessionType
      /\ seen \in [Sessions -> SeenType] /\ seen[s] \in SeenType
    BY DEF Typed, TypeOK
<1> DEFINE now == [start[s] EXCEPT !.pc = "done", !.accounts = {}]
           next == IF session[s].rotation /\ session[s].loop /\ start[s].accounts # {}
                   THEN After(0) ELSE 0
           row == [session[s] EXCEPT !.dispatched = start[s].accounts, !.index = next]
           was == [seen[s] EXCEPT
               !.early = @ \/ session[s].dispatched # {},
               !.missed = @ \/ (session[s].loop
                                  /\ start[s].accounts \ TrackedAccounts(s) # {})]
<1>2. /\ start' = [start EXCEPT ![s] = now] /\ session' = [session EXCEPT ![s] = row]
      /\ seen' = [seen EXCEPT ![s] = was]
    BY DEF StartSaves
<1>3. /\ now.accounts = {} /\ now.chains = start[s].chains /\ now.pc = "done"
      /\ row.dispatched = start[s].accounts /\ row.reason = session[s].reason
      /\ row.active = session[s].active
      /\ was.twice = seen[s].twice /\ was.early = (seen[s].early \/ session[s].dispatched # {})
    <2> HIDE DEF next
    <2> QED
        BY <1>1 DEF StartType, SessionType, SeenType
<1>4. start[s].pc = "save" /\ UNCHANGED <<status, view, chain, tick, hooks, hooking>>
    BY DEF StartSaves
<1> QED
    <2> HIDE DEF now, row, was
    <2> QED
        BY <1>1, <1>2, <1>3, <1>4 DEF OthersKept

LEMMA ViewWritesColumns ==
    ASSUME Typed, NEW s \in Sessions, ViewReads(s) \/ ViewWrites(s)
    PROVE  /\ UNCHANGED <<start, chain, tick, hooks, hooking, seen>>
           /\ \A x \in Sessions : /\ session'[x].dispatched = session[x].dispatched
                                  /\ session'[x].active = session[x].active
           /\ \/ /\ UNCHANGED <<status, session>> /\ status[s] # "none"
                 /\ \A x \in Sessions \ {s} : view'[x] = view[x]
              \/ /\ view[s] # "none" /\ view'[s] = "none"
                 /\ \A x \in Sessions \ {s} :
                       view'[x] = view[x] /\ status'[x] = status[x] /\ session'[x] = session[x]
                 /\ status'[s] = "stopped" => session'[s].reason = "manual"
<1>1. /\ session \in [Sessions -> SessionType] /\ session[s] \in SessionType
      /\ status \in [Sessions -> {"none", "running", "paused", "stopped"}]
      /\ view \in [Sessions -> {"none", "running", "paused", "stopped"}]
    BY DEF Typed, TypeOK
<1>2. CASE ViewReads(s)
    BY <1>1, <1>2 DEF ViewReads, Changes
<1>3. CASE ViewWrites(s)
    <2> DEFINE row == [session[s] EXCEPT !.reason = IF view[s] = "stopped" THEN "manual" ELSE @]
    <2>1. session' = [session EXCEPT ![s] = row]
        BY <1>3 DEF ViewWrites
    <2>2. /\ row.dispatched = session[s].dispatched /\ row.active = session[s].active
          /\ view[s] = "stopped" => row.reason = "manual"
        BY <1>1 DEF SessionType
    <2>3. /\ view[s] # "none" /\ status' = [status EXCEPT ![s] = view[s]]
          /\ view' = [view EXCEPT ![s] = "none"]
          /\ UNCHANGED <<start, chain, tick, hooks, hooking, seen>>
        BY <1>3 DEF ViewWrites
    <2> QED
        <3> HIDE DEF row
        <3> QED
            BY <1>1, <2>1, <2>2, <2>3
<1> QED
    BY <1>2, <1>3

LEMMA TickWrites ==
    ASSUME Typed, NEW s \in Sessions, NEW d \in Devices, TickDispatches(s, d)
    PROVE  /\ OthersKept(s) /\ UNCHANGED <<status, start, view, hooks, hooking>>
           /\ s \in tick.current
           /\ \E a \in Accounts, c \in Chains :
                 /\ a \notin session[s].dispatched
                 /\ ~Counts(c) /\ \A x \in Chains \ {c} : chain'[x] = chain[x]
                 /\ chain'[c].owner = s /\ chain'[c].account = a
                 /\ session'[s].dispatched = session[s].dispatched \cup {a}
                 /\ session'[s].active = session[s].active \cup {c}
                 /\ session'[s].reason = session[s].reason
                 /\ seen'[s].twice = (seen[s].twice \/ a \in start[s].accounts)
                 /\ seen'[s].early = seen[s].early
<1>1. /\ session \in [Sessions -> SessionType] /\ session[s] \in SessionType
      /\ seen \in [Sessions -> SeenType] /\ seen[s] \in SeenType
    BY DEF Typed, TypeOK
<1>2. PICK a \in NextAccounts(s), c \in NewChains :
          /\ Create(c, d, a, s)
          /\ session' = [session EXCEPT
                ![s].active = @ \cup {c},
                ![s].dispatched = @ \cup {a},
                ![s].index = IF session[s].loop /\ session[s].rotation
                             THEN After(@) ELSE @]
          /\ seen' = [seen EXCEPT ![s].twice = @ \/ a \in start[s].accounts]
    BY DEF TickDispatches
<1>3. a \in Accounts
    BY AccountsOffered DEF Typed
<1>4. a \notin session[s].dispatched
    BY DEF NextAccounts
<1>5. s \in tick.current /\ UNCHANGED <<status, start, view, hooks, hooking>>
    BY DEF TickDispatches
<1>6. /\ c \in Chains /\ ~Counts(c) /\ chain'[c].owner = s /\ chain'[c].account = a
      /\ \A x \in Chains \ {c} : chain'[x] = chain[x]
    BY <1>2, <1>3, <1>5, CreateAdds
<1> DEFINE next == IF session[s].loop /\ session[s].rotation
                   THEN After(session[s].index) ELSE session[s].index
           row == [session[s] EXCEPT !.active = @ \cup {c}, !.dispatched = @ \cup {a},
                                     !.index = next]
           was == [seen[s] EXCEPT !.twice = @ \/ a \in start[s].accounts]
<1>7. session' = [session EXCEPT ![s] = row] /\ seen' = [seen EXCEPT ![s] = was]
    BY <1>1, <1>2 DEF SessionType
<1>8. /\ row.dispatched = session[s].dispatched \cup {a}
      /\ row.active = session[s].active \cup {c} /\ row.reason = session[s].reason
      /\ was.twice = (seen[s].twice \/ a \in start[s].accounts) /\ was.early = seen[s].early
    <2> HIDE DEF next
    <2> QED
        BY <1>1 DEF SessionType, SeenType
<1>9. /\ session'[s] = row /\ seen'[s] = was
      /\ \A x \in Sessions \ {s} : session'[x] = session[x] /\ seen'[x] = seen[x]
    <2> HIDE DEF row, was
    <2> QED
        BY <1>1, <1>7
<1>10. OthersKept(s)
    BY <1>5, <1>9 DEF OthersKept
<1> QED
    <2> HIDE DEF row, was
    <2> QED
        BY <1>3, <1>4, <1>5, <1>6, <1>8, <1>9, <1>10

(* The columns of the row of a session whose chain is processed. *)
LEMMA ProcessedColumns ==
    ASSUME TypeOK, NEW s \in Sessions, NEW c, NEW how
    PROVE  /\ Processed(s, c, how).active = session[s].active \ {c}
           /\ Processed(s, c, how).reason = session[s].reason
           /\ \/ Processed(s, c, how).dispatched = session[s].dispatched
              \/ /\ status[s] = "running"
                 /\ Processed(s, c, how).dispatched = session[s].dispatched \ {chain[c].account}
<1>1. session[s] \in SessionType
    BY DEF TypeOK
<1> QED
    BY <1>1 DEF Processed, SessionType

(* A hook writes the row of the session that its chain belongs to; if it   *)
(* stops it as completed, accounts have been dispatched and no chain is    *)
(* tracked any more.                                                       *)
LEMMA HookColumns ==
    ASSUME Typed, NEW c \in Chains, HookProcesses(c)
    PROVE  LET s == chain[c].owner IN
           /\ s \in Sessions /\ c \in hooking /\ s \notin tick.locked
           /\ OthersKept(s) /\ UNCHANGED <<start, view, tick, seen>>
           /\ hooks' = hooks /\ hooking' = hooking \ {c}
           /\ session'[s].active = session[s].active \ {c}
           /\ \/ session'[s].dispatched = session[s].dispatched
              \/ /\ status[s] = "running"
                 /\ session'[s].dispatched = session[s].dispatched \ {chain[c].account}
           /\ \/ status'[s] = status[s] /\ session'[s].reason = session[s].reason
              \/ /\ status'[s] = "stopped"
                 /\ session'[s].reason = "all_completed" =>
                       session'[s].active = {} /\ session'[s].dispatched # {}
<1> DEFINE s == chain[c].owner
<1>1. /\ s \in Sessions /\ c \in hooking /\ s \notin tick.locked
      /\ \E how \in Outcomes, conds \in SUBSET Conditions :
             LET row == Processed(s, c, how)
             IN  /\ row \in SessionType
                 /\ "all_completed" \in conds => AllCompleted(row)
                 /\ \/ /\ session' = [session EXCEPT ![s] = row]
                       /\ UNCHANGED status
                    \/ /\ First(conds) \in Stops
                       /\ First(conds) = "all_completed" <=> "all_completed" \in conds
                       /\ session' = [session EXCEPT ![s] =
                                        [row EXCEPT !.reason = First(conds)]]
                       /\ status' = [status EXCEPT ![s] = "stopped"]
    BY HookWrites
<1>2. PICK how \in Outcomes, conds \in SUBSET Conditions :
          LET row == Processed(s, c, how)
          IN  /\ row \in SessionType
              /\ "all_completed" \in conds => AllCompleted(row)
              /\ \/ /\ session' = [session EXCEPT ![s] = row]
                    /\ UNCHANGED status
                 \/ /\ First(conds) \in Stops
                    /\ First(conds) = "all_completed" <=> "all_completed" \in conds
                    /\ session' = [session EXCEPT ![s] =
                                     [row EXCEPT !.reason = First(conds)]]
                    /\ status' = [status EXCEPT ![s] = "stopped"]
    BY <1>1
<1> DEFINE row == Processed(s, c, how)
           stopped == [row EXCEPT !.reason = First(conds)]
<1>3. /\ session \in [Sessions -> SessionType]
      /\ status \in [Sessions -> {"none", "running", "paused", "stopped"}]
    BY DEF Typed, TypeOK
<1>4. /\ row.active = session[s].active \ {c} /\ row.reason = session[s].reason
      /\ \/ row.dispatched = session[s].dispatched
         \/ /\ status[s] = "running"
            /\ row.dispatched = session[s].dispatched \ {chain[c].account}
    BY <1>1, ProcessedColumns DEF Typed
<1>5. /\ stopped.active = row.active /\ stopped.dispatched = row.dispatched
      /\ stopped.reason = First(conds)
    <2>1. row \in SessionType
        BY <1>2
    <2> HIDE DEF row
    <2> QED
        BY <2>1 DEF SessionType
<1>6. "all_completed" \in conds => row.active = {} /\ row.dispatched # {}
    BY <1>2 DEF AllCompleted
<1>7. UNCHANGED <<start, view, tick, seen>> /\ hooks' = hooks /\ hooking' = hooking \ {c}
    BY DEF HookProcesses
<1>8. /\ \/ session' = [session EXCEPT ![s] = row] /\ UNCHANGED status
         \/ /\ First(conds) = "all_completed" <=> "all_completed" \in conds
            /\ session' = [session EXCEPT ![s] = stopped]
            /\ status' = [status EXCEPT ![s] = "stopped"]
    BY <1>2
<1>9. OthersKept(s)
    <2> HIDE DEF row, stopped, s
    <2> QED
        BY <1>1, <1>3, <1>7, <1>8 DEF OthersKept
<1>10. \/ session'[s] = row /\ status'[s] = status[s]
       \/ /\ First(conds) = "all_completed" <=> "all_completed" \in conds
          /\ session'[s] = stopped /\ status'[s] = "stopped"
    <2> HIDE DEF row, stopped, s
    <2> QED
        BY <1>1, <1>3, <1>8
<1> QED
    <2> HIDE DEF row, stopped
    <2> QED
        BY <1>1, <1>4, <1>5, <1>6, <1>7, <1>9, <1>10

(* The other steps of chains and hooks write no row of a session. *)
LEMMA ChainWrites ==
    ASSUME Typed, NEW c \in Chains, ChainStep(c) \/ HookFails(c), ~HookProcesses(c)
    PROVE  /\ UNCHANGED <<status, session, start, view, tick>>
           /\ \A x \in Sessions : /\ seen'[x].twice = seen[x].twice
                                  /\ seen'[x].early = seen[x].early
<1>1. UNCHANGED seen \/ Miss(chain[c].owner)
    BY DEF ChainStep, ChainBegins, ChainEnds, HookReads, HookFails
<1>2. \A x \in Sessions : seen'[x].twice = seen[x].twice /\ seen'[x].early = seen[x].early
    BY <1>1 DEF Miss, Typed, TypeOK, SeenType
<1> QED
    BY <1>2 DEF ChainStep, ChainBegins, ChainEnds, HookReads, HookFails

-----------------------------------------------------------------------------
(* One chain per account.  An account that is at work, or whose completion *)
(* has still to be heard, is marked as dispatched, by the row or by the    *)
(* start view that has not written it down; so no tick gives it out again. *)

OneHook == hooks \cap hooking = {}

At(s, a) == {c \in Chains : Counts(c) /\ chain[c].owner = s /\ chain[c].account = a}

Given(s) == session[s].dispatched \cup start[s].accounts

OneChain(s) == \A a \in Accounts : \A c \in At(s, a) : a \in Given(s) /\ At(s, a) = {c}

Unmarked(s) == seen[s].twice \/ seen[s].early

AccountInv == Typed /\ OneHook /\ \A s \in Sessions : Unmarked(s) \/ OneChain(s)

LEMMA OneChainKept ==
    ASSUME NEW s \in Sessions, Unmarked(s) \/ OneChain(s),
           Unmarked(s) => Unmarked(s)', Given(s) \subseteq Given(s)' \/ Unmarked(s)',
           \A a \in Accounts : At(s, a)' \subseteq At(s, a)
    PROVE  Unmarked(s)' \/ OneChain(s)'
    BY DEF OneChain

NewChainOf(s, a, c) ==
    /\ ~Counts(c) /\ \A x \in Chains \ {c} : chain'[x] = chain[x]
    /\ chain'[c].owner = s /\ chain'[c].account = a
    /\ UNCHANGED <<hooks, hooking>>

(* A new chain of the account a, which had none. *)
LEMMA OneChainAdded ==
    ASSUME NEW s \in Sessions, Unmarked(s) \/ OneChain(s), NEW a \in Accounts, NEW c \in Chains,
           NewChainOf(s, a, c),
           Unmarked(s) => Unmarked(s)', a \notin Given(s) \/ Unmarked(s)',
           Given(s)' = Given(s) \cup {a}
    PROVE  /\ Unmarked(s)' \/ OneChain(s)'
           /\ \A x \in Sessions \ {s}, b \in Accounts : At(x, b)' \subseteq At(x, b)
<1>1. \A b \in Accounts \ {a} : At(s, b)' \subseteq At(s, b)
    BY DEF NewChainOf, At, Counts, IsLive
<1>2. At(s, a)' \subseteq At(s, a) \cup {c}
    BY DEF NewChainOf, At, Counts, IsLive
<1>3. ~Unmarked(s)' => At(s, a) = {}
    BY DEF OneChain
<1>4. \A x \in Sessions \ {s}, b \in Accounts : At(x, b)' \subseteq At(x, b)
    BY DEF NewChainOf, At, Counts, IsLive
<1> QED
    BY <1>1, <1>2, <1>3, <1>4 DEF OneChain

LEMMA AccountStep == AccountInv /\ [Next]_vars => AccountInv'
<1> SUFFICES ASSUME AccountInv, [Next]_vars
             PROVE  OneHook' /\ \A s \in Sessions : Unmarked(s)' \/ OneChain(s)'
    BY TypedStep DEF AccountInv
<1> USE DEF AccountInv
<1>1. ASSUME UNCHANGED <<hooks, hooking>> PROVE OneHook'
    BY <1>1 DEF OneHook
<1>2. ASSUME UNCHANGED <<chain, hooks, hooking>>
      PROVE  \A s \in Sessions, a \in Accounts : At(s, a)' = At(s, a)
    BY <1>2 DEF At, Counts, IsLive
<1>3. ASSUME NEW s \in Sessions, OthersKept(s),
             \A x \in Sessions \ {s}, a \in Accounts : At(x, a)' \subseteq At(x, a)
      PROVE  \A x \in Sessions \ {s} : Unmarked(x)' \/ OneChain(x)'
    BY <1>3, OneChainKept DEF OthersKept, Unmarked, Given
<1>4. ASSUME NEW s \in Sessions, StartCheck(s) \/ \E d \in Devices : StartLooks(s, d)
      PROVE  OneHook' /\ \A x \in Sessions : Unmarked(x)' \/ OneChain(x)'
    BY <1>1, <1>2, <1>4, CheckWrites, OneChainKept DEF Unmarked, Given
<1>5. ASSUME NEW s \in Sessions, StartCreate(s)
      PROVE  OneHook' /\ \A x \in Sessions : Unmarked(x)' \/ OneChain(x)'
    BY <1>1, <1>2, <1>3, <1>5, CreateWrites, OneChainKept DEF Unmarked, Given, Columns
<1>6. ASSUME NEW s \in Sessions, NEW d \in Devices, StartDispatches(s, d)
      PROVE  OneHook' /\ \A x \in Sessions : Unmarked(x)' \/ OneChain(x)'
    <2>1. OthersKept(s) /\ UNCHANGED <<session, hooks, hooking>>
        BY <1>6, DispatchWrites
    <2>2. PICK a \in Accounts, c \in Chains :
              /\ ~Counts(c) /\ \A x \in Chains \ {c} : chain'[x] = chain[x]
              /\ chain'[c].owner = s /\ chain'[c].account = a
              /\ start'[s].accounts = start[s].accounts \cup {a}
              /\ seen'[s].twice = (seen[s].twice \/ a \in start[s].accounts
                                                         \cup session[s].dispatched)
              /\ seen'[s].early = seen[s].early
        BY <1>6, DispatchWrites
    <2>3. /\ Unmarked(s) => Unmarked(s)'
          /\ a \notin Given(s) \/ Unmarked(s)'
          /\ Given(s)' = Given(s) \cup {a}
        BY <2>1, <2>2 DEF Unmarked, Given
    <2>4. (Unmarked(s) \/ OneChain(s)) /\ NewChainOf(s, a, c)
        BY <2>1, <2>2 DEF NewChainOf
    <2>5. /\ Unmarked(s)' \/ OneChain(s)'
          /\ \A x \in Sessions \ {s}, b \in Accounts : At(x, b)' \subseteq At(x, b)
        BY <2>3, <2>4, OneChainAdded
    <2>6. \A x \in Sessions \ {s} : Unmarked(x)' \/ OneChain(x)'
        BY <1>3, <2>1, <2>5
    <2> QED
        BY <1>1, <2>1, <2>5, <2>6
<1>7. ASSUME NEW s \in Sessions, StartRegisters(s)
      PROVE  OneHook' /\ \A x \in Sessions : Unmarked(x)' \/ OneChain(x)'
    BY <1>1, <1>2, <1>3, <1>7, RegisterWrites, OneChainKept DEF Unmarked, Given
<1>8. ASSUME NEW s \in Sessions, StartSaves(s)
      PROVE  OneHook' /\ \A x \in Sessions : Unmarked(x)' \/ OneChain(x)'
    <2>1. OthersKept(s) /\ UNCHANGED <<chain, hooks, hooking>>
        BY <1>8, SaveWrites
    <2>2. OneHook' /\ \A x \in Sessions, a \in Accounts : At(x, a)' = At(x, a)
        BY <1>1, <1>2, <2>1
    <2>3. Unmarked(s) => Unmarked(s)'
        BY <1>8, SaveWrites DEF Unmarked
    <2>4. Given(s) \subseteq Given(s)' \/ Unmarked(s)'
        BY <1>8, SaveWrites DEF Unmarked, Given
    <2>5. Unmarked(s)' \/ OneChain(s)'
        BY <2>2, <2>3, <2>4, OneChainKept
    <2>6. \A x \in Sessions \ {s} : Unmarked(x)' \/ OneChain(x)'
        BY <1>3, <2>1, <2>2
    <2> QED
        BY <2>2, <2>5, <2>6
<1>9. ASSUME NEW s \in Sessions, ViewReads(s) \/ ViewWrites(s)
      PROVE  OneHook' /\ \A x \in Sessions : Unmarked(x)' \/ OneChain(x)'
    BY <1>1, <1>2, <1>9, ViewWritesColumns, OneChainKept DEF Unmarked, Given
<1>10. ASSUME TickStep \/ UNCHANGED vars
       PROVE  OneHook' /\ \A x \in Sessions : Unmarked(x)' \/ OneChain(x)'
    <2>1. UNCHANGED <<session, start, chain, hooks, hooking, seen>>
        BY <1>10 DEF TickStep, TickBegins, TickCommits, TickSession, vars
    <2> QED
        BY <1>1, <1>2, <2>1, OneChainKept DEF Unmarked, Given
<1>11. ASSUME NEW s \in Sessions, NEW d \in Devices, TickDispatches(s, d)
       PROVE  OneHook' /\ \A x \in Sessions : Unmarked(x)' \/ OneChain(x)'
    <2>1. OthersKept(s) /\ UNCHANGED <<start, hooks, hooking>>
        BY <1>11, TickWrites
    <2>2. PICK a \in Accounts, c \in Chains :
              /\ a \notin session[s].dispatched
              /\ ~Counts(c) /\ \A x \in Chains \ {c} : chain'[x] = chain[x]
              /\ chain'[c].owner = s /\ chain'[c].account = a
              /\ session'[s].dispatched = session[s].dispatched \cup {a}
              /\ seen'[s].twice = (seen[s].twice \/ a \in start[s].accounts)
              /\ seen'[s].early = seen[s].early
        BY <1>11, TickWrites
    <2>3. /\ Unmarked(s) => Unmarked(s)'
          /\ a \notin Given(s) \/ Unmarked(s)'
          /\ Given(s)' = Given(s) \cup {a}
        BY <2>1, <2>2 DEF Unmarked, Given
    <2>4. (Unmarked(s) \/ OneChain(s)) /\ NewChainOf(s, a, c)
        BY <2>1, <2>2 DEF NewChainOf
    <2>5. /\ Unmarked(s)' \/ OneChain(s)'
          /\ \A x \in Sessions \ {s}, b \in Accounts : At(x, b)' \subseteq At(x, b)
        BY <2>3, <2>4, OneChainAdded
    <2>6. \A x \in Sessions \ {s} : Unmarked(x)' \/ OneChain(x)'
        BY <1>3, <2>1, <2>5
    <2> QED
        BY <1>1, <2>1, <2>5, <2>6
<1>12. ASSUME NEW c \in Chains, ChainStep(c) \/ HookFails(c)
       PROVE  /\ OneHook'
              /\ \A s \in Sessions, a \in Accounts : At(s, a)' \subseteq At(s, a)
    <2>1. \A x \in Chains : Counts(x)' => Counts(x) /\ SameRow(x)
        BY <1>12, ChainsOnlyEnd
    <2>2. \A s \in Sessions, a \in Accounts : At(s, a)' \subseteq At(s, a)
        BY <2>1 DEF At, SameRow
    <2>3. chain[c].status = "running" => c \notin hooks \cup hooking
        BY DEF Typed, MessagesWait
    <2>4. OneHook'
        BY <1>12, <2>3 DEF OneHook, ChainStep, ChainBegins, ChainEnds, HookReads, HookProcesses,
           HookFails
    <2> QED
        BY <2>2, <2>4
<1>13. ASSUME NEW c \in Chains, ChainStep(c) \/ HookFails(c), ~HookProcesses(c)
       PROVE  OneHook' /\ \A x \in Sessions : Unmarked(x)' \/ OneChain(x)'
    BY <1>12, <1>13, ChainWrites, OneChainKept DEF Unmarked, Given
<1>14. ASSUME NEW c \in Chains, HookProcesses(c)
       PROVE  OneHook' /\ \A x \in Sessions : Unmarked(x)' \/ OneChain(x)'
    <2>0. PICK s \in Sessions, a \in {chain[c].account} : s = chain[c].owner
        BY <1>14, HookColumns
    <2>1. /\ c \in hooking /\ OthersKept(s) /\ UNCHANGED <<start, seen>>
          /\ hooks' = hooks /\ hooking' = hooking \ {c}
          /\ session[s].dispatched \ {a} \subseteq session'[s].dispatched
        BY <1>14, <2>0, HookColumns
    <2>2. /\ OneHook' /\ \A x \in Chains : Counts(x)' => Counts(x) /\ SameRow(x)
          /\ \A x \in Sessions, b \in Accounts : At(x, b)' \subseteq At(x, b)
        BY <1>12, <1>14, ChainsOnlyEnd DEF ChainStep
    <2>3. ~Counts(c)'
        <3>1. chain[c].status = "ended" /\ c \notin hooks
            BY <2>1 DEF Typed, MessagesWait, OneHook
        <3>2. ~IsLive(c)'
            <4>1. IsLive(c)' => IsLive(c)
                BY <1>14, ChainsOnlyEnd DEF ChainStep
            <4> QED
                BY <3>1, <4>1 DEF IsLive, Live
        <3> QED
            BY <2>1, <3>1, <3>2 DEF Counts
    <2>4. \A x \in Sessions \ {s} : Unmarked(x)' \/ OneChain(x)'
        BY <1>3, <2>1, <2>2
    <2>5. c \in At(s, a) /\ c \notin At(s, a)'
        BY <2>0, <2>1, <2>3 DEF At, Counts
    <2>6. Unmarked(s)' \/ OneChain(s)'
        <3>1. Unmarked(s) => Unmarked(s)'
            BY <2>1 DEF Unmarked
        <3>2. ASSUME OneChain(s) PROVE OneChain(s)'
            <4>1. a \in Accounts => At(s, a)' = {}
                BY <2>1, <2>2, <2>5, <3>2 DEF OneChain
            <4>2. Given(s) \ {a} \subseteq Given(s)'
                BY <2>1 DEF Given
            <4> QED
                BY <2>1, <2>2, <3>2, <4>1, <4>2 DEF OneChain
        <3> QED
            BY <2>1, <3>1, <3>2
    <2> QED
        BY <2>2, <2>4, <2>6
<1> QED
    BY <1>4, <1>5, <1>6, <1>7, <1>8, <1>9, <1>10, <1>11, <1>13, <1>14
       DEF Next, Start, TickRound, ChainStep

LEMMA AccountInit == Init => AccountInv
<1> SUFFICES ASSUME Init PROVE AccountInv
    OBVIOUS
<1>1. \A c \in Chains : ~Counts(c)
    BY DEF Init, Counts, IsLive, Live, NoChain
<1>2. OneHook /\ \A s \in Sessions : OneChain(s)
    BY <1>1 DEF Init, OneHook, OneChain, At
<1> QED
    BY <1>2, TypedInit DEF AccountInv

(* An account has at most one chain at work in a session, once the first   *)
(* round gave it to one device and was written down before a tick came.    *)
THEOREM AccountsRunOnce == Spec => []AccountOnce
<1>1. AccountInv => AccountOnce
    <2> SUFFICES ASSUME AccountInv, NEW s \in Sessions, NEW a \in Accounts,
                        ~seen[s].twice, ~seen[s].early
                 PROVE  Cardinality({c \in Of(s) : chain[c].account = a}) <= 1
        BY DEF AccountOnce
    <2> DEFINE mine == {c \in Of(s) : chain[c].account = a}
    <2>1. OneChain(s)
        BY DEF AccountInv, Unmarked
    <2>2. mine \subseteq At(s, a)
        BY DEF Of, At, Counts
    <2>3. \A c \in At(s, a) : At(s, a) = {c}
        BY <2>1 DEF OneChain
    <2>4. CASE mine = {}
        <3>1. Cardinality(mine) = 0
            BY <2>4, FS_EmptySet
        <3> QED
            BY <3>1
    <2>5. CASE mine # {}
        <3>1. PICK c \in mine : TRUE
            BY <2>5
        <3>2. mine = {c}
            BY <2>2, <2>3, <3>1
        <3>3. Cardinality(mine) = 1
            BY <3>2, FS_Singleton
        <3> QED
            BY <3>3
    <2> QED
        BY <2>4, <2>5
<1> QED
    BY <1>1, AccountInit, AccountStep, PTL DEF Spec

-----------------------------------------------------------------------------
(* A completed session is idle.  Every chain at work is tracked, or on the *)
(* start view's list, so a session without tracked chains is idle once its *)
(* first round has been registered; and if it was stopped before that, its *)
(* dispatched accounts show that a tick came too early.                    *)

Known ==
    \A c \in Chains : IsLive(c) =>
        c \in session[chain[c].owner].active \cup start[chain[c].owner].chains

NotBegun(s) == start[s].pc \in {"idle", "checked"}

Unstarted ==
    \A s \in Sessions : NotBegun(s) =>
        /\ status[s] = "none" /\ view[s] = "none"
        /\ \A c \in Chains : Counts(c) => chain[c].owner # s

Completed(s) == status[s] = "stopped" /\ session[s].reason = "all_completed"

Idled(s) ==
    \/ seen[s].early
    \/ start[s].pc \in {"loop", "save"} /\ session[s].dispatched # {}
    \/ start[s].pc = "done" /\ session[s].active = {}

Idle == \A s \in Sessions : Completed(s) => Idled(s)

CompletedInv == LockInv /\ StartOrder /\ Known /\ Unstarted /\ Idle

LEMMA CompletedInit == Init => CompletedInv
<1> SUFFICES ASSUME Init PROVE CompletedInv
    OBVIOUS
<1>1. \A c \in Chains : ~Counts(c) /\ ~IsLive(c)
    BY DEF Init, Counts, IsLive, Live, NoChain
<1>2. Known /\ Unstarted /\ Idle /\ StartOrder
    BY <1>1 DEF Init, Known, Unstarted, NotBegun, Idle, Completed, StartOrder
<1> QED
    BY <1>2, LockInit DEF CompletedInv

Rest == Known /\ Unstarted /\ Idle

(* A chain that is created belongs to a session that has begun. *)
LEMMA RestCreated ==
    ASSUME Typed, Rest, NEW s \in Sessions, OthersKept(s), UNCHANGED <<status, view>>,
           ~NotBegun(s), ~NotBegun(s)',
           NEW a \in Accounts, NEW c \in Chains, NewChainOf(s, a, c),
           c \in session'[s].active \cup start'[s].chains,
           session[s].active \cup start[s].chains
               \subseteq session'[s].active \cup start'[s].chains
    PROVE  Known' /\ Unstarted'
<1>1. \A x \in Chains \ {c} : chain'[x] = chain[x]
    BY DEF NewChainOf
<1>2. Known'
    BY <1>1 DEF Rest, Known, NewChainOf, OthersKept, IsLive, Typed, TypeOK, ChainType, NoChain,
       Live
<1>3. Unstarted'
    BY <1>1 DEF Rest, Unstarted, NewChainOf, OthersKept, NotBegun, Counts, IsLive
<1> QED
    BY <1>2, <1>3

(* Chains that only end stay known. *)
LEMMA RestEnded ==
    ASSUME Typed, Rest, UNCHANGED start,
           \A x \in Chains : Counts(x)' => Counts(x) /\ SameRow(x),
           \A x \in Chains : IsLive(x)' => IsLive(x) /\ SameRow(x)
                  /\ (x \in session[chain[x].owner].active =>
                         x \in session'[chain[x].owner].active),
           \A s \in Sessions : NotBegun(s) => status'[s] = status[s] /\ view'[s] = view[s]
    PROVE  Known' /\ Unstarted'
<1>1. Known'
    BY DEF Rest, Known, SameRow
<1>2. Unstarted'
    BY DEF Rest, Unstarted, NotBegun, SameRow
<1> QED
    BY <1>1, <1>2

LEMMA CompletedStart ==
    ASSUME CompletedInv, NEW s \in Sessions, StartCheck(s) \/ Start(s)
    PROVE  Rest'
<1> USE DEF CompletedInv, LockInv, Rest
<1>1. ASSUME StartCheck(s) \/ \E d \in Devices : StartLooks(s, d) PROVE Rest'
    <2>1. /\ UNCHANGED <<status, session, view, chain, tick, hooks, hooking, seen>>
          /\ \A x \in Sessions : /\ start'[x].chains = start[x].chains
                                 /\ \/ start'[x].pc = start[x].pc
                                    \/ start[x].pc = "idle" /\ start'[x].pc = "checked"
        BY <1>1, CheckWrites
    <2>2. Known'
        BY <2>1 DEF Known, IsLive, Typed, TypeOK, ChainType, NoChain, Live
    <2>3. Unstarted'
        BY <2>1 DEF Unstarted, NotBegun, Counts, IsLive
    <2>4. Idle'
        BY <2>1 DEF Idle, Completed, Idled
    <2> QED
        BY <2>2, <2>3, <2>4
<1>2. CASE StartCreate(s)
    <2>1. /\ OthersKept(s) /\ UNCHANGED <<view, chain, hooks, hooking, seen>>
          /\ session'[s].active = session[s].active /\ status'[s] = "running"
          /\ start'[s].chains = start[s].chains /\ start'[s].pc = "loop"
        BY <1>2, CreateWrites DEF Columns
    <2>2. Known'
        BY <2>1 DEF Known, IsLive, OthersKept, Typed, TypeOK, ChainType, NoChain, Live
    <2>3. Unstarted'
        BY <2>1 DEF Unstarted, NotBegun, Counts, IsLive, OthersKept
    <2>4. Idle'
        BY <2>1 DEF Idle, Completed, Idled, OthersKept
    <2> QED
        BY <2>2, <2>3, <2>4
<1>3. ASSUME NEW d \in Devices, StartDispatches(s, d) PROVE Rest'
    <2>1. /\ OthersKept(s) /\ UNCHANGED <<status, session, view, hooks, hooking>>
          /\ start'[s].pc = start[s].pc /\ d \in start[s].idle
        BY <1>3, DispatchWrites
    <2>2. PICK a \in Accounts, c \in Chains :
              /\ ~Counts(c) /\ \A x \in Chains \ {c} : chain'[x] = chain[x]
              /\ chain'[c].owner = s /\ chain'[c].account = a
              /\ start'[s].chains = start[s].chains \cup {c}
              /\ seen'[s].early = seen[s].early
        BY <1>3, DispatchWrites
    <2>3. start[s].pc = "loop"
        BY <2>1 DEF StartOrder
    <2>4. NewChainOf(s, a, c) /\ ~NotBegun(s) /\ ~NotBegun(s)'
        BY <2>1, <2>2, <2>3 DEF NewChainOf, NotBegun
    <2>5. Known' /\ Unstarted'
        BY <2>1, <2>2, <2>4, RestCreated
    <2>6. Idle'
        BY <2>1, <2>2 DEF Idle, Completed, Idled, OthersKept
    <2> QED
        BY <2>5, <2>6
<1>4. CASE StartRegisters(s)
    <2>1. /\ OthersKept(s) /\ UNCHANGED <<status, view, chain, hooks, hooking, seen>>
          /\ session'[s].dispatched = session[s].dispatched
          /\ session'[s].active = session[s].active \cup start[s].chains
          /\ session'[s].reason = session[s].reason
          /\ start[s].pc = "loop" /\ start'[s].pc = "save"
        BY <1>4, RegisterWrites
    <2>2. Known'
        BY <2>1 DEF Known, IsLive, OthersKept, Typed, TypeOK, ChainType, NoChain, Live
    <2>3. Unstarted'
        BY <2>1 DEF Unstarted, NotBegun, Counts, IsLive, OthersKept
    <2>4. Idle'
        BY <2>1 DEF Idle, Completed, Idled, OthersKept
    <2> QED
        BY <2>2, <2>3, <2>4
<1>5. CASE StartSaves(s)
    <2>1. /\ OthersKept(s) /\ UNCHANGED <<status, view, chain, hooks, hooking>>
          /\ session'[s].active = session[s].active /\ session'[s].reason = session[s].reason
          /\ start'[s].chains = start[s].chains
          /\ start[s].pc = "save" /\ start'[s].pc = "done"
          /\ seen'[s].early = (seen[s].early \/ session[s].dispatched # {})
        BY <1>5, SaveWrites
    <2>2. Known'
        BY <2>1 DEF Known, IsLive, OthersKept, Typed, TypeOK, ChainType, NoChain, Live
    <2>3. Unstarted'
        BY <2>1 DEF Unstarted, NotBegun, Counts, IsLive, OthersKept
    <2>4. Idle'
        <3>1. ASSUME NEW x \in Sessions, x # s, Completed(x)' PROVE Idled(x)'
            BY <2>1, <3>1 DEF Idle, Completed, Idled, OthersKept
        <3>2. ASSUME Completed(s)' PROVE Idled(s)'
            BY <2>1, <3>2 DEF Idle, Completed, Idled
        <3> QED
            BY <3>1, <3>2 DEF Idle
    <2> QED
        BY <2>2, <2>3, <2>4
<1> QED
    BY <1>1, <1>2, <1>3, <1>4, <1>5 DEF Start

LEMMA CompletedOthers ==
    ASSUME CompletedInv,
           \/ \E s \in Sessions : ViewReads(s) \/ ViewWrites(s) \/ TickRound(s)
           \/ TickStep \/ UNCHANGED vars
    PROVE  Rest'
<1> USE DEF CompletedInv, LockInv, Rest
<1>1. ASSUME NEW s \in Sessions, ViewReads(s) \/ ViewWrites(s) PROVE Rest'
    <2>1. /\ UNCHANGED <<start, chain, tick, hooks, hooking, seen>>
          /\ \A x \in Sessions : /\ session'[x].dispatched = session[x].dispatched
                                 /\ session'[x].active = session[x].active
          /\ \/ /\ UNCHANGED <<status, session>> /\ status[s] # "none"
                /\ \A x \in Sessions \ {s} : view'[x] = view[x]
             \/ /\ view[s] # "none" /\ view'[s] = "none"
                /\ \A x \in Sessions \ {s} :
                      view'[x] = view[x] /\ status'[x] = status[x] /\ session'[x] = session[x]
                /\ status'[s] = "stopped" => session'[s].reason = "manual"
        BY <1>1, ViewWritesColumns
    <2>2. Known'
        BY <2>1 DEF Known, IsLive, Typed, TypeOK, ChainType, NoChain, Live
    <2>3. Unstarted'
        BY <2>1 DEF Unstarted, NotBegun, Counts, IsLive
    <2>4. Idle'
        BY <2>1 DEF Idle, Completed, Idled
    <2> QED
        BY <2>2, <2>3, <2>4
<1>2. CASE TickStep \/ UNCHANGED vars
    <2>1. UNCHANGED <<status, session, start, view, chain, hooks, hooking, seen>>
        BY <1>2 DEF TickStep, TickBegins, TickCommits, TickSession, vars
    <2> QED
        BY <2>1 DEF Known, Unstarted, NotBegun, Counts, IsLive, Idle, Completed, Idled
<1>3. ASSUME NEW s \in Sessions, NEW d \in Devices, TickDispatches(s, d) PROVE Rest'
    <2>1. /\ OthersKept(s) /\ UNCHANGED <<status, start, view, hooks, hooking>>
          /\ s \in tick.current
        BY <1>3, TickWrites
    <2>2. PICK a \in Accounts, c \in Chains :
              /\ ~Counts(c) /\ \A x \in Chains \ {c} : chain'[x] = chain[x]
              /\ chain'[c].owner = s /\ chain'[c].account = a
              /\ session'[s].active = session[s].active \cup {c}
              /\ seen'[s].early = seen[s].early
        BY <1>3, TickWrites
    <2>3. status[s] = "running"
        BY <2>1 DEF LockHeld
    <2>4. NewChainOf(s, a, c) /\ ~NotBegun(s) /\ ~NotBegun(s)'
        BY <2>1, <2>2, <2>3 DEF NewChainOf, NotBegun, Unstarted
    <2>5. Known' /\ Unstarted'
        BY <2>1, <2>2, <2>4, RestCreated
    <2>6. Idle'
        BY <2>1, <2>2, <2>3 DEF Idle, Completed, Idled, OthersKept
    <2> QED
        BY <2>5, <2>6
<1> QED
    BY <1>1, <1>2, <1>3 DEF TickRound

LEMMA CompletedChains ==
    ASSUME CompletedInv, NEW c \in Chains, ChainStep(c) \/ HookFails(c)
    PROVE  Rest'
<1> USE DEF CompletedInv, LockInv, Rest
<1>1. /\ \A x \in Chains : Counts(x)' => Counts(x) /\ SameRow(x)
      /\ \A x \in Chains : IsLive(x)' => IsLive(x) /\ SameRow(x)
    BY ChainsOnlyEnd
<1>2. CASE ~HookProcesses(c)
    <2>1. /\ UNCHANGED <<status, session, start, view, tick>>
          /\ \A x \in Sessions : seen'[x].early = seen[x].early
        BY <1>2, ChainWrites
    <2>2. Known' /\ Unstarted'
        BY <1>1, <2>1, RestEnded
    <2>3. Idle'
        BY <2>1 DEF Idle, Completed, Idled
    <2> QED
        BY <2>2, <2>3
<1>3. CASE HookProcesses(c)
    <2>1. PICK s \in Sessions : s = chain[c].owner
        BY <1>3, HookColumns
    <2>2. /\ c \in hooking /\ OthersKept(s) /\ UNCHANGED <<start, view, seen>>
          /\ session'[s].active = session[s].active \ {c}
          /\ \/ session'[s].dispatched = session[s].dispatched
             \/ status[s] = "running"
          /\ \/ status'[s] = status[s] /\ session'[s].reason = session[s].reason
             \/ /\ status'[s] = "stopped"
                /\ session'[s].reason = "all_completed" =>
                      session'[s].active = {} /\ session'[s].dispatched # {}
        BY <1>3, <2>1, HookColumns
    <2>3. chain[c].status = "ended" /\ ~IsLive(c) /\ ~NotBegun(s)
        BY <2>1, <2>2 DEF Typed, MessagesWait, IsLive, Live, Unstarted, Counts
    <2>4. \A x \in Chains : IsLive(x)' =>
              (x \in session[chain[x].owner].active => x \in session'[chain[x].owner].active)
        <3> SUFFICES ASSUME NEW x \in Chains, IsLive(x)',
                            x \in session[chain[x].owner].active
                     PROVE  x \in session'[chain[x].owner].active
            OBVIOUS
        <3>1. IsLive(x) /\ x # c
            BY <1>1, <2>3
        <3>2. chain[x].owner \in Sessions
            BY <3>1 DEF IsLive, Live, Typed, TypeOK, ChainType, NoChain
        <3> QED
            BY <2>2, <3>1, <3>2 DEF OthersKept
    <2>5. \A x \in Sessions : NotBegun(x) => status'[x] = status[x] /\ view'[x] = view[x]
        BY <2>2, <2>3 DEF OthersKept
    <2>6. Known' /\ Unstarted'
        BY <1>1, <2>2, <2>4, <2>5, RestEnded
    <2>7. start[s].pc \in {"loop", "save", "done"}
        BY <2>3 DEF NotBegun, Typed, TypeOK, StartType
    <2>8. Idle'
        BY <2>2, <2>7 DEF Idle, Completed, Idled, OthersKept
    <2> QED
        BY <2>6, <2>8
<1> QED
    BY <1>2, <1>3

LEMMA CompletedStep == CompletedInv /\ [Next]_vars => CompletedInv'
<1> SUFFICES ASSUME CompletedInv, [Next]_vars PROVE StartOrder' /\ Rest'
    BY LockStep DEF CompletedInv, Rest
<1>1. ASSUME NEW s \in Sessions, StartCheck(s) \/ Start(s) PROVE StartOrder' /\ Rest'
    BY <1>1, CompletedStart, StartParts DEF CompletedInv, LockInv
<1>2. UNCHANGED start => StartOrder'
    BY DEF CompletedInv, StartOrder
<1>3. ASSUME \/ \E s \in Sessions : ViewReads(s) \/ ViewWrites(s) \/ TickRound(s)
             \/ TickStep \/ UNCHANGED vars
      PROVE  StartOrder' /\ Rest'
    <2>1. UNCHANGED start
        BY <1>3 DEF ViewReads, ViewWrites, TickRound, TickDispatches, TickStep, TickBegins,
           TickCommits, TickSession, vars
    <2> QED
        BY <1>2, <1>3, <2>1, CompletedOthers
<1>4. ASSUME NEW c \in Chains, ChainStep(c) \/ HookFails(c) PROVE StartOrder' /\ Rest'
    <2>1. UNCHANGED start
        BY <1>4 DEF ChainStep, ChainBegins, ChainEnds, HookReads, HookProcesses, HookFails
    <2> QED
        BY <1>2, <1>4, <2>1, CompletedChains
<1> QED
    BY <1>1, <1>3, <1>4 DEF Next

(* A session that was stopped as completed has no chain at work, unless a  *)
(* tick came before its first round was written down: whatever completions *)
(* were missed, and whoever paused, resumed or stopped it meanwhile.       *)
THEOREM CompletedSessionsAreIdle == Spec => []CompletedIsIdle
<1>1. CompletedInv => CompletedIsIdle
    <2> SUFFICES ASSUME CompletedInv, NEW s \in Sessions, Completed(s),
                        start[s].pc = "done", ~seen[s].early
                 PROVE  Of(s) = {}
        BY DEF CompletedIsIdle, Completed
    <2>1. session[s].active = {}
        BY DEF CompletedInv, Idle, Idled
    <2>2. start[s].chains = {}
        BY DEF CompletedInv, StartOrder
    <2> QED
        BY <2>1, <2>2 DEF CompletedInv, Known, Of
<1> QED
    BY <1>1, CompletedInit, CompletedStep, PTL DEF Spec
=============================================================================
