-------------------------- MODULE UnattendedSession --------------------------
(***************************************************************************)
(* The unattended sessions of one game profile: the views that start,      *)
(* stop, pause and resume them, the tick that dispatches the next account  *)
(* to every idle device, and the hook that runs when a chain ends.         *)
(*                                                                         *)
(* The tick is one transaction that holds the rows of the sessions it      *)
(* goes through (select_for_update); whoever writes such a row waits.  The *)
(* views read without a lock, and unattended_start_view dispatches the     *)
(* first round before it writes down what it dispatched.  A chain is what  *)
(* ChainExecution models; here it waits for its first message, runs and    *)
(* ends.  Rows nobody refers to any more are left out of the state, so the *)
(* chains of the model are used again.                                     *)
(***************************************************************************)
EXTENDS Integers, Sequences, FiniteSets

CONSTANTS
    Sessions,      \* start requests, each with the session it may create
    Devices,       \* devices of the game profile, with its default_task_chain
    Order,         \* calculate_account_order: the accounts, in their order
    Conditions,    \* the AutoStopConditions that are enabled
    FailLimit,     \* threshold of consecutive_failures
    Modes,         \* <<loop, rotation>> of the start requests
    Chains,        \* bound: chains that are alive or referred to at a time
    MaxViews       \* bound: pause, resume and stop requests

Accounts == {Order[i] : i \in 1..Len(Order)}

Stops == {"all_completed", "consecutive_failures", "window_end"}

ASSUME UnattendedAssumption ==
    /\ IsFiniteSet(Sessions) /\ IsFiniteSet(Devices) /\ IsFiniteSet(Chains)
    /\ Len(Order) > 0 /\ Order \in Seq(Accounts) /\ Cardinality(Accounts) = Len(Order)
    /\ Conditions \subseteq Stops
    /\ Modes \subseteq BOOLEAN \X BOOLEAN
    /\ FailLimit \in Nat \ {0} /\ MaxViews \in Nat

VARIABLES
    status,     \* session.status, "none" before the row exists
    session,    \* the other columns of the session, see SessionType
    start,      \* per start request: where its view is, see StartType
    view,       \* the status another view is about to write, or "none"
    chain,      \* TaskChainExecution rows
    tick,       \* the running tick, see TickType
    messages,   \* chains whose first dispatch_chain_node is in the queue
    hooks,      \* chains whose on_chain_execution_completed is in the queue
    hooking,    \* chains whose hook has found its session
    views,      \* pause, resume and stop requests so far
    seen        \* history, see SeenType

vars == <<status, session, start, view, chain, tick, messages, hooks, hooking,
          views, seen>>

Live == {"pending", "running"}
Outcomes == {"success", "failed", "cancelled"}
NoChain == [status |-> "none"]

\* How a chain ended is read by the hook alone, and is chosen there.
ChainType == [status : Live \cup {"ended"}, device : Devices, account : Accounts,
              owner : Sessions]

\* completed and failed are told apart only as far as they are compared.
SessionType ==
    [loop : BOOLEAN, rotation : BOOLEAN, dispatched : SUBSET Accounts,
     index : 0 .. Len(Order) - 1, completed : 0 .. Len(Order), failed : 0 .. FailLimit,
     active : SUBSET Chains, reason : {"none", "manual"} \cup Stops]

StartType == [pc : {"idle", "checked", "loop", "save", "done"},
              todo : SUBSET Devices, idle : SUBSET Devices, chains : SUBSET Chains,
              accounts : SUBSET Accounts]

TickType == [locked : SUBSET Sessions, waiting : SUBSET Sessions, current : SUBSET Sessions,
             devices : SUBSET Devices, created : SUBSET Chains]

\* missed: a chain of the session ended or will never run, and the session was
\* not told or the view has written over it; raced: the view dispatched to a
\* device that had become busy; twice: an account was dispatched twice before the
\* first round was written down; early: a tick dispatched before it was.
SeenType == [missed : BOOLEAN, raced : BOOLEAN, twice : BOOLEAN, early : BOOLEAN]

TypeOK ==
    /\ status \in [Sessions -> {"none", "running", "paused", "stopped"}]
    /\ session \in [Sessions -> SessionType]
    /\ start \in [Sessions -> StartType]
    /\ view \in [Sessions -> {"none", "running", "paused", "stopped"}]
    /\ chain \in [Chains -> ChainType \cup {NoChain}]
    /\ tick \in TickType
    /\ messages \subseteq Chains
    /\ hooks \subseteq Chains /\ hooking \subseteq Chains
    /\ views \in 0 .. MaxViews
    /\ seen \in [Sessions -> SeenType]

-----------------------------------------------------------------------------
(* Chains                                                                  *)

IsLive(c) == chain[c].status \in Live

\* Which row is taken makes no difference.
NewChains ==
    LET unused == {c \in Chains : chain[c] = NoChain} IN
    IF unused = {} THEN {} ELSE {CHOOSE c \in unused : TRUE}

Create(c, d, a, s) ==
    /\ chain' = [chain EXCEPT ![c] = [status |-> "pending", device |-> d, account |-> a,
                                      owner |-> s]]
    /\ messages' = messages \cup {c}

\* The row of an ended chain is forgotten when nothing refers to it.
Forget(c, active) ==
    chain' = IF c \notin hooks' \cup hooking' \cup active
             THEN [chain EXCEPT ![c] = NoChain] ELSE chain

Miss(s) == seen' = [seen EXCEPT ![s].missed = TRUE]

\* dispatch_chain_node: a row that is not committed is not found, and nothing
\* dispatches the chain again; check_stuck_chains looks at RUNNING ones only.
ChainBegins(c) ==
    /\ c \in messages
    /\ messages' = messages \ {c}
    /\ IF c \in tick.created
       THEN chain' = chain /\ Miss(chain[c].owner)
       ELSE chain' = [chain EXCEPT ![c].status = "running"] /\ seen' = seen
    /\ UNCHANGED <<status, session, start, view, tick, hooks, hooking, views>>

\* It succeeds, fails, is cancelled, or is failed by check_stuck_chains; the
\* signal queues the hook.
ChainEnds(c) ==
    /\ chain[c].status = "running"
    /\ chain' = [chain EXCEPT ![c].status = "ended"]
    /\ hooks' = hooks \cup {c}
    /\ UNCHANGED <<status, session, start, view, tick, messages, hooking, seen,
                   views>>

-----------------------------------------------------------------------------
(* The cursor of loop rotation                                             *)

\* Mutant: the cursor does not come round.
AfterUnwrapped(i) == i + 1

After(i) == (i + 1) % Len(Order)

-----------------------------------------------------------------------------
(* unattended_start_view                                                   *)

ActiveSessions == {s \in Sessions : status[s] \in {"running", "paused"}}

\* The profile is locked for the check, and for the check only.
StartCheck(s) ==
    /\ start[s].pc = "idle" /\ ActiveSessions = {}
    /\ start' = [start EXCEPT ![s].pc = "checked"]
    /\ UNCHANGED <<status, session, view, chain, tick, messages, hooks, hooking, seen, views>>

StartCreate(s) ==
    /\ start[s].pc = "checked"
    /\ status' = [status EXCEPT ![s] = "running"]
    /\ \E mode \in Modes :
          session' = [session EXCEPT ![s].loop = mode[1], ![s].rotation = mode[2]]
    /\ start' = [start EXCEPT ![s].pc = "loop", ![s].todo = Devices]
    /\ UNCHANGED <<view, chain, tick, messages, hooks, hooking, seen, views>>

\* A chain the tick has not committed yet keeps the device busy for nobody else.
BusyFor(d, c) == IsLive(c) /\ chain[c].device = d

\* Mutant: a PENDING chain does not keep its device busy.
BusyRunning(d) == \E c \in Chains : chain[c].status = "running" /\ chain[c].device = d

Busy(d) == \E c \in Chains : BusyFor(d, c)

\* A device that is not looked at is busy or its chain disabled, or the dispatch
\* fails; the round may end at any device.
StartLooks(s, d) ==
    /\ start[s].pc = "loop" /\ start[s].idle = {} /\ d \in start[s].todo
    /\ ~\E c \in Chains \ tick.created : BusyFor(d, c)
    /\ start' = [start EXCEPT ![s].todo = @ \ {d}, ![s].idle = {d}]
    /\ UNCHANGED <<status, session, view, chain, tick, messages, hooks, hooking, seen, views>>

\* The whole first round takes the account at the cursor as the view read it;
\* without rotation the device keeps the account it has, any of them here.
StartAccounts(s) == IF session[s].rotation THEN {Order[1]} ELSE Accounts

StartDispatches(s, d) ==
    /\ d \in start[s].idle
    /\ \E a \in StartAccounts(s), c \in NewChains :
          /\ Create(c, d, a, s)
          /\ start' = [start EXCEPT ![s].idle = {}, ![s].chains = @ \cup {c},
                                    ![s].accounts = @ \cup {a}]
          /\ seen' = [seen EXCEPT
                ![s].raced = @ \/ Busy(d),
                ![s].twice = @ \/ a \in start[s].accounts \cup session[s].dispatched]
    /\ UNCHANGED <<status, session, view, tick, hooks, hooking, views>>

StartRegisters(s) ==
    /\ start[s].pc = "loop" /\ start[s].idle = {} /\ s \notin tick.locked
    /\ session' = [session EXCEPT ![s].active = @ \cup start[s].chains]
    /\ start' = [start EXCEPT ![s].pc = "save", ![s].todo = {}, ![s].chains = {}]
    /\ UNCHANGED <<status, view, chain, tick, messages, hooks, hooking, seen,
                   views>>

TrackedAccounts(s) == {chain[c].account : c \in session[s].active}

\* The view's own copy of the row is written, over what ticks have written since.
StartSaves(s) ==
    /\ start[s].pc = "save" /\ s \notin tick.locked
    /\ session' = [session EXCEPT
           ![s].dispatched = start[s].accounts,
           ![s].index = IF session[s].rotation /\ session[s].loop /\ start[s].accounts # {}
                        THEN After(0) ELSE 0]
    /\ start' = [start EXCEPT ![s].pc = "done", ![s].accounts = {}]
    /\ seen' = [seen EXCEPT
           ![s].early = @ \/ session[s].dispatched # {},
           ![s].missed =
               @ \/ (session[s].loop /\ start[s].accounts \ TrackedAccounts(s) # {})]
    /\ UNCHANGED <<status, view, chain, tick, messages, hooks, hooking, views>>

-----------------------------------------------------------------------------
(* unattended_pause_view, unattended_resume_view, unattended_stop_view     *)

Changes == {<<"running", "paused">>, <<"paused", "running">>,
            <<"running", "stopped">>, <<"paused", "stopped">>}

ViewReads(s) ==
    /\ view[s] = "none" /\ views < MaxViews
    /\ views' = views + 1
    /\ \E change \in Changes :
          status[s] = change[1] /\ view' = [view EXCEPT ![s] = change[2]]
    /\ UNCHANGED <<status, session, start, chain, tick, messages, hooks, hooking, seen>>

ViewWrites(s) ==
    /\ view[s] # "none" /\ s \notin tick.locked
    /\ status' = [status EXCEPT ![s] = view[s]]
    /\ session' = [session EXCEPT ![s].reason = IF view[s] = "stopped" THEN "manual" ELSE @]
    /\ view' = [view EXCEPT ![s] = "none"]
    /\ UNCHANGED <<start, chain, tick, messages, hooks, hooking, seen, views>>

-----------------------------------------------------------------------------
(* tick_unattended_session                                                 *)

NoTick == [locked |-> {}, waiting |-> {}, current |-> {}, devices |-> {}, created |-> {}]

\* Mutant: the sessions are read without select_for_update.
TickBeginsUnlocked ==
    /\ tick = NoTick
    /\ LET running == {s \in Sessions : status[s] = "running"} IN
       running # {} /\ tick' = [NoTick EXCEPT !.waiting = running]
    /\ UNCHANGED <<status, session, start, view, chain, messages, hooks, hooking, seen, views>>

TickBegins ==
    /\ tick = NoTick
    /\ LET running == {s \in Sessions : status[s] = "running"} IN
       /\ running # {}
       /\ tick' = [NoTick EXCEPT !.locked = running, !.waiting = running]
    /\ UNCHANGED <<status, session, start, view, chain, messages, hooks, hooking, seen, views>>

TickSession(s) ==
    /\ s \in tick.waiting
    /\ tick' = [tick EXCEPT !.waiting = @ \ {s}, !.current = {s}, !.devices = Devices]
    /\ UNCHANGED <<status, session, start, view, chain, messages, hooks, hooking, seen, views>>

\* Mutant: the search starts at the first account, as before 2026-08-27.
FromFirst(s) == Order

\* The accounts from the cursor on, which only loop rotation moves.
FromCursor(s) ==
    [i \in 1..Len(Order) |->
        Order[((i - 1 + IF session[s].loop THEN session[s].index ELSE 0) % Len(Order)) + 1]]

\* Mutant: the accounts that have been dispatched are not passed over.
NextAccountsAgain(s) == {FromCursor(s)[1]}

\* The account a device is given, if there is one.
NextAccounts(s) ==
    IF session[s].rotation
    THEN {FromCursor(s)[i] : i \in
             {i \in 1..Len(Order) :
                 /\ FromCursor(s)[i] \notin session[s].dispatched
                 /\ \A j \in 1 .. i - 1 : FromCursor(s)[j] \in session[s].dispatched}}
    ELSE Accounts \ session[s].dispatched

TickDispatches(s, d) ==
    /\ s \in tick.current /\ d \in tick.devices /\ ~Busy(d)
    /\ \E a \in NextAccounts(s), c \in NewChains :
          /\ Create(c, d, a, s)
          /\ session' = [session EXCEPT
                ![s].active = @ \cup {c},
                ![s].dispatched = @ \cup {a},
                ![s].index = IF session[s].loop /\ session[s].rotation
                             THEN After(@) ELSE @]
          /\ tick' = [tick EXCEPT !.devices = @ \ {d}, !.created = @ \cup {c}]
          /\ seen' = [seen EXCEPT ![s].twice = @ \/ a \in start[s].accounts]
    /\ UNCHANGED <<status, start, view, hooks, hooking, views>>

\* The devices left are busy or not online, their chains disabled, or no account
\* is left for them.
TickCommits ==
    /\ tick.locked # {} /\ tick.waiting = {}
    /\ tick' = NoTick
    /\ UNCHANGED <<status, session, start, view, chain, messages, hooks, hooking, seen, views>>

-----------------------------------------------------------------------------
(* on_chain_execution_completed                                            *)

Tracks(s, c) == c \in session[s].active

\* The hook goes on only with a RUNNING session that tracks the chain.
HookReads(c) ==
    /\ c \in hooks
    /\ hooks' = hooks \ {c}
    /\ LET s == chain[c].owner IN
       IF Tracks(s, c) /\ status[s] = "running"
       THEN hooking' = hooking \cup {c} /\ UNCHANGED <<chain, seen>>
       ELSE /\ UNCHANGED hooking
            /\ IF Tracks(s, c) \/ c \in start[s].chains THEN Miss(s) ELSE seen' = seen
            /\ Forget(c, session[s].active \cup start[s].chains)
    /\ UNCHANGED <<status, session, start, view, tick, messages, views>>

Capped(n, max) == IF n < max THEN n + 1 ELSE n

Failures(s, how) ==
    CASE how = "failed" -> Capped(session[s].failed, FailLimit)
      [] how = "success" -> 0
      [] how = "cancelled" -> session[s].failed

\* Mutant: the chains that are still active are not looked at.
AllCompletedByCount(row) ==
    ~row.loop /\ row.dispatched # {} /\ row.completed >= Cardinality(row.dispatched)

\* all_completed of _check_auto_stop, on the row as it was just saved.
AllCompleted(row) ==
    /\ ~row.loop /\ row.dispatched # {}
    /\ row.completed >= Cardinality(row.dispatched)
    /\ row.active = {}

\* The conditions that hold; whether the time window is over is anybody's guess.
Triggered(row, outside) ==
    {cond \in Conditions :
        CASE cond = "all_completed" -> AllCompleted(row)
          [] cond = "consecutive_failures" -> row.failed >= FailLimit
          [] cond = "window_end" -> outside}

\* ordering = ['condition_type'], triggered[0]
First(conds) ==
    IF "all_completed" \in conds THEN "all_completed"
    ELSE IF "consecutive_failures" \in conds THEN "consecutive_failures" ELSE "window_end"

\* Mutant: the chain stays in active_chain_ids.
ProcessedStaysActive(s, c, how) ==
    [session[s] EXCEPT !.completed = Capped(@, Len(Order)), !.failed = Failures(s, how)]

\* _process_chain_completion, on the locked row: the status is not looked at
\* again, but for the account that goes back to the pool.
Processed(s, c, how) ==
    [session[s] EXCEPT
        !.active = @ \ {c},
        !.completed = Capped(@, IF session[s].loop THEN 0 ELSE Len(Order)),
        !.failed = Failures(s, how),
        !.dispatched = IF session[s].loop /\ status[s] = "running"
                       THEN @ \ {chain[c].account} ELSE @]

HookProcesses(c) ==
    /\ c \in hooking /\ chain[c].owner \notin tick.locked
    /\ \E how \in Outcomes, outside \in BOOLEAN :
          LET s == chain[c].owner
              row == Processed(s, c, how)
              conds == Triggered(row, outside)
          IN  IF conds = {}
              THEN session' = [session EXCEPT ![s] = row] /\ UNCHANGED status
              ELSE /\ session' = [session EXCEPT ![s] = [row EXCEPT !.reason = First(conds)]]
                   /\ status' = [status EXCEPT ![s] = "stopped"]
    /\ hooking' = hooking \ {c}
    /\ hooks' = hooks
    /\ Forget(c, session'[chain[c].owner].active)
    /\ UNCHANGED <<start, view, tick, messages, seen, views>>

\* It raises (a locked database, say): logged, rolled back and not tried again.
HookFails(c) ==
    /\ c \in hooking
    /\ hooking' = hooking \ {c}
    /\ hooks' = hooks
    /\ Miss(chain[c].owner)
    /\ Forget(c, session[chain[c].owner].active)
    /\ UNCHANGED <<status, session, start, view, tick, messages, views>>

-----------------------------------------------------------------------------
Init ==
    /\ status = [s \in Sessions |-> "none"]
    /\ session = [s \in Sessions |->
          [loop |-> FALSE, rotation |-> FALSE, dispatched |-> {}, index |-> 0,
           completed |-> 0, failed |-> 0, active |-> {}, reason |-> "none"]]
    /\ start = [s \in Sessions |->
          [pc |-> "idle", todo |-> {}, idle |-> {}, chains |-> {}, accounts |-> {}]]
    /\ view = [s \in Sessions |-> "none"]
    /\ chain = [c \in Chains |-> NoChain]
    /\ tick = NoTick
    /\ messages = {}
    /\ hooks = {} /\ hooking = {}
    /\ views = 0
    /\ seen = [s \in Sessions |-> [missed |-> FALSE, raced |-> FALSE, twice |-> FALSE, early |-> FALSE]]

Start(s) ==
    \/ StartCreate(s) \/ StartRegisters(s) \/ StartSaves(s)
    \/ \E d \in Devices : StartLooks(s, d) \/ StartDispatches(s, d)

TickStep ==
    \/ TickBegins \/ TickCommits
    \/ \E s \in Sessions : TickSession(s)

TickRound(s) == \E d \in Devices : TickDispatches(s, d)

ChainStep(c) == ChainBegins(c) \/ ChainEnds(c) \/ HookReads(c) \/ HookProcesses(c)

Next ==
    \/ \E s \in Sessions :
          \/ StartCheck(s) \/ Start(s) \/ ViewReads(s) \/ ViewWrites(s) \/ TickRound(s)
    \/ TickStep
    \/ \E c \in Chains : ChainStep(c) \/ HookFails(c)

Spec == Init /\ [][Next]_vars

\* The beat ticks and gives an idle device its account, the Celery workers run
\* what is queued, chains end, and who waits for a row gets it between two ticks.
FairSpec ==
    /\ Spec
    /\ WF_vars(TickStep)
    /\ \A s \in Sessions : SF_vars(Start(s)) /\ SF_vars(TickRound(s))
    /\ \A c \in Chains : SF_vars(ChainStep(c))

-----------------------------------------------------------------------------
(* Properties                                                              *)

Of(s) == {c \in Chains : IsLive(c) /\ chain[c].owner = s}

\* Whatever the views write meanwhile, a tick gives chains only to devices of
\* sessions that are RUNNING at that moment: a session that was stopped or
\* paused is not fed by a tick that had seen it running.
TicksFeedRunning ==
    [][\A c \in Chains :
         c \in tick'.created \ tick.created => status[chain'[c].owner] = "running"]_vars

\* Two chains are at work on a device only after a start request that looked at
\* it before somebody else took it: a tick never adds to a device, whatever
\* happened to the chain it has, and every start request adds at most one.
OverlapBounded ==
    \A d \in Devices :
        Cardinality({c \in Chains : BusyFor(d, c)}) <=
            1 + Cardinality({s \in Sessions : seen[s].raced})

\* "One account owns at most one chain per session" (tasks.py:293): so it is
\* once the first round gave no account to two devices and was written down
\* before a tick came.
AccountOnce ==
    \A s \in Sessions, a \in Accounts :
        seen[s].twice \/ seen[s].early
            \/ Cardinality({c \in Of(s) : chain[c].account = a}) <= 1

\* A session that was stopped as completed has no chain at work, even when a
\* completion was missed or an account dispatched twice, if its first round was
\* written down before a tick came.
CompletedIsIdle ==
    \A s \in Sessions :
        /\ status[s] = "stopped" /\ session[s].reason = "all_completed"
        /\ start[s].pc = "done" /\ ~seen[s].early
        => Of(s) = {}

\* A session that stays RUNNING without looping stops by itself as completed,
\* unless a completion was missed.
CompletesUnlessMissed ==
    \A s \in Sessions :
        <>[](status[s] = "running" /\ ~session[s].loop) =>
            <>[]seen[s].missed

\* In loop rotation every account has its turn again and again, as long as no
\* other session takes the devices and no completion was missed.
EveryAccountTurns ==
    \A s \in Sessions :
        <>[](/\ status[s] = "running" /\ session[s].loop /\ session[s].rotation
             /\ \A t \in Sessions : ~seen[t].missed /\ (t # s => status[t] # "running")) =>
            \A a \in Accounts : []<>(\E c \in Of(s) : chain[c].account = a)

=============================================================================
