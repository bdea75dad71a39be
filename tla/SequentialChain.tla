--------------------------- MODULE SequentialChain ---------------------------
(***************************************************************************)
(* What a task chain promises its user: the nodes are run one at a time    *)
(* and in order, a node is begun only when every node before it is cleared *)
(* (it passed, or it failed and its condition is "skip"), a failed node is *)
(* begun again at most MaxRetries times and only when its condition says   *)
(* so, and the chain is given one verdict, which follows from the outcomes *)
(* of its nodes.  There are no messages, threads or rows here.             *)
(***************************************************************************)
EXTENDS Naturals

(* Their values are constrained where this module is instantiated. *)
CONSTANTS Nodes, OnFailure, MaxRetries

VARIABLES
    tries,      \* how often each node was begun
    outcome,    \* what became of its last try
    verdict     \* what became of the chain

vars == <<tries, outcome, verdict>>

TypeOK ==
    /\ tries \in [1..Nodes -> Nat]
    /\ outcome \in [1..Nodes -> {"none", "active", "passed", "failed"}]
    /\ verdict \in {"open", "success", "failed"}

Cleared(n) ==
    \/ outcome[n] = "passed"
    \/ outcome[n] = "failed" /\ OnFailure[n] = "skip"

Retriable(n) == outcome[n] = "failed" /\ OnFailure[n] = "retry" /\ tries[n] <= MaxRetries

(* A failure the chain does not survive. *)
Fatal(n) == outcome[n] = "failed" /\ ~Cleared(n) /\ ~Retriable(n)

MayBegin(n) ==
    /\ verdict = "open"
    /\ \A m \in 1..(n - 1) : Cleared(m)
    /\ \A m \in (n + 1)..Nodes : outcome[m] = "none"
    /\ outcome[n] = "none" \/ Retriable(n)

Tried(n, o) ==
    /\ tries' = [tries EXCEPT ![n] = @ + 1]
    /\ outcome' = [outcome EXCEPT ![n] = o]

Begin(n) == MayBegin(n) /\ Tried(n, "active") /\ UNCHANGED verdict

(* The node cannot be handed over at all, which ends the chain. *)
Refuse(n) == MayBegin(n) /\ Tried(n, "failed") /\ verdict' = "failed"

(* The last word on a node may come after it was given up, but not after   *)
(* the next node was begun.                                                *)
End(n, o) ==
    /\ verdict = "open"
    /\ outcome[n] # "none"
    /\ \A m \in (n + 1)..Nodes : outcome[m] = "none"
    /\ outcome' = [outcome EXCEPT ![n] = o]
    /\ UNCHANGED <<tries, verdict>>

Close ==
    /\ verdict = "open"
    /\ \/ (\A n \in 1..Nodes : Cleared(n)) /\ verdict' = "success"
       \/ (\E n \in 1..Nodes : Fatal(n)) /\ verdict' = "failed"
    /\ UNCHANGED <<tries, outcome>>

Init ==
    /\ tries = [n \in 1..Nodes |-> 0]
    /\ outcome = [n \in 1..Nodes |-> "none"]
    /\ verdict = "open"

Next ==
    \/ \E n \in 1..Nodes :
          Begin(n) \/ Refuse(n) \/ End(n, "passed") \/ End(n, "failed")
    \/ Close

Spec == Init /\ [][Next]_vars
=============================================================================
