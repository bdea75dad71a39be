------------------------- MODULE MCExecutionDispatch -------------------------
(* Small instances of ExecutionDispatch: which device and worker the       *)
(* executions are bound to.  The bounds are given by each .cfg.            *)
EXTENDS ExecutionDispatch, TLC

CONSTANTS e1, e2, e3, e4, w1, w2, d1

(* Both executions on one window. *)
SharedDevice == [e \in Execs |-> d1]

(* Executions without a device: only these take concurrency slots. *)
NoDevices == [e \in Execs |-> NoDevice]

HostIsW1 == [d \in Devices |-> w1]

Unpinned == [e \in Execs |-> NoWorker]

(* e1 is a chain node pinned to w1. *)
PinnedE1 == [e \in Execs |-> IF e = e1 THEN w1 ELSE NoWorker]

(* Executions with the same constants are interchangeable. *)
ExecSymmetry == Permutations(Execs)
UnpinnedSymmetry == Permutations(Execs \ {e1})

AllCapable == [e \in Execs |-> Workers]
=============================================================================
