--------------------------- MODULE MCChainExecution ---------------------------
(* Instances of ChainExecution for TLC: chains of two or three nodes. *)
EXTENDS ChainExecution

CONSTANTS t1, t2

ThreeKinds == <<"skip", "retry", "abort">>
SkipAbort  == <<"skip", "abort">>
=============================================================================
