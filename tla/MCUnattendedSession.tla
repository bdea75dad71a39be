------------------------ MODULE MCUnattendedSession ------------------------
(* Instances of UnattendedSession for TLC. *)
EXTENDS UnattendedSession, TLC

CONSTANTS d1, d2, a1, a2

TwoAccounts == <<a1, a2>>
LoopOrOnce == {<<TRUE, TRUE>>, <<FALSE, TRUE>>}
=============================================================================
