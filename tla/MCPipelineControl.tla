------------------------- MODULE MCPipelineControl -------------------------
(* Instances of PipelineControl for TLC, with mutated definitions.         *)
EXTENDS PipelineControl, TLC

CONSTANTS n1, n2

\* A loop of two nodes that may end, or jump to a node that is not there, after
\* the second.
MCNodes == {n1, n2}
MCSuccessors == (n1 :> {n2}) @@ (n2 :> {n1, Absent, NoNode})
=============================================================================
