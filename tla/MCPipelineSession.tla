------------------------- MODULE MCPipelineSession -------------------------
(* Small instances of PipelineSession: one pipeline of three stages beside  *)
(* one of a single stage.                                                   *)
EXTENDS PipelineSession, TLC

CONSTANTS p1, p2

MCTwo == {p1, p2}
MCStages == (p1 :> 3) @@ (p2 :> 1)
=============================================================================
