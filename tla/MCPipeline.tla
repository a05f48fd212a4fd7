----------------------------- MODULE MCPipeline -----------------------------
(* Small instances of Pipeline: one pipeline of three stages, the fewest in *)
(* which a drain that waits for one stage can lose the output of another    *)
(* before the stage that would need it.                                     *)
EXTENDS Pipeline, TLC

CONSTANT p1

MCOne == {p1}
MCStages == (p1 :> 3)
=============================================================================
