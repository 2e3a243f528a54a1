----------------------------- MODULE MCPipeline -----------------------------
(* Instances of Pipeline for TLC: render's decode -> deposit pipeline is a *)
(* transform and a sink; a chain of two transforms and a sink is the       *)
(* smallest in which a middle stage both skips and is skipped.             *)
EXTENDS Pipeline

ThreeStages == [p \in 0 .. 2 |-> IF p = 0 THEN 2 ELSE 1]
=============================================================================
