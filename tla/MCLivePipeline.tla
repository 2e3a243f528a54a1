--------------------------- MODULE MCLivePipeline ---------------------------
(* An instance of LivePipeline for TLC: decode and deposit, one buffer each.*)
EXTENDS LivePipeline

TwoStages == [p \in 0 .. 1 |-> 1]
=============================================================================
