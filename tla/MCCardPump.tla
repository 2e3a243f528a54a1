----------------------------- MODULE MCCardPump -----------------------------
(* An instance of CardPump for TLC.                                        *)
EXTENDS CardPump

CONSTANTS r1, r2
TwoRecorders == {r1, r2}
=============================================================================
