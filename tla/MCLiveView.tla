----------------------------- MODULE MCLiveView -----------------------------
(* An instance of LiveView for TLC: colour is on; one handler switches it  *)
(* off, another puts it at a half and moves a second knob, and a third asks*)
(* for what that knob cannot be.                                           *)
EXTENDS LiveView

CONSTANTS h1, h2, h3, gain
ThreeSetters == {h1, h2, h3}
TwoKnobs     == {Colour, gain}
GainSlides   == [k \in {gain} |-> 0 .. 2]
ColourOn     == [k \in TwoKnobs |-> IF k = Colour THEN 1000 ELSE 0]
Queries      == [h \in ThreeSetters |-> CASE h = h1 -> [k \in {Colour} |-> 0]
                                          [] h = h2 -> [k \in TwoKnobs |-> IF k = Colour THEN 500 ELSE 1]
                                          [] h = h3 -> [k \in {gain} |-> 3]]
=============================================================================
