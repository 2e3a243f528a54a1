---------------------------- MODULE MCSplatBands ----------------------------
(* An instance of SplatBands for TLC.                                      *)
EXTENDS SplatBands

(* Off the top, on every row, off the bottom: a radius-2 spot covers up to *)
(* five rows of the seven, which the six bands split 1, 1, 1, 1, 1, 2.     *)
SomeCentres == {-2, -1, 0, 2, 3, 5, 6, 9}
=============================================================================
