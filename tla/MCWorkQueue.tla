---------------------------- MODULE MCWorkQueue ----------------------------
(* An instance of WorkQueue for TLC: two helpers and the caller drain      *)
(* batches of none to three tasks: fewer than and as many as the threads,  *)
(* and a thread that is quick may run more than one.                       *)
EXTENDS WorkQueue

CONSTANTS w1, w2
Helpers == {w1, w2}
=============================================================================
