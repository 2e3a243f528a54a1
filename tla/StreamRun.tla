----------------------------- MODULE StreamRun -----------------------------
(***************************************************************************)
(* What pipe::run promises whichever way it executes (the header comment   *)
(* of pipeline_run.hpp): the sink receives the source's blocks in order    *)
(* and without a gap; a stage that throws stops the output short of the    *)
(* block it threw on; and run() returns normally only when the sink has    *)
(* received everything.                                                    *)
(***************************************************************************)
EXTENDS Integers

CONSTANT NBlocks   \* how many blocks the source has

VARIABLES
  emitted,  \* blocks the source has pushed
  sunk,     \* blocks the sink has received: 1, 2, ..., sunk
  bad,      \* blocks some stage threw on
  result    \* how run() ended: "none" while it has not

vars == <<emitted, sunk, bad, result>>

Init == emitted = 0 /\ sunk = 0 /\ bad = {} /\ result = "none"

Emit ==
  /\ result = "none" /\ emitted < NBlocks
  /\ emitted' = emitted + 1
  /\ UNCHANGED <<sunk, bad, result>>

(* The sink receives the next block, unless that or an earlier one failed. *)
Receive ==
  /\ result = "none" /\ sunk < emitted
  /\ \A b \in bad : sunk + 1 < b
  /\ sunk' = sunk + 1
  /\ UNCHANGED <<emitted, bad, result>>

(* A stage throws on a block the sink has not received.                    *)
Fail(b) ==
  /\ result = "none" /\ b \in sunk + 1 .. emitted \ bad
  /\ bad' = bad \cup {b}
  /\ UNCHANGED <<emitted, sunk, result>>

ReturnOk ==
  /\ bad = {} /\ sunk = emitted /\ emitted = NBlocks
  /\ result' = "ok"

RethrowStage ==
  /\ bad # {}
  /\ result' = "stage"

(* The source threw: what it had pushed is delivered unless a stage threw. *)
RethrowSource ==
  /\ bad = {} => sunk = emitted
  /\ result' = "source"

Leave ==
  /\ result = "none"
  /\ ReturnOk \/ RethrowStage \/ RethrowSource
  /\ UNCHANGED <<emitted, sunk, bad>>

Next == Emit \/ Receive \/ (\E b \in 1 .. NBlocks : Fail(b)) \/ Leave

Spec == Init /\ [][Next]_vars
=============================================================================
