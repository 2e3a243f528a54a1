------------------------------ MODULE Phosphor ------------------------------
(***************************************************************************)
(* The phosphor as its readers see it: eager, without staging, batching or *)
(* deferred fades (deposit_backend.hpp: records land in sample order, the  *)
(* fade before anything committed after it, a latch keeps the state it     *)
(* latched).  The tests' eager reference (CpuDepositTest.cpp) is this.     *)
(*                                                                         *)
(* Floating-point adds and fades do not commute, so the light is the       *)
(* sequence of splats and fades it is the result of.                       *)
(***************************************************************************)
EXTENDS Integers, Sequences

CONSTANT Fade   \* the per-field multiply, not a number of a splat

VARIABLES
  painted,  \* splats recorded so far: they are numbered in sample order
  lit,      \* what the live phosphor has received
  latched,  \* <<light>> at the last latch, or <<>>
  shown     \* the last frame read out, or <<>>: <<light>>

vars == <<painted, lit, latched, shown>>

Init == painted = 0 /\ lit = <<>> /\ latched = <<>> /\ shown = <<>>

Paint ==
  /\ painted' = painted + 1
  /\ lit' = Append(lit, painted')
  /\ UNCHANGED <<latched, shown>>

FadeField == lit' = Append(lit, Fade) /\ UNCHANGED <<painted, latched, shown>>

Latch == latched' = <<lit>> /\ UNCHANGED <<painted, lit, shown>>

Show == shown' = <<lit>> /\ UNCHANGED <<painted, lit, latched>>

(* Before any latch the latched frame is the live one.                     *)
ShowLatched ==
  /\ shown' = IF latched = <<>> THEN <<lit>> ELSE latched
  /\ UNCHANGED <<painted, lit, latched>>

Next == Paint \/ FadeField \/ Latch \/ Show \/ ShowLatched

Spec == Init /\ [][Next]_vars
=============================================================================
