----------------------------- MODULE SyncChain -----------------------------
(***************************************************************************)
(* The timing half of Decoder::decode_into: the AGC and the sync slicer,   *)
(* and the two flywheels that run on its one bit, HorizontalSweep and      *)
(* VerticalSync.                                                           *)
(*                                                                         *)
(* The envelope is a sequence of segments, each a level held for so many   *)
(* ticks; a tick is a thousandth of a line, and levels are thousandths of  *)
(* full carrier.  Every stage is taken a segment at a time: the slicer and *)
(* the edges at its first sample, the oscillators, the integrator and the  *)
(* slow trackers over its length.  All of them are fixed point:            *)
(*   horizontal phase   1/10000 cycle       vertical phase  ticks          *)
(*   rates              1/10000 of nominal  integrator      1/1000         *)
(***************************************************************************)
EXTENDS Integers, Sequences, FiniteSets, SequencesExt

CONSTANTS
  CoincidenceLines,   \* coincident edges that engage the flywheel
  FieldTicks,         \* the nominal field
  Ticks               \* every duration a segment may have

ASSUME CoincidenceAssumption == CoincidenceLines \in 1 .. 1000
ASSUME TicksAssumption == FieldTicks \in Nat /\ FieldTicks >= 1000 /\ Ticks \subseteq Nat \ {0}   \* a field is a line or more

AGC_TICKS == 2 * FieldTicks        \* decay_fields
TRACK_TICKS == 3 * FieldTicks      \* kLevelRetain, about three fields
FAR == 9 * FieldTicks              \* an elapsed time past every comparison

Least(a, b) == IF a < b THEN a ELSE b
Most(a, b) == IF a > b THEN a ELSE b
Abs(x) == IF x < 0 THEN -x ELSE x
Round(a, b) == (2 * a + b) \div (2 * b)
Clamp(x) == Least(12000, Most(8000, x))          \* omega_clamp of 0.2
WrapError(x, cycle) == LET e == x % cycle IN IF 2 * e < cycle THEN e ELSE e - cycle

-----------------------------------------------------------------------------
(* Agc and SyncSeparator: one record, mode "tip" or "adaptive".            *)

SlicerInit(mode) == [mode |-> mode, tip |-> 0, peak |-> 0, floor |-> 0, seeded |-> FALSE, sync |-> FALSE]

\* The AGC's attack is instant and its tip is the reference of the fixed slice.
AgcAttack(s, level) == [s EXCEPT !.tip = Most(level, s.tip)]
AgcRelease_Stuck(s, level, dur) == s
AgcRelease(s, level, dur) == [s EXCEPT !.tip = Most(level, s.tip - (s.tip * dur) \div AGC_TICKS)]

\* process_fixed: 0.08 below the tip, with 0.01 of hysteresis.
SliceFixed(s, level) ==
  [s EXCEPT !.sync = s.tip > 0 /\ 1000 * level >= (IF s.sync THEN 915 ELSE 925) * s.tip]

\* process_adaptive: trackers seeded by the first sample, the slice at 0.85 of
\* their range with 0.05 of hysteresis, and no sync out of a flat input.
Track(s, level, dur) ==
  LET range == s.peak - s.floor
  IN  IF ~s.seeded THEN [s EXCEPT !.peak = level, !.floor = level, !.seeded = TRUE]
      ELSE [s EXCEPT !.peak = Most(level, s.peak - (range * dur) \div TRACK_TICKS),
                     !.floor = Least(level, s.floor + (range * dur) \div TRACK_TICKS)]
SliceAdaptive(s, level) ==
  LET range == s.peak - s.floor
      above == 1000 * (level - s.floor) >= (IF s.sync THEN 825 ELSE 875) * range
  IN  [s EXCEPT !.sync = above /\ (s.sync \/ range > 0)]

\* The bit a segment slices to, and the slicer after its length.
Slice(s, level) ==
  IF s.mode = "tip" THEN SliceFixed(AgcAttack(s, level), level) ELSE SliceAdaptive(Track(s, level, 0), level)
Release(s, level, dur) ==
  IF s.mode = "tip" THEN AgcRelease(s, level, dur) ELSE Track(s, level, dur)

-----------------------------------------------------------------------------
(* HorizontalSweep.                                                        *)

SweepInit ==
  [phase |-> 0, rate |-> 10000, charge |-> 0, have |-> FALSE, since |-> 0,
   width |-> 0, leadPhase |-> 0, taken |-> FALSE, err |-> 0]

Locked(h) == h.charge >= CoincidenceLines

\* Line-sync width, and the hold lockout since the last accepted edge: both
\* shrink and stretch with the rate the oscillator runs at.
LineWidth_Wide(h) == h.width * h.rate >= 500000
LineWidth(h) == h.width * h.rate >= 500000 /\ h.width * h.rate <= 1500000
GapElapsed(h) == ~h.have \/ h.since * h.rate >= 8500000

\* Coincidence charge: one up, four down, saturating at both ends.
Charge_Resets(h, err) == IF Abs(err) <= 200 THEN Least(h.charge + 1, 2 * CoincidenceLines) ELSE 0
Charge(h, err) ==
  IF Abs(err) <= 200 THEN Least(h.charge + 1, 2 * CoincidenceLines) ELSE h.charge - Least(h.charge, 4)

\* An accepted trailing edge: correct by the phase stashed at the leading edge,
\* with the gains the detector had chosen before this edge (the integral ones at 20 MS/s).
TakeEdge(h) ==
  LET err == WrapError(h.leadPhase, 10000)
      kick == IF Locked(h) THEN Round(err, 10) ELSE Round(err, 2)
      pull == IF Locked(h) THEN Round(128 * err, 10000) ELSE Round(1280 * err, 10000)
  IN  [h EXCEPT !.phase = (h.phase - kick) % 10000, !.rate = Clamp(h.rate - pull),
                !.charge = Charge(h, err), !.have = TRUE, !.since = 0, !.taken = TRUE, !.err = err]

\* The edges between the last segment's bit and this one's.
HEdge(h, was, now) ==
  IF now /\ ~was THEN [h EXCEPT !.width = 0, !.leadPhase = h.phase, !.taken = FALSE]
  ELSE IF was /\ ~now THEN (IF LineWidth(h) /\ GapElapsed(h) THEN TakeEdge(h) ELSE [h EXCEPT !.taken = FALSE])
  ELSE [h EXCEPT !.taken = FALSE]

HRun(h, dur) ==
  [h EXCEPT !.phase = (h.phase + Round(h.rate * dur, 1000)) % 10000,
            !.since = Least(h.since + dur, FAR), !.width = Least(h.width + dur, FAR)]

-----------------------------------------------------------------------------
(* VerticalSync.                                                           *)

FieldInit == [integ |-> 0, inVsync |-> FALSE, phase |-> 0, rate |-> 10000, have |-> FALSE, since |-> 0, taken |-> FALSE]

\* Thousandths of the way the integrator (half a line's time constant) still
\* has to go after d ticks: the product of its halvings' factors.
Factors == << 998, 996, 992, 984, 969, 938, 880, 774, 599, 359, 129 >>
KeepOf(d) ==
  IF d > 2047 THEN 0
  ELSE FoldLeft(LAMBDA acc, i : IF (d \div 2 ^ (i - 1)) % 2 = 1 THEN Round(acc * Factors[i], 1000) ELSE acc,
                1000, [i \in 1 .. 11 |-> i])
Keep == [d \in Ticks |-> KeepOf(d)]

FieldGap(v) == ~v.have \/ v.since * v.rate >= 7000 * FieldTicks

\* A field taken: the phase snaps to 0 (kp is 1) and the rate leans a little (at 20 MS/s).
TakeField(v) ==
  LET err == WrapError(v.phase, FieldTicks)
  IN  [v EXCEPT !.phase = 0, !.rate = Clamp(v.rate - Round(80 * err, FieldTicks)),
                !.have = TRUE, !.since = 0, !.taken = TRUE]

\* Rising through the slice marks the vertical interval, whether or not the
\* hold gate lets this crossing be the field's.  A crossing inside a segment is
\* taken at its end: a broad pulse's 427 ticks late at the most, in every field.
Cross_RestartsHold(v) ==
  IF ~v.inVsync /\ v.integ >= 425 THEN (IF FieldGap(v) THEN TakeField([v EXCEPT !.inVsync = TRUE]) ELSE [v EXCEPT !.taken = FALSE, !.since = 0])
  ELSE [v EXCEPT !.taken = FALSE, !.inVsync = v.inVsync /\ v.integ >= 375]
Cross(v) ==
  IF ~v.inVsync /\ v.integ >= 425
  THEN (IF FieldGap(v) THEN TakeField([v EXCEPT !.inVsync = TRUE]) ELSE [v EXCEPT !.taken = FALSE, !.inVsync = TRUE])
  ELSE [v EXCEPT !.taken = FALSE, !.inVsync = v.inVsync /\ v.integ >= 375]

VRun(v, dur, sync) ==
  Cross([v EXCEPT !.integ = LET goal == IF sync THEN 1000 ELSE 0 IN goal + Round((v.integ - goal) * Keep[dur], 1000),
                  !.phase = (v.phase + Round(v.rate * dur, 10000)) % FieldTicks,
                  !.since = Least(v.since + dur, FAR)])
=============================================================================
