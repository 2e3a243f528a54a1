---------------------------- MODULE BurstSwitch ----------------------------
(***************************************************************************)
(* ChromaDecoder's per-line decision: what finalize_line makes of one      *)
(* burst.  The bistable and its ident, the colour killer's ramp and the    *)
(* bookkeeping of the frequency pull, as a record and operators on it.     *)
(*                                                                         *)
(* A burst is a level and a sense.  Levels are "strong" (the transmitted   *)
(* burst) and "weak" (noise, or a vertical-interval line), and the decayed *)
(* peak is how many more closes it takes for weak bursts to pass the 0.3   *)
(* test.  The sense, +1 or -1, is the sign of the swing the detector       *)
(* measured.  Ident and gain are fixed point: p.one stands for 1.0.        *)
(***************************************************************************)
EXTENDS Integers

\* A parameter record: fixed-point unit, time constants in lines, threshold in
\* p.one, closes until noise passes, and whether the frequency pull is on.
ParamFields == {"one", "identTc", "killOn", "killOff", "threshold", "refLines", "pull"}

SwitchInit(p) ==
  [parity |-> FALSE, polarity |-> FALSE, ident |-> 0, vFlip |-> 1,
   gain |-> IF p.threshold <= 0 THEN p.one ELSE 0,
   ref |-> 0,          \* closes for which the decayed peak still hides a weak burst
   gap |-> 0,          \* closes since the last good one (2: more than one), 0: none yet
   good |-> FALSE,     \* did the last close pass the amplitude test?
   retuned |-> FALSE]  \* did it fold a drift into the NCO?

\* One step of a leaky integrator, in fixed point.
Toward(x, target, tc) == x + (target - x) \div tc

\* The gate is a switch with a ramped opening: muted below a tenth.
KillerOpen(p, sw) == 10 * sw.gain >= p.one

\* One ramp step per measured line, slow to open and fast to mute; no killer, no ramp.
UpdateKiller(p, gain, identified) ==
  IF p.threshold <= 0 THEN gain
  ELSE Toward(gain, IF identified THEN p.one ELSE 0, IF identified THEN p.killOn ELSE p.killOff)

RefAfter(p, sw, level) ==
  IF level = "strong" THEN p.refLines ELSE IF sw.ref > 0 THEN sw.ref - 1 ELSE 0

\* The bistable's claim for a line: which sense it expects the burst to swing.
Predicted(parity, polarity) == IF parity = polarity THEN 1 ELSE -1

IdentStep_Fixed(p, ident, agrees) == Toward(ident, agrees * p.one, 10)
\* The ident leaks towards +1 while bursts agree with the bistable, -1 while they do not.
IdentStep(p, ident, agrees) == Toward(ident, agrees * p.one, p.identTc)

MisPhased_Never(p, ident) == ident < -p.one
MisPhased(p, ident) == 2 * ident < -p.one

Toggle_OnGoodOnly(sw, hidden) == IF hidden THEN sw.parity ELSE ~sw.parity
\* Every close toggles the bistable, a burst too weak to measure (hidden) included.
Toggle(sw, hidden) == ~sw.parity

\* finalize_line: every close toggles the bistable; a burst far below the peak
\* then leaves the rest alone; any other one steps the ident, re-phases the
\* bistable on persistent disagreement, ramps the killer and, when the close
\* before it was good too, retunes the NCO.
FinalizeLine(p, sw, level, sense) ==
  LET ref      == RefAfter(p, sw, level)
      hidden   == level = "weak" /\ ref > 0
      parity   == Toggle(sw, hidden)
      ident    == IdentStep(p, sw.ident, sense * Predicted(parity, sw.polarity))
      polarity == IF MisPhased(p, ident) THEN ~sw.polarity ELSE sw.polarity
      settled  == IF MisPhased(p, ident) THEN 0 ELSE ident
  IN  IF hidden
      THEN [sw EXCEPT !.parity = parity, !.ref = ref, !.gap = IF @ = 0 THEN 0 ELSE 2,
                      !.good = FALSE, !.retuned = FALSE]
      ELSE [parity |-> parity, polarity |-> polarity, ident |-> settled,
            vFlip |-> Predicted(parity, polarity),
            gain |-> UpdateKiller(p, sw.gain, settled >= p.threshold),
            ref |-> ref, gap |-> 1, good |-> TRUE, retuned |-> p.pull /\ sw.gap = 1]
=============================================================================
