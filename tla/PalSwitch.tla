----------------------------- MODULE PalSwitch -----------------------------
(***************************************************************************)
(* The PAL switch of ChromaDecoder over a reception: line after line of    *)
(* bursts that alternate in sense, and everything a signal does to them.   *)
(* One action per kind of line; a line's effect is finalize_line, once for *)
(* every time the burst gate closed in it.                                 *)
(*                                                                         *)
(* A reception (an element of Receptions) says what may happen:            *)
(*   wild      anything, until the signal turns clean for good;            *)
(*   isolated  a clean start; once the colour is up, single wrong senses   *)
(*             at least `spacing` good lines apart, and gaps of up to      *)
(*             `gap` weak lines (the vertical interval, a dropout);        *)
(*   attack    a clean start; then one line a frame whose gate close is    *)
(*             lost, so the transmitted alternation inverts against the    *)
(*             bistable (docs/Firetrack_BW_Trick.md), after a vertical     *)
(*             interval of `gap` weak lines.                               *)
(***************************************************************************)
EXTENDS BurstSwitch

CONSTANT Receptions   \* records [p, kind, spacing, gap, frame]

\* The ident after every number of clean lines that follow the threshold.
Recovery(r) ==
  LET ident[n \in 0 .. r.spacing] ==
        IF n = 0 THEN r.p.threshold ELSE Toward(ident[n - 1], r.p.one, r.p.identTc)
  IN  ident

\* Wrong senses are isolated when in between the ident has risen far enough to
\* outvote the next one.
IsReception(r) ==
  /\ DOMAIN r = {"p", "kind", "spacing", "gap", "frame"} /\ DOMAIN r.p = ParamFields
  /\ r.kind \in {"wild", "isolated", "attack"} /\ r.spacing \in Nat /\ r.gap \in Nat /\ r.frame \in Nat \ {0}
  /\ r.p.one \in Nat \ {0} /\ r.p.threshold \in Nat /\ r.p.threshold < r.p.one
  /\ r.p.identTc \in Nat /\ r.p.identTc >= 2 /\ r.p.killOn \in Nat \ {0} /\ r.p.killOff \in Nat \ {0}
  /\ r.p.refLines \in Nat /\ r.p.refLines > r.gap
  /\ r.kind = "isolated" => Toward(Recovery(r)[r.spacing], -r.p.one, r.p.identTc) >= r.p.threshold

ASSUME ReceptionsAssumption == \A r \in Receptions : IsReception(r)

VARIABLES
  rx,     \* the reception
  phase,  \* "calm" | "wild" | "on": what the signal does now
  tx,     \* the sense transmitted on the line just received
  sw,     \* the decoder's switch, ident and killer
  since,  \* isolated: good lines since the last wrong one; attack: lines into the frame
  gap     \* weak lines in a row

palVars == << rx, phase, tx, sw, since, gap >>

Right == sw.vFlip = tx
\* What the signal does next: a clean start gives way once the colour is up.
PhaseAfter(s) ==
  IF phase = "calm" /\ rx.kind # "wild" /\ s.ident >= rx.p.threshold
     /\ (IF rx.kind = "attack" THEN 10 * s.gain >= 9 * rx.p.one ELSE KillerOpen(rx.p, s))
  THEN "on" ELSE phase

SinceAfter(wrong) ==
  IF phase # "on" THEN 0
  ELSE IF rx.kind = "attack" THEN (since + 1) % rx.frame
  ELSE IF wrong THEN 0
  ELSE IF since < rx.spacing THEN since + 1 ELSE since

\* The place in the frame decides the line of an attack.
AttackLine == IF since < rx.gap THEN "weak" ELSE IF since = rx.frame - 1 THEN "lost" ELSE "clean"
May(kind) ==
  CASE phase = "calm" -> kind = "clean"
    [] phase = "wild" -> TRUE
    [] phase = "on" /\ rx.kind = "attack" -> kind = AttackLine
    [] phase = "on" /\ rx.kind = "isolated" ->
         CASE kind = "clean" -> TRUE
           [] kind = "wrong" -> since >= rx.spacing
           [] kind = "weak" -> gap < rx.gap
           [] OTHER -> FALSE

Good(wrong) ==
  /\ sw' = FinalizeLine(rx.p, sw, "strong", IF wrong THEN tx ELSE -tx)
  /\ tx' = -tx /\ phase' = PhaseAfter(sw') /\ since' = SinceAfter(wrong) /\ gap' = 0

CleanLine == May("clean") /\ Good(FALSE) /\ UNCHANGED rx
\* Noise in the gate swings a burst the wrong way.
WrongLine == May("wrong") /\ Good(TRUE) /\ UNCHANGED rx

\* No burst to speak of: what the gate measures is noise of either sense.
WeakLine ==
  /\ May("weak")
  /\ \E sense \in {1, -1} : sw' = FinalizeLine(rx.p, sw, "weak", sense)
  /\ tx' = -tx /\ gap' = IF gap < rx.gap THEN gap + 1 ELSE gap
  /\ since' = IF rx.kind = "isolated" THEN since ELSE SinceAfter(FALSE)
  /\ UNCHANGED << rx, phase >>

\* A line start fell inside the gate, or the gate never opened: no close at all.
LostClose ==
  /\ May("lost")
  /\ tx' = -tx /\ since' = SinceAfter(FALSE) /\ gap' = 0
  /\ UNCHANGED << rx, phase, sw >>

\* The sweep's phase stepped back over the gate: it closes twice in one line.
DoubleClose ==
  /\ May("double")
  /\ sw' = FinalizeLine(rx.p, FinalizeLine(rx.p, sw, "strong", -tx), "strong", -tx)
  /\ tx' = -tx /\ since' = SinceAfter(FALSE) /\ gap' = 0
  /\ UNCHANGED << rx, phase >>

TurnsClean == phase = "wild" /\ phase' = "calm" /\ UNCHANGED << rx, tx, sw, since, gap >>

PalInit ==
  /\ rx \in Receptions
  /\ phase = (IF rx.kind = "wild" THEN "wild" ELSE "calm")
  /\ tx \in {1, -1} /\ sw = SwitchInit(rx.p) /\ since = 0 /\ gap = 0

Line == CleanLine \/ WrongLine \/ WeakLine \/ LostClose \/ DoubleClose
PalNext == Line \/ TurnsClean

\* A carrier that is there keeps sending lines.
PalSpec == PalInit /\ [][PalNext]_palVars /\ WF_palVars(Line)

-----------------------------------------------------------------------------
(* What the switch promises a viewer.                                      *)

\* An ident that has settled long before the attack's next stretched line, and one it catches halfway.
FastIdent == 10 * rx.p.identTc <= rx.frame
SlowIdent == 2 * rx.p.identTc > rx.frame
Attacked == phase = "on" /\ rx.kind = "attack"

\* Once the colour is up, single wrong bursts and gaps of any number of weak
\* lines neither invert V on a line that has a burst nor mute the picture - the
\* bistable keeps time through the gap, its ident outvotes the noise - and with
\* the default, fast ident nor does the stretched line a frame of an attack.
LockHeld ==
  phase = "on" =>
    /\ rx.kind = "isolated" /\ gap = 0 => Right
    /\ rx.kind = "isolated" \/ (Attacked /\ FastIdent) => KillerOpen(rx.p, sw)

\* Whatever the noise, lost and doubled gate closes left behind, a signal that
\* turns clean gets its V switch right and its colour back, for good.
ColourReturns == <>[](rx.kind = "wild" /\ phase = "calm" => Right /\ KillerOpen(rx.p, sw))

\* An ident slower than half the attack's frame is muted by the same stretched line for
\* good; in between the two the colour flickers, and nothing is promised.
SlowIdentIsKilled == <>[](Attacked /\ SlowIdent => ~KillerOpen(rx.p, sw))
=============================================================================
