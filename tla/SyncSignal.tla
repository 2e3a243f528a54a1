----------------------------- MODULE SyncSignal -----------------------------
(***************************************************************************)
(* What an aerial delivers to SyncChain: a field script played over and    *)
(* over, and the noise, dropouts and fades that spoil it.                  *)
(*                                                                         *)
(* A signal (an element of Signals) has a slicer mode, the level of the    *)
(* picture between pulses, and a kind:                                     *)
(*   power   pulses of any kind and spacing (a channel being tuned), then  *)
(*           a clean signal entered anywhere in the frame;                 *)
(*   spoilt  clean until the flywheel is fully charged; then now and then, *)
(*           lines apart, an impulse in a line or a line without its sync; *)
(*   fade    clean until the flywheel is fully charged; then the carrier   *)
(*           changes to another level for good.                            *)
(***************************************************************************)
EXTENDS SyncChain

CONSTANTS
  Signals,       \* records [mode, picture, kind, level]
  ActiveLines,   \* full lines in the shorter field of the script
  Impulses,      \* noise pulses of a channel being tuned: << width, what follows >>
  Garbage,       \* how many of them at most
  Entries,       \* where in the script a clean signal may begin
  SpoilAfter,    \* lines from one impulse or dropout to the next, at least
  Spoils,        \* how many of these at most
  Clear,         \* lines between the last that may be spoilt and a vertical interval
  Settle         \* fields a clean signal is given before it must be tracked

\* The picture is never blacker than blanking, and a carrier is never nothing.
IsSignal(r) ==
  /\ DOMAIN r = {"mode", "picture", "kind", "level"}
  /\ r.mode \in {"tip", "adaptive"} /\ r.kind \in {"power", "spoilt", "fade"}
  /\ r.picture \in 0 .. 760 /\ r.level \in Nat \ {0}
ASSUME SignalAssumption ==
  /\ \A r \in Signals : IsSignal(r)
  /\ ActiveLines \in Nat
  /\ \A i \in Impulses : i \in Nat \X Nat

VARIABLES
  signal,    \* what is received
  condition, \* "garbage" | "clean" | "spoilt" | "faded"
  pos,       \* the script's next segment
  count,     \* garbage: impulses so far; spoilt: lines since the last one
  level,     \* the carrier's level
  chain,     \* the slicer and the two flywheels
  lineTaken, fieldTaken,    \* did the last line sync, and the last field, drive them?
  drove,     \* the kind of the last pulse that drove the horizontal flywheel
  spoilt,    \* impulses and dropouts so far
  age,       \* fields of this condition so far, up to Settle
  untaken    \* fields in a row that did not drive the vertical flywheel, up to 2

syncVars == << signal, condition, pos, count, level, chain, lineTaken, fieldTaken, drove, spoilt, age, untaken >>
observed == << lineTaken, fieldTaken, drove, spoilt, age, untaken >>

-----------------------------------------------------------------------------
(* The script of a frame: two fields, each fifteen half-line pulses and    *)
(* then its lines; the half line moves from one field's end to the other's *)
(* start.                                                                  *)

Pulse(kind, hi, lo) == << [kind |-> kind, hi |-> TRUE, dur |-> hi], [kind |-> kind, hi |-> FALSE, dur |-> lo] >>
Times(n, segs) == [i \in 1 .. n * Len(segs) |-> segs[((i - 1) % Len(segs)) + 1]]
Interval == Times(5, Pulse("eq", 37, 463)) \o Times(5, Pulse("broad", 427, 73)) \o Times(5, Pulse("eq", 37, 463))
LineSeg == Pulse("line", 73, 927)
Script ==
  Interval \o << [kind |-> "blank", hi |-> FALSE, dur |-> 500] >> \o Times(ActiveLines, LineSeg) \o Pulse("line", 73, 427)
  \o Interval \o Times(ActiveLines + 1, LineSeg)
ASSUME EntriesAssumption == \A e \in Entries : e \in 1 .. Len(Script) /\ Script[e].hi    \* at a pulse
FirstBroads == {i \in 1 .. Len(Script) : Script[i].kind = "broad" /\ Script[i].hi /\ Script[i - 2].kind = "eq"}

-----------------------------------------------------------------------------
(* One segment through the chain.                                          *)

LevelOf(hi, kind) ==
  IF hi THEN level ELSE ((IF kind = "line" THEN signal.picture ELSE 760) * level) \div 1000

Play(c, lev, dur) ==
  LET s == Slice(c.sl, lev)
  IN  [sl |-> Release(s, lev, dur), h |-> HRun(HEdge(c.h, c.sl.sync, s.sync), dur), v |-> VRun(c.v, dur, s.sync)]

\* The pulse whose trailing edge a low segment brings is the one before it.
Observe(c, kind) ==
  /\ chain' = c
  /\ lineTaken' = IF kind = "line" THEN c.h.taken ELSE lineTaken
  /\ drove' = IF c.h.taken THEN kind ELSE drove

NextPos == (pos % Len(Script)) + 1

Charged == chain.h.charge = 2 * CoincidenceLines /\ fieldTaken

Transmit ==
  /\ condition # "garbage"
  /\ LET seg == Script[pos]
         c   == Play(chain, LevelOf(seg.hi, seg.kind), seg.dur)
     IN  /\ IF seg.hi THEN chain' = c /\ UNCHANGED lineTaken /\ drove' = (IF c.h.taken THEN "merged" ELSE drove)
            ELSE Observe(c, seg.kind)
         /\ IF pos \in FirstBroads
            THEN /\ fieldTaken' = c.v.taken /\ age' = Least(age + 1, Settle)
                 /\ untaken' = IF c.v.taken THEN 0 ELSE Least(untaken + 1, 2)
            ELSE UNCHANGED << fieldTaken, age, untaken >>
         /\ count' = IF condition = "spoilt" /\ seg.kind = "line" /\ seg.hi /\ count < SpoilAfter THEN count + 1 ELSE count
  /\ pos' = NextPos
  /\ condition' = IF condition = "clean" /\ signal.kind = "spoilt" /\ Charged THEN "spoilt" ELSE condition
  /\ UNCHANGED << signal, level, spoilt >>

\* A noise impulse and the low that follows it, on a channel with no signal yet.
Impulse ==
  /\ condition = "garbage" /\ count < Garbage /\ count' = count + 1
  /\ \E i \in Impulses : Observe(Play(Play(chain, level, i[1]), LevelOf(FALSE, "line"), i[2]), "noise")
  /\ UNCHANGED << signal, condition, pos, level, fieldTaken, spoilt, age, untaken >>

Arrive ==
  /\ condition = "garbage" /\ condition' = "clean" /\ count' = 0 /\ pos' \in Entries
  /\ UNCHANGED << signal, level, chain, observed >>

\* An impulse taken late in the last lines before a vertical interval may well
\* unlock the flywheel: it coasts through the interval with what that edge added
\* to its rate.  So the last Clear lines are left alone.
LinesFollow(p) == p + 2 * Clear <= Len(Script) /\ \A i \in p .. p + 2 * Clear : Script[i].kind = "line"
MaySpoil(hi) ==
  condition = "spoilt" /\ spoilt < Spoils /\ count >= SpoilAfter /\ LinesFollow(pos) /\ Script[pos].hi = hi

\* An impulse of sync width, or wide enough for the integrator, inside a line.
Spike ==
  /\ MaySpoil(FALSE) /\ count' = 0 /\ spoilt' = spoilt + 1
  /\ \E at \in {200, 500, 820} : \E width \in {80, 300} :
       /\ at + width < 927
       /\ LET low == LevelOf(FALSE, "line")
              a == Play(chain, low, at)
              b == Play(a, level, width)
              c == Play(b, low, 927 - at - width)
          IN  chain' = c /\ lineTaken' = a.h.taken /\ drove' = (IF c.h.taken THEN "noise" ELSE IF a.h.taken THEN "line" ELSE drove)
  /\ pos' = NextPos
  /\ UNCHANGED << signal, condition, level, fieldTaken, age, untaken >>

\* A line that lost its sync pulse: the picture level all the way.
Dropout ==
  /\ MaySpoil(TRUE) /\ count' = 0 /\ spoilt' = spoilt + 1
  /\ chain' = Play(Play(chain, LevelOf(FALSE, "line"), 73), LevelOf(FALSE, "line"), 927)
  /\ pos' = (NextPos % Len(Script)) + 1
  /\ UNCHANGED << signal, condition, level, lineTaken, fieldTaken, drove, age, untaken >>

Fade ==
  /\ condition = "clean" /\ signal.kind = "fade" /\ Charged
  /\ condition' = "faded" /\ level' = signal.level /\ age' = 0
  /\ UNCHANGED << signal, pos, count, chain, lineTaken, fieldTaken, drove, spoilt, untaken >>

SyncInit ==
  /\ signal \in Signals
  /\ condition = (IF signal.kind = "power" THEN "garbage" ELSE "clean")
  /\ pos = 1 /\ count = 0 /\ level = 1000
  /\ chain = [sl |-> SlicerInit(signal.mode), h |-> SweepInit, v |-> FieldInit]
  /\ lineTaken = FALSE /\ fieldTaken = FALSE /\ drove = "none" /\ spoilt = 0 /\ age = 0 /\ untaken = 0

SyncNext == Transmit \/ Impulse \/ Arrive \/ Spike \/ Dropout \/ Fade

SyncSpec == SyncInit /\ [][SyncNext]_syncVars

-----------------------------------------------------------------------------
(* What the timing promises.                                               *)

Tracking == Locked(chain.h) /\ lineTaken /\ fieldTaken

\* Equalising and broad pulses never drive the horizontal flywheel, at any rate
\* the noise may have left it at: its pulse-width window moves with the rate.
OnlyLinePulsesDrive == drove \in {"none", "line", "noise"}

\* A fully charged flywheel keeps its slow gains through an impulse in a line and
\* through a line without sync, Clear lines before an interval at the latest: no
\* line after one is displaced by a fast kick.
NoiseKeepsLock == condition = "spoilt" => Locked(chain.h)

\* From whatever garbage left in both flywheels and the slicer, and after a fade
\* or a jump of the carrier, a clean signal is tracked within Settle fields and
\* for good: every line and every field drives its flywheel, though each hold
\* gate measures from the last edge it took, and the horizontal one is longer
\* than a line while the rate is near its lower clamp.
TracksAgain == age = Settle /\ signal.kind # "spoilt" => Tracking

\* An impulse taken for a field costs one field, and the next one is taken again.
FieldReturns == condition = "spoilt" => untaken < 2
=============================================================================
