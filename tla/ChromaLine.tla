----------------------------- MODULE ChromaLine -----------------------------
(***************************************************************************)
(* ChromaDecoder: mix the chroma down with a crystal the burst retunes,    *)
(* measure each line's burst inside the gate, rotate, and comb against the *)
(* line before.  Samples come in blocks cut anywhere; what a burst changes *)
(* must change at the same sample whatever the cuts.                       *)
(*                                                                         *)
(* A raw quadrature is << k, r >>: sample k, mixed after r retunes (the    *)
(* phase of a segment's first sample is still the old step from the sample *)
(* before; its frequency, and every later phase, are the new ones).  The   *)
(* line's rotation and scales are the burst they were derived from (the    *)
(* raws the gate collected) and how many bursts were measured before it.   *)
(* The band-pass, the demodulation low-passes and the luma notch carry     *)
(* their history over blocks as FrontEnd shows of every Fir, so here they  *)
(* pass their input on.                                                    *)
(***************************************************************************)
EXTENDS BurstSwitch, Sequences, FiniteSets, FiniteSetsExt

CONSTANTS
  Inputs,        \* what is decoded: records [beam, levels, mode, pull]
  Blocks,        \* lengths of the blocks a caller may cut it into
  NominalLine,   \* samples in a nominal line
  GlassLen,      \* 283.5 subcarrier cycles, in samples
  RefLines       \* closes for which a strong burst hides weak ones

RingCap == (3 * NominalLine) \div 2 + 2
\* A subcarrier below half the sample rate makes the glass block hundreds of samples long.
ASSUME LineAssumption == NominalLine \in Nat \ {0} /\ GlassLen \in Nat \ {0} /\ RefLines \in Nat \ {0}
ASSUME BlocksAssumption == Blocks \subseteq Nat \ {0}
ASSUME InputsAssumption ==
  \A i \in Inputs :
    /\ i.beam \in Seq([start : BOOLEAN, gate : BOOLEAN]) /\ i.pull \in BOOLEAN
    /\ i.levels \in Seq({"strong", "weak"}) /\ Len(i.levels) > 0
    /\ i.mode \in {"off", "post", "delay_line", "glass"}
\* The constructor refuses a glass block the ring cannot hold.
ASSUME GlassAssumption == \A i \in Inputs : i.mode = "glass" => GlassLen < RingCap

Silence == << >>
NoBurst == [burst |-> Silence, nth |-> 0]
Switch == [one |-> 64, identTc |-> 4, killOn |-> 8, killOff |-> 4, threshold |-> 24, refLines |-> RefLines, pull |-> TRUE]

VARIABLES
  src,        \* the element of Inputs being decoded
  dec,        \* the decoder
  blockEnd,   \* process: the end of the caller's block
  segEnd,     \* process: the end of the segment being decoded
  tuning,     \* decode_segment: retunes before this segment was mixed
  out         \* the last sample put out

chromaVars == << src, dec, blockEnd, segEnd, tuning, out >>

\* Of a stream s: the beam at sample k, from 0, and the level of the k-th gate
\* close, the last of them for ever.
Beam(s, k) == s.beam[k + 1]
LevelAt(s, k) == s.levels[IF k < Len(s.levels) THEN k ELSE Len(s.levels)]

DecoderInit ==
  [ring |-> [k \in 0 .. RingCap - 1 |-> Silence], ringPos |-> 0,
   index |-> 0, lastStart |-> 0, lineLen |-> NominalLine,
   inGate |-> FALSE, acc |-> << >>,               \* the burst gathered so far
   sw |-> SwitchInit(Switch), closes |-> 0,
   retunes |-> 0, controls |-> NoBurst]

-----------------------------------------------------------------------------
(* finalize_line, seen from the samples: which controls and which tuning.  *)

GateClose(d) ==
  LET sw == FinalizeLine([Switch EXCEPT !.pull = src.pull], d.sw, LevelAt(src, d.closes + 1), 1)
  IN  [d EXCEPT !.closes = @ + 1, !.acc = << >>, !.sw = sw,
                !.retunes = IF sw.retuned THEN @ + 1 ELSE @,
                !.controls = IF sw.good THEN [burst |-> d.acc, nth |-> @.nth + 1] ELSE @]

LineStart_KeepsBurst(d) ==
  LET len == d.index - d.lastStart
  IN  [d EXCEPT !.lineLen = IF len > 0 /\ len < RingCap THEN len ELSE @, !.lastStart = d.index, !.inGate = FALSE]
\* A line start measures the line before it and drops a burst cut short.
LineStart(d) ==
  LET len == d.index - d.lastStart
  IN  [d EXCEPT !.lineLen = IF len > 0 /\ len < RingCap THEN len ELSE @,
                !.lastStart = d.index, !.acc = << >>, !.inGate = FALSE]

\* Inside the gate gather; the first sample outside it closes the line's measurement.
Gate(d, raw, inGate) ==
  [(IF inGate THEN [d EXCEPT !.acc = Append(@, raw)]
    ELSE IF d.inGate THEN GateClose(d) ELSE d) EXCEPT !.inGate = inGate, !.index = @ + 1]

Delay(d) == IF src.mode = "glass" THEN GlassLen ELSE d.lineLen

CombRead_OneLate(d) == d.ring[(d.ringPos + RingCap - Delay(d) + 1) % RingCap]
CombRead(d) == d.ring[IF d.ringPos >= Delay(d) THEN d.ringPos - Delay(d) ELSE d.ringPos + RingCap - Delay(d)]

\* The comb's ring takes what its mode delays, and wraps; without a comb it stands still.
CombWrite(d, raw) ==
  IF src.mode = "off" THEN d
  ELSE [d EXCEPT !.ring[d.ringPos] = IF src.mode = "post" THEN << raw, d.controls >> ELSE raw,
                 !.ringPos = IF @ + 1 = RingCap THEN 0 ELSE @ + 1]

-----------------------------------------------------------------------------
(* process, decode_segment and decode_pass3, a loop's turn at a time.      *)

TakeBlock ==
  /\ dec.index = blockEnd /\ blockEnd < Len(src.beam)
  /\ \E n \in Blocks : blockEnd' = IF blockEnd + n < Len(src.beam) THEN blockEnd + n ELSE Len(src.beam)
  /\ UNCHANGED << src, dec, segEnd, tuning, out >>

SegmentEnds_InBlock ==
  {k \in dec.index + 2 .. blockEnd : src.pull /\ Beam(src, k - 2).gate /\ ~Beam(src, k - 1).gate /\ ~Beam(src, k - 1).start} \cup {blockEnd}
\* segment_len: a segment may end on a sample that closes a gate, which may have
\* opened in the block before, or with the block.  Without the pull, one segment.
SegmentEnds ==
  LET open(k) == IF k = dec.index THEN dec.inGate ELSE Beam(src, k - 1).gate
  IN  {k \in dec.index + 1 .. blockEnd : src.pull /\ open(k - 1) /\ ~Beam(src, k - 1).gate /\ ~Beam(src, k - 1).start}
      \cup {blockEnd}

\* decode_segment mixes the whole segment at the tuning it begins with.
CutSegment ==
  /\ dec.index = segEnd /\ segEnd < blockEnd
  /\ segEnd' = Min(SegmentEnds) /\ tuning' = dec.retunes
  /\ UNCHANGED << src, dec, blockEnd, out >>

\* One sample of pass 3.
DecodeSample ==
  /\ dec.index < segEnd
  /\ LET raw == << dec.index, tuning >>
         d   == Gate(IF Beam(src, dec.index).start THEN LineStart(dec) ELSE dec, raw, Beam(src, dec.index).gate)
     IN  /\ out' = [raw |-> raw, controls |-> d.controls, mate |-> IF src.mode = "off" THEN Silence ELSE CombRead(d)]
         /\ dec' = CombWrite(d, raw)
  /\ UNCHANGED << src, blockEnd, segEnd, tuning >>

ChromaInit ==
  /\ src \in Inputs /\ dec = DecoderInit /\ blockEnd = 0 /\ segEnd = 0 /\ tuning = 0
  /\ out = [raw |-> Silence, controls |-> NoBurst, mate |-> Silence]

ChromaNext == TakeBlock \/ CutSegment \/ DecodeSample
ChromaSpec == ChromaInit /\ [][ChromaNext]_chromaVars

-----------------------------------------------------------------------------
(* What the stream, seen whole, says of sample k.                          *)

\* The closes up to and including sample k, and the number of each.
Closes(s, j) == Beam(s, j - 1).gate /\ ~Beam(s, j).gate /\ ~Beam(s, j).start
ClosesTo(s, k) == {j \in 1 .. k : Closes(s, j)}
Nth(s, j) == Cardinality(ClosesTo(s, j))

\* A close measures its burst unless the burst is weak and the last strong one recent.
Measured(s, n) == LevelAt(s, n) = "strong" \/ \A m \in 1 .. n - 1 : LevelAt(s, m) = "strong" => n - m >= RefLines
GoodTo(s, k) == {j \in ClosesTo(s, k) : Measured(s, Nth(s, j))}
RetunesTo(s, k) == {j \in GoodTo(s, k) : s.pull /\ Nth(s, j) > 1 /\ Measured(s, Nth(s, j) - 1)}
RawAt(s, k) == << k, Cardinality(RetunesTo(s, k - 1)) >>

\* The gate run a close ends: back to where the gate opened, or to the line's start.
Opens(s, i) == Beam(s, i).gate /\ (i = 0 \/ Beam(s, i).start \/ ~Beam(s, i - 1).gate)
Opened(s, j) == Max({i \in 0 .. j - 1 : Opens(s, i)})
GateRun(s, j) == [i \in 1 .. j - Opened(s, j) |-> RawAt(s, Opened(s, j) + i - 1)]
ControlsAt(s, k) ==
  IF GoodTo(s, k) = {} THEN NoBurst ELSE [burst |-> GateRun(s, Max(GoodTo(s, k))), nth |-> Cardinality(GoodTo(s, k))]

\* The delay at k: the last line that fitted the ring, measured start to start.
StartBefore(s, k) == Max({0} \cup {t \in 0 .. k - 1 : Beam(s, t).start})
LineBefore(s, k) == k - StartBefore(s, k)
FittingTo(s, k) == {t \in 0 .. k : Beam(s, t).start /\ LineBefore(s, t) > 0 /\ LineBefore(s, t) < RingCap}
LineLenAt(s, k) == IF FittingTo(s, k) = {} THEN NominalLine ELSE LineBefore(s, Max(FittingTo(s, k)))
MateAt(s, k) ==
  LET back == k - (IF s.mode = "glass" THEN GlassLen ELSE LineLenAt(s, k))
  IN  IF s.mode = "off" \/ back < 0 THEN Silence
      ELSE IF s.mode = "post" THEN << RawAt(s, back), ControlsAt(s, back) >> ELSE RawAt(s, back)

\* A retune the frequency pull makes at a gate close reaches the mix at the next
\* sample and no earlier, wherever the caller cut the block, and is made exactly
\* at the second of two adjacent measured closes.
RetunesAtGateClose == dec.index > 0 => out.raw = RawAt(src, dec.index - 1)

\* The sample that closes the gate already flows with the new rotation, which
\* comes from the whole of that line's gate run and nothing else: not from a
\* burst a line start cut short, nor from half a run when a block ended in it.
BurstsMeasuredWhole == dec.index > 0 => out.controls = ControlsAt(src, dec.index - 1)

\* The comb averages with the sample exactly one measured line (or glass block)
\* back, through every wrap of the ring and after lines too long to measure.
CombReadsOneLineBack == dec.index > 0 => out.mate = MateAt(src, dec.index - 1)
=============================================================================
