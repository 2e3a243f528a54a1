------------------------------ MODULE FrontEnd ------------------------------
(***************************************************************************)
(* cli_util's vision front end and the stages it drives: load a recording  *)
(* (or open stdin), resolve the carrier, build the chain the options ask   *)
(* for, and feed it block by block.                                        *)
(*                                                                         *)
(* The chain is one of                                                     *)
(*   saw        VisionIf: a FirPair, then an envelope or quasi-sync        *)
(*              detector;                                                  *)
(*   flat       Hilbert, then ComplexAmEnvelope (DC block, mix, two Firs); *)
(*   composite  an optional Fir, then CompositeInput's sync-tip clamp.     *)
(* Numbers are what they were computed from (see FirFilter).  A recurrence *)
(* (tank and AFC, DC blocker, phasor, clamp) is the count of samples it    *)
(* has absorbed: its value is a function of exactly those.                 *)
(* Frequencies are in kHz.                                                 *)
(***************************************************************************)
EXTENDS FirFilter

CONSTANTS
  Configs,      \* the command lines: see ConfigFields
  IfTaps,       \* kDefaultIfTaps, scaled down
  VisionTaps,   \* kDefaultVisionTaps, scaled down: the Hilbert length and the low-pass length
  ScanSamples   \* kScanSamples

ASSUME TapsAssumption == IfTaps \in Nat \ {0} /\ VisionTaps \in Nat /\ VisionTaps % 4 = 3

\* The source, and the options that shape its chain.
ConfigFields == [live : BOOLEAN, format : STRING, complex : BOOLEAN, rate : Nat, rx : Nat, air : Nat, bytes : Nat,
                 input : STRING, ifMode : STRING, detector : STRING, dec : Nat, cutoff : Nat, carrier : Nat,
                 scan : BOOLEAN, notch : Int, block : Nat \ {0}]
ASSUME ConfigsAssumption == \A c \in Configs : c \in ConfigFields

VARIABLES
  cfg,       \* the options and the source of this run
  status,    \* "start" | "carrier" | "streaming" | "done" | "failed" | "threw" | "overread"
  carrier,   \* vision_carrier_hz once resolved, 0 for composite
  fe,        \* the VisionFrontEnd: its chain, and its stages' state
  pos,       \* samples read from the source
  emitted,   \* envelope samples handed to on_block
  out        \* the last block of them

vars == << cfg, status, carrier, fe, pos, out, emitted >>

-----------------------------------------------------------------------------
(* Loading: what a recording or the command line must supply.              *)

BytesPer(format) == IF format = "u8" THEN 1 ELSE 2
Samples == cfg.bytes \div BytesPer(cfg.format)     \* a torn last sample is dropped

\* scan_vision_carrier reads the head of the file, whatever its format, as int16.
HeadSamples == IF cfg.bytes \div 2 < ScanSamples THEN cfg.bytes \div 2 ELSE ScanSamples

\* find_vision_carrier: the band of bins it may find a peak in, or {} when it gives up.
ScanBins ==
  LET pow  == {p \in {2 ^ e : e \in 0 .. 20} : p <= HeadSamples}
      n    == IF pow = {} THEN 0 ELSE CHOOSE p \in pow : \A q \in pow : q <= p
      lo   == IF CeilDiv(1000 * n, cfg.rate) > 1 THEN CeilDiv(1000 * n, cfg.rate) ELSE 1
      top  == (475 * n) \div 1000
      hi   == IF top < n \div 2 - 1 THEN top ELSE n \div 2 - 1
  IN  IF n < 4 \/ 475 * cfg.rate <= 1000 * 1000 \/ lo > hi THEN {}
      ELSE {((2 * k + lean) * cfg.rate) \div (2 * n) : k \in {lo, hi}, lean \in {-1, 0, 1}}
           \* wherever the peak is, and half a bin beside it: the band's ends are the cases

Resolved(hz) == status' = "carrier" /\ carrier' = hz
Fails == status' = "failed" /\ UNCHANGED carrier

MetadataCarrier == IF cfg.rx > 0 THEN cfg.rx ELSE cfg.air

LoadRecording ==
  /\ status = "start" /\ ~cfg.live
  /\ UNCHANGED << cfg, fe, pos, out, emitted >>
  /\ \/ /\ \/ cfg.rate = 0 \/ cfg.format \notin {"s16", "u8"} \/ cfg.complex
        /\ Fails
     \/ /\ cfg.rate > 0 /\ cfg.format \in {"s16", "u8"} /\ ~cfg.complex
        /\ \/ cfg.input = "composite" /\ Resolved(0)
           \/ cfg.input = "rf" /\ cfg.carrier > 0 /\ Resolved(cfg.carrier)
           \/ cfg.input = "rf" /\ cfg.carrier = 0 /\ MetadataCarrier > 0 /\ ~cfg.scan /\ Resolved(MetadataCarrier)
           \/ /\ cfg.input = "rf" /\ cfg.carrier = 0 /\ (MetadataCarrier = 0 \/ cfg.scan)
              /\ \/ Fails                                          \* too short, no energy, no band
                 \/ \E hz \in ScanBins : Resolved(hz)

OpenLive ==
  /\ status = "start" /\ cfg.live
  /\ UNCHANGED << cfg, fe, pos, out, emitted >>
  /\ \/ cfg.input = "composite" /\ Resolved(0)
     \/ cfg.input = "rf" /\ cfg.carrier > 0 /\ Resolved(cfg.carrier)
     \/ cfg.input = "rf" /\ cfg.carrier = 0 /\ Fails

-----------------------------------------------------------------------------
(* Building the chain: make_front_end and the constructors' checks.        *)

LowpassAccepts(cutoff) == cutoff > 0 /\ 2 * cutoff < cfg.rate

\* The templates' shoulders (kHz from the carrier, centi-dB) and sound notch; an
\* option may set the notch, negative when it is not given (the ripple's turns phases only).
Notch(template) == IF cfg.notch >= 0 THEN -cfg.notch ELSE template
Template(mode) ==
  IF mode = "saw80"
  THEN [shape |-> << << -1250, 0 >>, << 3500, 0 >>, << 5900, -1200 >>, << 6800, -5000 >> >>,
        notch |-> Notch(-2600), width |-> 400]
  ELSE [shape |-> << << -1250, 0 >>, << 4800, 0 >>, << 5900, -800 >>, << 6800, -5000 >> >>,
        notch |-> Notch(-4000), width |-> 300]

Stopband == -100000
\* template_voltage in centi-dB, above the carrier where the flank is open.
TemplateDb(t, rel) ==
  LET last == Len(t.shape)
      seg  == CHOOSE i \in 2 .. last : rel <= t.shape[i][1] /\ \A j \in 2 .. i - 1 : rel > t.shape[j][1]
      lo   == t.shape[seg - 1]
      hi   == t.shape[seg]
      away == IF rel > 6000 THEN rel - 6000 ELSE 6000 - rel
      dip  == IF away < t.width THEN ((t.width - away) * t.notch) \div t.width ELSE 0
  IN  IF rel < t.shape[1][1] \/ rel > t.shape[last][1] THEN Stopband
      ELSE lo[2] + ((hi[2] - lo[2]) * (rel - lo[1])) \div (hi[1] - lo[1]) + dip

\* if_taps and the VisionIf constructor: the carrier below Nyquist, the template
\* 40 dB down there, and the output rate above the tank's 2 * pi * 500 kHz.
VisionIfAccepts ==
  /\ carrier > 0 /\ 2 * carrier < cfg.rate
  /\ TemplateDb(Template(cfg.ifMode), cfg.rate \div 2 - carrier) <= -4000
  /\ 10 * cfg.rate > 31416 * cfg.dec

HilbertInit(n, maxIn) ==
  LET half == (maxIn + 1) \div 2
      fir  == FirInit((n + 1) \div 2, 1, half)
  IN  [even |-> fir, odd |-> fir, delay |-> (n - 1) \div 2, seen |-> 0, half |-> half, cap |-> maxIn,
       hist |-> [k \in 1 .. (n - 1) \div 2 |-> Silence]]

AmInit(n, d, maxIn) ==
  [i |-> FirInit(n, d, maxIn), q |-> FirInit(n, d, maxIn), dc |-> 0, rot |-> 0, cap |-> maxIn]

SawChain(b)  == [chain |-> "saw", pair |-> FirInit(IfTaps, cfg.dec, b), tank |-> 0, cap |-> CeilDiv(b, cfg.dec)]
FlatChain(b) == [chain |-> "flat", hilbert |-> HilbertInit(VisionTaps, b), am |-> AmInit(VisionTaps, cfg.dec, b)]

WideOpen == 2 * cfg.cutoff * cfg.dec >= cfg.rate
Filtered == ~WideOpen \/ cfg.dec > 1
\* The clamp's budget: what the anti-alias filter can emit, or the whole block.
CompositeCap(b) == IF Filtered THEN FirInit(VisionTaps, cfg.dec, b).outCap ELSE b

CompositeChain(b) ==
  [chain |-> "composite", filtered |-> Filtered, lp |-> FirInit(VisionTaps, cfg.dec, b),
   tip |-> 0, cap |-> CompositeCap(b)]

\* The corner the composite filter is designed for; a wide open one is clamped
\* to 0.999 of the input's Nyquist, which lowpass_kernel takes.
CompositeCorner ==
  LET widest == (999 * cfg.rate) \div 2000
  IN  IF WideOpen /\ widest < cfg.cutoff THEN widest ELSE cfg.cutoff

\* What CompositeInput checks is positive at its defaults, and an option that is
\* not positive leaves the default.
Accepts ==
  /\ cfg.dec >= 1
  /\ IF cfg.input = "composite" THEN Filtered => LowpassAccepts(CompositeCorner)
     ELSE IF cfg.ifMode # "flat" THEN VisionIfAccepts
     ELSE LowpassAccepts(cfg.cutoff)

MakeFrontEnd ==
  /\ status = "carrier"
  /\ UNCHANGED << cfg, carrier, pos, out, emitted >>
  /\ \/ ~Accepts /\ status' = "failed" /\ UNCHANGED fe
     \/ /\ Accepts /\ status' = "streaming"
        /\ fe' = IF cfg.input = "composite" THEN CompositeChain(cfg.block)
                 ELSE IF cfg.ifMode # "flat" THEN SawChain(cfg.block)
                 ELSE FlatChain(cfg.block)

-----------------------------------------------------------------------------
(* The stages.  Each operator returns the stage's next state, its output,  *)
(* and whether every write_n fitted and every vector load stayed inside.   *)

\* The last `delay` inputs, the old ones slid left when the block is the shorter.
HilbertHistory(h, in) ==
  IF Len(in) >= h.delay THEN SubSeq(in, Len(in) - h.delay + 1, Len(in)) ELSE SubSeq(h.hist, Len(in) + 1, h.delay) \o in

\* Hilbert::process: the block split by the parity of the sample's place in the
\* stream, each half filtered, and the halves interleaved beside the delayed input.
HilbertProcess(h, in) ==
  LET n    == Len(in)
      odd  == h.seen % 2
      nEven == (n + 1 - odd) \div 2
      evens == [k \in 1 .. nEven |-> in[2 * k - 1 + odd]]
      odds  == [k \in 1 .. n - nEven |-> in[2 * k - odd]]
      I(i) == IF i <= h.delay THEN h.hist[i] ELSE in[i - h.delay]
      Q(i, qe, qo) == (IF (i - 1) % 2 = odd THEN qe.out ELSE qo.out)[(i + 1) \div 2]
      Interleaved(qe, qo) ==
        [fits |-> nEven <= h.half /\ n - nEven <= h.half /\ qe.fits /\ qo.fits /\ n <= h.cap,
         inside |-> qe.inside /\ qo.inside,
         st  |-> [h EXCEPT !.even = qe.f, !.odd = qo.f, !.seen = h.seen + n, !.hist = HilbertHistory(h, in)],
         out |-> IF qe.fits /\ qe.inside /\ qo.fits /\ qo.inside
                 THEN [i \in 1 .. n |-> << I(i), Q(i, qe, qo) >>] ELSE << >>]
  IN  Interleaved(FirProcess(h.even, evens, "one"), FirProcess(h.odd, odds, "one"))

\* ComplexAmEnvelope::process: DC block, mix the carrier down, low-pass I and Q, take the magnitude.
AmProcess(a, in) ==
  LET n   == Len(in)
      Mix(plane) == [k \in 1 .. n |-> << in[k], a.dc + k - 1, a.rot + k - 1, plane >>]
      Magnitude(i, q) ==
        [fits |-> n <= a.cap /\ i.fits /\ q.fits, inside |-> i.inside /\ q.inside,
         st  |-> [a EXCEPT !.i = i.f, !.q = q.f, !.dc = @ + n, !.rot = @ + n],
         out |-> [k \in 1 .. Len(i.out) |-> << i.out[k], q.out[k] >>]]
  IN  Magnitude(FirProcess(a.i, Mix("i"), "one"), FirProcess(a.q, Mix("q"), "one"))

\* VisionIf::process: the complex filter, then either detector; the quasi-sync
\* reference is the tank after this very sample.
SawProcess(f, in) ==
  LET Detected(y) ==
        LET m == Len(y.out)
        IN  [fits |-> y.fits /\ m <= f.cap, inside |-> y.inside,
             st  |-> [f EXCEPT !.pair = y.f, !.tank = IF cfg.detector = "quasi_sync" THEN @ + m ELSE @],
             out |-> [k \in 1 .. m |->
                        IF cfg.detector = "quasi_sync" THEN << y.out[k], f.tank + k >> ELSE << y.out[k] >>]]
  IN  Detected(FirProcess(f.pair, in, "pair"))

FlatProcess(f, in) ==
  LET Joined(h, a) == [fits |-> h.fits /\ a.fits, inside |-> h.inside /\ a.inside,
                       st |-> [f EXCEPT !.hilbert = h.st, !.am = a.st], out |-> a.out]
      Analytic(h)  == Joined(h, AmProcess(f.am, h.out))
  IN  Analytic(HilbertProcess(f.hilbert, in))

\* CompositeInput::process after the optional filter: the clamp seeds from the
\* first sample and follows the running minimum.
CompositeProcess(f, in) ==
  LET Clamped(lp, x) ==
        [fits |-> lp.fits /\ Len(x) <= f.cap, inside |-> lp.inside,
         st  |-> [f EXCEPT !.lp = lp.f, !.tip = @ + Len(x)],
         out |-> [k \in 1 .. Len(x) |-> << x[k], f.tip + k >>]]
      Thinned(lp) == Clamped(lp, lp.out)
  IN  IF f.filtered THEN Thinned(FirProcess(f.lp, in, "one"))
      ELSE Clamped([f |-> f.lp, fits |-> TRUE, inside |-> TRUE], in)

VisionProcess(f, in) ==
  CASE f.chain = "saw" -> SawProcess(f, in)
    [] f.chain = "flat" -> FlatProcess(f, in)
    [] f.chain = "composite" -> CompositeProcess(f, in)

-----------------------------------------------------------------------------
(* Streaming: stream_real_blocks and stream_real_stdin both hand on full   *)
(* blocks until the source ends.                                           *)

BlockLen_FullOnly == IF cfg.block <= Samples - pos THEN cfg.block ELSE 0
\* The last block may be a short one.
BlockLen == IF cfg.block < Samples - pos THEN cfg.block ELSE Samples - pos

OnBlock ==
  /\ status = "streaming" /\ BlockLen > 0
  /\ \E r \in {VisionProcess(fe, [k \in 1 .. BlockLen |-> << pos + k - 1 >>])} :
         /\ status' = IF ~r.fits THEN "threw" ELSE IF ~r.inside THEN "overread" ELSE "streaming"
         /\ fe' = r.st
         /\ out' = r.out
         /\ pos' = pos + BlockLen
         /\ emitted' = emitted + Len(r.out)
  /\ UNCHANGED << cfg, carrier >>

EndOfStream ==
  /\ status = "streaming" /\ BlockLen = 0
  /\ status' = "done"
  /\ UNCHANGED << cfg, carrier, fe, pos, emitted, out >>

Init ==
  /\ cfg \in Configs
  /\ status = "start" /\ carrier = 0 /\ fe = << >> /\ pos = 0 /\ emitted = 0 /\ out = << >>

Next == LoadRecording \/ OpenLive \/ MakeFrontEnd \/ OnBlock \/ EndOfStream

Spec == Init /\ [][Next]_vars

-----------------------------------------------------------------------------
(* What the chain promises.                                                *)

Sample(k) == << k >>
HilbertSample(k) ==
  << IF k < (VisionTaps - 1) \div 2 THEN Silence ELSE Sample(k - (VisionTaps - 1) \div 2),
     [t \in 1 .. (VisionTaps + 1) \div 2 |-> IF k < 2 * (t - 1) THEN Silence ELSE Sample(k - 2 * (t - 1))] >>

\* Envelope sample j of the whole stream, filtered at full rate and then thinned.
Envelope(j) ==
  LET MixI(k) == << HilbertSample(k), k, k, "i" >>
      MixQ(k) == << HilbertSample(k), k, k, "q" >>
      y == FirReference(Sample, IfTaps, cfg.dec, j)
  IN  CASE fe.chain = "saw" -> IF cfg.detector = "quasi_sync" THEN << y, j + 1 >> ELSE << y >>
        [] fe.chain = "flat" -> << FirReference(MixI, VisionTaps, cfg.dec, j), FirReference(MixQ, VisionTaps, cfg.dec, j) >>
        [] OTHER -> << IF Filtered THEN FirReference(Sample, VisionTaps, cfg.dec, j) ELSE Sample(j), j + 1 >>

\* The envelope does not depend on where the blocks were cut: what a block
\* yields is the next samples of the one stream the whole source stands for,
\* whichever vector tier, polyphase split or carried history produced them.
ChunkingInvariant ==
  out # << >> => out = [k \in 1 .. Len(out) |-> Envelope(emitted - Len(out) + k - 1)]

\* No vector tier loads past the window it was given, even in the lanes it drops.
LoadsInBounds == status # "overread"

\* A source the constructors took is decoded to its end: prepare's budgets cover
\* every phase and parity a block of at most block_samples can meet, and a finished
\* stream has emitted one envelope sample for every dec samples read, the last
\* partial group included.
WholeSourceDecoded ==
  /\ status # "threw"
  /\ status = "done" => pos = Samples /\ emitted = CeilDiv(Samples, cfg.dec)
=============================================================================
