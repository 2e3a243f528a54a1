----------------------------- MODULE FirFilter -----------------------------
(***************************************************************************)
(* dsp::Fir and dsp::FirPair: streaming filters that carry their delay     *)
(* line and their decimation phase from block to block.                    *)
(*                                                                         *)
(* A number is what it was computed from.  Sample k of the stream is any   *)
(* value the caller likes, Silence is the 0.0f a delay line starts with,   *)
(* and a dot product is the sequence of the values that tap 1, tap 2, ...  *)
(* met: the taps are summed in one order everywhere, so two outputs are    *)
(* bit-identical exactly when these sequences are equal.  Buffers are      *)
(* functions on 0 .. size-1, as in the code; a block is a sequence.        *)
(***************************************************************************)
EXTENDS Integers, Sequences, FiniteSets

Silence == << >>
Garbage == << "uninitialised" >>     \* a plane entry no sample was split into

LANES == 8                           \* floats in an AVX2 register
STRIP == 4 * LANES                   \* outputs per pass of the widest tier

CeilDiv(a, b) == (a + b - 1) \div b

-----------------------------------------------------------------------------
(* The kernels: every tier computes outputs at window offsets d * k.       *)

\* The taps are stored reversed and walked forward over the window: tap i of n meets entry off + n - i.
Convolve(win, off, n) == [i \in 1 .. n |-> win[off + n - i]]

LoadVec(win, a) == [l \in 0 .. LANES - 1 |-> win[a + l]]

\* shuffle_ps keeps the even floats per 128-bit half, the permute puts the halves in order.
EvenLanes(lo, hi) ==
  LET shuffled == << lo[0], lo[2], hi[0], hi[2], lo[4], lo[6], hi[4], hi[6] >>
      even     == << 0, 1, 4, 5, 2, 3, 6, 7 >>
  IN  [l \in 0 .. LANES - 1 |-> shuffled[even[l + 1] + 1]]

\* The register that holds, lane by lane, the samples tap i meets in outputs b .. b + 7.
TapVec(win, b, i, n, d) ==
  LET a == d * b + n - i
  IN  IF d = 1 THEN LoadVec(win, a)
      ELSE EvenLanes(LoadVec(win, a), LoadVec(win, a + LANES))

StripGuard_OneShort(d, n, outputs, winLen, k, width) ==
  k + width <= outputs /\ (d = 2 => 2 * k + 2 * (width - LANES) + n + LANES - 1 <= winLen)
\* May a tier take `width` more outputs from k on?  The stride-2 tiers load
\* whole registers beyond the samples they keep, and must stop short.
StripGuard(d, n, outputs, winLen, k, width) ==
  k + width <= outputs /\ (d = 2 => 2 * k + 2 * (width - LANES) + n + 2 * LANES - 1 <= winLen)

\* How many outputs the vector tiers take before the scalar loop gets the rest.
VectorOutputs(n, outputs, d, winLen) ==
  LET TierEnd(from, width) ==
        from + width * Cardinality({c \in 0 .. outputs \div width :
                  StripGuard(d, n, outputs, winLen, from + c * width, width)})
  IN  IF d > 2 THEN 0 ELSE TierEnd(TierEnd(0, STRIP), LANES)

\* One past the last window entry any tier loads.
LoadEnd(n, outputs, d, vectored) ==
  LET scalar == IF outputs > vectored THEN d * (outputs - 1) + n ELSE 0
      vector == IF vectored = 0 THEN 0 ELSE d * (vectored - LANES) + n - 1 + d * LANES
  IN  IF scalar > vector THEN scalar ELSE vector

ConvolveStrip(win, n, outputs, d, winLen) ==
  LET vectored == VectorOutputs(n, outputs, d, winLen)
  IN  [k \in 1 .. outputs |->
         IF k > vectored THEN Convolve(win, d * (k - 1), n)
         ELSE LET b == LANES * ((k - 1) \div LANES)
              IN  [i \in 1 .. n |-> TapVec(win, b, i, n, d)[(k - 1) % LANES]]]

\* Decimation 2 in the pair: the window split once into even and odd samples.
SplitEvenOdd(win, winLen) ==
  LET entries == 0 .. winLen \div 2
  IN  [even |-> [p \in entries |-> IF 2 * p < winLen THEN win[2 * p] ELSE Garbage],
       odd  |-> [p \in entries |-> IF 2 * p + 1 < winLen THEN win[2 * p + 1] ELSE Garbage]]

ConvolvePairDecim2(win, n, outputs, winLen) ==
  LET plane    == SplitEvenOdd(win, winLen)
      vectored == LANES * (outputs \div LANES)
      PlaneTap(k, t) == (IF t % 2 = 0 THEN plane.even ELSE plane.odd)[k + t \div 2]
  IN  [k \in 1 .. outputs |->
         IF k > vectored THEN Convolve(win, 2 * (k - 1), n)
         ELSE [i \in 1 .. n |-> PlaneTap(k - 1, n - i)]]

\* The other decimations of the pair share convolve_strip's d = 1 tier and its scalar loop.
ConvolveStripPair(win, n, outputs, d, winLen) ==
  IF d = 1 THEN ConvolveStrip(win, n, outputs, d, winLen)
  ELSE [k \in 1 .. outputs |-> Convolve(win, d * (k - 1), n)]

-----------------------------------------------------------------------------
(* The streaming filter: a record, and process as an operator on it.       *)

FirInit(n, d, maxIn) ==
  [n |-> n, d |-> d, hist |-> [k \in 0 .. n - 2 |-> Silence], phase |-> 0,
   windowCap |-> n - 1 + maxIn, outCap |-> CeilDiv(maxIn, d), planeCap |-> (n - 1 + maxIn) \div 2 + 1]

FirOutputs(f, m) == IF m > f.phase THEN CeilDiv(m - f.phase, f.d) ELSE 0

FirAdvance_DropsPhase(f, win, m) ==
  [f EXCEPT !.phase = 0, !.hist = [k \in 0 .. f.n - 2 |-> win[m + k]]]
\* What the next call starts from: the skip left over and the last n - 1 samples.
FirAdvance(f, win, m) ==
  [f EXCEPT !.phase = f.phase + FirOutputs(f, m) * f.d - m,
            !.hist  = [k \in 0 .. f.n - 2 |-> win[m + k]]]

Window(f, in) == [k \in 0 .. f.n - 2 + Len(in) |-> IF k < f.n - 1 THEN f.hist[k] ELSE in[k - f.n + 2]]

\* Fir::process ("one") and FirPair::process ("pair"): the new state, the
\* output, whether every write_n fitted and every load stayed in its buffer.
FirProcess(f, in, kind) ==
  LET m       == Len(in)
      carry   == f.n - 1
      win     == Window(f, in)
      outputs == FirOutputs(f, m)
      winLen  == carry + m - f.phase
      w       == [k \in 0 .. winLen - 1 |-> win[f.phase + k]]
      shuffled == kind = "one" \/ f.d # 2
      vectored == IF shuffled /\ (kind = "one" \/ f.d = 1) THEN VectorOutputs(f.n, outputs, f.d, winLen) ELSE 0
      inside  == outputs = 0 \/ LoadEnd(f.n, outputs, f.d, vectored) <= winLen
      fits    == /\ carry + m <= f.windowCap /\ outputs <= f.outCap
                 /\ ~shuffled => winLen \div 2 + 1 <= f.planeCap
  IN  IF m = 0 THEN [f |-> f, out |-> << >>, fits |-> TRUE, inside |-> TRUE]
      ELSE IF ~fits \/ ~inside
      THEN [f |-> f, out |-> << >>, fits |-> fits, inside |-> inside]
      ELSE [f   |-> FirAdvance(f, win, m),
            out |-> CASE kind = "one"              -> ConvolveStrip(w, f.n, outputs, f.d, winLen)
                      [] kind = "pair" /\ shuffled -> ConvolveStripPair(w, f.n, outputs, f.d, winLen)
                      [] OTHER                     -> ConvolvePairDecim2(w, f.n, outputs, winLen),
            fits |-> TRUE, inside |-> TRUE]

\* The filter's promise: output j of the whole stream, whose sample k is At(k), is
\* the window ending at sample j * d, whatever the blocks were.
FirReference(At(_), n, d, j) == [i \in 1 .. n |-> IF d * j - (i - 1) < 0 THEN Silence ELSE At(d * j - (i - 1))]
=============================================================================
