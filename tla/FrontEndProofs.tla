--------------------------- MODULE FrontEndProofs ---------------------------
(***************************************************************************)
(* Proofs about FirFilter and FrontEnd, for any filter length, decimation, *)
(* block length, source and option.                                        *)
(***************************************************************************)
EXTENDS FrontEnd, FiniteSetTheorems, SequenceTheorems, WellFoundedInduction, TLAPS

(* Sample k of the stream A; before its start a delay line holds silence.  *)
At(A, k) == IF k < 0 THEN Silence ELSE A[k]

(* FirReference, over a stream.                                            *)
Reference(A, n, d, j) == [i \in 1 .. n |-> At(A, d * j - (i - 1))]

(* The block that follows the first p samples of A.                        *)
Continues(A, p, in) == \A k \in 1 .. Len(in) : in[k] = A[p + k - 1]

(* The filter after the first p samples of A, however they were cut.       *)
FirAfter(A, n, d, cap, p) ==
  [n |-> n, d |-> d, hist |-> [k \in 0 .. n - 2 |-> At(A, p - (n - 1) + k)],
   phase |-> CeilDiv(p, d) * d - p,
   windowCap |-> n - 1 + cap, outCap |-> CeilDiv(cap, d), planeCap |-> (n - 1 + cap) \div 2 + 1]

-----------------------------------------------------------------------------
(* Division and sequences.                                                 *)

LEMMA CeilIs ==
  ASSUME NEW a \in Nat, NEW b \in Nat \ {0}
  PROVE  CeilDiv(a, b) \in Nat /\ b * CeilDiv(a, b) - b < a /\ a <= b * CeilDiv(a, b)
<1> DEFINE x == a + b - 1
<1>1. x \in Nat /\ x = a + b - 1
  OBVIOUS
<1> HIDE DEF x
<1>2. x \div b \in Nat /\ x % b \in 0 .. b - 1 /\ x = b * (x \div b) + (x % b)
  BY <1>1
<1>3. CeilDiv(a, b) = x \div b
  BY DEF CeilDiv, x
<1> QED
  BY <1>1, <1>2, <1>3

LEMMA CeilUnique ==
  ASSUME NEW a \in Nat, NEW b \in Nat \ {0}, NEW q \in Nat, b * q - b < a, a <= b * q
  PROVE  CeilDiv(a, b) = q
<1> DEFINE c == CeilDiv(a, b)
<1>1. c \in Nat /\ b * c - b < a /\ a <= b * c
  BY CeilIs
<1> HIDE DEF c
<1>2. ASSUME c + 1 <= q PROVE FALSE
  <2>1. b * (c + 1) <= b * q
    BY <1>1, <1>2
  <2>2. b * (c + 1) = b * c + b
    BY <1>1
  <2> QED
    BY <1>1, <2>1, <2>2
<1>3. ASSUME q + 1 <= c PROVE FALSE
  <2>1. b * (q + 1) <= b * c
    BY <1>1, <1>3
  <2>2. b * (q + 1) = b * q + b
    BY <1>1
  <2> QED
    BY <1>1, <2>1, <2>2
<1>4. c = q
  BY <1>1, <1>2, <1>3
<1> QED
  BY <1>4 DEF c

LEMMA CeilOrder ==
  ASSUME NEW a \in Nat, NEW c \in Nat, a <= c, NEW b \in Nat \ {0}
  PROVE  CeilDiv(a, b) <= CeilDiv(c, b)
<1> DEFINE p == CeilDiv(a, b)
           q == CeilDiv(c, b)
<1>1. p \in Nat /\ b * p - b < a /\ q \in Nat /\ c <= b * q
  BY CeilIs
<1> HIDE DEF p, q
<1>2. ASSUME q + 1 <= p PROVE FALSE
  <2>1. b * (q + 1) <= b * p
    BY <1>1, <1>2
  <2>2. b * (q + 1) = b * q + b
    BY <1>1
  <2> QED
    BY <1>1, <2>1, <2>2
<1>3. p <= q
  BY <1>1, <1>2
<1> QED
  BY <1>3 DEF p, q

LEMMA Halves ==
  ASSUME NEW a \in Nat
  PROVE  \E h \in Nat : /\ a \div 2 = h
                        /\ \/ a = 2 * h /\ a % 2 = 0 /\ (a + 1) \div 2 = h
                           \/ a = 2 * h + 1 /\ a % 2 = 1 /\ (a + 1) \div 2 = h + 1
<1>1. a \div 2 \in Nat
  OBVIOUS
<1>2. \/ a = 2 * (a \div 2) /\ a % 2 = 0 /\ (a + 1) \div 2 = a \div 2
      \/ a = 2 * (a \div 2) + 1 /\ a % 2 = 1 /\ (a + 1) \div 2 = a \div 2 + 1
  OBVIOUS
<1> QED
  BY <1>1, <1>2

(* A function on 1 .. n is a sequence of length n.                         *)
LEMMA SeqOf ==
  ASSUME NEW n \in Nat, NEW f, f = [k \in 1 .. n |-> f[k]]
  PROVE  f \in Seq({f[k] : k \in 1 .. n}) /\ Len(f) = n
<1> DEFINE S == {f[k] : k \in 1 .. n}
<1>1. f \in [1 .. n -> S]
  OBVIOUS
<1> HIDE DEF S
<1>2. f \in Seq(S)
  BY <1>1
<1>3. DOMAIN f = 1 .. n /\ DOMAIN f = 1 .. Len(f) /\ Len(f) \in Nat
  BY <1>1, <1>2, LenProperties
<1>4. Len(f) = n
  BY <1>3
<1> QED
  BY <1>2, <1>4 DEF S

-----------------------------------------------------------------------------
(* The kernels.                                                            *)

LEMMA LeastNumber ==
  ASSUME NEW T \in SUBSET Nat, T # {}
  PROVE  \E m \in T : \A n \in T : m <= n
<1> DEFINE R == OpToRel(<, Nat)
<1>1. IsWellFoundedOn(R, Nat)
  BY NatLessThanWellFounded
<1>2. \A x, y \in Nat : x < y => <<x, y>> \in R
  BY DEF OpToRel
<1> HIDE DEF R
<1>3. PICK x \in T : \A y \in T : ~ (<<y, x>> \in R)
  BY <1>1, WFMin
<1>4. \A y \in T : y \in Nat /\ x \in Nat
  OBVIOUS
<1>5. \A y \in T : ~(y < x)
  BY <1>2, <1>3, <1>4
<1> QED
  BY <1>4, <1>5

(* A set of numbers without gaps from 0 on is counted by its end.          *)
LEMMA CountFromZero ==
  ASSUME NEW M \in Nat, NEW S \in SUBSET (0 .. M),
         \A x \in S : \A y \in 0 .. x : y \in S
  PROVE  \E c \in Nat : Cardinality(S) = c /\ (c # 0 => c - 1 \in S)
<1> DEFINE T == {x \in Nat : x \notin S}
<1>1. M + 1 \in T /\ T \in SUBSET Nat
  OBVIOUS
<1>2. PICK c \in T : \A x \in T : c <= x
  BY <1>1, LeastNumber
<1>3. c \in Nat /\ c \notin S
  BY <1>2
<1>4. \A x \in 0 .. c - 1 : x \in S
  BY <1>2, <1>3
<1>5. \A x \in S : x \in 0 .. c - 1
  <2>1. ASSUME NEW x \in S PROVE x \in 0 .. c - 1
    <3>1. x \in Nat
      OBVIOUS
    <3>2. ~(c <= x)
      BY <1>3, <3>1
    <3> QED
      BY <1>3, <3>1, <3>2
  <2> QED
    BY <2>1
<1>6. S = 0 .. c - 1
  BY <1>4, <1>5
<1>7. Cardinality(0 .. c - 1) = IF 0 > c - 1 THEN 0 ELSE (c - 1) - 0 + 1
  BY <1>3, FS_Interval
<1>8. Cardinality(S) = c
  BY <1>3, <1>6, <1>7
<1>9. c # 0 => c - 1 \in S
  BY <1>3, <1>4
<1> QED
  BY <1>3, <1>8, <1>9

TierEnd(n, outputs, d, winLen, from, width) ==
  from + width * Cardinality({c \in 0 .. outputs \div width :
                    StripGuard(d, n, outputs, winLen, from + c * width, width)})

(* A tier ends where it began, or where its guard let the last pass end.   *)
LEMMA OneTier ==
  ASSUME NEW n \in Nat \ {0}, NEW outputs \in Nat, NEW d \in {1, 2}, NEW winLen \in Int,
         NEW from \in Nat, NEW width \in {LANES, STRIP}
  PROVE  LET end == TierEnd(n, outputs, d, winLen, from, width)
         IN  /\ end \in Nat /\ \E u \in Nat : end = from + LANES * u
             /\ end = from \/ (end <= outputs /\ (d = 2 => d * end + n - 1 <= winLen))
<1> DEFINE S == {c \in 0 .. outputs \div width : StripGuard(d, n, outputs, winLen, from + c * width, width)}
<1>1. width \in {8, 32} /\ outputs \div width \in Nat
  BY DEF LANES, STRIP
<1>2. ASSUME NEW x \in S, NEW y \in 0 .. x PROVE y \in S
  <2>1. x \in Nat /\ y \in Nat /\ y <= x /\ x \in 0 .. outputs \div width
    OBVIOUS
  <2>2. y \in 0 .. outputs \div width
    BY <1>1, <2>1
  <2>3. x * width \in Nat /\ y * width \in Nat /\ y * width <= x * width
    BY <1>1, <2>1
  <2>4. StripGuard(d, n, outputs, winLen, from + x * width, width)
    OBVIOUS
  <2> HIDE DEF S
  <2>5. StripGuard(d, n, outputs, winLen, from + y * width, width)
    BY <1>1, <2>3, <2>4 DEF StripGuard, LANES
  <2> QED
    BY <2>2, <2>5 DEF S
<1>3. S \in SUBSET (0 .. outputs \div width)
  OBVIOUS
<1>4. PICK c \in Nat : Cardinality(S) = c /\ (c # 0 => c - 1 \in S)
  <2> HIDE DEF S
  <2> QED
    BY <1>1, <1>2, <1>3, CountFromZero
<1>5. c # 0 => StripGuard(d, n, outputs, winLen, from + (c - 1) * width, width)
  BY <1>4
<1> DEFINE end == from + width * c
<1>6. end \in Nat /\ \E u \in Nat : end = from + LANES * u
  <2>1. CASE width = 8
    BY <2>1, <1>4 DEF LANES
  <2>2. CASE width = 32
    <3>1. end = from + 8 * (4 * c) /\ 4 * c \in Nat /\ end \in Nat
      BY <2>2, <1>4
    <3> QED
      BY <3>1 DEF LANES
  <2> QED
    BY <1>1, <2>1, <2>2
<1>7. end = from \/ (end <= outputs /\ (d = 2 => d * end + n - 1 <= winLen))
  <2>1. CASE c = 0
    BY <1>1, <2>1
  <2>2. CASE c # 0
    <3>1. from + (c - 1) * width = end - width /\ end - width \in Int
      BY <1>1, <1>4
    <3>2. StripGuard(d, n, outputs, winLen, end - width, width)
      BY <1>5, <2>2, <3>1
    <3> HIDE DEF end
    <3> QED
      BY <1>1, <1>6, <3>1, <3>2 DEF StripGuard, LANES
  <2> QED
    BY <2>1, <2>2
<1>8. TierEnd(n, outputs, d, winLen, from, width) = end
  BY <1>4 DEF TierEnd
<1> QED
  BY <1>6, <1>7, <1>8

(* The vector tiers stay within the outputs and, at stride 2, the window.  *)
LEMMA VectorEnd ==
  ASSUME NEW n \in Nat \ {0}, NEW outputs \in Nat, NEW d \in Nat \ {0}, NEW winLen \in Int
  PROVE  LET end == VectorOutputs(n, outputs, d, winLen)
         IN  /\ end \in Nat /\ end <= outputs /\ \E u \in Nat : end = LANES * u
             /\ end # 0 => d = 1 \/ (d = 2 /\ d * end + n - 1 <= winLen)
<1> DEFINE wide == TierEnd(n, outputs, d, winLen, 0, STRIP)
           end == TierEnd(n, outputs, d, winLen, wide, LANES)
<1>1. CASE d > 2
  <2>1. VectorOutputs(n, outputs, d, winLen) = 0
    BY <1>1 DEF VectorOutputs
  <2>2. 0 = LANES * 0
    BY DEF LANES
  <2> QED
    BY <2>1, <2>2
<1>2. CASE ~(d > 2)
  <2>1. d \in {1, 2} /\ 0 \in Nat /\ STRIP \in {LANES, STRIP} /\ LANES \in {LANES, STRIP}
    BY <1>2
  <2>2. /\ wide \in Nat /\ \E u \in Nat : wide = 0 + LANES * u
        /\ wide = 0 \/ (wide <= outputs /\ (d = 2 => d * wide + n - 1 <= winLen))
    BY <2>1, OneTier
  <2>3. VectorOutputs(n, outputs, d, winLen) = end
    BY <1>2 DEF VectorOutputs, TierEnd
  <2> HIDE DEF wide
  <2>4. /\ end \in Nat /\ \E u \in Nat : end = wide + LANES * u
        /\ end = wide \/ (end <= outputs /\ (d = 2 => d * end + n - 1 <= winLen))
    BY <2>1, <2>2, OneTier, ZenonT(60)
  <2> HIDE DEF end
  <2>5. PICK u \in Nat, v \in Nat : wide = 0 + LANES * u /\ end = wide + LANES * v
    BY <2>2, <2>4
  <2>6. end = LANES * (u + v) /\ u + v \in Nat
    BY <2>5 DEF LANES
  <2> QED
    BY <2>1, <2>2, <2>3, <2>4, <2>6
<1> QED
  BY <1>1, <1>2

(* The stride-2 shuffle keeps every other float, in order.                 *)
LEMMA EvenLanesAre ==
  ASSUME NEW win, NEW a \in Int, NEW l \in 0 .. LANES - 1
  PROVE  EvenLanes(LoadVec(win, a), LoadVec(win, a + LANES))[l] = win[a + 2 * l]
<1> DEFINE lo == LoadVec(win, a)
           hi == LoadVec(win, a + LANES)
<1>1. \A j \in 0 .. 7 : lo[j] = win[a + j] /\ hi[j] = win[(a + 8) + j]
  BY DEF LoadVec, LANES
<1>2. \A j \in 0 .. 7 : (a + 8) + j = a + (8 + j)
  OBVIOUS
<1> HIDE DEF lo, hi
<1>3. l \in 0 .. 7
  BY DEF LANES
<1>4. EvenLanes(lo, hi)[l] =
        << lo[0], lo[2], hi[0], hi[2], lo[4], lo[6], hi[4], hi[6] >>[<< 0, 1, 4, 5, 2, 3, 6, 7 >>[l + 1] + 1]
  BY DEF EvenLanes
<1>5. EvenLanes(lo, hi)[l] = win[a + 2 * l]
  <2>1. CASE l = 0
    BY <1>1, <1>4, <2>1
  <2>2. CASE l = 1
    BY <1>1, <1>4, <2>2
  <2>3. CASE l = 2
    BY <1>1, <1>4, <2>3
  <2>4. CASE l = 3
    BY <1>1, <1>4, <2>4
  <2>5. CASE l = 4
    BY <1>1, <1>2, <1>4, <2>5
  <2>6. CASE l = 5
    BY <1>1, <1>2, <1>4, <2>6
  <2>7. CASE l = 6
    BY <1>1, <1>2, <1>4, <2>7
  <2>8. CASE l = 7
    BY <1>1, <1>2, <1>4, <2>8
  <2> QED
    BY <1>3, <2>1, <2>2, <2>3, <2>4, <2>5, <2>6, <2>7, <2>8
<1> QED
  BY <1>5 DEF lo, hi

(* What tap i of n meets in output k of a vector tier.                     *)
LaneTap(win, n, d, i, k) == TapVec(win, LANES * ((k - 1) \div LANES), i, n, d)[(k - 1) % LANES]

LEMMA TapVecIs ==
  ASSUME NEW win, NEW n \in Nat \ {0}, NEW d \in {1, 2}, NEW i \in 1 .. n, NEW k \in Nat \ {0}
  PROVE  LaneTap(win, n, d, i, k) = win[d * (k - 1) + n - i]
<1> DEFINE b == LANES * ((k - 1) \div LANES)
           l == (k - 1) % LANES
<1>1. b \in Nat /\ l \in 0 .. LANES - 1 /\ l \in Nat /\ k - 1 = b + l
  BY DEF LANES
<1> HIDE DEF b, l
<1>2. CASE d = 1
  <2>1. TapVec(win, b, i, n, d) = LoadVec(win, d * b + n - i)
    BY <1>2 DEF TapVec
  <2>2. LoadVec(win, d * b + n - i)[l] = win[(d * b + n - i) + l]
    BY <1>1 DEF LoadVec
  <2>3. (d * b + n - i) + l = d * (k - 1) + n - i
    BY <1>1, <1>2
  <2> QED
    BY <2>1, <2>2, <2>3 DEF LaneTap, b, l
<1>3. CASE d = 2
  <2>1. TapVec(win, b, i, n, d) =
          EvenLanes(LoadVec(win, d * b + n - i), LoadVec(win, (d * b + n - i) + LANES))
    BY <1>3 DEF TapVec
  <2>2. d * b + n - i \in Int
    BY <1>1, <1>3
  <2>3. TapVec(win, b, i, n, d)[l] = win[(d * b + n - i) + 2 * l]
    BY <1>1, <2>1, <2>2, EvenLanesAre
  <2>4. (d * b + n - i) + 2 * l = d * (k - 1) + n - i
    BY <1>1, <1>3
  <2> QED
    BY <2>3, <2>4 DEF LaneTap, b, l
<1> QED
  BY <1>2, <1>3

(* Every tier computes the dot products of the scalar loop.                *)
LEMMA StripIs ==
  ASSUME NEW win, NEW n \in Nat \ {0}, NEW outputs \in Nat, NEW d \in Nat \ {0}, NEW winLen \in Int
  PROVE  ConvolveStrip(win, n, outputs, d, winLen) = [k \in 1 .. outputs |-> Convolve(win, d * (k - 1), n)]
<1> DEFINE V == VectorOutputs(n, outputs, d, winLen)
           Lane(k) == [i \in 1 .. n |-> LaneTap(win, n, d, i, k)]
<1>1. V \in Nat /\ (V # 0 => d \in {1, 2})
  BY VectorEnd
<1>2. ConvolveStrip(win, n, outputs, d, winLen) =
        [k \in 1 .. outputs |-> IF k > V THEN Convolve(win, d * (k - 1), n) ELSE Lane(k)]
  BY DEF ConvolveStrip, LaneTap
<1> HIDE DEF V
<1>3. ASSUME NEW k \in 1 .. outputs, ~(k > V) PROVE Lane(k) = Convolve(win, d * (k - 1), n)
  <2>1. d \in {1, 2} /\ k \in Nat \ {0}
    BY <1>1, <1>3
  <2>2. \A i \in 1 .. n : LaneTap(win, n, d, i, k) = win[d * (k - 1) + n - i]
    BY <2>1, TapVecIs, ZenonT(60)
  <2> QED
    BY <2>2 DEF Convolve
<1> HIDE DEF Lane
<1> QED
  BY <1>2, <1>3

(* So does the split window of the decimating pair.                        *)
LEMMA PairDecim2Is ==
  ASSUME NEW win, NEW n \in Nat \ {0}, NEW outputs \in Nat, NEW winLen \in Nat,
         outputs # 0 => 2 * (outputs - 1) + n <= winLen
  PROVE  ConvolvePairDecim2(win, n, outputs, winLen) = [k \in 1 .. outputs |-> Convolve(win, 2 * (k - 1), n)]
<1> DEFINE plane == SplitEvenOdd(win, winLen)
           PlaneTap(k, t) == (IF t % 2 = 0 THEN plane.even ELSE plane.odd)[k + t \div 2]
           V == LANES * (outputs \div LANES)
<1>1. ConvolvePairDecim2(win, n, outputs, winLen) =
        [k \in 1 .. outputs |-> IF k > V THEN Convolve(win, 2 * (k - 1), n)
                                ELSE [i \in 1 .. n |-> PlaneTap(k - 1, n - i)]]
  BY DEF ConvolvePairDecim2
<1>2. ASSUME NEW k \in 1 .. outputs, NEW i \in 1 .. n PROVE PlaneTap(k - 1, n - i) = win[2 * (k - 1) + n - i]
  <2> DEFINE t == n - i
  <2>1. t \in Nat /\ 2 * (k - 1) + t < winLen /\ 2 * (k - 1) + n - i = 2 * (k - 1) + t
    OBVIOUS
  <2> HIDE DEF t
  <2>2. PICK h \in Nat : t \div 2 = h /\ ((t = 2 * h /\ t % 2 = 0) \/ (t = 2 * h + 1 /\ t % 2 = 1))
    BY <2>1, Halves
  <2>3. (k - 1) + h \in 0 .. winLen \div 2
    BY <2>1, <2>2
  <2>4. CASE t = 2 * h /\ t % 2 = 0
    <3>1. plane.even[(k - 1) + h] = win[2 * ((k - 1) + h)]
      BY <2>1, <2>3, <2>4 DEF SplitEvenOdd
    <3> QED
      BY <2>1, <2>2, <2>4, <3>1 DEF t
  <2>5. CASE t = 2 * h + 1 /\ t % 2 = 1
    <3>1. plane.odd[(k - 1) + h] = win[2 * ((k - 1) + h) + 1]
      BY <2>1, <2>3, <2>5 DEF SplitEvenOdd
    <3> QED
      BY <2>1, <2>2, <2>5, <3>1 DEF t
  <2> QED
    BY <2>2, <2>4, <2>5
<1> HIDE DEF PlaneTap, V
<1>3. \A k \in 1 .. outputs : [i \in 1 .. n |-> PlaneTap(k - 1, n - i)] = Convolve(win, 2 * (k - 1), n)
  BY <1>2 DEF Convolve
<1> QED
  BY <1>1, <1>3

(* No tier loads past a window that holds the last output's taps.          *)
LEMMA LoadsInside ==
  ASSUME NEW n \in Nat \ {0}, NEW outputs \in Nat \ {0}, NEW d \in Nat \ {0}, NEW winLen \in Int,
         d * (outputs - 1) + n <= winLen,
         NEW v \in {0, VectorOutputs(n, outputs, d, winLen)}
  PROVE  LoadEnd(n, outputs, d, v) <= winLen
<1>1. /\ v \in Nat /\ v <= outputs
      /\ v # 0 => d = 1 \/ (d = 2 /\ d * v + n - 1 <= winLen)
  <2>1. CASE v = 0
    BY <2>1
  <2>2. CASE v = VectorOutputs(n, outputs, d, winLen)
    <3>1. outputs \in Nat
      OBVIOUS
    <3> QED
      BY <2>2, <3>1, VectorEnd, ZenonT(60)
  <2> QED
    BY <2>1, <2>2
<1>2. n <= winLen
  <2>1. d * (outputs - 1) \in Nat
    OBVIOUS
  <2> QED
    BY <2>1
<1>3. ASSUME v # 0 PROVE d * (v - LANES) + n - 1 + d * LANES <= winLen
  <2>1. CASE d = 1
    BY <1>1, <2>1 DEF LANES
  <2>2. CASE d = 2
    BY <1>1, <1>3, <2>2 DEF LANES
  <2> QED
    BY <1>1, <1>3, <2>1, <2>2
<1> QED
  BY <1>2, <1>3 DEF LoadEnd

-----------------------------------------------------------------------------
(* The streaming filter.                                                   *)

(* Outputs from + 1 .. to of the filter over the stream A.                 *)
Outputs(A, n, d, from, to) == [k \in 1 .. to - from |-> Reference(A, n, d, from + k - 1)]

(* The phase is what the outputs made reach beyond the samples read, and a *)
(* block makes the outputs that are then due.                              *)
LEMMA Schedule ==
  ASSUME NEW p \in Nat, NEW m \in Nat, NEW d \in Nat \ {0}
  PROVE  LET phase == CeilDiv(p, d) * d - p
             outputs == IF m > phase THEN CeilDiv(m - phase, d) ELSE 0
         IN  /\ phase \in 0 .. d - 1 /\ outputs \in Nat
             /\ CeilDiv(p + m, d) = CeilDiv(p, d) + outputs
             /\ outputs # 0 => d * (outputs - 1) < m - phase
             /\ outputs <= CeilDiv(m, d)
<1> DEFINE e == CeilDiv(p, d)
           phase == CeilDiv(p, d) * d - p
           c == CeilDiv(m - phase, d)
           outputs == IF m > phase THEN c ELSE 0
<1>1. e \in Nat /\ d * e - d < p /\ p <= d * e
  BY CeilIs
<1>2. phase = d * e - p /\ phase \in 0 .. d - 1 /\ phase \in Nat
  BY <1>1
<1> HIDE DEF e, phase
<1>3. CASE m > phase
  <2>1. m - phase \in Nat
    BY <1>2, <1>3
  <2>2. c \in Nat /\ d * c - d < m - phase /\ m - phase <= d * c /\ c <= CeilDiv(m, d)
    BY <1>2, <2>1, CeilIs, CeilOrder
  <2>3. outputs = c
    BY <1>3
  <2> HIDE DEF c, outputs
  <2>4. d * (e + c) = d * e + d * c /\ d * (c - 1) = d * c - d
    BY <1>1, <2>2
  <2>5. CeilDiv(p + m, d) = e + c
    <3>1. d * (e + c) - d < p + m /\ p + m <= d * (e + c)
      BY <1>1, <1>2, <2>2, <2>4
    <3>2. p + m \in Nat /\ e + c \in Nat
      BY <1>1, <2>2
    <3> QED
      BY <3>1, <3>2, CeilUnique
  <2> QED
    BY <1>2, <2>2, <2>3, <2>4, <2>5 DEF e, phase, outputs, c
<1>4. CASE ~(m > phase)
  <2>1. outputs = 0
    BY <1>4
  <2>2. CeilDiv(p + m, d) = e
    <3>1. d * e - d < p + m /\ p + m <= d * e /\ p + m \in Nat
      BY <1>1, <1>2, <1>4
    <3> QED
      BY <1>1, <3>1, CeilUnique
  <2>3. CeilDiv(m, d) \in Nat
    BY CeilIs
  <2> HIDE DEF outputs
  <2> QED
    BY <1>1, <1>2, <2>1, <2>2, <2>3 DEF e, phase, outputs, c
<1> QED
  BY <1>3, <1>4

LEMMA FirStart ==
  ASSUME NEW A, NEW n \in Nat \ {0}, NEW d \in Nat \ {0}, NEW cap \in Nat
  PROVE  FirInit(n, d, cap) = FirAfter(A, n, d, cap, 0)
<1>1. CeilDiv(0, d) = 0
  BY CeilUnique
<1>2. \A k \in 0 .. n - 2 : At(A, 0 - (n - 1) + k) = Silence
  BY DEF At
<1>3. [k \in 0 .. n - 2 |-> Silence] = [k \in 0 .. n - 2 |-> At(A, 0 - (n - 1) + k)]
  BY <1>2
<1>4. CeilDiv(0, d) * d - 0 = 0
  BY <1>1
<1> QED
  BY <1>3, <1>4 DEF FirInit, FirAfter

(* What process() finds in its window: the samples before the block's end. *)
LEMMA WindowIs ==
  ASSUME NEW A, NEW n \in Nat \ {0}, NEW d \in Nat \ {0}, NEW cap \in Nat, NEW p \in Nat, NEW m \in Nat,
         NEW in, Len(in) = m, Continues(A, p, in)
  PROVE  \A j \in 0 .. n - 2 + m : Window(FirAfter(A, n, d, cap, p), in)[j] = At(A, p - (n - 1) + j)
<1> SUFFICES ASSUME NEW j \in 0 .. n - 2 + m
             PROVE  Window(FirAfter(A, n, d, cap, p), in)[j] = At(A, p - (n - 1) + j)
  OBVIOUS
<1> DEFINE f == FirAfter(A, n, d, cap, p)
<1>1. f.n = n /\ f.hist = [k \in 0 .. n - 2 |-> At(A, p - (n - 1) + k)]
  BY DEF FirAfter
<1> HIDE DEF f
<1>2. Window(f, in)[j] = IF j < n - 1 THEN f.hist[j] ELSE in[j - n + 2]
  BY <1>1 DEF Window
<1>3. CASE j < n - 1
  <2>1. j \in 0 .. n - 2
    BY <1>3
  <2> QED
    BY <1>1, <1>2, <1>3, <2>1 DEF f
<1>4. CASE ~(j < n - 1)
  <2>1. j - n + 2 \in 1 .. m
    BY <1>4
  <2>2. in[j - n + 2] = A[p + (j - n + 2) - 1]
    BY <2>1 DEF Continues
  <2>3. p + (j - n + 2) - 1 = p - (n - 1) + j /\ ~(p - (n - 1) + j < 0)
    BY <1>4
  <2> QED
    BY <1>2, <1>4, <2>2, <2>3 DEF At, f
<1> QED
  BY <1>3, <1>4

(* A block takes the filter further along its stream: it                   *)
(* yields the outputs due, each the dot product the whole stream gives,    *)
(* and it stays in every buffer.                                           *)
LEMMA FirBlock ==
  ASSUME NEW A, NEW n \in Nat \ {0}, NEW d \in Nat \ {0}, NEW cap \in Nat, NEW p \in Nat,
         NEW in, Len(in) \in 0 .. cap, Continues(A, p, in),
         NEW kind \in {"one", "pair"}
  PROVE  FirProcess(FirAfter(A, n, d, cap, p), in, kind) =
           [f |-> FirAfter(A, n, d, cap, p + Len(in)),
            out |-> Outputs(A, n, d, CeilDiv(p, d), CeilDiv(p + Len(in), d)),
            fits |-> TRUE, inside |-> TRUE]
<1> DEFINE m == Len(in)
           f == FirAfter(A, n, d, cap, p)
           e == CeilDiv(p, d)
           phase == CeilDiv(p, d) * d - p
           outputs == IF m > phase THEN CeilDiv(m - phase, d) ELSE 0
           carry == n - 1
           win == Window(f, in)
           winLen == carry + m - phase
           w == [k \in 0 .. winLen - 1 |-> win[phase + k]]
           shuffled == kind = "one" \/ d # 2
           vectored == IF shuffled /\ (kind = "one" \/ d = 1) THEN VectorOutputs(n, outputs, d, winLen) ELSE 0
           inside == outputs = 0 \/ LoadEnd(n, outputs, d, vectored) <= winLen
           fits == /\ carry + m <= f.windowCap /\ outputs <= f.outCap
                   /\ ~shuffled => winLen \div 2 + 1 <= f.planeCap
           dots == CASE kind = "one"              -> ConvolveStrip(w, n, outputs, d, winLen)
                     [] kind = "pair" /\ shuffled -> ConvolveStripPair(w, n, outputs, d, winLen)
                     [] OTHER                     -> ConvolvePairDecim2(w, n, outputs, winLen)
<1>1. /\ f.n = n /\ f.d = d /\ f.phase = phase /\ f.windowCap = n - 1 + cap
      /\ f.outCap = CeilDiv(cap, d) /\ f.planeCap = (n - 1 + cap) \div 2 + 1
  BY DEF FirAfter
<1>2. m \in Nat /\ m <= cap /\ Len(in) = m
  OBVIOUS
<1>3. /\ phase \in 0 .. d - 1 /\ outputs \in Nat
      /\ CeilDiv(p + m, d) = e + outputs
      /\ outputs # 0 => d * (outputs - 1) < m - phase
      /\ outputs <= CeilDiv(m, d)
  BY <1>2, Schedule
<1>4. e \in Nat /\ phase = d * e - p
  BY CeilIs
<1>5. CeilDiv(m, d) \in Nat /\ CeilDiv(cap, d) \in Nat /\ CeilDiv(m, d) <= CeilDiv(cap, d)
  BY <1>2, CeilIs, CeilOrder
<1>6. FirOutputs(f, m) = outputs
  BY <1>1 DEF FirOutputs
<1>7. FirProcess(f, in, kind) =
        IF m = 0 THEN [f |-> f, out |-> << >>, fits |-> TRUE, inside |-> TRUE]
        ELSE IF ~fits \/ ~inside THEN [f |-> f, out |-> << >>, fits |-> fits, inside |-> inside]
        ELSE [f |-> FirAdvance(f, win, m), out |-> dots, fits |-> TRUE, inside |-> TRUE]
  BY <1>1, <1>6 DEF FirProcess
<1> HIDE DEF m
<1>10. \A j \in 0 .. n - 2 + m : win[j] = At(A, p - (n - 1) + j)
  BY <1>2, WindowIs
<1> HIDE DEF f, e, phase, outputs, win, dots, fits, inside
<1>8. CASE m = 0
  <2>1. outputs = 0 /\ CeilDiv(p + m, d) = e /\ p + m = p
    BY <1>3, <1>4, <1>8 DEF outputs, phase
  <2>2. Outputs(A, n, d, e, e) = << >>
    BY <1>4 DEF Outputs
  <2> QED
    BY <1>7, <1>8, <2>1, <2>2 DEF f, e, m
<1>9. CASE m # 0
  <2>1. winLen \in Int /\ phase \in Nat /\ phase < d /\ winLen <= n - 1 + cap
    BY <1>2, <1>3
  <2>2. outputs # 0 => d * (outputs - 1) + n <= winLen
    <3>1. ASSUME outputs # 0 PROVE d * (outputs - 1) \in Nat
      BY <1>3, <3>1
    <3> QED
      BY <1>2, <1>3, <2>1, <3>1
  <2>3. fits
    <3>1. ASSUME ~shuffled PROVE winLen \div 2 + 1 <= (n - 1 + cap) \div 2 + 1
      <4>1. winLen \in Nat
        BY <1>2, <1>9, <2>1, <3>1
      <4> QED
        BY <2>1, <4>1
    <3>2. carry + m <= n - 1 + cap /\ outputs <= CeilDiv(cap, d)
      BY <1>2, <1>3, <1>5
    <3> QED
      BY <1>1, <3>1, <3>2 DEF fits
  <2>4. inside
    <3>1. CASE outputs = 0
      BY <3>1 DEF inside
    <3>2. CASE outputs # 0
      <4>1. vectored \in {0, VectorOutputs(n, outputs, d, winLen)} /\ outputs \in Nat \ {0}
        BY <1>3, <3>2
      <4> HIDE DEF winLen, vectored
      <4>2. LoadEnd(n, outputs, d, vectored) <= winLen
        BY <2>1, <2>2, <3>2, <4>1, LoadsInside
      <4> QED
        BY <4>2 DEF inside, vectored, winLen
    <3> QED
      BY <3>1, <3>2
  <2>5. FirProcess(f, in, kind) = [f |-> FirAdvance(f, win, m), out |-> dots, fits |-> TRUE, inside |-> TRUE]
    BY <1>7, <1>9, <2>3, <2>4
  <2>6. FirAdvance(f, win, m) = FirAfter(A, n, d, cap, p + m)
    <3>1. FirAdvance(f, win, m) = [f EXCEPT !.phase = phase + outputs * d - m, !.hist = [k \in 0 .. n - 2 |-> win[m + k]]]
      BY <1>1, <1>6 DEF FirAdvance
    <3>2. phase + outputs * d - m = CeilDiv(p + m, d) * d - (p + m)
      <4>1. (e + outputs) * d = d * e + outputs * d
        BY <1>3, <1>4
      <4> QED
        BY <1>2, <1>3, <1>4, <4>1
    <3>3. ASSUME NEW k \in 0 .. n - 2 PROVE win[m + k] = At(A, (p + m) - (n - 1) + k)
      <4>1. m + k \in 0 .. n - 2 + m
        BY <1>2
      <4>2. win[m + k] = At(A, p - (n - 1) + (m + k))
        BY <4>1, <1>10
      <4>3. p - (n - 1) + (m + k) = (p + m) - (n - 1) + k
        BY <1>2
      <4> QED
        BY <4>2, <4>3
    <3>4. [k \in 0 .. n - 2 |-> win[m + k]] = [k \in 0 .. n - 2 |-> At(A, (p + m) - (n - 1) + k)]
      BY <3>3
    <3>5. f = [n |-> n, d |-> d, hist |-> f.hist, phase |-> phase, windowCap |-> f.windowCap,
               outCap |-> f.outCap, planeCap |-> f.planeCap]
      BY <1>1 DEF f, FirAfter
    <3> QED
      BY <1>1, <3>1, <3>2, <3>4, <3>5 DEF FirAfter
  <2>7. dots = [k \in 1 .. outputs |-> Convolve(w, d * (k - 1), n)]
    <3> HIDE DEF w, winLen
    <3>1. CASE kind = "one"
      <4>1. ConvolveStrip(w, n, outputs, d, winLen) = [k \in 1 .. outputs |-> Convolve(w, d * (k - 1), n)]
        BY <1>3, <2>1, StripIs
      <4> QED
        BY <3>1, <4>1 DEF dots
    <3>2. CASE kind = "pair" /\ d # 2
      <4>1. ConvolveStrip(w, n, outputs, d, winLen) = [k \in 1 .. outputs |-> Convolve(w, d * (k - 1), n)]
        BY <1>3, <2>1, StripIs
      <4> QED
        BY <3>2, <4>1 DEF dots, ConvolveStripPair
    <3>3. CASE kind = "pair" /\ d = 2
      <4>1. winLen \in Nat
        BY <1>2, <1>9, <2>1, <3>3 DEF winLen
      <4>2. outputs # 0 => 2 * (outputs - 1) + n <= winLen
        BY <2>2, <3>3
      <4>3. ConvolvePairDecim2(w, n, outputs, winLen) = [k \in 1 .. outputs |-> Convolve(w, 2 * (k - 1), n)]
        BY <1>3, <4>1, <4>2, PairDecim2Is
      <4> QED
        BY <3>3, <4>3 DEF dots
    <3> QED
      BY <3>1, <3>2, <3>3
  <2>8. ASSUME NEW k \in 1 .. outputs PROVE Convolve(w, d * (k - 1), n) = Reference(A, n, d, e + k - 1)
    <3>1. ASSUME NEW i \in 1 .. n PROVE w[d * (k - 1) + n - i] = At(A, d * (e + k - 1) - (i - 1))
      <4> DEFINE j == d * (k - 1) + n - i
      <4>1. d * (k - 1) \in Nat /\ d * (k - 1) <= d * (outputs - 1)
        BY <1>3
      <4>2. j \in 0 .. winLen - 1 /\ j \in Nat /\ phase + j \in 0 .. n - 2 + m
        <5>1. outputs # 0 /\ d * (outputs - 1) \in Nat
          BY <1>3
        <5>2. d * (k - 1) + n <= carry + m - phase
          BY <1>2, <2>1, <2>2, <4>1, <5>1
        <5> QED
          BY <1>2, <2>1, <4>1, <5>2
      <4>3. w[j] = win[phase + j]
        BY <4>2
      <4>4. win[phase + j] = At(A, p - (n - 1) + (phase + j))
        BY <4>2, <1>10
      <4>5. d * (e + k - 1) = d * e + d * (k - 1)
        BY <1>3, <1>4
      <4>6. p - (n - 1) + (phase + j) = d * (e + k - 1) - (i - 1)
        BY <1>4, <4>1, <4>5
      <4> QED
        BY <4>3, <4>4, <4>6
    <3> HIDE DEF w
    <3> QED
      BY <3>1 DEF Convolve, Reference
  <2>9. dots = Outputs(A, n, d, e, CeilDiv(p + m, d))
    <3>1. CeilDiv(p + m, d) - e = outputs
      BY <1>3, <1>4
    <3> HIDE DEF w
    <3> QED
      BY <2>7, <2>8, <3>1 DEF Outputs
  <2> QED
    BY <2>5, <2>6, <2>9 DEF f, e, m
<1> QED
  BY <1>8, <1>9

LEMMA Due ==
  ASSUME NEW p \in Nat, NEW cap \in Nat, NEW m \in 0 .. cap, NEW d \in Nat \ {0}
  PROVE  /\ CeilDiv(p, d) \in Nat /\ CeilDiv(p + m, d) \in Nat /\ CeilDiv(p, d) <= CeilDiv(p + m, d)
         /\ CeilDiv(cap, d) \in Nat /\ CeilDiv(p + m, d) - CeilDiv(p, d) <= CeilDiv(cap, d)
<1> DEFINE phase == CeilDiv(p, d) * d - p
           outputs == IF m > phase THEN CeilDiv(m - phase, d) ELSE 0
<1>1. m \in Nat /\ m <= cap
  OBVIOUS
<1>2. outputs \in Nat /\ CeilDiv(p + m, d) = CeilDiv(p, d) + outputs /\ outputs <= CeilDiv(m, d)
  BY <1>1, Schedule, ZenonT(60)
<1>3. CeilDiv(p, d) \in Nat /\ CeilDiv(m, d) \in Nat /\ CeilDiv(cap, d) \in Nat /\ CeilDiv(m, d) <= CeilDiv(cap, d)
  BY <1>1, CeilIs, CeilOrder
<1> HIDE DEF outputs
<1> QED
  BY <1>2, <1>3

LEMMA OutputsAre ==
  ASSUME NEW A, NEW n, NEW d, NEW from \in Nat, NEW to \in Nat, from <= to
  PROVE  /\ Len(Outputs(A, n, d, from, to)) = to - from
         /\ \A k \in 1 .. to - from : Outputs(A, n, d, from, to)[k] = Reference(A, n, d, from + k - 1)
<1> DEFINE o == Outputs(A, n, d, from, to)
<1>1. to - from \in Nat /\ o = [k \in 1 .. to - from |-> o[k]]
  BY DEF Outputs
<1>2. \A k \in 1 .. to - from : o[k] = Reference(A, n, d, from + k - 1)
  BY DEF Outputs
<1> HIDE DEF o
<1>3. Len(o) = to - from
  BY <1>1, SeqOf
<1> QED
  BY <1>2, <1>3 DEF o

-----------------------------------------------------------------------------
(* The chains.                                                             *)

(* The recording's samples, and the block of m of them after the first p.  *)
SampleStream == [k \in Nat |-> Sample(k)]
Block(p, m) == [k \in 1 .. m |-> << p + k - 1 >>]

LEMMA BlockIs ==
  ASSUME NEW p \in Nat, NEW m \in Nat
  PROVE  Len(Block(p, m)) = m /\ Continues(SampleStream, p, Block(p, m))
<1> DEFINE b == Block(p, m)
<1>1. b = [k \in 1 .. m |-> b[k]] /\ \A k \in 1 .. m : b[k] = << p + k - 1 >>
  BY DEF Block
<1> HIDE DEF b
<1>2. Len(b) = m
  BY <1>1, SeqOf
<1>3. \A k \in 1 .. m : SampleStream[p + k - 1] = << p + k - 1 >>
  BY DEF SampleStream, Sample
<1> QED
  BY <1>1, <1>2, <1>3 DEF b, Continues

(* VisionIf after p samples, for decimation d and blocks of up to c.        *)
SawAfter(d, c, p) ==
  [chain |-> "saw", pair |-> FirAfter(SampleStream, IfTaps, d, c, p),
   tank |-> IF cfg.detector = "quasi_sync" THEN CeilDiv(p, d) ELSE 0,
   cap |-> CeilDiv(c, d)]

SawSample(d, j) ==
  IF cfg.detector = "quasi_sync" THEN << Reference(SampleStream, IfTaps, d, j), j + 1 >>
  ELSE << Reference(SampleStream, IfTaps, d, j) >>

LEMMA SawBlock ==
  ASSUME NEW d \in Nat \ {0}, NEW c \in Nat, NEW p \in Nat, NEW m \in 0 .. c
  PROVE  SawProcess(SawAfter(d, c, p), Block(p, m)) =
           [fits |-> TRUE, inside |-> TRUE, st |-> SawAfter(d, c, p + m),
            out |-> [k \in 1 .. CeilDiv(p + m, d) - CeilDiv(p, d) |-> SawSample(d, CeilDiv(p, d) + k - 1)]]
<1> DEFINE a == CeilDiv(p, d)
           b == CeilDiv(p + m, d)
           qs == cfg.detector = "quasi_sync"
           in == Block(p, m)
           before == FirAfter(SampleStream, IfTaps, d, c, p)
           after == FirAfter(SampleStream, IfTaps, d, c, p + m)
           cap == CeilDiv(c, d)
           tank == IF qs THEN a ELSE 0
           f == [chain |-> "saw", pair |-> before, tank |-> tank, cap |-> cap]
           o == Outputs(SampleStream, IfTaps, d, a, b)
           y == [f |-> after, out |-> o, fits |-> TRUE, inside |-> TRUE]
           got == [k \in 1 .. b - a |-> IF qs THEN << o[k], tank + k >> ELSE << o[k] >>]
<1>1. m \in Nat /\ IfTaps \in Nat \ {0}
  BY TapsAssumption
<1>2. SawAfter(d, c, p) = f
  BY DEF SawAfter
<1>3. Len(in) = m /\ Len(in) \in 0 .. c /\ Continues(SampleStream, p, in)
  BY <1>1, BlockIs
<1>4. a \in Nat /\ b \in Nat /\ a <= b /\ b - a <= cap
  BY Due
<1>5. SawAfter(d, c, p + m) = [chain |-> "saw", pair |-> after, tank |-> IF qs THEN b ELSE 0, cap |-> cap]
  BY DEF SawAfter
<1>6. FirProcess(before, in, "pair") = y
  <2> HIDE DEF in
  <2>1. FirProcess(FirAfter(SampleStream, IfTaps, d, c, p), in, "pair") =
          [f |-> FirAfter(SampleStream, IfTaps, d, c, p + Len(in)),
           out |-> Outputs(SampleStream, IfTaps, d, CeilDiv(p, d), CeilDiv(p + Len(in), d)),
           fits |-> TRUE, inside |-> TRUE]
    BY <1>1, <1>3, FirBlock
  <2> QED
    BY <1>3, <2>1
<1> HIDE DEF a, b, before, after, cap, o, qs, in
<1>7. Len(o) = b - a
  BY <1>4, OutputsAre DEF o
<1>8. \A k \in 1 .. b - a : o[k] = Reference(SampleStream, IfTaps, d, a + k - 1)
  BY <1>4 DEF o, Outputs
<1> DEFINE z == IF qs THEN tank + (b - a) ELSE tank
<1>9. SawProcess(f, in) =
        [fits |-> TRUE /\ b - a <= cap, inside |-> TRUE,
         st |-> [chain |-> "saw", pair |-> after, tank |-> z, cap |-> cap], out |-> got]
  <2>1. f.pair = before /\ f.cap = cap /\ f.tank = tank
    OBVIOUS
  <2>2. y.fits = TRUE /\ y.inside = TRUE /\ y.f = after /\ y.out = o
    OBVIOUS
  <2>3. [f EXCEPT !.pair = after, !.tank = z] = [chain |-> "saw", pair |-> after, tank |-> z, cap |-> cap]
    <3>1. f = [chain |-> "saw", pair |-> before, tank |-> tank, cap |-> cap]
      OBVIOUS
    <3> HIDE DEF f, tank, z
    <3> QED
      <4>1. PICK g : g = [f EXCEPT !.pair = after]
        OBVIOUS
      <4>2. [f EXCEPT !.pair = after, !.tank = z] = [g EXCEPT !.tank = z]
        BY <4>1, Zenon
      <4>3. g = [chain |-> "saw", pair |-> after, tank |-> tank, cap |-> cap]
        BY <3>1, <4>1
      <4>4. [g EXCEPT !.tank = z] = [chain |-> "saw", pair |-> after, tank |-> z, cap |-> cap]
        BY <4>3
      <4> QED
        BY <4>2, <4>4
  <2> HIDE DEF y, f, tank
  <2>4. SawProcess(f, in) =
          [fits |-> y.fits /\ Len(y.out) <= f.cap, inside |-> y.inside,
           st |-> [f EXCEPT !.pair = y.f, !.tank = IF qs THEN f.tank + Len(y.out) ELSE f.tank],
           out |-> [k \in 1 .. Len(y.out) |-> IF qs THEN << y.out[k], f.tank + k >> ELSE << y.out[k] >>]]
    BY <1>6, <2>1 DEF SawProcess, qs
  <2>5. @ = [fits |-> TRUE /\ b - a <= cap, inside |-> TRUE,
             st |-> [f EXCEPT !.pair = after, !.tank = z], out |-> got]
    BY <1>7, <2>1, <2>2
  <2> HIDE DEF z, got
  <2> QED
    BY <2>3, <2>4, <2>5
<1>10. got = [k \in 1 .. b - a |-> SawSample(d, a + k - 1)]
  <2>1. \A k \in 1 .. b - a : (a + k - 1) + 1 = a + k
    BY <1>4
  <2> QED
    BY <1>8, <2>1 DEF SawSample, qs
<1>11. z = (IF qs THEN b ELSE 0) /\ (TRUE /\ b - a <= cap) = TRUE
  BY <1>4
<1> HIDE DEF f, got, z
<1> QED
  BY <1>2, <1>5, <1>9, <1>10, <1>11 DEF a, b, in

(* CompositeInput, with or without its filter, after p samples.            *)
CompositeAfter(d, c, p) ==
  [chain |-> "composite", filtered |-> Filtered,
   lp |-> FirAfter(SampleStream, VisionTaps, d, c, IF Filtered THEN p ELSE 0),
   tip |-> CeilDiv(p, d), cap |-> IF Filtered THEN CeilDiv(c, d) ELSE c]

CompositeSample(d, j) ==
  << IF Filtered THEN Reference(SampleStream, VisionTaps, d, j) ELSE Sample(j), j + 1 >>

LEMMA OddLength == VisionTaps \in Nat \ {0} /\ (VisionTaps - 1) \div 2 \in Nat /\ (VisionTaps + 1) \div 2 \in Nat \ {0}
<1>1. VisionTaps \in Nat /\ VisionTaps % 4 = 3
  BY TapsAssumption
<1>2. VisionTaps # 0
  BY <1>1
<1> QED
  BY <1>1, <1>2

LEMMA CompositeBlock ==
  ASSUME NEW d \in Nat \ {0}, NEW c \in Nat, NEW p \in Nat, NEW m \in 0 .. c, Filtered \/ d = 1
  PROVE  CompositeProcess(CompositeAfter(d, c, p), Block(p, m)) =
           [fits |-> TRUE, inside |-> TRUE, st |-> CompositeAfter(d, c, p + m),
            out |-> [k \in 1 .. CeilDiv(p + m, d) - CeilDiv(p, d) |-> CompositeSample(d, CeilDiv(p, d) + k - 1)]]
<1> DEFINE a == CeilDiv(p, d)
           b == CeilDiv(p + m, d)
           in == Block(p, m)
           before == FirAfter(SampleStream, VisionTaps, d, c, IF Filtered THEN p ELSE 0)
           after == FirAfter(SampleStream, VisionTaps, d, c, IF Filtered THEN p + m ELSE 0)
           cap == IF Filtered THEN CeilDiv(c, d) ELSE c
           f == [chain |-> "composite", filtered |-> Filtered, lp |-> before, tip |-> a, cap |-> cap]
           x == IF Filtered THEN Outputs(SampleStream, VisionTaps, d, a, b) ELSE in
           y == [f |-> after, fits |-> TRUE, inside |-> TRUE]
           got == [k \in 1 .. b - a |-> << x[k], a + k >>]
<1>1. m \in Nat /\ m <= c /\ VisionTaps \in Nat \ {0}
  BY OddLength
<1>2. CompositeAfter(d, c, p) = f
  BY DEF CompositeAfter
<1>3. Len(in) = m /\ Len(in) \in 0 .. c /\ Continues(SampleStream, p, in)
  BY <1>1, BlockIs
<1>4. \A k \in 1 .. m : in[k] = << p + k - 1 >>
  BY DEF Block
<1>5. a \in Nat /\ b \in Nat /\ a <= b /\ b - a <= CeilDiv(c, d)
  BY Due
<1>6. ~Filtered => a = p /\ b = p + m
  <2>1. d = 1 => CeilDiv(p, d) = p /\ CeilDiv(p + m, d) = p + m
    BY <1>1 DEF CeilDiv
  <2> QED
    BY <2>1
<1>7. CompositeAfter(d, c, p + m) = [chain |-> "composite", filtered |-> Filtered, lp |-> after, tip |-> b, cap |-> cap]
  BY DEF CompositeAfter
<1>8. Filtered => FirProcess(before, in, "one") =
                    [f |-> after, out |-> x, fits |-> TRUE, inside |-> TRUE]
  <2>1. FirProcess(FirAfter(SampleStream, VisionTaps, d, c, p), in, "one") =
          [f |-> FirAfter(SampleStream, VisionTaps, d, c, p + Len(in)),
           out |-> Outputs(SampleStream, VisionTaps, d, CeilDiv(p, d), CeilDiv(p + Len(in), d)),
           fits |-> TRUE, inside |-> TRUE]
    <3> HIDE DEF in
    <3> QED
      BY <1>1, <1>3, FirBlock
  <2> HIDE DEF in
  <2> QED
    BY <1>3, <2>1
<1>9. Len(x) = b - a
  <2>1. CASE Filtered
    BY <1>5, <2>1, OutputsAre
  <2>2. CASE ~Filtered
    BY <1>1, <1>3, <1>6, <2>2
  <2> QED
    BY <2>1, <2>2
<1>10. \A k \in 1 .. b - a : << x[k], a + k >> = CompositeSample(d, a + k - 1)
  <2>1. \A k \in 1 .. b - a : (a + k - 1) + 1 = a + k
    BY <1>5
  <2> HIDE DEF a, b
  <2>2. CASE Filtered
    BY <1>5, <2>1, <2>2 DEF CompositeSample, Outputs
  <2>3. CASE ~Filtered
    <3>1. ASSUME NEW k \in 1 .. b - a PROVE x[k] = Sample(a + k - 1)
      BY <1>1, <1>4, <1>6, <2>3 DEF Sample
    <3> QED
      BY <2>1, <2>3, <3>1 DEF CompositeSample
  <2> QED
    BY <2>2, <2>3
<1>11. a + (b - a) = b /\ (TRUE /\ b - a <= cap) = TRUE
  BY <1>1, <1>5, <1>6
<1> HIDE DEF a, b, before, after, cap, x, in
<1>12. CompositeProcess(f, in) =
        [fits |-> TRUE /\ b - a <= cap, inside |-> TRUE,
         st |-> [chain |-> "composite", filtered |-> Filtered, lp |-> after, tip |-> b, cap |-> cap], out |-> got]
  <2>1. f.lp = before /\ f.cap = cap /\ f.tip = a /\ f.filtered = Filtered
    OBVIOUS
  <2>2. y.fits = TRUE /\ y.inside = TRUE /\ y.f = after
    OBVIOUS
  <2>3. [f EXCEPT !.lp = after, !.tip = b]
          = [chain |-> "composite", filtered |-> Filtered, lp |-> after, tip |-> b, cap |-> cap]
    <3>1. f = [chain |-> "composite", filtered |-> Filtered, lp |-> before, tip |-> a, cap |-> cap]
      OBVIOUS
    <3> HIDE DEF f
    <3>2. PICK g : g = [f EXCEPT !.lp = after]
      OBVIOUS
    <3>3. [f EXCEPT !.lp = after, !.tip = b] = [g EXCEPT !.tip = b]
      BY <3>2, Zenon
    <3>4. g = [chain |-> "composite", filtered |-> Filtered, lp |-> after, tip |-> a, cap |-> cap]
      BY <3>1, <3>2
    <3>5. [g EXCEPT !.tip = b] = [chain |-> "composite", filtered |-> Filtered, lp |-> after, tip |-> b, cap |-> cap]
      BY <3>4
    <3> QED
      BY <3>3, <3>5
  <2> DEFINE done == [fits |-> y.fits /\ Len(x) <= f.cap, inside |-> y.inside,
                      st |-> [f EXCEPT !.lp = y.f, !.tip = f.tip + Len(x)],
                      out |-> [k \in 1 .. Len(x) |-> << x[k], f.tip + k >>]]
  <2>4. CompositeProcess(f, in) = done
    <3>1. CASE Filtered
      <4>1. FirProcess(f.lp, in, "one") = [f |-> after, out |-> x, fits |-> TRUE, inside |-> TRUE]
        BY <1>8, <2>1, <3>1
      <4>2. f.filtered
        BY <3>1
      <4> DEFINE lp == [f |-> after, out |-> x, fits |-> TRUE, inside |-> TRUE]
      <4>3. lp.f = y.f /\ lp.out = x /\ lp.fits = y.fits /\ lp.inside = y.inside
        OBVIOUS
      <4> HIDE DEF f, lp, y
      <4>4. FirProcess(f.lp, in, "one") = lp
        BY <4>1 DEF lp
      <4> QED
        BY <4>2, <4>3, <4>4 DEF CompositeProcess
    <3>2. CASE ~Filtered
      <4>1. x = in /\ after = before
        BY <3>2 DEF x, after, before
      <4> HIDE DEF f
      <4> QED
        BY <2>1, <3>2, <4>1 DEF CompositeProcess
    <3> QED
      BY <3>1, <3>2
  <2> HIDE DEF y, f
  <2>5. done = [fits |-> TRUE /\ b - a <= cap, inside |-> TRUE,
                st |-> [f EXCEPT !.lp = after, !.tip = b], out |-> got]
    BY <1>9, <1>11, <2>1, <2>2
  <2> HIDE DEF got, done
  <2> QED
    BY <2>3, <2>4, <2>5
<1>13. got = [k \in 1 .. b - a |-> CompositeSample(d, a + k - 1)]
  BY <1>10
<1> HIDE DEF f, got
<1> QED
  BY <1>2, <1>7, <1>11, <1>12, <1>13 DEF a, b, in

-----------------------------------------------------------------------------
(* The Hilbert pair and the envelope detector behind it.                   *)

HilbertStream == [k \in Nat |-> HilbertSample(k)]
Mixed(plane) == [k \in Nat |-> << HilbertSample(k), k, k, plane >>]

AmAfter(d, c, p) ==
  [i |-> FirAfter(Mixed("i"), VisionTaps, d, c, p), q |-> FirAfter(Mixed("q"), VisionTaps, d, c, p),
   dc |-> p, rot |-> p, cap |-> c]

FlatSample(d, j) ==
  << Reference(Mixed("i"), VisionTaps, d, j), Reference(Mixed("q"), VisionTaps, d, j) >>

LEMMA MixedBlock ==
  ASSUME NEW d \in Nat \ {0}, NEW c \in Nat, NEW p \in Nat, NEW in,
         Len(in) \in 0 .. c, Continues(HilbertStream, p, in), NEW plane
  PROVE  FirProcess(FirAfter(Mixed(plane), VisionTaps, d, c, p),
                    [k \in 1 .. Len(in) |-> << in[k], p + k - 1, p + k - 1, plane >>], "one") =
           [f |-> FirAfter(Mixed(plane), VisionTaps, d, c, p + Len(in)),
            out |-> Outputs(Mixed(plane), VisionTaps, d, CeilDiv(p, d), CeilDiv(p + Len(in), d)),
            fits |-> TRUE, inside |-> TRUE]
<1> DEFINE x == [k \in 1 .. Len(in) |-> << in[k], p + k - 1, p + k - 1, plane >>]
           A == Mixed(plane)
<1>1. Len(in) \in Nat /\ VisionTaps \in Nat \ {0}
  BY OddLength
<1>2. x = [k \in 1 .. Len(in) |-> x[k]]
  OBVIOUS
<1>3. \A k \in 1 .. Len(in) : x[k] = A[p + k - 1]
  <2>1. ASSUME NEW k \in 1 .. Len(in) PROVE x[k] = A[p + k - 1]
    <3>1. p + k - 1 \in Nat /\ in[k] = HilbertStream[p + k - 1]
      BY <1>1 DEF Continues
    <3>2. in[k] = HilbertSample(p + k - 1)
      BY <3>1 DEF HilbertStream
    <3> QED
      BY <3>1, <3>2 DEF Mixed
  <2> QED
    BY <2>1
<1> HIDE DEF x, A
<1>4. Len(x) = Len(in)
  BY <1>1, <1>2, SeqOf
<1>5. Continues(A, p, x)
  BY <1>3, <1>4 DEF Continues
<1>6. FirProcess(FirAfter(A, VisionTaps, d, c, p), x, "one") =
           [f |-> FirAfter(A, VisionTaps, d, c, p + Len(x)),
            out |-> Outputs(A, VisionTaps, d, CeilDiv(p, d), CeilDiv(p + Len(x), d)),
            fits |-> TRUE, inside |-> TRUE]
  BY <1>1, <1>4, <1>5, FirBlock
<1> QED
  BY <1>4, <1>6 DEF x, A

LEMMA AmBlock ==
  ASSUME NEW d \in Nat \ {0}, NEW c \in Nat, NEW p \in Nat, NEW in,
         Len(in) \in 0 .. c, Continues(HilbertStream, p, in)
  PROVE  AmProcess(AmAfter(d, c, p), in) =
           [fits |-> TRUE, inside |-> TRUE, st |-> AmAfter(d, c, p + Len(in)),
            out |-> [k \in 1 .. CeilDiv(p + Len(in), d) - CeilDiv(p, d) |-> FlatSample(d, CeilDiv(p, d) + k - 1)]]
<1> DEFINE m == Len(in)
           a == CeilDiv(p, d)
           b == CeilDiv(p + m, d)
           Before(plane) == FirAfter(Mixed(plane), VisionTaps, d, c, p)
           After(plane) == FirAfter(Mixed(plane), VisionTaps, d, c, p + m)
           Out(plane) == Outputs(Mixed(plane), VisionTaps, d, a, b)
           X(plane) == [k \in 1 .. m |-> << in[k], p + k - 1, p + k - 1, plane >>]
           Y(plane) == [f |-> After(plane), out |-> Out(plane), fits |-> TRUE, inside |-> TRUE]
           f == [i |-> Before("i"), q |-> Before("q"), dc |-> p, rot |-> p, cap |-> c]
           i == Y("i")
           q == Y("q")
           got == [k \in 1 .. b - a |-> << Out("i")[k], Out("q")[k] >>]
<1>1. m \in Nat /\ m <= c
  OBVIOUS
<1>2. AmAfter(d, c, p) = f
  BY DEF AmAfter
<1>3. a \in Nat /\ b \in Nat /\ a <= b
  BY Due
<1>4. AmAfter(d, c, p + m) = [i |-> After("i"), q |-> After("q"), dc |-> p + m, rot |-> p + m, cap |-> c]
  BY DEF AmAfter
<1>5. FirProcess(Before("i"), X("i"), "one") = i /\ FirProcess(Before("q"), X("q"), "one") = q
  BY MixedBlock
<1>6. Len(Out("i")) = b - a
  <2> HIDE DEF a, b
  <2> QED
    BY <1>3, OutputsAre
<1>7. \A k \in 1 .. b - a : << Out("i")[k], Out("q")[k] >> = FlatSample(d, a + k - 1)
  BY DEF Outputs, FlatSample
<1> HIDE DEF a, b, m, Before, After, Out
<1>8. AmProcess(f, in) =
        [fits |-> TRUE, inside |-> TRUE,
         st |-> [i |-> After("i"), q |-> After("q"), dc |-> p + m, rot |-> p + m, cap |-> c], out |-> got]
  <2>1. f.i = Before("i") /\ f.q = Before("q") /\ f.dc = p /\ f.rot = p /\ f.cap = c
    OBVIOUS
  <2>2. /\ i.fits = TRUE /\ i.inside = TRUE /\ i.f = After("i") /\ i.out = Out("i")
        /\ q.fits = TRUE /\ q.inside = TRUE /\ q.f = After("q") /\ q.out = Out("q")
    OBVIOUS
  <2> DEFINE n == p + m
  <2>3. [f EXCEPT !.i = After("i"), !.q = After("q"), !.dc = n, !.rot = n]
          = [i |-> After("i"), q |-> After("q"), dc |-> n, rot |-> n, cap |-> c]
    <3>1. f = [i |-> Before("i"), q |-> Before("q"), dc |-> p, rot |-> p, cap |-> c]
      OBVIOUS
    <3> HIDE DEF f, n
    <3>2. PICK g : g = [f EXCEPT !.i = After("i")]
      OBVIOUS
    <3>3. PICK h : h = [g EXCEPT !.q = After("q")]
      OBVIOUS
    <3>4. PICK j : j = [h EXCEPT !.dc = n]
      OBVIOUS
    <3>5. [f EXCEPT !.i = After("i"), !.q = After("q"), !.dc = n, !.rot = n] = [j EXCEPT !.rot = n]
      BY <3>2, <3>3, <3>4, Zenon
    <3>6. g = [i |-> After("i"), q |-> Before("q"), dc |-> p, rot |-> p, cap |-> c]
      BY <3>1, <3>2
    <3>7. h = [i |-> After("i"), q |-> After("q"), dc |-> p, rot |-> p, cap |-> c]
      BY <3>3, <3>6
    <3>8. j = [i |-> After("i"), q |-> After("q"), dc |-> n, rot |-> p, cap |-> c]
      BY <3>4, <3>7
    <3>9. [j EXCEPT !.rot = n] = [i |-> After("i"), q |-> After("q"), dc |-> n, rot |-> n, cap |-> c]
      BY <3>8
    <3> QED
      BY <3>5, <3>9
  <2> DEFINE done == [fits |-> m <= f.cap /\ i.fits /\ q.fits, inside |-> i.inside /\ q.inside,
                      st |-> [f EXCEPT !.i = i.f, !.q = q.f, !.dc = f.dc + m, !.rot = f.rot + m],
                      out |-> [k \in 1 .. Len(i.out) |-> << i.out[k], q.out[k] >>]]
  <2> HIDE DEF f, i, q
  <2>4. AmProcess(f, in) = done
    BY <1>5, <2>1 DEF AmProcess, m
  <2>5. done = [fits |-> TRUE, inside |-> TRUE,
                st |-> [f EXCEPT !.i = After("i"), !.q = After("q"), !.dc = n, !.rot = n], out |-> got]
    <3>1. (m <= f.cap /\ i.fits /\ q.fits) = TRUE /\ (i.inside /\ q.inside) = TRUE
      BY <1>1, <2>1, <2>2
    <3>2. [k \in 1 .. Len(i.out) |-> << i.out[k], q.out[k] >>] = got
      BY <1>6, <2>2
    <3> HIDE DEF got
    <3> QED
      BY <2>1, <2>2, <3>1, <3>2
  <2> HIDE DEF got, done
  <2> QED
    BY <2>3, <2>4, <2>5
<1>9. got = [k \in 1 .. b - a |-> FlatSample(d, a + k - 1)]
  BY <1>7
<1> HIDE DEF f, got
<1> QED
  BY <1>2, <1>4, <1>8, <1>9 DEF a, b, m

(* The samples of even and of odd place, which the two half filters read.  *)
EvenStream == [k \in Nat |-> << 2 * k >>]
OddStream == [k \in Nat |-> << 2 * k + 1 >>]

(* How a block of m samples after the first p splits by parity.            *)
Evens(p, m) == (m + 1 - (p % 2)) \div 2

LEMMA Parity ==
  ASSUME NEW p \in Nat, NEW c \in Nat, NEW m \in 0 .. c
  PROVE  /\ p % 2 \in 0 .. 1 /\ (p + 1) \div 2 \in Nat /\ p \div 2 \in Nat /\ (c + 1) \div 2 \in Nat
         /\ Evens(p, m) \in Nat /\ m - Evens(p, m) \in Nat
         /\ Evens(p, m) <= (c + 1) \div 2 /\ m - Evens(p, m) <= (c + 1) \div 2
         /\ (p + m + 1) \div 2 = (p + 1) \div 2 + Evens(p, m)
         /\ (p + m) \div 2 = p \div 2 + (m - Evens(p, m))
<1>1. PICK h \in Nat : \/ p = 2 * h /\ p % 2 = 0 /\ (p + 1) \div 2 = h /\ p \div 2 = h
                       \/ p = 2 * h + 1 /\ p % 2 = 1 /\ (p + 1) \div 2 = h + 1 /\ p \div 2 = h
  BY Halves
<1>2. m \in Nat /\ m <= c
  OBVIOUS
<1>3. PICK g \in Nat : \/ m = 2 * g /\ (m + 1) \div 2 = g /\ m \div 2 = g
                       \/ m = 2 * g + 1 /\ (m + 1) \div 2 = g + 1 /\ m \div 2 = g
  BY <1>2, Halves
<1>4. (c + 1) \div 2 \in Nat /\ g <= (c + 1) \div 2 /\ (m = 2 * g + 1 => g + 1 <= (c + 1) \div 2)
  BY <1>2, <1>3
<1>5. CASE p = 2 * h /\ p % 2 = 0 /\ (p + 1) \div 2 = h /\ p \div 2 = h
  <2>1. Evens(p, m) = (m + 1) \div 2
    BY <1>2, <1>5 DEF Evens
  <2>2. CASE m = 2 * g /\ (m + 1) \div 2 = g /\ m \div 2 = g
    <3>1. p + m = 2 * (h + g)
      BY <1>5, <2>2
    <3>2. (p + m) \div 2 = h + g /\ (p + m + 1) \div 2 = h + g
      BY <1>2, <3>1
    <3> QED
      BY <1>4, <1>5, <2>1, <2>2, <3>2
  <2>3. CASE m = 2 * g + 1 /\ (m + 1) \div 2 = g + 1 /\ m \div 2 = g
    <3>1. p + m = 2 * (h + g) + 1
      BY <1>5, <2>3
    <3>2. (p + m) \div 2 = h + g /\ (p + m + 1) \div 2 = h + g + 1
      BY <1>2, <3>1
    <3> QED
      BY <1>4, <1>5, <2>1, <2>3, <3>2
  <2> QED
    BY <1>3, <2>2, <2>3
<1>6. CASE p = 2 * h + 1 /\ p % 2 = 1 /\ (p + 1) \div 2 = h + 1 /\ p \div 2 = h
  <2>1. Evens(p, m) = m \div 2
    BY <1>2, <1>6 DEF Evens
  <2>2. CASE m = 2 * g /\ (m + 1) \div 2 = g /\ m \div 2 = g
    <3>1. p + m = 2 * (h + g) + 1
      BY <1>6, <2>2
    <3>2. (p + m) \div 2 = h + g /\ (p + m + 1) \div 2 = h + g + 1
      BY <1>2, <3>1
    <3>3. Evens(p, m) = g /\ m - Evens(p, m) = g
      BY <2>1, <2>2
    <3>4. p % 2 \in 0 .. 1 /\ (p + 1) \div 2 \in Nat /\ p \div 2 \in Nat
      BY <1>6
    <3> QED
      BY <1>4, <1>6, <3>2, <3>3, <3>4
  <2>3. CASE m = 2 * g + 1 /\ (m + 1) \div 2 = g + 1 /\ m \div 2 = g
    <3>1. p + m = 2 * (h + g + 1)
      BY <1>6, <2>3
    <3>2. (p + m) \div 2 = h + g + 1 /\ (p + m + 1) \div 2 = h + g + 1
      BY <1>2, <3>1
    <3> QED
      BY <1>4, <1>6, <2>1, <2>3, <3>2
  <2> QED
    BY <1>3, <2>2, <2>3
<1> QED
  BY <1>1, <1>5, <1>6

(* Each half of the block continues its stream.                            *)
LEMMA HalvesContinue ==
  ASSUME NEW p \in Nat, NEW m \in Nat
  PROVE  /\ \A k \in 1 .. Evens(p, m) :
              Block(p, m)[2 * k - 1 + (p % 2)] = EvenStream[(p + 1) \div 2 + k - 1]
         /\ \A k \in 1 .. m - Evens(p, m) :
              Block(p, m)[2 * k - (p % 2)] = OddStream[p \div 2 + k - 1]
<1>1. PICK h \in Nat : \/ p = 2 * h /\ p % 2 = 0 /\ (p + 1) \div 2 = h /\ p \div 2 = h
                       \/ p = 2 * h + 1 /\ p % 2 = 1 /\ (p + 1) \div 2 = h + 1 /\ p \div 2 = h
  BY Halves
<1>2. /\ 2 * ((m + 1) \div 2) <= m + 1 /\ 2 * (m \div 2) <= m /\ m + 1 <= 2 * (m \div 2) + 2
      /\ m <= 2 * ((m + 1) \div 2) /\ (m + 1) \div 2 \in Nat /\ m \div 2 \in Nat
  OBVIOUS
<1>3. ASSUME NEW j \in 1 .. m PROVE Block(p, m)[j] = << p + j - 1 >>
  BY DEF Block
<1>4. ASSUME NEW k \in 1 .. Evens(p, m)
      PROVE  Block(p, m)[2 * k - 1 + (p % 2)] = EvenStream[(p + 1) \div 2 + k - 1]
  <2>1. CASE p = 2 * h /\ p % 2 = 0 /\ (p + 1) \div 2 = h
    <3>1. Evens(p, m) = (m + 1) \div 2
      BY <2>1 DEF Evens
    <3>2. 2 * k - 1 + (p % 2) \in 1 .. m /\ h + k - 1 \in Nat
      BY <1>2, <2>1, <3>1
    <3>3. p + (2 * k - 1 + (p % 2)) - 1 = 2 * (h + k - 1)
      BY <2>1, <3>1, <1>2
    <3> QED
      BY <1>3, <2>1, <3>2, <3>3 DEF EvenStream
  <2>2. CASE p = 2 * h + 1 /\ p % 2 = 1 /\ (p + 1) \div 2 = h + 1
    <3>1. Evens(p, m) = m \div 2
      BY <2>2 DEF Evens
    <3>2. 2 * k - 1 + (p % 2) \in 1 .. m /\ (h + 1) + k - 1 \in Nat
      BY <1>2, <2>2, <3>1
    <3>3. p + (2 * k - 1 + (p % 2)) - 1 = 2 * ((h + 1) + k - 1)
      BY <2>2, <3>1, <1>2
    <3> QED
      BY <1>3, <2>2, <3>2, <3>3 DEF EvenStream
  <2> QED
    BY <1>1, <2>1, <2>2
<1>5. ASSUME NEW k \in 1 .. m - Evens(p, m)
      PROVE  Block(p, m)[2 * k - (p % 2)] = OddStream[p \div 2 + k - 1]
  <2>1. CASE p = 2 * h /\ p % 2 = 0 /\ p \div 2 = h
    <3>1. Evens(p, m) = (m + 1) \div 2
      BY <2>1 DEF Evens
    <3>2. 2 * k - (p % 2) \in 1 .. m /\ h + k - 1 \in Nat
      BY <1>2, <2>1, <3>1
    <3>3. p + (2 * k - (p % 2)) - 1 = 2 * (h + k - 1) + 1
      BY <2>1, <3>1, <1>2
    <3> QED
      BY <1>3, <2>1, <3>2, <3>3 DEF OddStream
  <2>2. CASE p = 2 * h + 1 /\ p % 2 = 1 /\ p \div 2 = h
    <3>1. Evens(p, m) = m \div 2
      BY <2>2 DEF Evens
    <3>2. 2 * k - (p % 2) \in 1 .. m /\ h + k - 1 \in Nat
      BY <1>2, <2>2, <3>1
    <3>3. p + (2 * k - (p % 2)) - 1 = 2 * (h + k - 1) + 1
      BY <2>2, <3>1, <1>2
    <3> QED
      BY <1>3, <2>2, <3>2, <3>3 DEF OddStream
  <2> QED
    BY <1>1, <2>1, <2>2
<1> QED
  BY <1>4, <1>5

(* A sample's taps, from the half filter its place picks.                  *)
HalfTaps(k) ==
  Reference(IF k % 2 = 0 THEN EvenStream ELSE OddStream, (VisionTaps + 1) \div 2, 1, k \div 2)

LEMMA HalfTapsAre ==
  ASSUME NEW k \in Nat
  PROVE  HilbertSample(k) = << At(SampleStream, k - (VisionTaps - 1) \div 2), HalfTaps(k) >>
<1> DEFINE n == (VisionTaps + 1) \div 2
           delay == (VisionTaps - 1) \div 2
           h == k \div 2
           A == IF k % 2 = 0 THEN EvenStream ELSE OddStream
<1>1. n \in Nat /\ delay \in Nat /\ h \in Nat
  BY OddLength
<1>2. (k = 2 * h /\ k % 2 = 0) \/ (k = 2 * h + 1 /\ k % 2 = 1)
  BY Halves
<1>3. At(SampleStream, k - delay) = IF k < delay THEN Silence ELSE Sample(k - delay)
  <2> HIDE DEF delay
  <2> QED
    BY <1>1 DEF At, SampleStream
<1> HIDE DEF n, h, delay
<1>4. ASSUME NEW t \in 1 .. n
      PROVE  At(A, 1 * h - (t - 1)) = IF k < 2 * (t - 1) THEN Silence ELSE Sample(k - 2 * (t - 1))
  <2>1. 1 * h - (t - 1) = h - (t - 1) /\ h - (t - 1) \in Int
    BY <1>1
  <2>2. k < 2 * (t - 1) <=> h - (t - 1) < 0
    BY <1>1, <1>2
  <2>3. CASE h - (t - 1) < 0
    BY <2>1, <2>2, <2>3 DEF At
  <2>4. CASE ~(h - (t - 1) < 0)
    <3>1. h - (t - 1) \in Nat
      BY <2>1, <2>4
    <3>2. A[h - (t - 1)] = << k - 2 * (t - 1) >>
      <4>1. CASE k = 2 * h /\ k % 2 = 0
        <5>1. 2 * (h - (t - 1)) = k - 2 * (t - 1)
          BY <1>1, <4>1
        <5> QED
          BY <3>1, <4>1, <5>1 DEF EvenStream
      <4>2. CASE k = 2 * h + 1 /\ k % 2 = 1
        <5>1. 2 * (h - (t - 1)) + 1 = k - 2 * (t - 1)
          BY <1>1, <4>2
        <5> QED
          BY <3>1, <4>2, <5>1 DEF OddStream
      <4> QED
        BY <1>2, <4>1, <4>2
    <3> QED
      BY <2>1, <2>2, <2>4, <3>2 DEF At, Sample
  <2> QED
    BY <2>3, <2>4
<1>5. HalfTaps(k) = [t \in 1 .. n |-> IF k < 2 * (t - 1) THEN Silence ELSE Sample(k - 2 * (t - 1))]
  <2>1. HalfTaps(k) = [t \in 1 .. n |-> At(A, 1 * h - (t - 1))]
    BY DEF HalfTaps, Reference, n, h
  <2> HIDE DEF A
  <2> QED
    BY <1>4, <2>1
<1> QED
  BY <1>3, <1>5 DEF HilbertSample, n, delay

(* What Hilbert keeps of its input: the samples before the block's end.    *)
Delay == (VisionTaps - 1) \div 2
DelayLine(p) == [k \in 1 .. Delay |-> At(SampleStream, p - Delay + k - 1)]

LEMMA DelayLineIs ==
  ASSUME NEW p \in Nat
  PROVE  /\ DelayLine(p) \in Seq({At(SampleStream, x) : x \in Int}) /\ Len(DelayLine(p)) = Delay
         /\ \A k \in 1 .. Delay : DelayLine(p)[k] = At(SampleStream, p - Delay + k - 1)
<1> DEFINE S == {At(SampleStream, x) : x \in Int}
           l == DelayLine(p)
<1>1. Delay \in Nat
  BY OddLength DEF Delay
<1>2. \A k \in 1 .. Delay : l[k] = At(SampleStream, p - Delay + k - 1)
  BY DEF DelayLine
<1>3. ASSUME NEW k \in 1 .. Delay PROVE At(SampleStream, p - Delay + k - 1) \in S
  <2>1. p - Delay + k - 1 \in Int
    BY <1>1
  <2> QED
    BY <2>1
<1>4. l \in [1 .. Delay -> S]
  BY <1>3 DEF DelayLine
<1> HIDE DEF S, l
<1>5. l \in Seq(S)
  BY <1>1, <1>4
<1>6. DOMAIN l = 1 .. Delay /\ DOMAIN l = 1 .. Len(l) /\ Len(l) \in Nat
  BY <1>4, <1>5, LenProperties
<1>7. Len(l) = Delay
  BY <1>1, <1>6
<1> QED
  BY <1>2, <1>5, <1>7 DEF S, l

LEMMA HistoryIs ==
  ASSUME NEW p \in Nat, NEW m \in Nat, NEW h, h.delay = Delay, h.hist = DelayLine(p)
  PROVE  HilbertHistory(h, Block(p, m)) = DelayLine(p + m)
<1> DEFINE S == {At(SampleStream, x) : x \in Int}
           in == Block(p, m)
           l == DelayLine(p)
           r == DelayLine(p + m)
<1>1. Delay \in Nat /\ p + m \in Nat
  BY OddLength DEF Delay
<1>2. /\ l \in Seq(S) /\ Len(l) = Delay
      /\ \A k \in 1 .. Delay : l[k] = At(SampleStream, p - Delay + k - 1)
  BY DelayLineIs
<1>3. /\ r \in Seq(S) /\ Len(r) = Delay
      /\ \A k \in 1 .. Delay : r[k] = At(SampleStream, p + m - Delay + k - 1)
  <2> DEFINE e == p + m
  <2>1. e \in Nat
    OBVIOUS
  <2> HIDE DEF e
  <2>2. /\ DelayLine(e) \in Seq(S) /\ Len(DelayLine(e)) = Delay
        /\ \A k \in 1 .. Delay : DelayLine(e)[k] = At(SampleStream, e - Delay + k - 1)
    BY <2>1, DelayLineIs
  <2> QED
    BY <2>2 DEF e
<1>4. Len(in) = m /\ \A k \in 1 .. m : in[k] = At(SampleStream, p + k - 1)
  <2>1. ASSUME NEW k \in 1 .. m PROVE in[k] = At(SampleStream, p + k - 1)
    <3>1. p + k - 1 \in Nat /\ ~(p + k - 1 < 0)
      OBVIOUS
    <3> QED
      BY <3>1 DEF Block, At, SampleStream, Sample
  <2> QED
    BY <2>1, BlockIs
<1>5. \A k \in 1 .. m : in[k] \in S
  <2>1. ASSUME NEW k \in 1 .. m PROVE p + k - 1 \in Int
    OBVIOUS
  <2> QED
    BY <1>4, <2>1
<1>6. in \in Seq(S)
  <2>1. in \in [1 .. m -> S]
    BY <1>5 DEF Block
  <2> HIDE DEF S, in
  <2> QED
    BY <2>1
<1> HIDE DEF S, in, l, r
<1>7. HilbertHistory(h, in) = IF m >= Delay THEN SubSeq(in, m - Delay + 1, m) ELSE SubSeq(l, m + 1, Delay) \o in
  BY <1>4 DEF HilbertHistory, l
<1>8. CASE m >= Delay
  <2> DEFINE s == SubSeq(in, m - Delay + 1, m)
  <2>1. /\ s \in Seq(S) /\ Len(s) = IF m - Delay + 1 <= m THEN m - (m - Delay + 1) + 1 ELSE 0
        /\ \A i \in 1 .. m - (m - Delay + 1) + 1 : s[i] = in[(m - Delay + 1) + i - 1]
    <3>1. m - Delay + 1 \in Int /\ m \in Int /\ \A i \in (m - Delay + 1) .. m : in[i] \in S
      BY <1>1, <1>5, <1>8
    <3> QED
      BY <3>1, SubSeqProperties
  <2> HIDE DEF s
  <2>2. Len(s) = Delay
    BY <1>1, <2>1
  <2>3. ASSUME NEW k \in 1 .. Delay PROVE s[k] = r[k]
    <3>1. k \in 1 .. m - (m - Delay + 1) + 1 /\ (m - Delay + 1) + k - 1 = m - Delay + k /\ m - Delay + k \in 1 .. m
      BY <1>1, <1>8
    <3>2. p + (m - Delay + k) - 1 = p + m - Delay + k - 1
      BY <1>1
    <3> QED
      BY <1>3, <1>4, <2>1, <3>1, <3>2
  <2>4. s = r
    BY <1>3, <2>1, <2>2, <2>3, SeqEqual
  <2> QED
    BY <1>7, <1>8, <2>4 DEF s, in, r
<1>9. CASE ~(m >= Delay)
  <2> DEFINE s == SubSeq(l, m + 1, Delay)
  <2>1. /\ s \in Seq(S) /\ Len(s) = IF m + 1 <= Delay THEN Delay - (m + 1) + 1 ELSE 0
        /\ \A i \in 1 .. Delay - (m + 1) + 1 : s[i] = l[(m + 1) + i - 1]
    <3>1. m + 1 \in Int /\ Delay \in Int
      BY <1>1
    <3>2. \A i \in (m + 1) .. Delay : l[i] \in S
      BY <1>1, <1>2, ElementOfSeq
    <3> QED
      BY <3>1, <3>2, SubSeqProperties
  <2> HIDE DEF s
  <2>2. Len(s) = Delay - m
    BY <1>1, <1>9, <2>1
  <2>3. /\ s \o in \in Seq(S) /\ Len(s \o in) = Len(s) + Len(in)
        /\ \A i \in 1 .. Len(s) + Len(in) : (s \o in)[i] = IF i <= Len(s) THEN s[i] ELSE in[i - Len(s)]
    BY <1>6, <2>1, ConcatProperties
  <2>4. Len(s \o in) = Delay
    BY <1>1, <1>4, <2>2, <2>3
  <2>5. ASSUME NEW k \in 1 .. Delay PROVE (s \o in)[k] = r[k]
    <3>1. (s \o in)[k] = IF k <= Delay - m THEN s[k] ELSE in[k - (Delay - m)]
      BY <1>1, <1>4, <2>2, <2>3
    <3>2. CASE k <= Delay - m
      <4>1. k \in 1 .. Delay - (m + 1) + 1 /\ (m + 1) + k - 1 = m + k /\ m + k \in 1 .. Delay
        BY <1>1, <3>2
      <4>2. p - Delay + (m + k) - 1 = p + m - Delay + k - 1
        BY <1>1
      <4> QED
        BY <1>2, <1>3, <2>1, <3>1, <3>2, <4>1, <4>2
    <3>3. CASE ~(k <= Delay - m)
      <4>1. k - (Delay - m) \in 1 .. m
        BY <1>1, <3>3
      <4>2. p + (k - (Delay - m)) - 1 = p + m - Delay + k - 1
        BY <1>1
      <4> QED
        BY <1>3, <1>4, <3>1, <3>3, <4>1, <4>2
    <3> QED
      BY <3>2, <3>3
  <2> DEFINE u == s \o in
  <2>6. u \in Seq(S) /\ Len(u) = Len(r) /\ \A i \in 1 .. Len(u) : u[i] = r[i]
    BY <1>3, <2>3, <2>4, <2>5
  <2> HIDE DEF u
  <2>7. u = r
    BY <1>3, <2>6, SeqEqual
  <2> QED
    BY <1>7, <1>9, <2>7 DEF u, s, in, r
<1> QED
  BY <1>8, <1>9

(* The Hilbert pair after p samples, for blocks of up to c.                *)
HalfLength == (VisionTaps + 1) \div 2
HalfAfter(A, c, p) == FirAfter(A, HalfLength, 1, (c + 1) \div 2, p)

HilbertAfter(c, p) ==
  [even |-> HalfAfter(EvenStream, c, (p + 1) \div 2), odd |-> HalfAfter(OddStream, c, p \div 2),
   delay |-> Delay, seen |-> p, half |-> (c + 1) \div 2, cap |-> c, hist |-> DelayLine(p)]

LEMMA HalfBlock ==
  ASSUME NEW A, NEW c \in Nat, NEW p \in Nat, NEW in, Len(in) \in 0 .. (c + 1) \div 2, Continues(A, p, in)
  PROVE  FirProcess(HalfAfter(A, c, p), in, "one") =
           [f |-> HalfAfter(A, c, p + Len(in)), out |-> Outputs(A, HalfLength, 1, p, p + Len(in)),
            fits |-> TRUE, inside |-> TRUE]
<1> DEFINE half == (c + 1) \div 2
           n == HalfLength
           d == 1
<1>1. half \in Nat /\ n \in Nat \ {0} /\ d \in Nat \ {0} /\ Len(in) \in 0 .. half /\ p + Len(in) \in Nat
  BY OddLength DEF HalfLength
<1>2. CeilDiv(p, d) = p /\ CeilDiv(p + Len(in), d) = p + Len(in)
  BY <1>1 DEF CeilDiv
<1> HIDE DEF half, n, d
<1>3. FirProcess(FirAfter(A, n, d, half, p), in, "one") =
           [f |-> FirAfter(A, n, d, half, p + Len(in)),
            out |-> Outputs(A, n, d, CeilDiv(p, d), CeilDiv(p + Len(in), d)),
            fits |-> TRUE, inside |-> TRUE]
  BY <1>1, FirBlock
<1>4. FirProcess(FirAfter(A, n, d, half, p), in, "one") =
           [f |-> FirAfter(A, n, d, half, p + Len(in)),
            out |-> Outputs(A, n, d, p, p + Len(in)),
            fits |-> TRUE, inside |-> TRUE]
  BY <1>2, <1>3
<1> QED
  BY <1>4 DEF HalfAfter, half, n, d

(* The halves of a block, filtered.                                        *)
EvenHalf(p, m) == [k \in 1 .. Evens(p, m) |-> Block(p, m)[2 * k - 1 + (p % 2)]]
OddHalf(p, m) == [k \in 1 .. m - Evens(p, m) |-> Block(p, m)[2 * k - (p % 2)]]
EvenOut(p, m) == Outputs(EvenStream, HalfLength, 1, (p + 1) \div 2, (p + m + 1) \div 2)
OddOut(p, m) == Outputs(OddStream, HalfLength, 1, p \div 2, (p + m) \div 2)

LEMMA HalvesFiltered ==
  ASSUME NEW c \in Nat, NEW p \in Nat, NEW m \in 0 .. c
  PROVE  /\ FirProcess(HalfAfter(EvenStream, c, (p + 1) \div 2), EvenHalf(p, m), "one") =
              [f |-> HalfAfter(EvenStream, c, (p + m + 1) \div 2), out |-> EvenOut(p, m), fits |-> TRUE, inside |-> TRUE]
         /\ FirProcess(HalfAfter(OddStream, c, p \div 2), OddHalf(p, m), "one") =
              [f |-> HalfAfter(OddStream, c, (p + m) \div 2), out |-> OddOut(p, m), fits |-> TRUE, inside |-> TRUE]
<1> DEFINE e == Evens(p, m)
           o == m - Evens(p, m)
           pe == (p + 1) \div 2
           po == p \div 2
           half == (c + 1) \div 2
           ei == EvenHalf(p, m)
           oi == OddHalf(p, m)
<1>1. /\ pe \in Nat /\ po \in Nat /\ half \in Nat /\ e \in Nat /\ o \in Nat /\ e <= half /\ o <= half
      /\ (p + m + 1) \div 2 = pe + e /\ (p + m) \div 2 = po + o
  BY Parity
<1>2. /\ ei = [k \in 1 .. e |-> ei[k]] /\ oi = [k \in 1 .. o |-> oi[k]]
      /\ \A k \in 1 .. e : ei[k] = EvenStream[pe + k - 1]
      /\ \A k \in 1 .. o : oi[k] = OddStream[po + k - 1]
  <2>1. m \in Nat
    OBVIOUS
  <2> QED
    BY <2>1, HalvesContinue DEF EvenHalf, OddHalf
<1> HIDE DEF e, o, pe, po, ei, oi
<1>3. Len(ei) = e /\ Len(oi) = o
  BY <1>1, <1>2, SeqOf
<1>4. Len(ei) \in 0 .. half /\ Len(oi) \in 0 .. half
  BY <1>1, <1>3
<1>5. Continues(EvenStream, pe, ei) /\ Continues(OddStream, po, oi)
  BY <1>2, <1>3 DEF Continues
<1>6. FirProcess(HalfAfter(EvenStream, c, pe), ei, "one") =
           [f |-> HalfAfter(EvenStream, c, pe + Len(ei)), out |-> Outputs(EvenStream, HalfLength, 1, pe, pe + Len(ei)),
            fits |-> TRUE, inside |-> TRUE]
  BY <1>1, <1>4, <1>5, HalfBlock
<1>7. FirProcess(HalfAfter(OddStream, c, po), oi, "one") =
           [f |-> HalfAfter(OddStream, c, po + Len(oi)), out |-> Outputs(OddStream, HalfLength, 1, po, po + Len(oi)),
            fits |-> TRUE, inside |-> TRUE]
  BY <1>1, <1>4, <1>5, HalfBlock
<1>8. pe + Len(ei) = (p + m + 1) \div 2 /\ po + Len(oi) = (p + m) \div 2
  BY <1>1, <1>3
<1> QED
  BY <1>6, <1>7, <1>8 DEF pe, po, ei, oi, EvenOut, OddOut

(* The tap sequence the interleaving picks for sample i of the block.      *)
Picked(p, m, i) == (IF (i - 1) % 2 = p % 2 THEN EvenOut(p, m) ELSE OddOut(p, m))[(i + 1) \div 2]

LEMMA PickedIs ==
  ASSUME NEW c \in Nat, NEW p \in Nat, NEW m \in 0 .. c, NEW i \in 1 .. m
  PROVE  Picked(p, m, i) = HalfTaps(p + i - 1)
<1> DEFINE k == p + i - 1
<1>1. PICK h \in Nat : \/ p = 2 * h /\ p % 2 = 0 /\ (p + 1) \div 2 = h /\ p \div 2 = h
                       \/ p = 2 * h + 1 /\ p % 2 = 1 /\ (p + 1) \div 2 = h + 1 /\ p \div 2 = h
  BY Halves
<1>2. i - 1 \in Nat /\ k \in Nat /\ k = p + (i - 1) /\ (i - 1) + 2 = i + 1
  OBVIOUS
<1>3. PICK u \in Nat : \/ i - 1 = 2 * u /\ (i - 1) % 2 = 0 /\ (i - 1) \div 2 = u
                       \/ i - 1 = 2 * u + 1 /\ (i - 1) % 2 = 1 /\ (i - 1) \div 2 = u
  BY <1>2, Halves
<1>4. (i + 1) \div 2 = u + 1
  <2>1. i + 1 = 2 * (u + 1) \/ i + 1 = 2 * (u + 1) + 1
    BY <1>2, <1>3
  <2> QED
    BY <2>1
<1>5. m \in Nat
  OBVIOUS
<1>6. /\ Evens(p, m) \in Nat /\ m - Evens(p, m) \in Nat
      /\ (p + m + 1) \div 2 = (p + 1) \div 2 + Evens(p, m) /\ (p + m) \div 2 = p \div 2 + (m - Evens(p, m))
  BY Parity, ZenonT(60)
<1>7. PICK g \in Nat : \/ m = 2 * g /\ (m + 1) \div 2 = g /\ m \div 2 = g
                       \/ m = 2 * g + 1 /\ (m + 1) \div 2 = g + 1 /\ m \div 2 = g
  BY <1>5, Halves
<1> HIDE DEF k
<1>8. CASE (i - 1) % 2 = p % 2
  <2>1. k = 2 * ((p + 1) \div 2 + u) /\ (p + 1) \div 2 + u \in Nat
    BY <1>1, <1>2, <1>3, <1>8
  <2>2. k % 2 = 0 /\ k \div 2 = (p + 1) \div 2 + u
    BY <1>2, <2>1
  <2>3. u + 1 \in 1 .. Evens(p, m)
    <3>1. Evens(p, m) = IF p % 2 = 0 THEN (m + 1) \div 2 ELSE m \div 2
      BY <1>1 DEF Evens
    <3> QED
      BY <1>1, <1>3, <1>7, <1>8, <3>1
  <2>4. EvenOut(p, m)[u + 1] = Reference(EvenStream, HalfLength, 1, (p + 1) \div 2 + (u + 1) - 1)
    <3>1. (p + m + 1) \div 2 - (p + 1) \div 2 = Evens(p, m)
      BY <1>1, <1>6
    <3> QED
      BY <2>3, <3>1 DEF EvenOut, Outputs
  <2>5. (p + 1) \div 2 + (u + 1) - 1 = k \div 2
    BY <1>1, <2>2
  <2> QED
    BY <1>4, <1>8, <2>2, <2>4, <2>5 DEF Picked, HalfTaps, HalfLength, k
<1>9. CASE (i - 1) % 2 # p % 2
  <2>1. k = 2 * (p \div 2 + u) + 1 /\ p \div 2 + u \in Nat
    BY <1>1, <1>2, <1>3, <1>9
  <2>2. k % 2 = 1 /\ k \div 2 = p \div 2 + u
    BY <1>2, <2>1
  <2>3. u + 1 \in 1 .. m - Evens(p, m)
    <3>1. Evens(p, m) = IF p % 2 = 0 THEN (m + 1) \div 2 ELSE m \div 2
      BY <1>1 DEF Evens
    <3> QED
      BY <1>1, <1>3, <1>7, <1>9, <3>1
  <2>4. OddOut(p, m)[u + 1] = Reference(OddStream, HalfLength, 1, p \div 2 + (u + 1) - 1)
    <3>1. (p + m) \div 2 - p \div 2 = m - Evens(p, m)
      BY <1>1, <1>6
    <3> QED
      BY <2>3, <3>1 DEF OddOut, Outputs
  <2>5. p \div 2 + (u + 1) - 1 = k \div 2
    BY <1>1, <2>2
  <2> QED
    BY <1>4, <1>9, <2>2, <2>4, <2>5 DEF Picked, HalfTaps, HalfLength, k
<1> QED
  BY <1>8, <1>9

LEMMA HilbertBlock ==
  ASSUME NEW c \in Nat, NEW p \in Nat, NEW m \in 0 .. c
  PROVE  HilbertProcess(HilbertAfter(c, p), Block(p, m)) =
           [fits |-> TRUE, inside |-> TRUE, st |-> HilbertAfter(c, p + m),
            out |-> [i \in 1 .. m |-> HilbertSample(p + i - 1)]]
<1> DEFINE in == Block(p, m)
           odd == p % 2
           e == Evens(p, m)
           half == (c + 1) \div 2
           even0 == HalfAfter(EvenStream, c, (p + 1) \div 2)
           odd0 == HalfAfter(OddStream, c, p \div 2)
           even1 == HalfAfter(EvenStream, c, (p + m + 1) \div 2)
           odd1 == HalfAfter(OddStream, c, (p + m) \div 2)
           qe == [f |-> even1, out |-> EvenOut(p, m), fits |-> TRUE, inside |-> TRUE]
           qo == [f |-> odd1, out |-> OddOut(p, m), fits |-> TRUE, inside |-> TRUE]
           line == DelayLine(p)
           next == DelayLine(p + m)
           h == [even |-> even0, odd |-> odd0, delay |-> Delay, seen |-> p, half |-> half, cap |-> c, hist |-> line]
           I(i) == IF i <= Delay THEN line[i] ELSE in[i - Delay]
           got == [i \in 1 .. m |-> << I(i), Picked(p, m, i) >>]
<1>1. m \in Nat /\ m <= c /\ Delay \in Nat
  BY OddLength DEF Delay
<1>2. HilbertAfter(c, p) = h
  BY DEF HilbertAfter
<1>3. HilbertAfter(c, p + m) =
        [even |-> even1, odd |-> odd1, delay |-> Delay, seen |-> p + m, half |-> half, cap |-> c, hist |-> next]
  BY DEF HilbertAfter
<1>4. Len(in) = m /\ \A k \in 1 .. m : in[k] = << p + k - 1 >>
  BY <1>1, BlockIs DEF Block
<1>5. e <= half /\ m - e <= half /\ (m + 1 - odd) \div 2 = e
  BY Parity DEF Evens
<1>6. FirProcess(even0, EvenHalf(p, m), "one") = qe /\ FirProcess(odd0, OddHalf(p, m), "one") = qo
  BY HalvesFiltered
<1>7. /\ EvenHalf(p, m) = [k \in 1 .. e |-> in[2 * k - 1 + odd]]
      /\ OddHalf(p, m) = [k \in 1 .. m - e |-> in[2 * k - odd]]
  BY DEF EvenHalf, OddHalf
<1>8. HilbertHistory(h, in) = next
  <2>1. h.delay = Delay /\ h.hist = DelayLine(p)
    OBVIOUS
  <2> HIDE DEF h
  <2> QED
    BY <1>1, <2>1, HistoryIs
<1>9. ASSUME NEW i \in 1 .. m PROVE << I(i), Picked(p, m, i) >> = HilbertSample(p + i - 1)
  <2> DEFINE k == p + i - 1
  <2>1. k \in Nat
    OBVIOUS
  <2>2. HilbertSample(k) = << At(SampleStream, k - Delay), HalfTaps(k) >>
    <3> HIDE DEF k
    <3> QED
      BY <2>1, HalfTapsAre DEF Delay
  <2>3. I(i) = At(SampleStream, k - Delay)
    <3>1. CASE i <= Delay
      <4>1. i \in 1 .. Delay /\ p - Delay + i - 1 = k - Delay
        BY <1>1, <3>1
      <4> QED
        BY <3>1, <4>1, DelayLineIs
    <3>2. CASE ~(i <= Delay)
      <4>1. i - Delay \in 1 .. m /\ p + (i - Delay) - 1 = k - Delay /\ k - Delay \in Nat /\ ~(k - Delay < 0)
        BY <1>1, <3>2
      <4>2. I(i) = << k - Delay >>
        BY <1>4, <3>2, <4>1
      <4> HIDE DEF k, I
      <4> QED
        BY <4>1, <4>2 DEF At, SampleStream, Sample
    <3> QED
      BY <3>1, <3>2
  <2>4. Picked(p, m, i) = HalfTaps(k)
    BY <1>1, PickedIs
  <2> QED
    BY <2>2, <2>3, <2>4
<1>10. got = [i \in 1 .. m |-> HilbertSample(p + i - 1)]
  BY <1>9
<1> HIDE DEF in, e, half, even0, odd0, even1, odd1, line, next, odd
<1>11. HilbertProcess(h, in) =
        [fits |-> TRUE, inside |-> TRUE,
         st |-> [even |-> even1, odd |-> odd1, delay |-> Delay, seen |-> p + m, half |-> half, cap |-> c, hist |-> next],
         out |-> got]
  <2>1. /\ h.even = even0 /\ h.odd = odd0 /\ h.delay = Delay /\ h.seen = p
        /\ h.half = half /\ h.cap = c /\ h.hist = line
    OBVIOUS
  <2>2. /\ qe.fits = TRUE /\ qe.inside = TRUE /\ qe.f = even1 /\ qe.out = EvenOut(p, m)
        /\ qo.fits = TRUE /\ qo.inside = TRUE /\ qo.f = odd1 /\ qo.out = OddOut(p, m)
    OBVIOUS
  <2> DEFINE n == p + m
  <2>3. [h EXCEPT !.even = even1, !.odd = odd1, !.seen = n, !.hist = next]
          = [even |-> even1, odd |-> odd1, delay |-> Delay, seen |-> n, half |-> half, cap |-> c, hist |-> next]
    <3>1. h = [even |-> even0, odd |-> odd0, delay |-> Delay, seen |-> p, half |-> half, cap |-> c, hist |-> line]
      OBVIOUS
    <3> HIDE DEF h, n
    <3>2. PICK a : a = [h EXCEPT !.even = even1]
      OBVIOUS
    <3>3. PICK b : b = [a EXCEPT !.odd = odd1]
      OBVIOUS
    <3>4. PICK j : j = [b EXCEPT !.seen = n]
      OBVIOUS
    <3>5. [h EXCEPT !.even = even1, !.odd = odd1, !.seen = n, !.hist = next] = [j EXCEPT !.hist = next]
      BY <3>2, <3>3, <3>4, Zenon
    <3>6. a = [even |-> even1, odd |-> odd0, delay |-> Delay, seen |-> p, half |-> half, cap |-> c, hist |-> line]
      BY <3>1, <3>2
    <3>7. b = [even |-> even1, odd |-> odd1, delay |-> Delay, seen |-> p, half |-> half, cap |-> c, hist |-> line]
      BY <3>3, <3>6
    <3>8. j = [even |-> even1, odd |-> odd1, delay |-> Delay, seen |-> n, half |-> half, cap |-> c, hist |-> line]
      BY <3>4, <3>7
    <3>9. [j EXCEPT !.hist = next]
            = [even |-> even1, odd |-> odd1, delay |-> Delay, seen |-> n, half |-> half, cap |-> c, hist |-> next]
      BY <3>8
    <3> QED
      BY <3>5, <3>9
  <2> HIDE DEF h, qe, qo
  <2> DEFINE Q(i) == (IF (i - 1) % 2 = odd THEN qe.out ELSE qo.out)[(i + 1) \div 2]
             done == [fits |-> e <= half /\ m - e <= half /\ qe.fits /\ qo.fits /\ m <= c,
                      inside |-> qe.inside /\ qo.inside,
                      st |-> [h EXCEPT !.even = qe.f, !.odd = qo.f, !.seen = p + m, !.hist = next],
                      out |-> IF qe.fits /\ qe.inside /\ qo.fits /\ qo.inside
                              THEN [i \in 1 .. m |-> << I(i), Q(i) >>] ELSE << >>]
  <2>4. HilbertProcess(h, in) = done
    <3>1. FirProcess(h.even, [k \in 1 .. e |-> in[2 * k - 1 + odd]], "one") = qe
      BY <1>6, <1>7, <2>1
    <3>2. FirProcess(h.odd, [k \in 1 .. m - e |-> in[2 * k - odd]], "one") = qo
      BY <1>6, <1>7, <2>1
    <3> QED
      BY <1>4, <1>5, <1>8, <2>1, <3>1, <3>2 DEF HilbertProcess, odd
  <2>5. done = [fits |-> TRUE, inside |-> TRUE,
                st |-> [h EXCEPT !.even = even1, !.odd = odd1, !.seen = n, !.hist = next], out |-> got]
    <3>1. (e <= half /\ m - e <= half /\ qe.fits /\ qo.fits /\ m <= c) = TRUE /\ (qe.inside /\ qo.inside) = TRUE
      BY <1>1, <1>5, <2>2
    <3>2. \A i \in 1 .. m : Q(i) = Picked(p, m, i)
      BY <2>2 DEF Picked, odd
    <3>3. [i \in 1 .. m |-> << I(i), Q(i) >>] = got
      BY <3>2
    <3> HIDE DEF got, Q, I
    <3> QED
      BY <2>2, <3>1, <3>3
  <2> HIDE DEF got, done
  <2> QED
    BY <2>3, <2>4, <2>5
<1> HIDE DEF h, got
<1> QED
  BY <1>2, <1>3, <1>10, <1>11 DEF in

(* Hilbert, then ComplexAmEnvelope, after p samples.                       *)
FlatAfter(d, c, p) == [chain |-> "flat", hilbert |-> HilbertAfter(c, p), am |-> AmAfter(d, c, p)]

LEMMA FlatBlock ==
  ASSUME NEW d \in Nat \ {0}, NEW c \in Nat, NEW p \in Nat, NEW m \in 0 .. c
  PROVE  FlatProcess(FlatAfter(d, c, p), Block(p, m)) =
           [fits |-> TRUE, inside |-> TRUE, st |-> FlatAfter(d, c, p + m),
            out |-> [k \in 1 .. CeilDiv(p + m, d) - CeilDiv(p, d) |-> FlatSample(d, CeilDiv(p, d) + k - 1)]]
<1> DEFINE in == Block(p, m)
           x == [i \in 1 .. m |-> HilbertSample(p + i - 1)]
           h0 == HilbertAfter(c, p)
           h1 == HilbertAfter(c, p + m)
           a0 == AmAfter(d, c, p)
           a1 == AmAfter(d, c, p + m)
           o == [k \in 1 .. CeilDiv(p + m, d) - CeilDiv(p, d) |-> FlatSample(d, CeilDiv(p, d) + k - 1)]
           f == [chain |-> "flat", hilbert |-> h0, am |-> a0]
           h == [fits |-> TRUE, inside |-> TRUE, st |-> h1, out |-> x]
           a == [fits |-> TRUE, inside |-> TRUE, st |-> a1, out |-> o]
<1>1. HilbertProcess(h0, in) = h
  BY HilbertBlock
<1>2. x = [i \in 1 .. m |-> x[i]] /\ \A i \in 1 .. m : x[i] = HilbertStream[p + i - 1]
  <2>1. \A i \in 1 .. m : p + i - 1 \in Nat
    OBVIOUS
  <2> QED
    BY <2>1 DEF HilbertStream
<1>3. AmProcess(a0, x) = a
  <2> HIDE DEF x
  <2>1. m \in Nat
    OBVIOUS
  <2>2. Len(x) = m
    BY <1>2, <2>1, SeqOf
  <2>3. Len(x) \in 0 .. c /\ Continues(HilbertStream, p, x)
    BY <1>2, <2>2 DEF Continues
  <2>4. AmProcess(AmAfter(d, c, p), x) =
           [fits |-> TRUE, inside |-> TRUE, st |-> AmAfter(d, c, p + Len(x)),
            out |-> [k \in 1 .. CeilDiv(p + Len(x), d) - CeilDiv(p, d) |-> FlatSample(d, CeilDiv(p, d) + k - 1)]]
    BY <2>3, AmBlock
  <2> QED
    BY <2>2, <2>4
<1> HIDE DEF x, h0, h1, a0, a1, o, in
<1>4. FlatProcess(f, in) =
        [fits |-> TRUE, inside |-> TRUE, st |-> [chain |-> "flat", hilbert |-> h1, am |-> a1], out |-> o]
  <2>1. f.hilbert = h0 /\ f.am = a0
    OBVIOUS
  <2>2. /\ h.fits = TRUE /\ h.inside = TRUE /\ h.st = h1 /\ h.out = x
        /\ a.fits = TRUE /\ a.inside = TRUE /\ a.st = a1 /\ a.out = o
    OBVIOUS
  <2>3. [f EXCEPT !.hilbert = h1, !.am = a1] = [chain |-> "flat", hilbert |-> h1, am |-> a1]
    <3>1. f = [chain |-> "flat", hilbert |-> h0, am |-> a0]
      OBVIOUS
    <3> HIDE DEF f
    <3>2. PICK g : g = [f EXCEPT !.hilbert = h1]
      OBVIOUS
    <3>3. [f EXCEPT !.hilbert = h1, !.am = a1] = [g EXCEPT !.am = a1]
      BY <3>2, Zenon
    <3>4. g = [chain |-> "flat", hilbert |-> h1, am |-> a0]
      BY <3>1, <3>2
    <3>5. [g EXCEPT !.am = a1] = [chain |-> "flat", hilbert |-> h1, am |-> a1]
      BY <3>4
    <3> QED
      BY <3>3, <3>5
  <2> DEFINE done == [fits |-> h.fits /\ a.fits, inside |-> h.inside /\ a.inside,
                      st |-> [f EXCEPT !.hilbert = h.st, !.am = a.st], out |-> a.out]
  <2> HIDE DEF f, h, a
  <2>4. FlatProcess(f, in) = done
    BY <1>1, <1>3, <2>1, <2>2 DEF FlatProcess
  <2>5. done = [fits |-> TRUE, inside |-> TRUE, st |-> [f EXCEPT !.hilbert = h1, !.am = a1], out |-> o]
    BY <2>2
  <2> HIDE DEF done
  <2> QED
    BY <2>3, <2>4, <2>5
<1> HIDE DEF f
<1> QED
  BY <1>4 DEF FlatAfter, f, h0, h1, a0, a1, in, o

-----------------------------------------------------------------------------
(* The chain the options chose, after p samples, and its envelope.         *)

ChainAfter(d, c, p) ==
  IF cfg.input = "composite" THEN CompositeAfter(d, c, p)
  ELSE IF cfg.ifMode # "flat" THEN SawAfter(d, c, p)
  ELSE FlatAfter(d, c, p)

ChainSample(d, j) ==
  IF cfg.input = "composite" THEN CompositeSample(d, j)
  ELSE IF cfg.ifMode # "flat" THEN SawSample(d, j)
  ELSE FlatSample(d, j)

LEMMA ChainBlock ==
  ASSUME NEW d \in Nat \ {0}, NEW c \in Nat, NEW p \in Nat, NEW m \in 0 .. c, Filtered \/ d = 1
  PROVE  VisionProcess(ChainAfter(d, c, p), Block(p, m)) =
           [fits |-> TRUE, inside |-> TRUE, st |-> ChainAfter(d, c, p + m),
            out |-> [k \in 1 .. CeilDiv(p + m, d) - CeilDiv(p, d) |-> ChainSample(d, CeilDiv(p, d) + k - 1)]]
<1> DEFINE n == CeilDiv(p + m, d) - CeilDiv(p, d)
           f == ChainAfter(d, c, p)
<1>1. CASE cfg.input = "composite"
  <2>1. f = CompositeAfter(d, c, p) /\ f.chain = "composite" /\ ChainAfter(d, c, p + m) = CompositeAfter(d, c, p + m)
    BY <1>1 DEF ChainAfter, CompositeAfter
  <2>2. \A j : ChainSample(d, j) = CompositeSample(d, j)
    BY <1>1 DEF ChainSample
  <2> HIDE DEF f
  <2>3. VisionProcess(f, Block(p, m)) = CompositeProcess(CompositeAfter(d, c, p), Block(p, m))
    BY <2>1 DEF VisionProcess
  <2> QED
    BY <2>1, <2>2, <2>3, CompositeBlock DEF f
<1>2. CASE cfg.input # "composite" /\ cfg.ifMode # "flat"
  <2>1. f = SawAfter(d, c, p) /\ f.chain = "saw" /\ ChainAfter(d, c, p + m) = SawAfter(d, c, p + m)
    BY <1>2 DEF ChainAfter, SawAfter
  <2>2. \A j : ChainSample(d, j) = SawSample(d, j)
    BY <1>2 DEF ChainSample
  <2> HIDE DEF f
  <2>3. VisionProcess(f, Block(p, m)) = SawProcess(SawAfter(d, c, p), Block(p, m))
    BY <2>1 DEF VisionProcess
  <2> QED
    BY <2>1, <2>2, <2>3, SawBlock DEF f
<1>3. CASE cfg.input # "composite" /\ cfg.ifMode = "flat"
  <2>1. f = FlatAfter(d, c, p) /\ f.chain = "flat" /\ ChainAfter(d, c, p + m) = FlatAfter(d, c, p + m)
    BY <1>3 DEF ChainAfter, FlatAfter
  <2>2. \A j : ChainSample(d, j) = FlatSample(d, j)
    BY <1>3 DEF ChainSample
  <2> HIDE DEF f
  <2>3. VisionProcess(f, Block(p, m)) = FlatProcess(FlatAfter(d, c, p), Block(p, m))
    BY <2>1 DEF VisionProcess
  <2> QED
    BY <2>1, <2>2, <2>3, FlatBlock DEF f
<1> QED
  BY <1>1, <1>2, <1>3

LEMMA ChainStart ==
  ASSUME cfg.dec \in Nat \ {0}, cfg.block \in Nat
  PROVE  /\ CompositeChain(cfg.block) = CompositeAfter(cfg.dec, cfg.block, 0)
         /\ SawChain(cfg.block) = SawAfter(cfg.dec, cfg.block, 0)
         /\ FlatChain(cfg.block) = FlatAfter(cfg.dec, cfg.block, 0)
<1> DEFINE d == cfg.dec
           c == cfg.block
           half == (c + 1) \div 2
<1>1. d \in Nat \ {0} /\ c \in Nat /\ half \in Nat /\ 1 \in Nat \ {0}
  OBVIOUS
<1>2. IfTaps \in Nat \ {0} /\ VisionTaps \in Nat \ {0} /\ HalfLength \in Nat \ {0} /\ Delay \in Nat
  BY TapsAssumption, OddLength DEF HalfLength, Delay
<1>3. d = cfg.dec /\ c = cfg.block
  OBVIOUS
<1> HIDE DEF d, c, half
<1>4. CeilDiv(0, d) = 0
  BY <1>1, CeilUnique
<1>5. /\ FirInit(IfTaps, d, c) = FirAfter(SampleStream, IfTaps, d, c, 0)
      /\ FirInit(VisionTaps, d, c) = FirAfter(SampleStream, VisionTaps, d, c, 0)
      /\ FirInit(VisionTaps, d, c) = FirAfter(Mixed("i"), VisionTaps, d, c, 0)
      /\ FirInit(VisionTaps, d, c) = FirAfter(Mixed("q"), VisionTaps, d, c, 0)
  BY <1>1, <1>2, FirStart
<1>6. /\ FirInit(HalfLength, 1, half) = FirAfter(EvenStream, HalfLength, 1, half, 0)
      /\ FirInit(HalfLength, 1, half) = FirAfter(OddStream, HalfLength, 1, half, 0)
  BY <1>1, <1>2, FirStart
<1>7. CompositeChain(c) = CompositeAfter(d, c, 0)
  <2>1. FirInit(VisionTaps, d, c).outCap = CeilDiv(c, d)
    BY DEF FirInit
  <2>2. CompositeCap(c) = IF Filtered THEN CeilDiv(c, d) ELSE c
    BY <1>3, <2>1 DEF CompositeCap
  <2>3. (IF Filtered THEN 0 ELSE 0) = 0
    OBVIOUS
  <2> QED
    BY <1>3, <1>4, <1>5, <2>2, <2>3 DEF CompositeChain, CompositeAfter
<1>8. SawChain(c) = SawAfter(d, c, 0)
  <2>1. (IF cfg.detector = "quasi_sync" THEN 0 ELSE 0) = 0
    OBVIOUS
  <2> QED
    BY <1>3, <1>4, <1>5, <2>1 DEF SawChain, SawAfter
<1>9. HilbertInit(VisionTaps, c) = HilbertAfter(c, 0)
  <2>1. (0 + 1) \div 2 = 0 /\ 0 \div 2 = 0
    OBVIOUS
  <2>2. HalfAfter(EvenStream, c, 0) = FirInit(HalfLength, 1, half) /\ HalfAfter(OddStream, c, 0) = FirInit(HalfLength, 1, half)
    BY <1>6 DEF HalfAfter, half
  <2>3. [k \in 1 .. Delay |-> Silence] = DelayLine(0)
    <3>1. ASSUME NEW k \in 1 .. Delay PROVE At(SampleStream, 0 - Delay + k - 1) = Silence
      <4>1. 0 - Delay + k - 1 < 0
        BY <1>2
      <4> QED
        BY <4>1 DEF At
    <3> QED
      BY <3>1 DEF DelayLine
  <2> QED
    BY <2>1, <2>2, <2>3 DEF HilbertInit, HilbertAfter, HalfLength, Delay, half
<1>10. AmInit(VisionTaps, d, c) = AmAfter(d, c, 0)
  BY <1>5 DEF AmInit, AmAfter
<1>11. FlatChain(c) = FlatAfter(d, c, 0)
  BY <1>3, <1>9, <1>10 DEF FlatChain, FlatAfter
<1> QED
  BY <1>3, <1>7, <1>8, <1>11

(* The envelope the model promises is the chosen chain's.                  *)
LEMMA ReferenceIs ==
  ASSUME NEW n, NEW d \in Nat, NEW j \in Nat
  PROVE  /\ FirReference(Sample, n, d, j) = Reference(SampleStream, n, d, j)
         /\ FirReference(LAMBDA k : << HilbertSample(k), k, k, "i" >>, n, d, j) = Reference(Mixed("i"), n, d, j)
         /\ FirReference(LAMBDA k : << HilbertSample(k), k, k, "q" >>, n, d, j) = Reference(Mixed("q"), n, d, j)
<1>1. ASSUME NEW i \in 1 .. n, ~(d * j - (i - 1) < 0) PROVE d * j - (i - 1) \in Nat
  BY <1>1
<1>2. \A x \in Nat : SampleStream[x] = Sample(x) /\ \A plane : Mixed(plane)[x] = << HilbertSample(x), x, x, plane >>
  BY DEF SampleStream, Mixed
<1> QED
  BY <1>1, <1>2 DEF FirReference, Reference, At

LEMMA EnvelopeIs ==
  ASSUME NEW d \in Nat, d = cfg.dec, NEW c, NEW p, fe = ChainAfter(d, c, p), NEW j \in Nat
  PROVE  Envelope(j) = ChainSample(d, j)
<1>1. /\ FirReference(Sample, IfTaps, d, j) = Reference(SampleStream, IfTaps, d, j)
      /\ FirReference(Sample, VisionTaps, d, j) = Reference(SampleStream, VisionTaps, d, j)
      /\ FirReference(LAMBDA k : << HilbertSample(k), k, k, "i" >>, VisionTaps, d, j) = Reference(Mixed("i"), VisionTaps, d, j)
      /\ FirReference(LAMBDA k : << HilbertSample(k), k, k, "q" >>, VisionTaps, d, j) = Reference(Mixed("q"), VisionTaps, d, j)
  BY ReferenceIs
<1>2. fe.chain = IF cfg.input = "composite" THEN "composite" ELSE IF cfg.ifMode # "flat" THEN "saw" ELSE "flat"
  BY DEF ChainAfter, CompositeAfter, SawAfter, FlatAfter
<1>3. CASE cfg.input = "composite"
  <2>1. Envelope(j) = << IF Filtered THEN Reference(SampleStream, VisionTaps, d, j) ELSE Sample(j), j + 1 >>
    BY <1>1, <1>2, <1>3 DEF Envelope
  <2> QED
    BY <1>3, <2>1 DEF ChainSample, CompositeSample
<1>4. CASE cfg.input # "composite" /\ cfg.ifMode # "flat"
  <2> DEFINE y == Reference(SampleStream, IfTaps, d, j)
  <2>1. Envelope(j) = IF cfg.detector = "quasi_sync" THEN << y, j + 1 >> ELSE << y >>
    BY <1>1, <1>2, <1>4 DEF Envelope
  <2> QED
    BY <1>4, <2>1 DEF ChainSample, SawSample
<1>5. CASE cfg.input # "composite" /\ cfg.ifMode = "flat"
  <2>1. Envelope(j) = << Reference(Mixed("i"), VisionTaps, d, j), Reference(Mixed("q"), VisionTaps, d, j) >>
    BY <1>1, <1>2, <1>5 DEF Envelope
  <2> QED
    BY <1>5, <2>1 DEF ChainSample, FlatSample
<1> QED
  BY <1>3, <1>4, <1>5

-----------------------------------------------------------------------------
(* The run.                                                                *)

(* The source is read forward, and never past its end.                     *)
Reading == pos \in Nat /\ pos <= Samples /\ (status = "done" => pos = Samples)

(* Until a chain is built nothing is read and nothing comes out.           *)
Quiet == status \in {"start", "carrier", "failed"} => pos = 0 /\ emitted = 0 /\ out = << >>

(* A chain's state is a function of how many samples it has read, and so   *)
(* is the number it has emitted.                                           *)
Following ==
  status \in {"streaming", "done"} =>
    /\ cfg.dec >= 1
    /\ fe = ChainAfter(cfg.dec, cfg.block, pos)
    /\ emitted = CeilDiv(pos, cfg.dec)

(* The last block's envelope is the next part of the chain's.              *)
Chunked ==
  /\ Len(out) \in Nat /\ emitted \in Nat /\ Len(out) <= emitted
  /\ out = [k \in 1 .. Len(out) |-> ChainSample(cfg.dec, emitted - Len(out) + k - 1)]

IInv ==
  /\ cfg \in Configs /\ status \in {"start", "carrier", "streaming", "done", "failed"}
  /\ Reading /\ Quiet /\ Following /\ Chunked

LEMMA Typed ==
  ASSUME IInv
  PROVE  /\ cfg.dec \in Nat /\ cfg.block \in Nat \ {0} /\ Samples \in Nat
         /\ BlockLen \in 0 .. cfg.block /\ BlockLen \in Nat /\ pos + BlockLen <= Samples
         /\ (BlockLen = 0 => pos = Samples)
<1>1. cfg \in ConfigFields
  BY ConfigsAssumption DEF IInv
<1>2. cfg.dec \in Nat /\ cfg.block \in Nat /\ cfg.block # 0 /\ cfg.bytes \in Nat
  BY <1>1 DEF ConfigFields
<1>3. BytesPer(cfg.format) \in {1, 2}
  BY DEF BytesPer
<1>4. Samples \in Nat
  BY <1>2, <1>3 DEF Samples
<1>5. pos \in Nat /\ pos <= Samples
  BY DEF IInv, Reading
<1>6. BlockLen = IF cfg.block < Samples - pos THEN cfg.block ELSE Samples - pos
  BY DEF BlockLen
<1> DEFINE b == cfg.block
           l == BlockLen
           s == Samples
<1>7. b \in Nat /\ b # 0 /\ s \in Nat /\ pos \in Nat /\ pos <= s /\ l = IF b < s - pos THEN b ELSE s - pos
  BY <1>2, <1>4, <1>5, <1>6
<1> HIDE DEF b, l, s
<1>8. l \in 0 .. b /\ l \in Nat /\ pos + l <= s /\ (l = 0 => pos = s)
  BY <1>7
<1> QED
  BY <1>2, <1>4, <1>8 DEF b, l, s

(* What one block does, all of it.                                         *)
LEMMA BlockStep ==
  ASSUME IInv, OnBlock
  PROVE  /\ status' = "streaming" /\ pos' = pos + BlockLen /\ UNCHANGED << cfg, carrier >>
         /\ cfg.dec >= 1 /\ fe' = ChainAfter(cfg.dec, cfg.block, pos + BlockLen)
         /\ emitted = CeilDiv(pos, cfg.dec) /\ emitted' = CeilDiv(pos + BlockLen, cfg.dec)
         /\ emitted' \in Nat /\ emitted \in Nat /\ emitted <= emitted'
         /\ out' = [k \in 1 .. emitted' - emitted |-> ChainSample(cfg.dec, emitted + k - 1)]
         /\ Len(out') = emitted' - emitted
<1> DEFINE d == cfg.dec
           c == cfg.block
           m == BlockLen
           in == [k \in 1 .. m |-> << pos + k - 1 >>]
           a == CeilDiv(pos, d)
           b == CeilDiv(pos + m, d)
           o == [k \in 1 .. b - a |-> ChainSample(d, a + k - 1)]
<1>1. status = "streaming"
  BY DEF OnBlock
<1>2. d >= 1 /\ fe = ChainAfter(d, c, pos) /\ emitted = a
  BY <1>1 DEF IInv, Following
<1>3. d \in Nat \ {0} /\ c \in Nat /\ m \in 0 .. c /\ pos \in Nat
  <2>1. d \in Nat /\ c \in Nat /\ m \in 0 .. c
    BY Typed
  <2>2. pos \in Nat
    BY DEF IInv, Reading
  <2> QED
    BY <1>2, <2>1, <2>2
<1>4. Filtered \/ d = 1
  <2>1. Filtered \/ ~(d > 1)
    BY DEF Filtered
  <2> QED
    BY <1>2, <1>3, <2>1
<1>5. \E r \in {VisionProcess(fe, in)} :
         /\ status' = IF ~r.fits THEN "threw" ELSE IF ~r.inside THEN "overread" ELSE "streaming"
         /\ fe' = r.st
         /\ out' = r.out
         /\ pos' = pos + m
         /\ emitted' = emitted + Len(r.out)
  BY DEF OnBlock
<1>6. UNCHANGED << cfg, carrier >>
  BY DEF OnBlock
<1>7. in = Block(pos, m)
  BY DEF Block
<1>8. a \in Nat /\ b \in Nat /\ a <= b
  <2> HIDE DEF d, c, m
  <2> QED
    BY <1>3, Due
<1>9. d = cfg.dec /\ c = cfg.block /\ m = BlockLen
  OBVIOUS
<1> HIDE DEF d, c, m, in
<1>10. VisionProcess(fe, in) = [fits |-> TRUE, inside |-> TRUE, st |-> ChainAfter(d, c, pos + m), out |-> o]
  BY <1>2, <1>3, <1>4, <1>7, ChainBlock, ZenonT(60)
<1>11. Len(o) = b - a
  <2>1. b - a \in Nat /\ o = [k \in 1 .. b - a |-> o[k]]
    BY <1>8
  <2> HIDE DEF a, b, o
  <2> QED
    BY <2>1, SeqOf
<1> HIDE DEF a, b, o
<1>12. /\ status' = "streaming" /\ fe' = ChainAfter(d, c, pos + m) /\ out' = o /\ pos' = pos + m
       /\ emitted' = emitted + Len(o)
  BY <1>5, <1>10
<1>13. emitted' = b
  BY <1>2, <1>8, <1>11, <1>12
<1>14. out' = [k \in 1 .. b - a |-> ChainSample(d, a + k - 1)]
  BY <1>12 DEF o
<1> QED
  BY <1>2, <1>6, <1>8, <1>9, <1>11, <1>12, <1>13, <1>14 DEF a, b

(* Only the options decide what the chain is.                              *)
LEMMA SameChain ==
  ASSUME cfg' = cfg, NEW d, NEW c, NEW p, NEW j
  PROVE  ChainAfter(d, c, p)' = ChainAfter(d, c, p) /\ ChainSample(d, j)' = ChainSample(d, j)
BY DEF ChainAfter, ChainSample, CompositeAfter, CompositeSample, SawAfter, SawSample, FlatAfter, FlatSample,
       Filtered, WideOpen

LEMMA Starts == Init => IInv
<1> SUFFICES ASSUME Init PROVE IInv
  OBVIOUS
<1>1. cfg \in Configs /\ status = "start" /\ pos = 0 /\ emitted = 0 /\ out = << >>
  BY DEF Init
<1>2. Samples \in Nat
  <2>1. cfg.bytes \in Nat
    BY <1>1, ConfigsAssumption DEF ConfigFields
  <2> QED
    BY <2>1 DEF Samples, BytesPer
<1>3. Reading /\ Quiet /\ Following
  BY <1>1, <1>2 DEF Reading, Quiet, Following
<1>4. Chunked
  BY <1>1 DEF Chunked
<1> QED
  BY <1>1, <1>3, <1>4 DEF IInv

(* What loading and building leave alone.                                  *)
LEMMA StaysQuiet ==
  ASSUME IInv, status \in {"start", "carrier"}, UNCHANGED << cfg, pos, out, emitted >>,
         status' \in {"carrier", "failed", "streaming"}, status' = "streaming" => Following'
  PROVE  IInv'
<1>1. cfg' = cfg /\ pos' = pos /\ out' = out /\ emitted' = emitted
  OBVIOUS
<1>2. pos = 0 /\ emitted = 0 /\ out = << >>
  BY DEF IInv, Quiet
<1>3. Samples' = Samples /\ Samples \in Nat
  BY <1>1, Typed DEF Samples
<1>4. cfg' \in Configs /\ status' \in {"start", "carrier", "streaming", "done", "failed"}
  BY <1>1 DEF IInv
<1>5. Reading'
  BY <1>1, <1>2, <1>3 DEF Reading
<1>6. Quiet'
  BY <1>1, <1>2 DEF Quiet
<1>7. Following'
  BY DEF Following
<1>8. Chunked'
  BY <1>1, <1>2 DEF Chunked
<1> QED
  BY <1>4, <1>5, <1>6, <1>7, <1>8 DEF IInv

LEMMA Stays == IInv /\ [Next]_vars => IInv'
<1> SUFFICES ASSUME IInv, [Next]_vars PROVE IInv'
  OBVIOUS
<1>1. CASE LoadRecording
  BY <1>1, StaysQuiet DEF LoadRecording, Resolved, Fails
<1>2. CASE OpenLive
  BY <1>2, StaysQuiet DEF OpenLive, Resolved, Fails
<1>3. CASE MakeFrontEnd
  <2>1. status = "carrier" /\ UNCHANGED << cfg, pos, out, emitted >> /\ status' \in {"failed", "streaming"}
    BY <1>3 DEF MakeFrontEnd
  <2>2. ASSUME status' = "streaming" PROVE Following'
    <3>1. /\ Accepts
          /\ fe' = IF cfg.input = "composite" THEN CompositeChain(cfg.block)
                   ELSE IF cfg.ifMode # "flat" THEN SawChain(cfg.block) ELSE FlatChain(cfg.block)
      BY <1>3, <2>2 DEF MakeFrontEnd
    <3>2. cfg.dec >= 1 /\ cfg.dec \in Nat /\ cfg.block \in Nat
      BY <3>1, Typed DEF Accepts
    <3>3. fe' = ChainAfter(cfg.dec, cfg.block, 0)
      BY <3>1, <3>2, ChainStart DEF ChainAfter
    <3>4. pos' = 0 /\ emitted' = 0 /\ cfg' = cfg
      BY <2>1 DEF IInv, Quiet
    <3>5. CeilDiv(0, cfg.dec) = 0
      <4> DEFINE d == cfg.dec
      <4>1. d \in Nat \ {0}
        BY <3>2
      <4> HIDE DEF d
      <4>2. CeilDiv(0, d) = 0
        BY <4>1, CeilUnique
      <4> QED
        BY <4>2 DEF d
    <3>6. ChainAfter(cfg.dec, cfg.block, pos)' = ChainAfter(cfg.dec, cfg.block, 0)
      BY <3>4, SameChain
    <3> QED
      BY <3>2, <3>3, <3>4, <3>5, <3>6 DEF Following
  <2> QED
    BY <2>1, <2>2, StaysQuiet
<1>4. CASE OnBlock
  <2>1. /\ status' = "streaming" /\ pos' = pos + BlockLen /\ UNCHANGED << cfg, carrier >>
        /\ cfg.dec >= 1 /\ fe' = ChainAfter(cfg.dec, cfg.block, pos + BlockLen)
        /\ emitted = CeilDiv(pos, cfg.dec) /\ emitted' = CeilDiv(pos + BlockLen, cfg.dec)
        /\ emitted' \in Nat /\ emitted \in Nat /\ emitted <= emitted'
        /\ out' = [k \in 1 .. emitted' - emitted |-> ChainSample(cfg.dec, emitted + k - 1)]
        /\ Len(out') = emitted' - emitted
    BY <1>4, BlockStep
  <2>2. cfg' = cfg /\ cfg' \in Configs
    BY <2>1 DEF IInv
  <2>3. pos \in Nat /\ BlockLen \in Nat /\ pos + BlockLen <= Samples /\ Samples' = Samples
    BY <2>2, Typed DEF IInv, Reading, Samples
  <2>4. Reading'
    BY <2>1, <2>3 DEF Reading
  <2>5. Quiet'
    BY <2>1 DEF Quiet
  <2>6. Following'
    <3>1. ChainAfter(cfg.dec, cfg.block, pos)' = ChainAfter(cfg.dec, cfg.block, pos + BlockLen)
      BY <2>1, <2>2, SameChain
    <3> QED
      BY <2>1, <2>2, <3>1 DEF Following
  <2>7. Chunked'
    <3>1. Len(out') \in Nat /\ Len(out') <= emitted' /\ emitted' - Len(out') = emitted
      BY <2>1
    <3>2. \A j : ChainSample(cfg.dec, j)' = ChainSample(cfg.dec, j)
      BY <2>2, SameChain
    <3> QED
      BY <2>1, <2>2, <3>1, <3>2 DEF Chunked
  <2> QED
    BY <2>1, <2>2, <2>4, <2>5, <2>6, <2>7 DEF IInv
<1>5. CASE EndOfStream
  <2>1. status = "streaming" /\ BlockLen = 0 /\ status' = "done" /\ UNCHANGED << cfg, carrier, fe, pos, emitted, out >>
    BY <1>5 DEF EndOfStream
  <2>2. cfg' = cfg /\ cfg' \in Configs
    BY <2>1 DEF IInv
  <2>3. pos = Samples /\ Samples' = Samples
    BY <2>1, <2>2, Typed DEF Samples
  <2>4. Reading'
    BY <2>1, <2>3 DEF IInv, Reading
  <2>5. Quiet'
    BY <2>1 DEF Quiet
  <2>6. \A d, c, p, j : ChainAfter(d, c, p)' = ChainAfter(d, c, p) /\ ChainSample(d, j)' = ChainSample(d, j)
    BY <2>2, SameChain
  <2>7. Following'
    BY <2>1, <2>6 DEF IInv, Following
  <2>8. Chunked'
    BY <2>1, <2>6 DEF IInv, Chunked
  <2> QED
    BY <2>1, <2>2, <2>4, <2>5, <2>7, <2>8 DEF IInv
<1>6. CASE UNCHANGED vars
  <2>1. cfg' = cfg /\ status' = status /\ fe' = fe /\ pos' = pos /\ emitted' = emitted /\ out' = out
    BY <1>6 DEF vars
  <2>2. \A d, c, p, j : ChainAfter(d, c, p)' = ChainAfter(d, c, p) /\ ChainSample(d, j)' = ChainSample(d, j)
    BY <2>1, SameChain
  <2> QED
    BY <2>1, <2>2 DEF IInv, Reading, Quiet, Following, Chunked, Samples
<1> QED
  BY <1>1, <1>2, <1>3, <1>4, <1>5, <1>6 DEF Next

(* After any number of blocks, of any lengths, the stages' delay lines,    *)
(* phases, budgets and counters are exactly those of a chain that has read *)
(* the same samples in one piece; every block handed on fits what prepare  *)
(* set aside; and what has come out is the beginning of the one envelope   *)
(* the source stands for.                                                  *)
THEOREM Invariant == Spec => []IInv
<1> QED
  BY Starts, Stays, PTL DEF Spec

(* The envelope does not depend on where the blocks were cut, for any      *)
(* filter length, decimation, block length, source and chain: vector       *)
(* tiers, polyphase split, carried history and phase all yield the samples *)
(* that filtering the whole source at full rate and thinning it yields.    *)
THEOREM EnvelopeIsOne == Spec => []ChunkingInvariant
<1>1. IInv => ChunkingInvariant
  <2> SUFFICES ASSUME IInv, out # << >> PROVE out = [k \in 1 .. Len(out) |-> Envelope(emitted - Len(out) + k - 1)]
    BY DEF ChunkingInvariant
  <2>1. status \in {"streaming", "done"} /\ fe = ChainAfter(cfg.dec, cfg.block, pos)
    BY DEF IInv, Quiet, Following
  <2>2. /\ Len(out) \in Nat /\ emitted \in Nat /\ Len(out) <= emitted
        /\ out = [k \in 1 .. Len(out) |-> ChainSample(cfg.dec, emitted - Len(out) + k - 1)]
    BY DEF IInv, Chunked
  <2>3. cfg.dec \in Nat
    BY Typed
  <2>4. ASSUME NEW j \in Nat PROVE Envelope(j) = ChainSample(cfg.dec, j)
    <3> DEFINE d == cfg.dec
    <3>1. d \in Nat /\ d = cfg.dec /\ fe = ChainAfter(d, cfg.block, pos)
      BY <2>1, <2>3
    <3> HIDE DEF d
    <3>2. Envelope(j) = ChainSample(d, j)
      BY <3>1, EnvelopeIs
    <3> QED
      BY <3>1, <3>2
  <2>5. ASSUME NEW k \in 1 .. Len(out) PROVE emitted - Len(out) + k - 1 \in Nat
    BY <2>2
  <2> QED
    BY <2>2, <2>4, <2>5
<1> QED
  BY <1>1, Invariant, PTL

(* No vector load of any tier reaches past the window it was given.        *)
THEOREM LoadsStayInside == Spec => []LoadsInBounds
<1>1. IInv => LoadsInBounds
  BY DEF IInv, LoadsInBounds
<1> QED
  BY <1>1, Invariant, PTL

(* A source the constructors took never overruns a budget of prepare's,    *)
(* and a finished stream has been read to its end and has emitted one      *)
(* envelope sample for every dec samples, the last partial group included. *)
THEOREM WholeSource == Spec => []WholeSourceDecoded
<1>1. IInv => WholeSourceDecoded
  <2> SUFFICES ASSUME IInv PROVE WholeSourceDecoded
    OBVIOUS
  <2>1. status # "threw" /\ (status = "done" => pos = Samples)
    BY DEF IInv, Reading
  <2>2. status = "done" => emitted = CeilDiv(pos, cfg.dec)
    BY DEF IInv, Following
  <2> QED
    BY <2>1, <2>2 DEF WholeSourceDecoded
<1> QED
  BY <1>1, Invariant, PTL
=============================================================================
