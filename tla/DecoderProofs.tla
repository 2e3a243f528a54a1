--------------------------- MODULE DecoderProofs ---------------------------
(***************************************************************************)
(* Proofs about the decoder: its chroma path (ChromaLine), its PAL switch  *)
(* (PalSwitch) and its timing (SyncSignal), one after the other.  The      *)
(* three share no state.                                                   *)
(***************************************************************************)
EXTENDS ChromaLine, PalSwitch, SyncSignal, FiniteSetTheorems, SequenceTheorems, WellFoundedInduction, TLAPS

-----------------------------------------------------------------------------
(***************************************************************************)
(* ChromaLine: whatever the input, the blocks it is cut into, the length   *)
(* of the line and the comb, the decoder puts out what the stream, seen    *)
(* whole, says of each sample.  The invariant says what every field of the *)
(* decoder holds after its index in terms of the stream alone (Valid), and *)
(* that the segment being mixed began after the last gate close            *)
(* (Segmented).                                                            *)
(***************************************************************************)

(* A set of numbers has a least member.                                    *)
LEMMA LeastNumber ==
  ASSUME NEW T \in SUBSET Nat, T # {}
  PROVE  \E m \in T : \A n \in T : m <= n
<1> DEFINE R == OpToRel(<, Nat)
<1>1. IsWellFoundedOn(R, Nat)
  BY NatLessThanWellFounded
<1>2. \A x, y \in Nat : x < y => <<x, y>> \in R
  BY DEF OpToRel
<1> HIDE DEF R
<1>3. PICK x \in T : \A y \in T : ~ (<<y, x>> \in R)
  BY <1>1, WFMin
<1>4. \A y \in T : y \in Nat /\ x \in Nat
  OBVIOUS
<1>5. \A y \in T : ~(y < x)
  BY <1>2, <1>3, <1>4
<1> QED
  BY <1>4, <1>5

(* The maximum of a set of numbers is the member above the others.         *)
LEMMA MaxIs ==
  ASSUME NEW S \in SUBSET Int, NEW m \in S, \A x \in S : x <= m
  PROVE  Max(S) = m
<1>1. m \in S /\ \A y \in S : m >= y
  OBVIOUS
<1>2. Max(S) \in S /\ \A y \in S : Max(S) >= y
  BY <1>1, Zenon DEF Max
<1>3. Max(S) \in Int /\ Max(S) <= m /\ Max(S) >= m /\ m \in Int
  BY <1>1, <1>2
<1> QED
  BY <1>3

-----------------------------------------------------------------------------
(* What the stream says of sample k, from what it said of sample k - 1.    *)

LEMMA BeamType ==
  ASSUME NEW s \in Inputs, NEW k \in 0 .. Len(s.beam) - 1
  PROVE  Beam(s, k).start \in BOOLEAN /\ Beam(s, k).gate \in BOOLEAN
<1> DEFINE T == [start : BOOLEAN, gate : BOOLEAN]
           b == s.beam
<1>1. b \in Seq(T)
  BY InputsAssumption
<1> HIDE DEF T
<1>2. k + 1 \in 1 .. Len(b)
  BY <1>1
<1>3. b[k + 1] \in T
  BY <1>1, <1>2
<1> QED
  BY <1>3 DEF Beam, T

(* The sets of closes are finite.                                          *)
LEMMA ClosesFinite ==
  ASSUME NEW s, NEW k \in Int
  PROVE  /\ IsFiniteSet(ClosesTo(s, k)) /\ IsFiniteSet(GoodTo(s, k)) /\ IsFiniteSet(RetunesTo(s, k))
         /\ Nth(s, k) \in Nat /\ Cardinality(GoodTo(s, k)) \in Nat /\ Cardinality(RetunesTo(s, k)) \in Nat
<1>1. IsFiniteSet(1 .. k)
  BY FS_Interval
<1>2. IsFiniteSet(ClosesTo(s, k))
  <2>1. ClosesTo(s, k) \in SUBSET (1 .. k)
    BY DEF ClosesTo
  <2> QED
    BY <1>1, <2>1, FS_Subset
<1>3. IsFiniteSet(GoodTo(s, k))
  <2>1. GoodTo(s, k) \in SUBSET ClosesTo(s, k)
    BY DEF GoodTo
  <2> QED
    BY <1>2, <2>1, FS_Subset
<1>4. IsFiniteSet(RetunesTo(s, k))
  <2>1. RetunesTo(s, k) \in SUBSET GoodTo(s, k)
    BY DEF RetunesTo
  <2> QED
    BY <1>3, <2>1, FS_Subset
<1> QED
  BY <1>2, <1>3, <1>4, FS_CardinalityType DEF Nth

(* Sample k closes the gate the sample before it was in.                   *)
ClosesHere(s, k) == k >= 1 /\ Closes(s, k)

(* No close at sample k: the sets stay.                                    *)
LEMMA NoCloseStep ==
  ASSUME NEW s, NEW k \in Nat, ~ClosesHere(s, k)
  PROVE  /\ ClosesTo(s, k) = ClosesTo(s, k - 1)
         /\ GoodTo(s, k) = GoodTo(s, k - 1)
         /\ RetunesTo(s, k) = RetunesTo(s, k - 1)
<1>1. ClosesTo(s, k) = ClosesTo(s, k - 1)
  <2>1. \A j \in 1 .. k : Closes(s, j) => j \in 1 .. k - 1
    BY DEF ClosesHere
  <2>2. 1 .. k - 1 \subseteq 1 .. k
    OBVIOUS
  <2> QED
    BY <2>1, <2>2 DEF ClosesTo
<1> QED
  BY <1>1 DEF GoodTo, RetunesTo

(* A close at sample k is one more.                                        *)
LEMMA CloseStep ==
  ASSUME NEW s, NEW k \in Nat, ClosesHere(s, k)
  PROVE  /\ ClosesTo(s, k) = ClosesTo(s, k - 1) \cup {k}
         /\ k \notin ClosesTo(s, k - 1) /\ k \notin GoodTo(s, k - 1) /\ k \notin RetunesTo(s, k - 1)
         /\ Nth(s, k) = Nth(s, k - 1) + 1
         /\ GoodTo(s, k) = IF Measured(s, Nth(s, k)) THEN GoodTo(s, k - 1) \cup {k} ELSE GoodTo(s, k - 1)
         /\ RetunesTo(s, k) =
              IF Measured(s, Nth(s, k)) /\ s.pull /\ Nth(s, k) > 1 /\ Measured(s, Nth(s, k) - 1)
              THEN RetunesTo(s, k - 1) \cup {k} ELSE RetunesTo(s, k - 1)
<1>1. ClosesTo(s, k) = ClosesTo(s, k - 1) \cup {k}
  <2>1. 1 .. k = 1 .. k - 1 \cup {k} /\ Closes(s, k)
    BY DEF ClosesHere
  <2> QED
    BY <2>1 DEF ClosesTo
<1>2. k \notin ClosesTo(s, k - 1)
  BY DEF ClosesTo
<1>3. k \notin GoodTo(s, k - 1) /\ k \notin RetunesTo(s, k - 1)
  BY <1>2 DEF GoodTo, RetunesTo
<1>4. Nth(s, k) = Nth(s, k - 1) + 1
  <2>1. IsFiniteSet(ClosesTo(s, k - 1))
    BY ClosesFinite
  <2> QED
    BY <1>1, <1>2, <2>1, FS_AddElement DEF Nth
<1>5. GoodTo(s, k) = IF Measured(s, Nth(s, k)) THEN GoodTo(s, k - 1) \cup {k} ELSE GoodTo(s, k - 1)
  BY <1>1 DEF GoodTo
<1>6. \A j \in GoodTo(s, k - 1) : j # k
  BY <1>3
<1>7. RetunesTo(s, k) =
        IF Measured(s, Nth(s, k)) /\ s.pull /\ Nth(s, k) > 1 /\ Measured(s, Nth(s, k) - 1)
        THEN RetunesTo(s, k - 1) \cup {k} ELSE RetunesTo(s, k - 1)
  <2>1. CASE Measured(s, Nth(s, k))
    <3>1. GoodTo(s, k) = GoodTo(s, k - 1) \cup {k}
      BY <1>5, <2>1
    <3> QED
      BY <2>1, <3>1 DEF RetunesTo
  <2>2. CASE ~Measured(s, Nth(s, k))
    <3>1. GoodTo(s, k) = GoodTo(s, k - 1)
      BY <1>5, <2>2
    <3> QED
      BY <2>2, <3>1 DEF RetunesTo
  <2> QED
    BY <2>1, <2>2
<1> QED
  BY <1>1, <1>2, <1>3, <1>4, <1>5, <1>7

-----------------------------------------------------------------------------
(* finalize_line over the levels of the stream.                            *)

LEMMA LevelType ==
  ASSUME NEW s \in Inputs, NEW k \in Nat \ {0}
  PROVE  LevelAt(s, k) \in {"strong", "weak"}
<1> DEFINE T == {"strong", "weak"}
           l == s.levels
<1>1. l \in Seq(T) /\ Len(l) > 0
  BY InputsAssumption
<1> HIDE DEF T, l
<1>2. \A j \in 1 .. Len(l) : l[j] \in T
  BY <1>1
<1>3. (IF k < Len(l) THEN k ELSE Len(l)) \in 1 .. Len(l)
  BY <1>1
<1>4. l[IF k < Len(l) THEN k ELSE Len(l)] \in T
  BY <1>2, <1>3
<1> QED
  BY <1>4 DEF LevelAt, l, T

IsChromaSwitch(w) ==
  w = [parity |-> w.parity, polarity |-> w.polarity, ident |-> w.ident, vFlip |-> w.vFlip, gain |-> w.gain,
       ref |-> w.ref, gap |-> w.gap, good |-> w.good, retuned |-> w.retuned]

(* The last strong close and those after it, as the decayed peak has them. *)
LastStrong(s, n, ref) ==
  \E m \in 1 .. n : /\ LevelAt(s, m) = "strong" /\ ref = RefLines - (n - m)
                    /\ \A l \in m + 1 .. n : LevelAt(s, l) # "strong"
NoRecent(s, n) == \A m \in 1 .. n : LevelAt(s, m) = "strong" => n - m >= RefLines

(* The switch after n closes of stream s.                                  *)
SwitchAfter(s, w, n) ==
  /\ IsChromaSwitch(w) /\ (w.gap = 1 <=> n > 0 /\ Measured(s, n))
  /\ w.ref \in Nat
  /\ w.ref = 0 => NoRecent(s, n)
  /\ w.ref > 0 => LastStrong(s, n, w.ref)

(* The decayed peak hides exactly the bursts the stream calls unmeasured.  *)
LEMMA PeakStep ==
  ASSUME NEW s \in Inputs, NEW n \in Nat, NEW w, SwitchAfter(s, w, n), NEW p, p.refLines = RefLines
  PROVE  LET ref == RefAfter(p, w, LevelAt(s, n + 1))
         IN  /\ ref \in Nat
             /\ ref = 0 => NoRecent(s, n + 1)
             /\ ref > 0 => LastStrong(s, n + 1, ref)
             /\ Measured(s, n + 1) <=> ~(LevelAt(s, n + 1) = "weak" /\ ref > 0)
<1> DEFINE lev == LevelAt(s, n + 1)
           ref == RefAfter(p, w, lev)
<1>1. lev \in {"strong", "weak"}
  BY LevelType
<1>2. RefLines \in Nat /\ RefLines > 0
  BY LineAssumption
<1>3. w.ref \in Nat
  BY DEF SwitchAfter
<1>4. CASE lev = "strong"
  <2>1. ref = RefLines
    BY <1>4 DEF RefAfter
  <2>2. LastStrong(s, n + 1, ref)
    <3>1. n + 1 \in 1 .. n + 1 /\ ref = RefLines - ((n + 1) - (n + 1))
      BY <1>2, <2>1
    <3>2. \A l \in (n + 1) + 1 .. n + 1 : LevelAt(s, l) # "strong"
      OBVIOUS
    <3> QED
      BY <1>4, <3>1, <3>2 DEF LastStrong
  <2>3. Measured(s, n + 1)
    BY <1>4 DEF Measured
  <2> QED
    BY <1>2, <1>4, <2>1, <2>2, <2>3
<1>5. CASE lev = "weak" /\ w.ref = 0
  <2>1. ref = 0
    BY <1>5 DEF RefAfter
  <2>2. NoRecent(s, n)
    BY <1>5 DEF SwitchAfter
  <2>3. \A m \in 1 .. n : LevelAt(s, m) = "strong" => (n + 1) - m >= RefLines
    BY <1>2, <2>2 DEF NoRecent
  <2>4. NoRecent(s, n + 1)
    BY <1>5, <2>3 DEF NoRecent
  <2>5. Measured(s, n + 1)
    BY <2>3 DEF Measured
  <2> QED
    BY <1>5, <2>1, <2>4, <2>5
<1>6. CASE lev = "weak" /\ w.ref > 0
  <2>1. ref = w.ref - 1
    BY <1>6 DEF RefAfter
  <2>2. PICK m \in 1 .. n : /\ LevelAt(s, m) = "strong" /\ w.ref = RefLines - (n - m)
                            /\ \A l \in m + 1 .. n : LevelAt(s, l) # "strong"
    BY <1>6 DEF SwitchAfter, LastStrong
  <2>3. ref = RefLines - ((n + 1) - m) /\ m \in 1 .. n + 1
    BY <1>2, <2>1, <2>2
  <2>4. \A l \in m + 1 .. n + 1 : LevelAt(s, l) # "strong"
    <3>1. \A l \in m + 1 .. n + 1 : l \in m + 1 .. n \/ l = n + 1
      OBVIOUS
    <3> QED
      BY <1>6, <2>2, <3>1
  <2>5. LastStrong(s, n + 1, ref)
    BY <2>2, <2>3, <2>4 DEF LastStrong
  <2>6. \A l \in 1 .. n + 1 : LevelAt(s, l) = "strong" => l <= m
    <3>1. \A l \in 1 .. n + 1 : l > m => l \in m + 1 .. n + 1
      OBVIOUS
    <3> QED
      BY <2>4, <3>1
  <2>7. CASE ref = 0
    <3>1. (n + 1) - m = RefLines
      BY <1>2, <2>3, <2>7
    <3>2. \A l \in 1 .. n + 1 : LevelAt(s, l) = "strong" => (n + 1) - l >= RefLines
      BY <1>2, <2>6, <3>1
    <3>3. Measured(s, n + 1)
      <4>1. \A l \in 1 .. (n + 1) - 1 : l \in 1 .. n + 1
        OBVIOUS
      <4> QED
        BY <3>2, <4>1 DEF Measured
    <3> QED
      BY <2>7, <3>2, <3>3 DEF NoRecent
  <2>8. CASE ref > 0
    <3>1. (n + 1) - m < RefLines /\ m \in 1 .. (n + 1) - 1
      BY <1>2, <2>3, <2>8
    <3>2. ~Measured(s, n + 1)
      BY <1>2, <1>6, <2>2, <3>1 DEF Measured
    <3> QED
      BY <1>3, <1>6, <2>1, <2>5, <2>8, <3>2
  <2> QED
    BY <1>3, <1>6, <2>1, <2>7, <2>8
<1> QED
  BY <1>1, <1>3, <1>4, <1>5, <1>6

(* What a close makes of the switch: good when it measured its burst, a    *)
(* retune when the close before it measured one too.                       *)
LEMMA SwitchStep ==
  ASSUME NEW s \in Inputs, NEW n \in Nat, NEW w, SwitchAfter(s, w, n), NEW p, p.refLines = RefLines
  PROVE  LET v == FinalizeLine(p, w, LevelAt(s, n + 1), 1)
         IN  /\ SwitchAfter(s, v, n + 1)
             /\ v.good <=> Measured(s, n + 1)
             /\ v.retuned <=> Measured(s, n + 1) /\ p.pull /\ n > 0 /\ Measured(s, n)
<1> DEFINE lev == LevelAt(s, n + 1)
           ref == RefAfter(p, w, lev)
           v == FinalizeLine(p, w, lev, 1)
<1>1. /\ ref \in Nat
      /\ ref = 0 => NoRecent(s, n + 1)
      /\ ref > 0 => LastStrong(s, n + 1, ref)
      /\ Measured(s, n + 1) <=> ~(lev = "weak" /\ ref > 0)
  BY PeakStep
<1>2. IsChromaSwitch(w) /\ (w.gap = 1 <=> n > 0 /\ Measured(s, n))
  BY DEF SwitchAfter
<1> SUFFICES /\ SwitchAfter(s, v, n + 1)
             /\ v.good <=> Measured(s, n + 1)
             /\ v.retuned <=> Measured(s, n + 1) /\ p.pull /\ n > 0 /\ Measured(s, n)
  OBVIOUS
<1> HIDE DEF lev
<1>3. CASE lev = "weak" /\ ref > 0
  <2>1. v = [w EXCEPT !.parity = Toggle(w, TRUE), !.ref = ref, !.gap = IF @ = 0 THEN 0 ELSE 2,
                      !.good = FALSE, !.retuned = FALSE]
    BY <1>3 DEF FinalizeLine
  <2>2. /\ IsChromaSwitch(v) /\ v.ref = ref /\ v.gap # 1 /\ v.good = FALSE /\ v.retuned = FALSE
    <3> DEFINE par == Toggle(w, TRUE)
               g == IF w.gap = 0 THEN 0 ELSE 2
    <3> HIDE DEF v, ref, par, g
    <3>1. v = [w EXCEPT !.parity = par, !.ref = ref, !.gap = g, !.good = FALSE, !.retuned = FALSE]
      BY <2>1 DEF par, g
    <3>2. v = [parity |-> par, polarity |-> w.polarity, ident |-> w.ident, vFlip |-> w.vFlip, gain |-> w.gain,
               ref |-> ref, gap |-> g, good |-> FALSE, retuned |-> FALSE]
      BY <1>2, <3>1 DEF IsChromaSwitch
    <3>3. g # 1
      BY DEF g
    <3> QED
      BY <3>2, <3>3 DEF IsChromaSwitch
  <2>3. SwitchAfter(s, v, n + 1)
    <3> HIDE DEF v, ref
    <3> QED
      BY <1>1, <1>3, <2>2 DEF SwitchAfter
  <2> HIDE DEF v, ref
  <2> QED
    BY <1>1, <1>3, <2>2, <2>3
<1>4. CASE ~(lev = "weak" /\ ref > 0)
  <2>1. /\ IsChromaSwitch(v) /\ v.ref = ref /\ v.gap = 1 /\ v.good = TRUE /\ v.retuned = (p.pull /\ w.gap = 1)
    BY <1>4 DEF FinalizeLine, IsChromaSwitch
  <2>2. SwitchAfter(s, v, n + 1)
    <3> HIDE DEF v, ref
    <3> QED
      BY <1>1, <1>4, <2>1 DEF SwitchAfter
  <2> HIDE DEF v, ref
  <2> QED
    BY <1>1, <1>2, <1>4, <2>1, <2>2
<1> QED
  BY <1>3, <1>4

-----------------------------------------------------------------------------
(* What the three parts of a sample do to the decoder, field by field.     *)

IsDec(d) ==
  d = [ring |-> d.ring, ringPos |-> d.ringPos, index |-> d.index, lastStart |-> d.lastStart, lineLen |-> d.lineLen,
       inGate |-> d.inGate, acc |-> d.acc, sw |-> d.sw, closes |-> d.closes, retunes |-> d.retunes,
       controls |-> d.controls]

SameRing(d, e) == e.ring = d.ring /\ e.ringPos = d.ringPos
SameLine(d, e) == e.lastStart = d.lastStart /\ e.lineLen = d.lineLen
SameBurst(d, e) == e.sw = d.sw /\ e.closes = d.closes /\ e.retunes = d.retunes /\ e.controls = d.controls

LineStarted(d, e) ==
  /\ e.lastStart = d.index /\ e.acc = << >> /\ e.inGate = FALSE
  /\ e.lineLen = IF d.index - d.lastStart > 0 /\ d.index - d.lastStart < RingCap
                 THEN d.index - d.lastStart ELSE d.lineLen

LEMMA LineStartIs ==
  ASSUME NEW d, IsDec(d)
  PROVE  LET e == LineStart(d)
         IN  IsDec(e) /\ SameRing(d, e) /\ SameBurst(d, e) /\ e.index = d.index /\ LineStarted(d, e)
<1> DEFINE e == LineStart(d)
           n == d.index
           len == IF d.index - d.lastStart > 0 /\ d.index - d.lastStart < RingCap
                  THEN d.index - d.lastStart ELSE d.lineLen
<1>1. e = [d EXCEPT !.lineLen = len, !.lastStart = n, !.acc = << >>, !.inGate = FALSE]
  BY DEF LineStart
<1> HIDE DEF e, n, len
<1>2. e = [ring |-> d.ring, ringPos |-> d.ringPos, index |-> d.index, lastStart |-> n, lineLen |-> len,
           inGate |-> FALSE, acc |-> << >>, sw |-> d.sw, closes |-> d.closes, retunes |-> d.retunes,
           controls |-> d.controls]
  BY <1>1 DEF IsDec
<1>3. IsDec(e)
  BY <1>2 DEF IsDec
<1>4. SameRing(d, e) /\ e.index = d.index
  BY <1>2 DEF SameRing
<1>5. SameBurst(d, e)
  BY <1>2 DEF SameBurst
<1>6. e.lastStart = n /\ e.acc = << >> /\ e.inGate = FALSE /\ e.lineLen = len
  BY <1>2
<1>7. LineStarted(d, e)
  BY <1>6 DEF LineStarted, n, len
<1> QED
  BY <1>3, <1>4, <1>5, <1>7 DEF e

LEMMA GatherIs ==
  ASSUME NEW d, IsDec(d), NEW raw
  PROVE  LET e == Gate(d, raw, TRUE)
         IN  /\ IsDec(e) /\ SameRing(d, e) /\ SameLine(d, e) /\ SameBurst(d, e)
             /\ e.index = d.index + 1 /\ e.inGate = TRUE /\ e.acc = Append(d.acc, raw)
<1> DEFINE e == Gate(d, raw, TRUE)
           n == d.index + 1
           a == Append(d.acc, raw)
<1>1. e = [[d EXCEPT !.acc = a] EXCEPT !.inGate = TRUE, !.index = @ + 1]
  BY DEF Gate
<1> HIDE DEF e, a
<1>2. [d EXCEPT !.acc = a] =
          [ring |-> d.ring, ringPos |-> d.ringPos, index |-> d.index, lastStart |-> d.lastStart, lineLen |-> d.lineLen,
           inGate |-> d.inGate, acc |-> a, sw |-> d.sw, closes |-> d.closes, retunes |-> d.retunes,
           controls |-> d.controls]
  BY DEF IsDec
<1>3. e = [ring |-> d.ring, ringPos |-> d.ringPos, index |-> n, lastStart |-> d.lastStart, lineLen |-> d.lineLen,
           inGate |-> TRUE, acc |-> a, sw |-> d.sw, closes |-> d.closes, retunes |-> d.retunes,
           controls |-> d.controls]
  BY <1>1, <1>2
<1> HIDE DEF n
<1>4. IsDec(e)
  BY <1>3 DEF IsDec
<1>5. SameRing(d, e) /\ SameLine(d, e) /\ e.index = n
  BY <1>3 DEF SameRing, SameLine
<1>6. SameBurst(d, e) /\ e.inGate = TRUE /\ e.acc = a
  BY <1>3 DEF SameBurst
<1> QED
  BY <1>4, <1>5, <1>6 DEF e, n, a

LEMMA OutsideIs ==
  ASSUME NEW d, IsDec(d), NEW raw, ~d.inGate
  PROVE  LET e == Gate(d, raw, FALSE)
         IN  /\ IsDec(e) /\ SameRing(d, e) /\ SameLine(d, e) /\ SameBurst(d, e)
             /\ e.index = d.index + 1 /\ e.inGate = FALSE /\ e.acc = d.acc
<1> DEFINE e == Gate(d, raw, FALSE)
           n == d.index + 1
<1>1. e = [d EXCEPT !.inGate = FALSE, !.index = n]
  BY DEF Gate
<1> HIDE DEF e, n
<1>3. e = [ring |-> d.ring, ringPos |-> d.ringPos, index |-> n, lastStart |-> d.lastStart, lineLen |-> d.lineLen,
           inGate |-> FALSE, acc |-> d.acc, sw |-> d.sw, closes |-> d.closes, retunes |-> d.retunes,
           controls |-> d.controls]
  BY <1>1 DEF IsDec
<1>4. IsDec(e)
  BY <1>3 DEF IsDec
<1>5. SameRing(d, e) /\ SameLine(d, e) /\ e.index = n
  BY <1>3 DEF SameRing, SameLine
<1>6. SameBurst(d, e) /\ e.inGate = FALSE /\ e.acc = d.acc
  BY <1>3 DEF SameBurst
<1> QED
  BY <1>4, <1>5, <1>6 DEF e, n

(* The switch a gate close at d leaves.                                    *)
ClosedSwitch(d) == FinalizeLine([Switch EXCEPT !.pull = src.pull], d.sw, LevelAt(src, d.closes + 1), 1)

GateClosed(d, e) ==
  /\ e.sw = ClosedSwitch(d) /\ e.closes = d.closes + 1
  /\ e.retunes = IF ClosedSwitch(d).retuned THEN d.retunes + 1 ELSE d.retunes
  /\ e.controls = IF ClosedSwitch(d).good THEN [burst |-> d.acc, nth |-> d.controls.nth + 1] ELSE d.controls

LEMMA ClosesIs ==
  ASSUME NEW d, IsDec(d), NEW raw, d.inGate
  PROVE  LET e == Gate(d, raw, FALSE)
         IN  /\ IsDec(e) /\ SameRing(d, e) /\ SameLine(d, e) /\ GateClosed(d, e)
             /\ e.index = d.index + 1 /\ e.inGate = FALSE /\ e.acc = << >>
<1> DEFINE e == Gate(d, raw, FALSE)
           n == d.index + 1
           k == d.closes + 1
           w == ClosedSwitch(d)
           r == IF w.retuned THEN d.retunes + 1 ELSE d.retunes
           c == IF w.good THEN [burst |-> d.acc, nth |-> d.controls.nth + 1] ELSE d.controls
<1>1. GateClose(d) = [d EXCEPT !.closes = k, !.acc = << >>, !.sw = w, !.retunes = r, !.controls = c]
  BY DEF GateClose, ClosedSwitch
<1>2. e = [GateClose(d) EXCEPT !.inGate = FALSE, !.index = @ + 1]
  BY DEF Gate
<1> DEFINE x == GateClose(d)
<1> HIDE DEF e, k, w, r, c
<1>3. x =
          [ring |-> d.ring, ringPos |-> d.ringPos, index |-> d.index, lastStart |-> d.lastStart, lineLen |-> d.lineLen,
           inGate |-> d.inGate, acc |-> << >>, sw |-> w, closes |-> k, retunes |-> r, controls |-> c]
  BY <1>1 DEF IsDec
<1> HIDE DEF x
<1>9. e = [x EXCEPT !.inGate = FALSE, !.index = x.index + 1]
  BY <1>2 DEF x
<1>4. e = [ring |-> d.ring, ringPos |-> d.ringPos, index |-> n, lastStart |-> d.lastStart, lineLen |-> d.lineLen,
           inGate |-> FALSE, acc |-> << >>, sw |-> w, closes |-> k, retunes |-> r, controls |-> c]
  BY <1>3, <1>9
<1> HIDE DEF n
<1>5. IsDec(e)
  BY <1>4 DEF IsDec
<1>6. SameRing(d, e) /\ SameLine(d, e) /\ e.index = n /\ e.inGate = FALSE /\ e.acc = << >>
  BY <1>4 DEF SameRing, SameLine
<1>7. e.sw = w /\ e.closes = k /\ e.retunes = r /\ e.controls = c
  BY <1>4
<1>8. GateClosed(d, e)
  BY <1>7 DEF GateClosed, w, k, r, c
<1> QED
  BY <1>5, <1>6, <1>8 DEF e, n

CombWritten(d, raw, e) ==
  /\ e.ring = [d.ring EXCEPT ![d.ringPos] = IF src.mode = "post" THEN << raw, d.controls >> ELSE raw]
  /\ e.ringPos = IF d.ringPos + 1 = RingCap THEN 0 ELSE d.ringPos + 1

LEMMA WriteIs ==
  ASSUME NEW d, IsDec(d), NEW raw
  PROVE  LET e == CombWrite(d, raw)
         IN  /\ IsDec(e) /\ SameLine(d, e) /\ SameBurst(d, e)
             /\ e.index = d.index /\ e.inGate = d.inGate /\ e.acc = d.acc
             /\ src.mode # "off" => CombWritten(d, raw, e)
<1> DEFINE e == CombWrite(d, raw)
           stored == IF src.mode = "post" THEN << raw, d.controls >> ELSE raw
           r == [d.ring EXCEPT ![d.ringPos] = stored]
           wrapped == IF d.ringPos + 1 = RingCap THEN 0 ELSE d.ringPos + 1
<1>1. CASE src.mode = "off"
  <2>1. e = d
    BY <1>1 DEF CombWrite
  <2> HIDE DEF e
  <2> QED
    BY <1>1, <2>1 DEF SameLine, SameBurst, e
<1>2. CASE src.mode # "off"
  <2>1. e = [d EXCEPT !.ring = r, !.ringPos = wrapped]
    <3>1. e = [d EXCEPT !.ring[d.ringPos] = stored, !.ringPos = IF @ + 1 = RingCap THEN 0 ELSE @ + 1]
      BY <1>2 DEF CombWrite
    <3> HIDE DEF e, stored
    <3> QED
      BY <3>1
  <2> HIDE DEF e, r, wrapped
  <2>2. e = [ring |-> r, ringPos |-> wrapped, index |-> d.index, lastStart |-> d.lastStart, lineLen |-> d.lineLen,
             inGate |-> d.inGate, acc |-> d.acc, sw |-> d.sw, closes |-> d.closes, retunes |-> d.retunes,
             controls |-> d.controls]
    BY <2>1 DEF IsDec
  <2>3. IsDec(e)
    BY <2>2 DEF IsDec
  <2>4. SameLine(d, e) /\ e.index = d.index /\ e.inGate = d.inGate /\ e.acc = d.acc
    BY <2>2 DEF SameLine
  <2>5. SameBurst(d, e) /\ e.ring = r /\ e.ringPos = wrapped
    BY <2>2 DEF SameBurst
  <2>6. CombWritten(d, raw, e)
    BY <2>5 DEF CombWritten, r, wrapped
  <2> QED
    BY <2>3, <2>4, <2>5, <2>6 DEF e
<1> QED
  BY <1>1, <1>2

-----------------------------------------------------------------------------
(* The lines: where the last one started and how long it was.              *)

IsLastStart(s, k, m) ==
  /\ m = 0 \/ (m \in 0 .. k - 1 /\ Beam(s, m).start)
  /\ \A t \in 0 .. k - 1 : Beam(s, t).start => t <= m

IsLineLen(s, k, l) ==
  \/ FittingTo(s, k) = {} /\ l = NominalLine
  \/ \E f \in FittingTo(s, k) : (\A t \in FittingTo(s, k) : t <= f) /\ l = LineBefore(s, f)

Lined(s, d) ==
  /\ d.lastStart \in 0 .. d.index /\ d.lineLen \in 1 .. RingCap - 1
  /\ IsLastStart(s, d.index, d.lastStart) /\ IsLineLen(s, d.index - 1, d.lineLen)

LEMMA LastStartIs ==
  ASSUME NEW s, NEW k \in Nat, NEW m \in Nat, IsLastStart(s, k, m)
  PROVE  StartBefore(s, k) = m
<1> DEFINE S == {0} \cup {t \in 0 .. k - 1 : Beam(s, t).start}
<1>1. S \in SUBSET Int /\ m \in S
  BY DEF IsLastStart
<1>2. \A x \in S : x <= m
  BY DEF IsLastStart
<1> HIDE DEF S
<1>3. Max(S) = m
  BY <1>1, <1>2, MaxIs
<1> QED
  BY <1>3 DEF StartBefore, S

LEMMA LineLenIs ==
  ASSUME NEW s, NEW k \in Int, NEW l, IsLineLen(s, k, l)
  PROVE  LineLenAt(s, k) = l
<1>1. CASE FittingTo(s, k) = {}
  BY <1>1 DEF IsLineLen, LineLenAt
<1>2. CASE FittingTo(s, k) # {}
  <2>1. PICK f \in FittingTo(s, k) : (\A t \in FittingTo(s, k) : t <= f) /\ l = LineBefore(s, f)
    BY <1>2 DEF IsLineLen
  <2>2. FittingTo(s, k) \in SUBSET Int
    BY DEF FittingTo
  <2>3. Max(FittingTo(s, k)) = f
    BY <2>1, <2>2, MaxIs
  <2> QED
    BY <1>2, <2>1, <2>3 DEF LineLenAt
<1> QED
  BY <1>1, <1>2

LEMMA RingCapIs == RingCap \in Nat /\ NominalLine < RingCap /\ NominalLine \in Nat \ {0} /\ GlassLen \in Nat \ {0}
  BY LineAssumption DEF RingCap

(* A sample no line starts at.                                             *)
LEMMA LineGoesOn ==
  ASSUME NEW s \in Inputs, NEW d, Lined(s, d), d.index \in Nat, ~Beam(s, d.index).start,
         NEW e, SameLine(d, e), e.index = d.index + 1
  PROVE  Lined(s, e) /\ e.lineLen = LineLenAt(s, d.index) /\ e.lineLen \in 1 .. RingCap - 1
<1> DEFINE n == d.index
<1>1. FittingTo(s, n) = FittingTo(s, n - 1)
  <2>1. 0 .. n = 0 .. n - 1 \cup {n} /\ n \notin 0 .. n - 1
    OBVIOUS
  <2> QED
    BY <2>1 DEF FittingTo
<1>2. IsLineLen(s, n, e.lineLen)
  BY <1>1 DEF IsLineLen, Lined, SameLine
<1>3. IsLastStart(s, n + 1, e.lastStart)
  <2>1. d.lastStart \in 0 .. n /\ IsLastStart(s, n, d.lastStart) /\ e.lastStart = d.lastStart
    BY DEF Lined, SameLine
  <2>2. \A t \in 0 .. (n + 1) - 1 : Beam(s, t).start => t \in 0 .. n - 1
    OBVIOUS
  <2>3. d.lastStart = 0 \/ (d.lastStart \in 0 .. (n + 1) - 1 /\ Beam(s, d.lastStart).start)
    BY <2>1 DEF IsLastStart
  <2> QED
    BY <2>1, <2>2, <2>3 DEF IsLastStart
<1>4. LineLenAt(s, n) = e.lineLen
  BY <1>2, LineLenIs
<1>5. e.lineLen \in 1 .. RingCap - 1 /\ e.lastStart \in 0 .. n + 1 /\ (n + 1) - 1 = n
  BY DEF Lined, SameLine
<1> QED
  BY <1>2, <1>3, <1>4, <1>5 DEF Lined

(* A sample a line starts at measures the line before it.                  *)
LEMMA LineTurns ==
  ASSUME NEW s \in Inputs, NEW d, Lined(s, d), d.index \in Nat, Beam(s, d.index).start,
         NEW c, LineStarted(d, c), NEW e, SameLine(c, e), e.index = d.index + 1
  PROVE  Lined(s, e) /\ e.lineLen = LineLenAt(s, d.index) /\ e.lineLen \in 1 .. RingCap - 1
<1> DEFINE n == d.index
           len == n - d.lastStart
<1>1. d.lastStart \in 0 .. n /\ d.lineLen \in 1 .. RingCap - 1 /\ IsLastStart(s, n, d.lastStart)
      /\ IsLineLen(s, n - 1, d.lineLen)
  BY DEF Lined
<1>2. LineBefore(s, n) = len
  <2>1. StartBefore(s, n) = d.lastStart
    BY <1>1, LastStartIs
  <2> QED
    BY <2>1 DEF LineBefore
<1>3. e.lastStart = n /\ e.lineLen = IF len > 0 /\ len < RingCap THEN len ELSE d.lineLen
  BY DEF LineStarted, SameLine
<1>4. IsLastStart(s, n + 1, n)
  BY DEF IsLastStart
<1>5. 0 .. n = 0 .. n - 1 \cup {n} /\ n \notin 0 .. n - 1
  OBVIOUS
<1>8. IsLineLen(s, n, e.lineLen)
  <2>1. CASE len > 0 /\ len < RingCap
    <3>1. n \in FittingTo(s, n)
      BY <1>2, <2>1 DEF FittingTo
    <3>2. \A t \in FittingTo(s, n) : t <= n
      BY DEF FittingTo
    <3>3. IsLineLen(s, n, len)
      BY <1>2, <3>1, <3>2 DEF IsLineLen
    <3> QED
      BY <1>3, <2>1, <3>3
  <2>2. CASE ~(len > 0 /\ len < RingCap)
    <3>1. FittingTo(s, n) = FittingTo(s, n - 1)
      BY <1>2, <1>5, <2>2 DEF FittingTo
    <3>2. e.lineLen = d.lineLen
      BY <1>3, <2>2
    <3> QED
      BY <1>1, <3>1, <3>2 DEF IsLineLen
  <2> QED
    BY <2>1, <2>2
<1>9. LineLenAt(s, n) = e.lineLen
  BY <1>8, LineLenIs
<1>10. e.lineLen \in 1 .. RingCap - 1 /\ e.lastStart \in 0 .. n + 1 /\ (n + 1) - 1 = n
  BY <1>1, <1>3, RingCapIs
<1> QED
  BY <1>3, <1>4, <1>8, <1>9, <1>10 DEF Lined

-----------------------------------------------------------------------------
(* The bursts: what the gate has gathered, and what the closes made of it. *)

IsOpened(s, k, o) == o \in 0 .. k - 1 /\ Opens(s, o) /\ \A i \in 0 .. k - 1 : Opens(s, i) => i <= o
IsRun(s, k, a) == \E o \in 0 .. k - 1 : IsOpened(s, k, o) /\ a = [i \in 1 .. k - o |-> RawAt(s, o + i - 1)]

Gathered(s, d) ==
  /\ d.inGate \in BOOLEAN
  /\ d.inGate <=> d.index > 0 /\ Beam(s, d.index - 1).gate
  /\ IF d.inGate THEN IsRun(s, d.index, d.acc) ELSE d.acc = << >>

Counted(s, d) ==
  /\ d.closes = Nth(s, d.index - 1) /\ d.retunes = Cardinality(RetunesTo(s, d.index - 1))
  /\ d.controls = ControlsAt(s, d.index - 1) /\ SwitchAfter(s, d.sw, d.closes)

LEMMA RunIs ==
  ASSUME NEW s, NEW k \in Nat, NEW a, IsRun(s, k, a)
  PROVE  GateRun(s, k) = a
<1>1. PICK o \in 0 .. k - 1 : IsOpened(s, k, o) /\ a = [i \in 1 .. k - o |-> RawAt(s, o + i - 1)]
  BY DEF IsRun
<1> DEFINE S == {i \in 0 .. k - 1 : Opens(s, i)}
<1>2. S \in SUBSET Int /\ o \in S /\ \A i \in S : i <= o
  BY <1>1 DEF IsOpened
<1> HIDE DEF S
<1>3. Max(S) = o
  BY <1>2, MaxIs
<1>4. Opened(s, k) = o
  BY <1>3 DEF Opened, S
<1> QED
  BY <1>1, <1>4 DEF GateRun

(* A sample that opens the gate, or the first gated one of a line.         *)
LEMMA RunOpens ==
  ASSUME NEW s, NEW n \in Nat, Opens(s, n), NEW raw, raw = RawAt(s, n), NEW a, a = Append(<< >>, raw)
  PROVE  IsRun(s, n + 1, a)
<1>1. IsOpened(s, n + 1, n)
  BY DEF IsOpened
<1>2. a = << raw >>
  OBVIOUS
<1>3. a = [i \in 1 .. (n + 1) - n |-> RawAt(s, n + i - 1)]
  <2> DEFINE R(x) == RawAt(s, x)
  <2>1. a = << R(n) >>
    BY <1>2
  <2> HIDE DEF R
  <2>2. a = [i \in 1 .. 1 |-> R(n + i - 1)]
    BY <2>1
  <2> QED
    BY <2>2 DEF R
<1> QED
  BY <1>1, <1>3 DEF IsRun

(* One more sample of an open gate.                                        *)
LEMMA RunGoesOn ==
  ASSUME NEW s, NEW n \in Nat, ~Opens(s, n), NEW raw, raw = RawAt(s, n), NEW b, IsRun(s, n, b), NEW a, a = Append(b, raw)
  PROVE  IsRun(s, n + 1, a)
<1>1. PICK o \in 0 .. n - 1 : IsOpened(s, n, o) /\ b = [i \in 1 .. n - o |-> RawAt(s, o + i - 1)]
  BY DEF IsRun
<1>2. IsOpened(s, n + 1, o)
  <2>1. \A i \in 0 .. (n + 1) - 1 : Opens(s, i) => i \in 0 .. n - 1
    OBVIOUS
  <2> QED
    BY <1>1, <2>1 DEF IsOpened
<1>3. a = [i \in 1 .. (n + 1) - o |-> RawAt(s, o + i - 1)]
  <2> DEFINE R(x) == RawAt(s, x)
             f == [i \in 1 .. (n + 1) - o |-> R(o + i - 1)]
             l == n - o
  <2>1. b = [i \in 1 .. n - o |-> R(o + i - 1)] /\ raw = R(n)
    BY <1>1
  <2> HIDE DEF R
  <2>2. l \in Nat /\ n = o + l /\ (n + 1) - o = l + 1 /\ o \in Nat
    OBVIOUS
  <2>3. a = [i \in 1 .. l + 1 |-> R(o + i - 1)]
    <3> HIDE DEF l
    <3>1. b = [i \in 1 .. l |-> R(o + i - 1)]
      BY <2>1 DEF l
    <3>2. b \in Seq({R(x) : x \in Int})
      BY <2>2, <3>1
    <3>3. Len(b) = l
      BY <2>2, <3>1
    <3>4. R(n) = R(o + (l + 1) - 1)
      <4>1. n = o + (l + 1) - 1
        BY <2>2
      <4> QED
        BY <4>1
    <3>5. a = [i \in 1 .. l + 1 |-> IF i = l + 1 THEN R(n) ELSE b[i]]
      <4>1. a = [i \in 1 .. Len(b) + 1 |-> IF i <= Len(b) THEN b[i] ELSE R(n)]
        BY <2>1, <3>2
      <4>2. \A i \in 1 .. l + 1 : (IF i <= l THEN b[i] ELSE R(n)) = IF i = l + 1 THEN R(n) ELSE b[i]
        BY <2>2
      <4> QED
        BY <3>3, <4>1, <4>2
    <3>6. \A i \in 1 .. l + 1 : (IF i = l + 1 THEN R(n) ELSE b[i]) = R(o + i - 1)
      <4> TAKE i \in 1 .. l + 1
      <4>1. CASE i = l + 1
        BY <3>4, <4>1
      <4>2. CASE i # l + 1
        <5>1. i \in 1 .. l
          BY <2>2, <4>2
        <5> QED
          BY <3>1, <4>2, <5>1
      <4> QED
        BY <4>1, <4>2
    <3> QED
      BY <3>5, <3>6
  <2> QED
    BY <2>2, <2>3 DEF R
<1>4. o \in 0 .. (n + 1) - 1
  OBVIOUS
<1> QED
  BY <1>2, <1>3, <1>4 DEF IsRun

(* The decoder at sample n, a line start of that sample made.              *)
Ready(s, n, c) ==
  /\ c.index = n /\ c.inGate \in BOOLEAN
  /\ c.inGate <=> n > 0 /\ Beam(s, n - 1).gate /\ ~Beam(s, n).start
  /\ IF c.inGate THEN IsRun(s, n, c.acc) ELSE c.acc = << >>
  /\ Counted(s, c)

(* No close: the counts stay.                                              *)
LEMMA CountsStay ==
  ASSUME NEW s, NEW n \in Nat, NEW c, c.index = n, Counted(s, c), ~ClosesHere(s, n),
         NEW e, SameBurst(c, e), e.index = n + 1
  PROVE  Counted(s, e) /\ e.controls = ControlsAt(s, n)
<1>1. /\ ClosesTo(s, n) = ClosesTo(s, n - 1)
      /\ GoodTo(s, n) = GoodTo(s, n - 1)
      /\ RetunesTo(s, n) = RetunesTo(s, n - 1)
  BY NoCloseStep
<1>2. Nth(s, n) = Nth(s, n - 1) /\ ControlsAt(s, n) = ControlsAt(s, n - 1)
  BY <1>1 DEF Nth, ControlsAt
<1>3. e.index - 1 = n
  OBVIOUS
<1>4. /\ c.closes = Nth(s, n - 1) /\ c.retunes = Cardinality(RetunesTo(s, n - 1))
      /\ c.controls = ControlsAt(s, n - 1) /\ SwitchAfter(s, c.sw, c.closes)
  BY DEF Counted
<1>5. e.sw = c.sw /\ e.closes = c.closes /\ e.retunes = c.retunes /\ e.controls = c.controls
  BY DEF SameBurst
<1> QED
  BY <1>1, <1>2, <1>3, <1>4, <1>5 DEF Counted

(* A close measures the run it ends.                                       *)
LEMMA CountsClose ==
  ASSUME src \in Inputs, NEW n \in Nat, NEW c, Ready(src, n, c), c.inGate, ClosesHere(src, n),
         NEW e, GateClosed(c, e), e.index = n + 1
  PROVE  Counted(src, e) /\ e.controls = ControlsAt(src, n)
<1> DEFINE k == Nth(src, n)
           v == ClosedSwitch(c)
           G == GoodTo(src, n)
<1>1. /\ c.closes = Nth(src, n - 1) /\ c.retunes = Cardinality(RetunesTo(src, n - 1))
      /\ c.controls = ControlsAt(src, n - 1) /\ SwitchAfter(src, c.sw, c.closes)
  BY DEF Ready, Counted
<1>2. /\ n \notin GoodTo(src, n - 1) /\ n \notin RetunesTo(src, n - 1)
      /\ k = Nth(src, n - 1) + 1
      /\ G = IF Measured(src, k) THEN GoodTo(src, n - 1) \cup {n} ELSE GoodTo(src, n - 1)
      /\ RetunesTo(src, n) =
           IF Measured(src, k) /\ src.pull /\ k > 1 /\ Measured(src, k - 1)
           THEN RetunesTo(src, n - 1) \cup {n} ELSE RetunesTo(src, n - 1)
  BY CloseStep
<1>3. /\ IsFiniteSet(GoodTo(src, n - 1)) /\ IsFiniteSet(RetunesTo(src, n - 1)) /\ Nth(src, n - 1) \in Nat
      /\ Cardinality(GoodTo(src, n - 1)) \in Nat /\ Cardinality(RetunesTo(src, n - 1)) \in Nat
  BY ClosesFinite
<1>4. /\ SwitchAfter(src, v, k)
      /\ v.good <=> Measured(src, k)
      /\ v.retuned <=> Measured(src, k) /\ src.pull /\ k > 1 /\ Measured(src, k - 1)
  <2> DEFINE p == [Switch EXCEPT !.pull = src.pull]
  <2>1. p.refLines = RefLines /\ p.pull = src.pull
    BY DEF Switch
  <2>2. c.closes \in Nat /\ k = c.closes + 1
    BY <1>1, <1>2, <1>3
  <2>3. v = FinalizeLine(p, c.sw, LevelAt(src, c.closes + 1), 1)
    BY DEF ClosedSwitch
  <2> HIDE DEF p, k, v
  <2>4. /\ SwitchAfter(src, v, c.closes + 1)
        /\ v.good <=> Measured(src, c.closes + 1)
        /\ v.retuned <=> Measured(src, c.closes + 1) /\ p.pull /\ c.closes > 0 /\ Measured(src, c.closes)
    BY <1>1, <2>1, <2>2, <2>3, SwitchStep
  <2>5. k - 1 = c.closes /\ (k > 1 <=> c.closes > 0)
    BY <2>2
  <2> QED
    BY <2>1, <2>2, <2>4, <2>5
<1>5. /\ e.sw = v /\ e.closes = c.closes + 1
      /\ e.retunes = IF v.retuned THEN c.retunes + 1 ELSE c.retunes
      /\ e.controls = IF v.good THEN [burst |-> c.acc, nth |-> c.controls.nth + 1] ELSE c.controls
  BY DEF GateClosed
<1>6. e.retunes = Cardinality(RetunesTo(src, n))
  <2> HIDE DEF k, v
  <2>1. CASE v.retuned
    <3>1. RetunesTo(src, n) = RetunesTo(src, n - 1) \cup {n}
      BY <1>2, <1>4, <2>1
    <3>2. Cardinality(RetunesTo(src, n)) = Cardinality(RetunesTo(src, n - 1)) + 1
      BY <1>2, <1>3, <3>1, FS_AddElement
    <3> QED
      BY <1>1, <1>5, <2>1, <3>2
  <2>2. CASE ~v.retuned
    BY <1>1, <1>2, <1>4, <1>5, <2>2
  <2> QED
    BY <2>1, <2>2
<1>7. c.controls.nth = Cardinality(GoodTo(src, n - 1))
  <2>1. CASE GoodTo(src, n - 1) = {}
    <3>1. c.controls = [burst |-> Silence, nth |-> 0]
      BY <1>1, <2>1 DEF ControlsAt, NoBurst
    <3>2. Cardinality(GoodTo(src, n - 1)) = 0
      BY <2>1, FS_EmptySet
    <3>3. c.controls.nth = 0
      BY <3>1
    <3> QED
      BY <3>2, <3>3
  <2>2. CASE GoodTo(src, n - 1) # {}
    <3> DEFINE b == GateRun(src, Max(GoodTo(src, n - 1)))
               m == Cardinality(GoodTo(src, n - 1))
    <3>1. c.controls = [burst |-> b, nth |-> m]
      BY <1>1, <2>2 DEF ControlsAt
    <3> HIDE DEF b, m
    <3>2. c.controls.nth = m
      BY <3>1
    <3> QED
      BY <3>2 DEF m
  <2> QED
    BY <2>1, <2>2
<1>8. e.controls = ControlsAt(src, n)
  <2> HIDE DEF v
  <2>1. CASE Measured(src, k)
    <3>1. G = GoodTo(src, n - 1) \cup {n}
      BY <1>2, <2>1
    <3>2. G \in SUBSET Int /\ \A j \in G : j <= n
      BY DEF GoodTo, ClosesTo
    <3>3. Max(G) = n
      <4>1. n \in G
        BY <3>1
      <4> HIDE DEF G
      <4> QED
        BY <3>2, <4>1, MaxIs
    <3>4. GateRun(src, n) = c.acc
      BY RunIs DEF Ready
    <3>5. Cardinality(G) = c.controls.nth + 1
      <4>1. Cardinality(G) = Cardinality(GoodTo(src, n - 1)) + 1
        BY <1>2, <1>3, <3>1, FS_AddElement
      <4> QED
        BY <1>7, <4>1
    <3>6. ControlsAt(src, n) = [burst |-> c.acc, nth |-> c.controls.nth + 1]
      BY <3>1, <3>3, <3>4, <3>5 DEF ControlsAt
    <3> QED
      BY <1>4, <1>5, <2>1, <3>6
  <2>2. CASE ~Measured(src, k)
    <3>1. G = GoodTo(src, n - 1)
      BY <1>2, <2>2
    <3>2. ControlsAt(src, n) = ControlsAt(src, n - 1)
      BY <3>1 DEF ControlsAt
    <3> QED
      BY <1>1, <1>4, <1>5, <2>2, <3>2
  <2> QED
    BY <2>1, <2>2
<1>9. e.index - 1 = n /\ e.closes = k
  BY <1>1, <1>2, <1>5
<1> HIDE DEF k, v, G
<1> QED
  BY <1>4, <1>5, <1>6, <1>8, <1>9 DEF Counted, k

StartedAt(d, n) == IF Beam(src, n).start THEN LineStart(d) ELSE d

LEMMA StartStep ==
  ASSUME src \in Inputs, NEW d, IsDec(d), d.index \in 0 .. Len(src.beam) - 1, Gathered(src, d), Counted(src, d)
  PROVE  LET c == StartedAt(d, d.index)
         IN  /\ IsDec(c) /\ SameRing(d, c) /\ Ready(src, d.index, c)
             /\ IF Beam(src, d.index).start THEN LineStarted(d, c) ELSE SameLine(d, c)
<1> DEFINE n == d.index
           c == StartedAt(d, n)
<1>1. CASE Beam(src, n).start
  <2>1. c = LineStart(d)
    BY <1>1 DEF StartedAt
  <2>2. IsDec(c) /\ SameRing(d, c) /\ SameBurst(d, c) /\ c.index = n /\ LineStarted(d, c)
    BY <2>1, LineStartIs
  <2> HIDE DEF c
  <2>3. c.acc = << >> /\ c.inGate = FALSE
    BY <2>2 DEF LineStarted
  <2>4. Counted(src, c)
    BY <2>2 DEF Counted, SameBurst
  <2>5. Ready(src, n, c)
    BY <1>1, <2>2, <2>3, <2>4 DEF Ready
  <2> QED
    BY <1>1, <2>2, <2>5 DEF c
<1>2. CASE ~Beam(src, n).start
  <2>1. c = d
    BY <1>2 DEF StartedAt
  <2>2. Ready(src, n, d)
    BY <1>2 DEF Ready, Gathered
  <2> QED
    BY <1>2, <2>1, <2>2 DEF SameRing, SameLine
<1> QED
  BY <1>1, <1>2

LEMMA GateStep ==
  ASSUME src \in Inputs, NEW n \in 0 .. Len(src.beam) - 1, NEW c, IsDec(c), Ready(src, n, c)
  PROVE  LET e == Gate(c, RawAt(src, n), Beam(src, n).gate)
         IN  /\ IsDec(e) /\ SameRing(c, e) /\ SameLine(c, e) /\ e.index = n + 1
             /\ Gathered(src, e) /\ Counted(src, e) /\ e.controls = ControlsAt(src, n)
<1> DEFINE raw == RawAt(src, n)
           e == Gate(c, raw, Beam(src, n).gate)
<1>1. Beam(src, n).gate \in BOOLEAN /\ Beam(src, n).start \in BOOLEAN
  BY BeamType
<1>2. /\ c.index = n /\ c.inGate \in BOOLEAN
      /\ c.inGate <=> n > 0 /\ Beam(src, n - 1).gate /\ ~Beam(src, n).start
      /\ IF c.inGate THEN IsRun(src, n, c.acc) ELSE c.acc = << >>
      /\ Counted(src, c)
  BY DEF Ready
<1>3. n \in Nat /\ (n + 1) - 1 = n
  OBVIOUS
<1>4. CASE Beam(src, n).gate = TRUE
  <2>1. /\ IsDec(e) /\ SameRing(c, e) /\ SameLine(c, e) /\ SameBurst(c, e)
        /\ e.index = n + 1 /\ e.inGate = TRUE /\ e.acc = Append(c.acc, raw)
    BY <1>2, <1>4, GatherIs
  <2>2. ~ClosesHere(src, n)
    BY <1>4 DEF ClosesHere, Closes
  <2>3. IsRun(src, n + 1, e.acc)
    <3>1. CASE c.inGate
      <4>1. ~Opens(src, n)
        BY <1>2, <3>1 DEF Opens
      <4>2. IsRun(src, n, c.acc)
        BY <1>2, <3>1
      <4> HIDE DEF e
      <4> QED
        BY <1>3, <2>1, <4>1, <4>2, RunGoesOn
    <3>2. CASE ~c.inGate
      <4>1. Opens(src, n)
        BY <1>2, <1>4, <3>2 DEF Opens
      <4>2. c.acc = << >>
        BY <1>2, <3>2
      <4> HIDE DEF e
      <4> QED
        BY <1>3, <2>1, <4>1, <4>2, RunOpens
    <3> QED
      BY <3>1, <3>2
  <2> HIDE DEF e
  <2>4. Gathered(src, e)
    <3>1. e.index > 0 /\ e.index - 1 = n
      BY <1>3, <2>1
    <3> QED
      BY <1>4, <2>1, <2>3, <3>1 DEF Gathered
  <2>5. Counted(src, e) /\ e.controls = ControlsAt(src, n)
    BY <1>2, <1>3, <2>1, <2>2, CountsStay
  <2> QED
    BY <2>1, <2>4, <2>5 DEF e
<1>5. CASE Beam(src, n).gate = FALSE /\ c.inGate
  <2>1. /\ IsDec(e) /\ SameRing(c, e) /\ SameLine(c, e) /\ GateClosed(c, e)
        /\ e.index = n + 1 /\ e.inGate = FALSE /\ e.acc = << >>
    BY <1>2, <1>5, ClosesIs
  <2>2. ClosesHere(src, n)
    BY <1>2, <1>3, <1>5 DEF ClosesHere, Closes
  <2> HIDE DEF e
  <2>3. Counted(src, e) /\ e.controls = ControlsAt(src, n)
    BY <1>3, <1>5, <2>1, <2>2, CountsClose
  <2>4. Gathered(src, e)
    <3>1. e.index - 1 = n
      BY <1>3, <2>1
    <3> QED
      BY <1>5, <2>1, <3>1 DEF Gathered
  <2> QED
    BY <2>1, <2>3, <2>4 DEF e
<1>6. CASE Beam(src, n).gate = FALSE /\ ~c.inGate
  <2>1. /\ IsDec(e) /\ SameRing(c, e) /\ SameLine(c, e) /\ SameBurst(c, e)
        /\ e.index = n + 1 /\ e.inGate = FALSE /\ e.acc = c.acc
    BY <1>2, <1>6, OutsideIs
  <2>2. ~ClosesHere(src, n)
    BY <1>2, <1>3, <1>6 DEF ClosesHere, Closes
  <2> HIDE DEF e
  <2>3. Counted(src, e) /\ e.controls = ControlsAt(src, n)
    BY <1>2, <1>3, <2>1, <2>2, CountsStay
  <2>4. Gathered(src, e)
    <3>1. e.index - 1 = n /\ e.acc = << >>
      BY <1>2, <1>3, <1>6, <2>1
    <3> QED
      BY <1>6, <2>1, <3>1 DEF Gathered
  <2> QED
    BY <2>1, <2>3, <2>4 DEF e
<1> QED
  BY <1>1, <1>4, <1>5, <1>6

-----------------------------------------------------------------------------
(* The comb's ring.                                                        *)

(* The slot b samples back from a write position, and what sample j left.  *)
Back(p, b) == IF p >= b THEN p - b ELSE p + RingCap - b
Stored(s, j) ==
  IF j < 0 THEN Silence ELSE IF s.mode = "post" THEN << RawAt(s, j), ControlsAt(s, j) >> ELSE RawAt(s, j)

Ringed(s, d) ==
  /\ d.ring = [k \in 0 .. RingCap - 1 |-> d.ring[k]] /\ d.ringPos \in 0 .. RingCap - 1
  /\ \A b \in 1 .. RingCap : d.ring[Back(d.ringPos, b)] = Stored(s, d.index - b)

LEMMA BackStep ==
  ASSUME RingCap \in Nat \ {0}, NEW p \in 0 .. RingCap - 1, NEW b \in 1 .. RingCap, b # 1
  PROVE  LET q == IF p + 1 = RingCap THEN 0 ELSE p + 1
         IN  Back(q, b) = Back(p, b - 1) /\ Back(q, b) # p /\ Back(q, b) \in 0 .. RingCap - 1
<1>1. CASE p + 1 = RingCap
  <2>1. Back(0, b) = RingCap - b /\ Back(p, b - 1) = p - (b - 1)
    BY <1>1 DEF Back
  <2> QED
    BY <1>1, <2>1
<1>2. CASE p + 1 # RingCap /\ p + 1 >= b
  <2>1. Back(p + 1, b) = p + 1 - b /\ Back(p, b - 1) = p - (b - 1)
    BY <1>2 DEF Back
  <2> QED
    BY <1>2, <2>1
<1>3. CASE p + 1 # RingCap /\ p + 1 < b
  <2>1. Back(p + 1, b) = p + 1 + RingCap - b /\ Back(p, b - 1) = p + RingCap - (b - 1)
    BY <1>3 DEF Back
  <2> QED
    BY <1>3, <2>1
<1> QED
  BY <1>1, <1>2, <1>3

LEMMA RingStep ==
  ASSUME src \in Inputs, NEW n \in Nat, NEW g, g.index = n + 1,
         g.ring = [k \in 0 .. RingCap - 1 |-> g.ring[k]], g.ringPos \in 0 .. RingCap - 1,
         \A b \in 1 .. RingCap : g.ring[Back(g.ringPos, b)] = Stored(src, n - b),
         g.controls = ControlsAt(src, n),
         NEW e, CombWritten(g, RawAt(src, n), e), e.index = n + 1
  PROVE  Ringed(src, e)
<1> DEFINE p == g.ringPos
           q == IF p + 1 = RingCap THEN 0 ELSE p + 1
           x == Stored(src, n)
<1>1. RingCap \in Nat \ {0}
  BY RingCapIs
<1>2. e.ring = [g.ring EXCEPT ![p] = x] /\ e.ringPos = q
  <2>1. x = IF src.mode = "post" THEN << RawAt(src, n), g.controls >> ELSE RawAt(src, n)
    BY DEF Stored
  <2> HIDE DEF x
  <2> QED
    BY <2>1 DEF CombWritten
<1>3. q \in 0 .. RingCap - 1 /\ p \in 0 .. RingCap - 1
  BY <1>1
<1> HIDE DEF x
<1>4. e.ring = [k \in 0 .. RingCap - 1 |-> IF k = p THEN x ELSE g.ring[k]]
  BY <1>2
<1>5. ASSUME NEW b \in 1 .. RingCap
      PROVE  e.ring[Back(q, b)] = Stored(src, (n + 1) - b)
  <2>1. CASE b = 1
    <3>1. Back(q, b) = p /\ (n + 1) - b = n
      BY <1>1, <1>3, <2>1 DEF Back
    <3> HIDE DEF q, p
    <3> QED
      BY <1>3, <1>4, <3>1 DEF x
  <2>2. CASE b # 1
    <3>1. b - 1 \in 1 .. RingCap /\ b - 1 < RingCap /\ n - (b - 1) = (n + 1) - b
      BY <1>1, <2>2
    <3>2. Back(q, b) = Back(p, b - 1) /\ Back(q, b) # p /\ Back(q, b) \in 0 .. RingCap - 1
      BY <1>1, <1>3, <2>2, BackStep
    <3>3. e.ring[Back(q, b)] = g.ring[Back(p, b - 1)]
      <4> HIDE DEF q, p
      <4> QED
        BY <1>4, <3>2
    <3> QED
      BY <3>1, <3>3
  <2> QED
    BY <2>1, <2>2
<1>6. e.ring = [k \in 0 .. RingCap - 1 |-> e.ring[k]]
  BY <1>4
<1> HIDE DEF p, q
<1> QED
  BY <1>2, <1>3, <1>5, <1>6 DEF Ringed

(* The comb reads the sample a delay back.                                 *)
LEMMA CombReads ==
  ASSUME src \in Inputs, NEW n \in Nat, NEW g, src.mode # "off",
         g.ringPos \in 0 .. RingCap - 1,
         \A b \in 1 .. RingCap : g.ring[Back(g.ringPos, b)] = Stored(src, n - b),
         g.lineLen = LineLenAt(src, n), g.lineLen \in 1 .. RingCap - 1
  PROVE  CombRead(g) = MateAt(src, n)
<1> DEFINE b == Delay(g)
<1>1. b = IF src.mode = "glass" THEN GlassLen ELSE LineLenAt(src, n)
  BY DEF Delay
<1>2. b \in 1 .. RingCap
  BY <1>1, RingCapIs, GlassAssumption
<1>3. CombRead(g) = g.ring[Back(g.ringPos, b)]
  BY DEF CombRead, Back
<1> HIDE DEF b
<1>4. CombRead(g) = Stored(src, n - b)
  BY <1>2, <1>3
<1>5. MateAt(src, n) = Stored(src, n - b)
  BY <1>1, <1>2 DEF MateAt, Stored
<1> QED
  BY <1>4, <1>5

-----------------------------------------------------------------------------
(* The decoder as a function of the samples it has seen.                   *)

Valid(s, d) ==
  /\ IsDec(d) /\ d.index \in 0 .. Len(s.beam)
  /\ Lined(s, d) /\ Gathered(s, d) /\ Counted(s, d)
  /\ s.mode # "off" => Ringed(s, d)

LEMMA LenBeam ==
  ASSUME NEW s \in Inputs
  PROVE  Len(s.beam) \in Nat
<1> DEFINE b == s.beam
           T == [start : BOOLEAN, gate : BOOLEAN]
<1>1. b \in Seq(T)
  BY InputsAssumption
<1> HIDE DEF T
<1>2. Len(b) \in Nat
  BY <1>1
<1> QED
  BY <1>2

LEMMA InitValid ==
  ASSUME NEW s \in Inputs
  PROVE  Valid(s, DecoderInit)
<1> DEFINE d == DecoderInit
           w == SwitchInit(Switch)
<1>1. /\ d.index = 0 /\ d.lastStart = 0 /\ d.lineLen = NominalLine /\ d.inGate = FALSE /\ d.acc = << >>
      /\ d.sw = w /\ d.closes = 0 /\ d.retunes = 0 /\ d.controls = NoBurst /\ d.ringPos = 0
      /\ d.ring = [k \in 0 .. RingCap - 1 |-> Silence]
  BY DEF DecoderInit
<1>2. IsDec(d)
  <2> HIDE DEF w
  <2> QED
    BY DEF DecoderInit, IsDec
<1>3. w.gap = 0 /\ w.ref = 0 /\ IsChromaSwitch(w)
  BY DEF SwitchInit, Switch, IsChromaSwitch
<1> HIDE DEF d, w
<1>4. Lined(s, d)
  <2>1. IsLastStart(s, 0, 0)
    BY DEF IsLastStart
  <2>2. IsLineLen(s, 0 - 1, NominalLine)
    <3>1. FittingTo(s, 0 - 1) = {}
      BY DEF FittingTo
    <3> QED
      BY <3>1 DEF IsLineLen
  <2>3. NominalLine \in 1 .. RingCap - 1
    BY RingCapIs
  <2> QED
    BY <1>1, <2>1, <2>2, <2>3 DEF Lined
<1>5. Gathered(s, d)
  <2>1. ~(d.index > 0) /\ d.inGate = FALSE /\ d.acc = << >>
    BY <1>1
  <2> QED
    BY <2>1 DEF Gathered
<1>6. Counted(s, d)
  <2>1. ClosesTo(s, 0 - 1) = {} /\ GoodTo(s, 0 - 1) = {} /\ RetunesTo(s, 0 - 1) = {}
    BY DEF ClosesTo, GoodTo, RetunesTo
  <2>2. Nth(s, 0 - 1) = 0 /\ Cardinality(RetunesTo(s, 0 - 1)) = 0 /\ ControlsAt(s, 0 - 1) = NoBurst
    BY <2>1, FS_EmptySet DEF Nth, ControlsAt
  <2>3. SwitchAfter(s, w, 0)
    BY <1>3 DEF SwitchAfter, NoRecent
  <2> QED
    BY <1>1, <2>2, <2>3 DEF Counted
<1>7. Ringed(s, d)
  <2>1. \A b \in 1 .. RingCap : Back(0, b) \in 0 .. RingCap - 1 /\ Stored(s, 0 - b) = Silence
    BY RingCapIs DEF Back, Stored
  <2>2. 0 \in 0 .. RingCap - 1
    BY RingCapIs
  <2>3. \A b \in 1 .. RingCap : d.ring[Back(0, b)] = Silence
    BY <1>1, <2>1
  <2>4. d.ring = [k \in 0 .. RingCap - 1 |-> d.ring[k]]
    BY <1>1
  <2> QED
    BY <1>1, <2>1, <2>2, <2>3, <2>4 DEF Ringed
<1>8. d.index \in 0 .. Len(s.beam)
  BY <1>1, LenBeam
<1> QED
  BY <1>2, <1>4, <1>5, <1>6, <1>7, <1>8 DEF Valid, d

(* Sample n: the raw, the controls and the mate the stream says, and the   *)
(* decoder the stream says after it.                                       *)
LEMMA SampleStep ==
  ASSUME src \in Inputs, NEW d, Valid(src, d), d.index < Len(src.beam)
  PROVE  LET n   == d.index
             raw == RawAt(src, n)
             g   == Gate(IF Beam(src, n).start THEN LineStart(d) ELSE d, raw, Beam(src, n).gate)
             e   == CombWrite(g, raw)
         IN  /\ Valid(src, e) /\ e.index = n + 1
             /\ g.controls = ControlsAt(src, n)
             /\ (IF src.mode = "off" THEN Silence ELSE CombRead(g)) = MateAt(src, n)
<1> DEFINE n == d.index
           raw == RawAt(src, n)
           c == StartedAt(d, n)
           g == Gate(c, raw, Beam(src, n).gate)
           e == CombWrite(g, raw)
<1>1. /\ IsDec(d) /\ n \in 0 .. Len(src.beam) - 1 /\ n \in Nat /\ Lined(src, d) /\ Gathered(src, d)
      /\ Counted(src, d) /\ (src.mode # "off" => Ringed(src, d))
  BY LenBeam DEF Valid
<1>2. /\ IsDec(c) /\ SameRing(d, c) /\ Ready(src, n, c)
      /\ IF Beam(src, n).start THEN LineStarted(d, c) ELSE SameLine(d, c)
  BY <1>1, StartStep
<1> HIDE DEF c
<1>3. /\ IsDec(g) /\ SameRing(c, g) /\ SameLine(c, g) /\ g.index = n + 1
      /\ Gathered(src, g) /\ Counted(src, g) /\ g.controls = ControlsAt(src, n)
  BY <1>1, <1>2, GateStep
<1> HIDE DEF g
<1>4. /\ IsDec(e) /\ SameLine(g, e) /\ SameBurst(g, e)
      /\ e.index = g.index /\ e.inGate = g.inGate /\ e.acc = g.acc
      /\ src.mode # "off" => CombWritten(g, raw, e)
  BY <1>3, WriteIs
<1> HIDE DEF e
<1>5. Lined(src, g) /\ g.lineLen = LineLenAt(src, n) /\ g.lineLen \in 1 .. RingCap - 1
  <2>1. CASE Beam(src, n).start
    BY <1>1, <1>2, <1>3, <2>1, LineTurns
  <2>2. CASE ~Beam(src, n).start
    <3>1. SameLine(d, g)
      BY <1>2, <1>3, <2>2 DEF SameLine
    <3> QED
      BY <1>1, <1>3, <2>2, <3>1, LineGoesOn
  <2> QED
    BY <2>1, <2>2
<1>6. Lined(src, e) /\ Gathered(src, e) /\ Counted(src, e)
  <2>1. Lined(src, e)
    BY <1>4, <1>5 DEF Lined, SameLine
  <2>2. Gathered(src, e)
    BY <1>3, <1>4 DEF Gathered
  <2>3. Counted(src, e)
    BY <1>3, <1>4 DEF Counted, SameBurst
  <2> QED
    BY <2>1, <2>2, <2>3
<1>7. ASSUME src.mode # "off"
      PROVE  Ringed(src, e) /\ CombRead(g) = MateAt(src, n)
  <2>1. g.ring = d.ring /\ g.ringPos = d.ringPos
    BY <1>2, <1>3 DEF SameRing
  <2>2. /\ g.ring = [k \in 0 .. RingCap - 1 |-> g.ring[k]] /\ g.ringPos \in 0 .. RingCap - 1
        /\ \A b \in 1 .. RingCap : g.ring[Back(g.ringPos, b)] = Stored(src, n - b)
    BY <1>1, <1>7, <2>1 DEF Ringed
  <2>3. Ringed(src, e)
    BY <1>1, <1>3, <1>4, <1>7, <2>2, RingStep
  <2>4. CombRead(g) = MateAt(src, n)
    BY <1>1, <1>5, <1>7, <2>2, CombReads
  <2> QED
    BY <2>3, <2>4
<1>8. (IF src.mode = "off" THEN Silence ELSE CombRead(g)) = MateAt(src, n)
  <2>1. CASE src.mode = "off"
    BY <2>1 DEF MateAt
  <2>2. CASE src.mode # "off"
    BY <1>7, <2>2
  <2> QED
    BY <2>1, <2>2
<1>9. e.index = n + 1 /\ e.index \in 0 .. Len(src.beam)
  BY <1>1, <1>3, <1>4, LenBeam
<1>10. Valid(src, e)
  BY <1>4, <1>6, <1>7, <1>9 DEF Valid
<1> QED
  BY <1>3, <1>8, <1>9, <1>10 DEF e, g, c, StartedAt

-----------------------------------------------------------------------------
(* The invariant: the decoder is what the stream says, whatever the cuts.  *)

(* A segment is mixed at the tuning all its samples were to have.          *)
Segmented ==
  /\ segEnd \in Nat /\ blockEnd \in Nat
  /\ dec.index <= segEnd /\ segEnd <= blockEnd /\ blockEnd <= Len(src.beam)
  /\ dec.index < segEnd => tuning = dec.retunes
  /\ src.pull => \A j \in dec.index .. segEnd - 2 : ~ClosesHere(src, j)

Decoded(s, n, o) == n > 0 => o.raw = RawAt(s, n - 1) /\ o.controls = ControlsAt(s, n - 1) /\ o.mate = MateAt(s, n - 1)

ChromaIInv == src \in Inputs /\ Valid(src, dec) /\ Segmented /\ Decoded(src, dec.index, out)

LEMMA ChromaInitHolds == ChromaInit => ChromaIInv
<1> SUFFICES ASSUME ChromaInit PROVE ChromaIInv
  OBVIOUS
<1>1. src \in Inputs /\ dec = DecoderInit /\ blockEnd = 0 /\ segEnd = 0 /\ tuning = 0
  BY DEF ChromaInit
<1>2. Valid(src, dec)
  BY <1>1, InitValid
<1>3. dec.index = 0 /\ dec.retunes = 0
  BY <1>1 DEF DecoderInit
<1>4. Segmented
  <2>1. Len(src.beam) \in Nat
    BY <1>1, LenBeam
  <2> QED
    BY <1>1, <1>3, <2>1 DEF Segmented
<1>5. Decoded(src, dec.index, out)
  BY <1>3 DEF Decoded
<1> QED
  BY <1>1, <1>2, <1>4, <1>5 DEF ChromaIInv

LEMMA TakeBlockStep == ChromaIInv /\ TakeBlock => ChromaIInv'
<1> SUFFICES ASSUME ChromaIInv, TakeBlock PROVE ChromaIInv'
  OBVIOUS
<1>1. src' = src /\ dec' = dec /\ segEnd' = segEnd /\ tuning' = tuning /\ out' = out
  BY DEF TakeBlock
<1>2. PICK n \in Blocks : blockEnd' = IF blockEnd + n < Len(src.beam) THEN blockEnd + n ELSE Len(src.beam)
  BY DEF TakeBlock
<1>3. n \in Nat /\ dec.index = blockEnd /\ blockEnd < Len(src.beam)
  BY BlocksAssumption DEF TakeBlock
<1>4. Len(src.beam) \in Nat
  BY LenBeam DEF ChromaIInv
<1>5. segEnd \in Nat /\ blockEnd \in Nat /\ segEnd <= blockEnd
  BY DEF ChromaIInv, Segmented
<1>6. blockEnd' \in Nat /\ blockEnd <= blockEnd' /\ blockEnd' <= Len(src.beam)
  BY <1>2, <1>3, <1>4, <1>5
<1>7. Segmented'
  <2>1. segEnd <= blockEnd'
    BY <1>5, <1>6
  <2> QED
    BY <1>1, <1>6, <2>1 DEF ChromaIInv, Segmented
<1> QED
  BY <1>1, <1>7 DEF ChromaIInv

LEMMA CutSegmentStep == ChromaIInv /\ CutSegment => ChromaIInv'
<1> SUFFICES ASSUME ChromaIInv, CutSegment PROVE ChromaIInv'
  OBVIOUS
<1> DEFINE n == dec.index
           S == SegmentEnds
<1>1. /\ src' = src /\ dec' = dec /\ blockEnd' = blockEnd /\ out' = out
      /\ tuning' = dec.retunes /\ segEnd' = Min(S)
  BY DEF CutSegment
<1>2. n = segEnd /\ segEnd < blockEnd /\ segEnd \in Nat /\ blockEnd \in Nat /\ blockEnd <= Len(src.beam)
  BY DEF CutSegment, ChromaIInv, Segmented
<1>3. S \in SUBSET (n + 1 .. blockEnd) /\ blockEnd \in S
  BY <1>2 DEF SegmentEnds
<1>4. segEnd' \in S /\ \A k \in S : segEnd' <= k
  <2>1. S \in SUBSET Nat /\ S # {}
    BY <1>2, <1>3
  <2> HIDE DEF S
  <2>2. \E m \in S : \A k \in S : m <= k
    BY <2>1, LeastNumber
  <2>3. Min(S) \in S /\ \A k \in S : Min(S) <= k
    BY <2>2, Zenon DEF Min
  <2> QED
    BY <1>1, <2>3
<1>5. ASSUME src.pull, NEW j \in n .. segEnd' - 2, ClosesHere(src, j)
      PROVE  FALSE
  <2>1. segEnd' \in n + 1 .. blockEnd
    BY <1>3, <1>4
  <2>2. j \in Nat /\ j + 1 \in n + 1 .. blockEnd /\ (j + 1) - 1 = j /\ segEnd' > j + 1
    <3> DEFINE e == segEnd'
    <3>1. e \in n + 1 .. blockEnd /\ j \in n .. e - 2 /\ n \in Nat /\ blockEnd \in Nat
      BY <1>2, <2>1
    <3> HIDE DEF e, n
    <3>2. j \in Nat /\ j + 1 \in n + 1 .. blockEnd /\ (j + 1) - 1 = j /\ e > j + 1
      BY <3>1
    <3> QED
      BY <3>2 DEF e, n
  <2>3. Beam(src, j - 1).gate /\ ~Beam(src, j).gate /\ ~Beam(src, j).start /\ j >= 1
    BY <1>5 DEF ClosesHere, Closes
  <2>4. j = n => dec.inGate
    BY <2>2, <2>3 DEF ChromaIInv, Valid, Gathered
  <2>5. j + 1 \in S
    BY <1>5, <2>2, <2>3, <2>4 DEF SegmentEnds
  <2>6. segEnd' <= j + 1
    BY <1>4, <2>5
  <2>7. segEnd' \in Nat
    BY <1>2, <2>1
  <2> QED
    BY <2>2, <2>6, <2>7
<1> HIDE DEF S
<1>6. segEnd' \in Nat /\ n <= segEnd' /\ segEnd' <= blockEnd
  BY <1>2, <1>3, <1>4
<1>7. Segmented'
  BY <1>1, <1>2, <1>5, <1>6 DEF Segmented
<1> QED
  BY <1>1, <1>7 DEF ChromaIInv

LEMMA DecodeSampleStep == ChromaIInv /\ DecodeSample => ChromaIInv'
<1> SUFFICES ASSUME ChromaIInv, DecodeSample PROVE ChromaIInv'
  OBVIOUS
<1> DEFINE n   == dec.index
           raw == << n, tuning >>
           g   == Gate(IF Beam(src, n).start THEN LineStart(dec) ELSE dec, raw, Beam(src, n).gate)
<1>1. src' = src /\ blockEnd' = blockEnd /\ segEnd' = segEnd /\ tuning' = tuning
  BY DEF DecodeSample
<1>2. /\ out' = [raw |-> raw, controls |-> g.controls, mate |-> IF src.mode = "off" THEN Silence ELSE CombRead(g)]
      /\ dec' = CombWrite(g, raw)
  BY DEF DecodeSample
<1>3. /\ src \in Inputs /\ Valid(src, dec) /\ n < segEnd
      /\ segEnd \in Nat /\ blockEnd \in Nat /\ segEnd <= blockEnd /\ blockEnd <= Len(src.beam)
      /\ tuning = dec.retunes
  BY DEF DecodeSample, ChromaIInv, Segmented
<1>4. n \in Nat /\ n < Len(src.beam) /\ Len(src.beam) \in Nat
  <2>1. Len(src.beam) \in Nat /\ n \in 0 .. Len(src.beam)
    BY <1>3, LenBeam DEF Valid
  <2> QED
    BY <1>3, <2>1
<1>5. raw = RawAt(src, n) /\ dec.retunes = Cardinality(RetunesTo(src, n - 1))
  BY <1>3 DEF Valid, Counted, RawAt
<1> HIDE DEF raw
<1>6. /\ Valid(src, dec') /\ dec'.index = n + 1
      /\ g.controls = ControlsAt(src, n)
      /\ (IF src.mode = "off" THEN Silence ELSE CombRead(g)) = MateAt(src, n)
  BY <1>2, <1>3, <1>4, <1>5, SampleStep
<1> HIDE DEF g
<1>7. Decoded(src, dec'.index, out')
  <2>1. dec'.index - 1 = n
    BY <1>4, <1>6
  <2>2. out'.raw = raw /\ out'.controls = g.controls
        /\ out'.mate = IF src.mode = "off" THEN Silence ELSE CombRead(g)
    BY <1>2
  <2> QED
    BY <1>5, <1>6, <2>1, <2>2 DEF Decoded
<1>8. n + 1 < segEnd => tuning = dec'.retunes
  <2> SUFFICES ASSUME n + 1 < segEnd PROVE tuning = dec'.retunes
    OBVIOUS
  <2>1. dec'.retunes = Cardinality(RetunesTo(src, n))
    <3>1. dec'.retunes = Cardinality(RetunesTo(src, dec'.index - 1))
      BY <1>6 DEF Valid, Counted
    <3>2. dec'.index - 1 = n
      BY <1>4, <1>6
    <3> QED
      BY <3>1, <3>2
  <2>2. RetunesTo(src, n) = RetunesTo(src, n - 1)
    <3>1. CASE src.pull
      <4>1. n \in n .. segEnd - 2
        BY <1>3, <1>4
      <4>2. ~ClosesHere(src, n)
        BY <3>1, <4>1 DEF ChromaIInv, Segmented
      <4> QED
        BY <1>4, <4>2, NoCloseStep
    <3>2. CASE ~src.pull
      BY <3>2 DEF RetunesTo
    <3> QED
      BY <3>1, <3>2
  <2> QED
    BY <1>3, <1>5, <2>1, <2>2
<1>9. src.pull => \A j \in n + 1 .. segEnd - 2 : ~ClosesHere(src, j)
  <2>1. n + 1 .. segEnd - 2 \subseteq n .. segEnd - 2
    BY <1>3, <1>4
  <2> QED
    BY <2>1 DEF ChromaIInv, Segmented
<1>10. n + 1 <= segEnd
  BY <1>3, <1>4
<1>11. Segmented'
  BY <1>1, <1>3, <1>6, <1>8, <1>9, <1>10 DEF Segmented
<1> QED
  BY <1>1, <1>3, <1>6, <1>7, <1>11 DEF ChromaIInv

(* Every step keeps the invariant, for every stream and every cutting.     *)
THEOREM ChromaInvariant == ChromaSpec => []ChromaIInv
<1>1. ChromaIInv /\ [ChromaNext]_chromaVars => ChromaIInv'
  <2> SUFFICES ASSUME ChromaIInv, [ChromaNext]_chromaVars PROVE ChromaIInv'
    OBVIOUS
  <2>1. CASE TakeBlock
    BY <2>1, TakeBlockStep
  <2>2. CASE CutSegment
    BY <2>2, CutSegmentStep
  <2>3. CASE DecodeSample
    BY <2>3, DecodeSampleStep
  <2>4. CASE UNCHANGED chromaVars
    BY <2>4 DEF chromaVars, ChromaIInv, Segmented
  <2> QED
    BY <2>1, <2>2, <2>3, <2>4 DEF ChromaNext
<1> QED
  BY ChromaInitHolds, <1>1, PTL DEF ChromaSpec

(* RetunesAtGateClose for every stream, comb and cutting: a retune acts    *)
(* from the sample after the close that made it.                           *)
THEOREM RetunesActInTime == ChromaSpec => []RetunesAtGateClose
<1>1. ChromaIInv => RetunesAtGateClose
  BY DEF ChromaIInv, Decoded, RetunesAtGateClose
<1> QED
  BY ChromaInvariant, <1>1, PTL

(* BurstsMeasuredWhole likewise: a sample's controls are those of the last *)
(* measured gate run, the whole of it.                                     *)
THEOREM BurstsAreWhole == ChromaSpec => []BurstsMeasuredWhole
<1>1. ChromaIInv => BurstsMeasuredWhole
  BY DEF ChromaIInv, Decoded, BurstsMeasuredWhole
<1> QED
  BY ChromaInvariant, <1>1, PTL

(* CombReadsOneLineBack likewise, for a ring of any size.                  *)
THEOREM CombIsOneLineBack == ChromaSpec => []CombReadsOneLineBack
<1>1. ChromaIInv => CombReadsOneLineBack
  BY DEF ChromaIInv, Decoded, CombReadsOneLineBack
<1> QED
  BY ChromaInvariant, <1>1, PTL

-----------------------------------------------------------------------------
(***************************************************************************)
(* PalSwitch: on any reception whose wrong bursts are isolated, once the   *)
(* colour is up, the ident carries the switch over every wrong burst.  The *)
(* invariant bounds the ident from below by Recovery of the good lines     *)
(* since the last wrong one (On), and before that keeps ident and bistable *)
(* on one side (Calm).                                                     *)
(***************************************************************************)

-----------------------------------------------------------------------------
(* A leaky integrator rises towards its target, keeps order, and overruns  *)
(* nothing.                                                                *)

LEMMA DivBounds ==
  ASSUME NEW a \in Int, NEW c \in Nat \ {0}
  PROVE  a \div c \in Int /\ c * (a \div c) <= a /\ a < c * (a \div c) + c
OBVIOUS

LEMMA DivMonotone ==
  ASSUME NEW a \in Int, NEW b \in Int, NEW c \in Nat \ {0}, NEW d \in Nat, a = b + d
  PROVE  a \div c <= b \div c + d
<1> DEFINE q == b \div c
           p == a \div c
<1>1. q \in Int /\ p \in Int /\ c * p <= a /\ b < c * q + c
  BY DivBounds
<1> HIDE DEF p, q
<1>2. c * p < c * q + c + d /\ d <= c * d
  BY <1>1
<1>3. c * p < c * (q + d + 1)
  BY <1>1, <1>2
<1>4. p < q + d + 1
  BY <1>1, <1>3
<1> QED
  BY <1>1, <1>4 DEF p, q

LEMMA TowardMonotone ==
  ASSUME NEW x \in Int, NEW y \in Int, x <= y, NEW t \in Int, NEW c \in Nat \ {0}
  PROVE  Toward(x, t, c) \in Int /\ Toward(x, t, c) <= Toward(y, t, c)
<1> DEFINE q == (t - x) \div c
           p == (t - y) \div c
<1>1. q \in Int /\ p \in Int
  BY DivBounds
<1>2. q <= p + (y - x)
  <2>1. y - x \in Nat /\ t - x = (t - y) + (y - x)
    OBVIOUS
  <2> QED
    BY <2>1, DivMonotone
<1> HIDE DEF p, q
<1>3. x + q \in Int /\ x + q <= y + p
  BY <1>1, <1>2
<1> QED
  BY <1>3 DEF Toward, p, q

LEMMA TowardUp ==
  ASSUME NEW x \in Int, NEW t \in Int, x <= t, NEW c \in Nat \ {0}
  PROVE  Toward(x, t, c) \in Int /\ x <= Toward(x, t, c) /\ Toward(x, t, c) <= t
<1> DEFINE q == (t - x) \div c
<1>1. q \in Int /\ c * q <= t - x /\ t - x < c * q + c
  BY DivBounds
<1> HIDE DEF q
<1>2. q >= 0
  <2>1. c * q + c > 0
    BY <1>1
  <2>2. c * (q + 1) > 0
    BY <1>1, <2>1
  <2>3. q + 1 > 0
    BY <1>1, <2>2
  <2> QED
    BY <1>1, <2>3
<1>3. q <= c * q
  BY <1>1, <1>2
<1>4. x <= x + q /\ x + q <= t
  BY <1>1, <1>2, <1>3
<1> QED
  BY <1>1, <1>4 DEF Toward, q

LEMMA TowardDown ==
  ASSUME NEW x \in Int, NEW t \in Int, t < x, NEW c \in Nat \ {0}
  PROVE  Toward(x, t, c) \in Int /\ t <= Toward(x, t, c) /\ Toward(x, t, c) < x
<1> DEFINE q == (t - x) \div c
<1>1. q \in Int /\ c * q <= t - x /\ t - x < c * q + c
  BY DivBounds
<1> HIDE DEF q
<1>2. q < 0
  <2>1. c * q < 0
    BY <1>1
  <2> QED
    BY <1>1, <2>1
<1>3. t - x <= q
  <2>1. q < t - x => q + 1 <= t - x
    BY <1>1
  <2>2. q + 1 <= t - x => c * (q + 1) <= c * (t - x)
    BY <1>1
  <2>3. c * (t - x) <= t - x
    OBVIOUS
  <2> QED
    BY <1>1, <2>1, <2>2, <2>3
<1>4. t <= x + q /\ x + q < x
  BY <1>1, <1>2, <1>3
<1> QED
  BY <1>1, <1>4 DEF Toward, q

LEMMA TowardIn ==
  ASSUME NEW x \in Int, NEW t \in Int, NEW c \in Nat \ {0}
  PROVE  (x <= t => Toward(x, t, c) \in x .. t) /\ (t < x => Toward(x, t, c) \in t .. x /\ Toward(x, t, c) < x)
<1>1. ASSUME x <= t PROVE Toward(x, t, c) \in x .. t
  <2>1. Toward(x, t, c) \in Int /\ x <= Toward(x, t, c) /\ Toward(x, t, c) <= t
    BY <1>1, TowardUp
  <2> QED
    BY <2>1
<1>2. ASSUME t < x PROVE Toward(x, t, c) \in t .. x /\ Toward(x, t, c) < x
  <2>1. Toward(x, t, c) \in Int /\ t <= Toward(x, t, c) /\ Toward(x, t, c) < x
    BY <1>2, TowardDown
  <2> QED
    BY <2>1
<1> QED
  BY <1>1, <1>2

-----------------------------------------------------------------------------
(* The ident after so many clean lines.                                    *)

LEMMA AllNumbers ==
  ASSUME NEW T \in SUBSET Nat, 0 \in T, \A m \in T : m + 1 \in T
  PROVE  T = Nat
<1> SUFFICES ASSUME Nat \ T # {} PROVE FALSE
  OBVIOUS
<1>1. PICK m \in Nat \ T : \A n \in Nat \ T : m <= n
  BY LeastNumber
<1>2. m - 1 \in Nat
  BY <1>1
<1>3. m - 1 \in T
  BY <1>1, <1>2
<1>4. (m - 1) + 1 = m
  BY <1>1
<1> QED
  BY <1>1, <1>3, <1>4

(* The recursive function exists, so it obeys its recursion.               *)
LEMMA RecoveryIs ==
  ASSUME NEW r, IsReception(r)
  PROVE  /\ Recovery(r)[0] = r.p.threshold
         /\ \A n \in 0 .. r.spacing : n > 0 => Recovery(r)[n] = Toward(Recovery(r)[n - 1], r.p.one, r.p.identTc)
<1> DEFINE Ident(f, m) == [n \in 0 .. m |-> IF n = 0 THEN r.p.threshold ELSE Toward(f[n - 1], r.p.one, r.p.identTc)]
           T == {m \in Nat : \E f : f = Ident(f, m)}
<1>1. r.spacing \in Nat
  BY DEF IsReception
<1>2. 0 \in T
  <2> DEFINE f == [n \in 0 .. 0 |-> r.p.threshold]
  <2>1. f = Ident(f, 0)
    OBVIOUS
  <2> QED
    BY <2>1
<1>3. ASSUME NEW m \in T
      PROVE  m + 1 \in T
  <2>1. PICK f : f = Ident(f, m)
    OBVIOUS
  <2> DEFINE x == Toward(f[m], r.p.one, r.p.identTc)
             g == [n \in 0 .. m + 1 |-> IF n = m + 1 THEN x ELSE f[n]]
  <2>2. g = Ident(g, m + 1)
    <3> SUFFICES ASSUME NEW n \in 0 .. m + 1
                 PROVE  g[n] = IF n = 0 THEN r.p.threshold ELSE Toward(g[n - 1], r.p.one, r.p.identTc)
      OBVIOUS
    <3>1. CASE n = m + 1
      <4>1. n # 0 /\ n - 1 = m /\ m \in 0 .. m + 1 /\ m # m + 1
        BY <3>1
      <4>2. g[n] = x /\ g[n - 1] = f[m]
        BY <3>1, <4>1
      <4> HIDE DEF g
      <4> QED
        BY <4>1, <4>2
    <3>2. CASE n # m + 1
      <4>1. n \in 0 .. m /\ g[n] = f[n]
        BY <3>2
      <4>2. n # 0 => g[n - 1] = f[n - 1]
        BY <3>2
      <4>3. f[n] = IF n = 0 THEN r.p.threshold ELSE Toward(f[n - 1], r.p.one, r.p.identTc)
        BY <2>1, <4>1
      <4> HIDE DEF g
      <4> QED
        BY <4>1, <4>2, <4>3
    <3> QED
      BY <3>1, <3>2
  <2> HIDE DEF g
  <2>3. \E h : h = Ident(h, m + 1)
    BY <2>2
  <2> QED
    BY <2>3
<1>4. T = Nat
  <2> HIDE DEF T
  <2>1. T \in SUBSET Nat
    BY DEF T
  <2> QED
    BY <1>2, <1>3, <2>1, AllNumbers
<1>5. \E f : f = Ident(f, r.spacing)
  BY <1>1, <1>4
<1>6. Recovery(r) = CHOOSE f : f = Ident(f, r.spacing)
  BY DEF Recovery
<1>7. Recovery(r) = Ident(Recovery(r), r.spacing)
  <2> DEFINE P(f) == f = Ident(f, r.spacing)
  <2>1. (\E f : P(f)) /\ Recovery(r) = CHOOSE f : P(f)
    BY <1>5, <1>6
  <2> HIDE DEF P
  <2>2. P(Recovery(r))
    BY <2>1, Zenon
  <2> QED
    BY <2>2 DEF P
<1> DEFINE f == Recovery(r)
<1> HIDE DEF f
<1>8. f = [n \in 0 .. r.spacing |-> IF n = 0 THEN r.p.threshold ELSE Toward(f[n - 1], r.p.one, r.p.identTc)]
  BY <1>7 DEF f
<1>9. f[0] = r.p.threshold /\ \A n \in 0 .. r.spacing : n > 0 => f[n] = Toward(f[n - 1], r.p.one, r.p.identTc)
  BY <1>1, <1>8
<1> QED
  BY <1>9 DEF f

LEMMA RecoveryType ==
  ASSUME NEW r, IsReception(r)
  PROVE  \A n \in 0 .. r.spacing : Recovery(r)[n] \in Int /\ Recovery(r)[n] <= r.p.one
<1> DEFINE f == Recovery(r)
           T == {m \in Nat : m <= r.spacing => f[m] \in Int /\ f[m] <= r.p.one}
<1>1. /\ r.spacing \in Nat /\ r.p.one \in Nat \ {0} /\ r.p.threshold \in Nat /\ r.p.threshold < r.p.one
      /\ r.p.identTc \in Nat \ {0}
  BY DEF IsReception
<1>2. f[0] = r.p.threshold /\ \A n \in 0 .. r.spacing : n > 0 => f[n] = Toward(f[n - 1], r.p.one, r.p.identTc)
  BY RecoveryIs
<1> HIDE DEF f
<1>3. 0 \in T
  BY <1>1, <1>2
<1>4. ASSUME NEW m \in T
      PROVE  m + 1 \in T
  <2> SUFFICES ASSUME m + 1 <= r.spacing PROVE f[m + 1] \in Int /\ f[m + 1] <= r.p.one
    OBVIOUS
  <2>1. f[m] \in Int /\ f[m] <= r.p.one
    BY <1>1
  <2>2. f[m + 1] = Toward(f[m], r.p.one, r.p.identTc)
    <3>1. m + 1 \in 0 .. r.spacing /\ m + 1 > 0 /\ (m + 1) - 1 = m
      BY <1>1
    <3> QED
      BY <1>2, <3>1
  <2>3. r.p.one \in Int /\ r.p.identTc \in Nat \ {0}
    BY <1>1
  <2>4. Toward(f[m], r.p.one, r.p.identTc) \in Int /\ Toward(f[m], r.p.one, r.p.identTc) <= r.p.one
    BY <2>1, <2>3, TowardUp
  <2> QED
    BY <2>2, <2>4
<1>5. T = Nat
  <2> HIDE DEF T
  <2>1. T \in SUBSET Nat
    BY DEF T
  <2> QED
    BY <1>3, <1>4, <2>1, AllNumbers
<1> QED
  BY <1>1, <1>5 DEF f

-----------------------------------------------------------------------------
(* One line of each kind.                                                  *)

IsSwitch(w) ==
  /\ w = [parity |-> w.parity, polarity |-> w.polarity, ident |-> w.ident, vFlip |-> w.vFlip, gain |-> w.gain,
          ref |-> w.ref, gap |-> w.gap, good |-> w.good, retuned |-> w.retuned]
  /\ w.parity \in BOOLEAN /\ w.polarity \in BOOLEAN

(* The sense the bistable expects, which inverts with every close.         *)
Pred(w) == Predicted(w.parity, w.polarity)

LEMMA PredictedFlips ==
  ASSUME NEW a \in BOOLEAN, NEW b \in BOOLEAN
  PROVE  Predicted(a, b) \in {1, -1} /\ Predicted(~a, b) = -Predicted(a, b) /\ Predicted(a, ~b) = -Predicted(a, b)
<1>1. CASE a = b
  <2>1. ~((~a) = b) /\ ~(a = (~b))
    BY <1>1, Zenon
  <2>2. Predicted(a, b) = 1 /\ Predicted(~a, b) = -1 /\ Predicted(a, ~b) = -1
    BY <1>1, <2>1, Zenon DEF Predicted
  <2> QED
    BY <2>2
<1>2. CASE ~(a = b)
  <2>1. ((~a) = b) /\ (a = (~b))
    BY <1>2
  <2>2. Predicted(a, b) = -1 /\ Predicted(~a, b) = 1 /\ Predicted(a, ~b) = 1
    BY <1>2, <2>1, Zenon DEF Predicted
  <2> QED
    BY <2>2
<1> QED
  BY <1>1, <1>2

(* A burst measured: x is the ident it steps to.                           *)
Measures(p, w, v, x) ==
  /\ IsSwitch(v) /\ v.parity = ~w.parity
  /\ v.polarity = IF MisPhased(p, x) THEN ~w.polarity ELSE w.polarity
  /\ v.ident = IF MisPhased(p, x) THEN 0 ELSE x
  /\ v.vFlip = Pred(v) /\ v.ref = p.refLines
  /\ v.gain = UpdateKiller(p, w.gain, v.ident >= p.threshold)

LEMMA StrongLine ==
  ASSUME NEW p, NEW w, IsSwitch(w), NEW s \in {1, -1}
  PROVE  Measures(p, w, FinalizeLine(p, w, "strong", s), IdentStep(p, w.ident, s * (-Pred(w))))
<1> DEFINE v == FinalizeLine(p, w, "strong", s)
           par == Toggle(w, FALSE)
           x == IdentStep(p, w.ident, s * Predicted(par, w.polarity))
           pol == IF MisPhased(p, x) THEN ~w.polarity ELSE w.polarity
           id == IF MisPhased(p, x) THEN 0 ELSE x
           g == UpdateKiller(p, w.gain, id >= p.threshold)
           re == p.pull /\ w.gap = 1
<1>1. v = [parity |-> par, polarity |-> pol, ident |-> id, vFlip |-> Predicted(par, pol), gain |-> g,
           ref |-> p.refLines, gap |-> 1, good |-> TRUE, retuned |-> re]
  BY DEF FinalizeLine, RefAfter
<1>2. par = ~w.parity /\ par \in BOOLEAN
  BY DEF Toggle, IsSwitch
<1>3. pol \in BOOLEAN
  BY DEF IsSwitch
<1>4. x = IdentStep(p, w.ident, s * (-Pred(w)))
  <2>1. Predicted(par, w.polarity) = -Pred(w)
    BY <1>2, PredictedFlips DEF IsSwitch, Pred
  <2> QED
    BY <2>1
<1> HIDE DEF v, par, g, re
<1>5. /\ v.parity = par /\ v.polarity = pol /\ v.ident = id /\ v.vFlip = Predicted(par, pol) /\ v.gain = g
      /\ v.ref = p.refLines
  <2> HIDE DEF pol, id
  <2> QED
    BY <1>1
<1>6. IsSwitch(v)
  <2> HIDE DEF pol, id
  <2> QED
    BY <1>1, <1>2, <1>3 DEF IsSwitch
<1>7. v.gain = UpdateKiller(p, w.gain, v.ident >= p.threshold)
  BY <1>5 DEF g
<1>8. v.vFlip = Pred(v)
  <2> HIDE DEF pol, id
  <2> QED
    BY <1>5 DEF Pred
<1> HIDE DEF x
<1> QED
  BY <1>2, <1>4, <1>5, <1>6, <1>7, <1>8 DEF Measures, v

(* A weak line while the last strong burst hides it.                       *)
LEMMA WeakHidden ==
  ASSUME NEW p, NEW w, IsSwitch(w), NEW s, w.ref \in Nat, w.ref > 1
  PROVE  LET v == FinalizeLine(p, w, "weak", s)
         IN  IsSwitch(v) /\ Pred(v) = -Pred(w) /\ v.ident = w.ident /\ v.gain = w.gain /\ v.ref = w.ref - 1
<1> DEFINE v == FinalizeLine(p, w, "weak", s)
           ref == RefAfter(p, w, "weak")
           par == Toggle(w, TRUE)
           g == IF w.gap = 0 THEN 0 ELSE 2
<1>1. ref = w.ref - 1 /\ ref > 0
  BY DEF RefAfter
<1>2. v = [w EXCEPT !.parity = par, !.ref = ref, !.gap = g, !.good = FALSE, !.retuned = FALSE]
  BY <1>1 DEF FinalizeLine
<1> HIDE DEF v, ref, g
<1>3. par = ~w.parity /\ par \in BOOLEAN
  BY DEF Toggle, IsSwitch
<1> HIDE DEF par
<1>4. v = [parity |-> par, polarity |-> w.polarity, ident |-> w.ident, vFlip |-> w.vFlip, gain |-> w.gain,
           ref |-> ref, gap |-> g, good |-> FALSE, retuned |-> FALSE]
  BY <1>2 DEF IsSwitch
<1>5. IsSwitch(v)
  BY <1>3, <1>4 DEF IsSwitch
<1>6. v.parity = par /\ v.polarity = w.polarity /\ v.ident = w.ident /\ v.gain = w.gain /\ v.ref = ref
  BY <1>4
<1>7. Pred(v) = -Pred(w)
  BY <1>3, <1>6, PredictedFlips DEF IsSwitch, Pred
<1> QED
  BY <1>1, <1>5, <1>6, <1>7 DEF v

LEMMA Params ==
  ASSUME NEW r, IsReception(r)
  PROVE  /\ r.p.one \in Nat \ {0} /\ r.p.threshold \in Nat /\ r.p.threshold < r.p.one
         /\ r.p.identTc \in Nat \ {0} /\ r.p.killOn \in Nat \ {0} /\ r.p.killOff \in Nat \ {0}
         /\ r.p.refLines \in Nat /\ r.p.refLines > r.gap /\ r.gap \in Nat /\ r.spacing \in Nat
BY DEF IsReception

(* The killer's ramp stays on its scale, and opens on every identified line. *)
LEMMA KillerRamp ==
  ASSUME NEW r, IsReception(r), NEW gain \in 0 .. r.p.one, NEW b \in BOOLEAN
  PROVE  /\ UpdateKiller(r.p, gain, b) \in 0 .. r.p.one
         /\ r.p.threshold = 0 => UpdateKiller(r.p, gain, b) = gain
         /\ b => UpdateKiller(r.p, gain, b) >= gain
<1>0. /\ r.p.one \in Nat \ {0} /\ r.p.threshold \in Nat /\ r.p.threshold < r.p.one
      /\ r.p.identTc \in Nat \ {0} /\ r.p.killOn \in Nat \ {0} /\ r.p.killOff \in Nat \ {0}
      /\ r.p.refLines \in Nat /\ r.p.refLines > r.gap /\ r.gap \in Nat /\ r.spacing \in Nat
  BY Params
<1> USE <1>0
<1> DEFINE u == UpdateKiller(r.p, gain, b)
           Ramp == u \in 0 .. r.p.one /\ (r.p.threshold = 0 => u = gain) /\ (b => u >= gain)
<1> SUFFICES Ramp
  OBVIOUS
<1>1. CASE r.p.threshold = 0
  <2>1. u = gain
    BY <1>1 DEF UpdateKiller
  <2> HIDE DEF u
  <2>2. u \in 0 .. r.p.one /\ u >= gain
    BY <2>1
  <2> QED
    BY <2>1, <2>2
<1>2. CASE r.p.threshold # 0 /\ b
  <2>1. UpdateKiller(r.p, gain, b) = Toward(gain, r.p.one, r.p.killOn)
    BY <1>2 DEF UpdateKiller
  <2>2. Toward(gain, r.p.one, r.p.killOn) \in gain .. r.p.one
    <3>1. gain \in Int /\ r.p.one \in Int /\ r.p.killOn \in Nat \ {0} /\ gain <= r.p.one
      OBVIOUS
    <3> QED
      BY <3>1, TowardIn, Zenon
  <2> HIDE DEF u
  <2>3. u \in 0 .. r.p.one /\ u >= gain
    BY <2>1, <2>2 DEF u
  <2> QED
    BY <1>2, <2>3
<1>3. CASE r.p.threshold # 0 /\ ~b
  <2>1. UpdateKiller(r.p, gain, b) = Toward(gain, 0, r.p.killOff)
    BY <1>3 DEF UpdateKiller
  <2>2. Toward(gain, 0, r.p.killOff) \in 0 .. r.p.one
    <3> DEFINE y == Toward(gain, 0, r.p.killOff)
    <3>1. gain \in Int /\ 0 \in Int /\ r.p.killOff \in Nat \ {0}
      OBVIOUS
    <3>2. (gain <= 0 => y \in gain .. 0) /\ (0 < gain => y \in 0 .. gain)
      BY <3>1, TowardIn, Zenon
    <3> HIDE DEF y
    <3>3. y \in 0 .. r.p.one
      BY <3>2
    <3> QED
      BY <3>3 DEF y
  <2> HIDE DEF u
  <2>3. u \in 0 .. r.p.one
    BY <2>1, <2>2 DEF u
  <2> QED
    BY <1>3, <2>3
<1> HIDE DEF Ramp
<1> QED
  BY <1>1, <1>2, <1>3, Zenon

(* An agreeing burst raises the ident, a disagreeing one lowers it.        *)
LEMMA Agrees ==
  ASSUME NEW r, IsReception(r), NEW x \in -r.p.one .. r.p.one
  PROVE  IdentStep(r.p, x, 1) = Toward(x, r.p.one, r.p.identTc) /\ IdentStep(r.p, x, 1) \in x .. r.p.one
<1>0. /\ r.p.one \in Nat \ {0} /\ r.p.threshold \in Nat /\ r.p.threshold < r.p.one
      /\ r.p.identTc \in Nat \ {0} /\ r.p.killOn \in Nat \ {0} /\ r.p.killOff \in Nat \ {0}
      /\ r.p.refLines \in Nat /\ r.p.refLines > r.gap /\ r.gap \in Nat /\ r.spacing \in Nat
  BY Params
<1> USE <1>0
<1>1. IdentStep(r.p, x, 1) = Toward(x, r.p.one, r.p.identTc)
  BY DEF IdentStep
<1>2. Toward(x, r.p.one, r.p.identTc) \in x .. r.p.one
  <2>1. x \in Int /\ r.p.one \in Int /\ r.p.identTc \in Nat \ {0} /\ x <= r.p.one
    OBVIOUS
  <2> QED
    BY <2>1, TowardIn, Zenon
<1> QED
  BY <1>1, <1>2

LEMMA Disagrees ==
  ASSUME NEW r, IsReception(r), NEW x \in -r.p.one .. r.p.one
  PROVE  /\ IdentStep(r.p, x, -1) = Toward(x, -r.p.one, r.p.identTc)
         /\ IdentStep(r.p, x, -1) \in -r.p.one .. x
         /\ x <= 0 => IdentStep(r.p, x, -1) < 0
<1>0. r.p.one \in Nat \ {0} /\ r.p.identTc \in Nat \ {0}
  BY Params
<1> DEFINE y == Toward(x, -r.p.one, r.p.identTc)
<1>1. IdentStep(r.p, x, -1) = y
  BY <1>0 DEF IdentStep
<1>2. x \in Int /\ -r.p.one \in Int /\ r.p.identTc \in Nat \ {0}
  BY <1>0
<1>3. /\ x <= -r.p.one => y \in x .. -r.p.one
      /\ -r.p.one < x => y \in -r.p.one .. x /\ y < x
  BY <1>2, TowardIn, Zenon
<1> HIDE DEF y
<1>4. y \in -r.p.one .. x /\ (x <= 0 => y < 0)
  <2>1. CASE x = -r.p.one
    BY <1>0, <1>3, <2>1
  <2>2. CASE -r.p.one < x
    BY <1>0, <1>3, <2>2
  <2> QED
    BY <1>0, <2>1, <2>2
<1> QED
  BY <1>1, <1>4 DEF y

(* Where the bistable points after a burst.                                *)
LEMMA PredAfter ==
  ASSUME NEW p, NEW w, IsSwitch(w), NEW v, NEW x, Measures(p, w, v, x)
  PROVE  /\ Pred(w) \in {1, -1} /\ v.vFlip = Pred(v)
         /\ ~MisPhased(p, x) => Pred(v) = -Pred(w) /\ v.ident = x
         /\ MisPhased(p, x) => Pred(v) = Pred(w) /\ v.ident = 0
<1>1. w.parity \in BOOLEAN /\ w.polarity \in BOOLEAN /\ (~w.parity) \in BOOLEAN
  BY DEF IsSwitch
<1>2. Pred(w) \in {1, -1} /\ v.vFlip = Pred(v)
  BY <1>1, PredictedFlips DEF Pred, Measures
<1>3. ASSUME ~MisPhased(p, x) PROVE Pred(v) = -Pred(w) /\ v.ident = x
  BY <1>1, <1>3, PredictedFlips DEF Pred, Measures
<1>4. ASSUME MisPhased(p, x) PROVE Pred(v) = Pred(w) /\ v.ident = 0
  <2>1. Predicted(~w.parity, ~w.polarity) = -Predicted(~w.parity, w.polarity)
    BY <1>1, PredictedFlips
  <2>2. Predicted(~w.parity, w.polarity) = -Predicted(w.parity, w.polarity)
    BY <1>1, PredictedFlips
  <2>3. v.parity = ~w.parity /\ v.polarity = ~w.polarity /\ v.ident = 0
    BY <1>4 DEF Measures
  <2> QED
    BY <1>2, <2>1, <2>2, <2>3 DEF Pred
<1> QED
  BY <1>2, <1>3, <1>4

(* Before the colour is up: the ident is on the side the bistable is on.   *)
Sided(r, w, t) ==
  /\ IsSwitch(w) /\ w.gain \in 0 .. r.p.one
  /\ IF Pred(w) = t THEN w.ident \in 0 .. r.p.one ELSE w.ident \in -r.p.one .. 0

LEMMA CalmClean ==
  ASSUME NEW r, IsReception(r), NEW w, NEW s \in {1, -1}, Sided(r, w, -s),
         NEW v, Measures(r.p, w, v, IdentStep(r.p, w.ident, s * (-Pred(w))))
  PROVE  /\ Sided(r, v, s)
         /\ v.ident >= r.p.threshold => Pred(v) = s
         /\ r.p.threshold = 0 => v.gain = w.gain
<1>0. /\ r.p.one \in Nat \ {0} /\ r.p.threshold \in Nat /\ r.p.threshold < r.p.one
      /\ r.p.identTc \in Nat \ {0} /\ r.p.killOn \in Nat \ {0} /\ r.p.killOff \in Nat \ {0}
      /\ r.p.refLines \in Nat /\ r.p.refLines > r.gap /\ r.gap \in Nat /\ r.spacing \in Nat
  BY Params
<1> USE <1>0
<1> DEFINE x == IdentStep(r.p, w.ident, s * (-Pred(w)))
<1>1. IsSwitch(w) /\ w.gain \in 0 .. r.p.one /\ w.ident \in -r.p.one .. r.p.one
  BY DEF Sided
<1>2. /\ Pred(w) \in {1, -1}
      /\ ~MisPhased(r.p, x) => Pred(v) = -Pred(w) /\ v.ident = x
      /\ MisPhased(r.p, x) => Pred(v) = Pred(w) /\ v.ident = 0
  BY <1>1, PredAfter
<1>3. IsSwitch(v) /\ v.gain \in 0 .. r.p.one /\ (r.p.threshold = 0 => v.gain = w.gain)
  <2>1. IsSwitch(v) /\ v.gain = UpdateKiller(r.p, w.gain, v.ident >= r.p.threshold)
    BY DEF Measures
  <2>2. (v.ident >= r.p.threshold) \in BOOLEAN
    OBVIOUS
  <2> QED
    BY <1>1, <2>1, <2>2, KillerRamp
<1>4. CASE Pred(w) = -s
  <2>1. s * (-Pred(w)) = 1 /\ w.ident \in 0 .. r.p.one
    BY <1>4 DEF Sided
  <2>2. x \in w.ident .. r.p.one
    BY <1>1, <2>1, Agrees
  <2> HIDE DEF x
  <2>3. ~MisPhased(r.p, x)
    BY <2>1, <2>2 DEF MisPhased
  <2>4. Pred(v) = s /\ v.ident \in 0 .. r.p.one
    BY <1>2, <1>4, <2>1, <2>2, <2>3
  <2> QED
    BY <1>3, <2>4 DEF Sided
<1>5. CASE Pred(w) # -s
  <2>1. Pred(w) = s
    BY <1>2, <1>5
  <2>2. s * (-Pred(w)) = -1 /\ w.ident \in -r.p.one .. 0
    BY <1>5, <2>1 DEF Sided
  <2>3. x \in -r.p.one .. 0 /\ x < 0
    BY <1>1, <2>2, Disagrees
  <2> HIDE DEF x
  <2>4. CASE MisPhased(r.p, x)
    <3>1. Pred(v) = s /\ v.ident = 0
      BY <1>2, <2>1, <2>4
    <3>2. v.ident \in 0 .. r.p.one
      BY <3>1
    <3> QED
      BY <1>3, <3>1, <3>2 DEF Sided
  <2>5. CASE ~MisPhased(r.p, x)
    <3>1. Pred(v) = -s /\ v.ident = x
      BY <1>2, <2>1, <2>5
    <3>2. v.ident \in -r.p.one .. 0 /\ ~(v.ident >= r.p.threshold) /\ Pred(v) # s
      BY <2>3, <3>1
    <3> QED
      BY <1>3, <3>2 DEF Sided
  <2> QED
    BY <2>4, <2>5
<1> QED
  BY <1>4, <1>5

(* Once it is up: n good lines since the last wrong one, g weak lines ago. *)
HasLock(r, w, t, n, g) ==
  /\ IsSwitch(w) /\ w.gain \in 0 .. r.p.one /\ 10 * w.gain >= r.p.one
  /\ n \in 0 .. r.spacing /\ g \in 0 .. r.gap
  /\ Pred(w) = t /\ w.ident \in r.p.threshold .. r.p.one /\ Recovery(r)[n] <= w.ident
  /\ w.ref = r.p.refLines - g
  /\ g = 0 => w.vFlip = t

(* A burst that leaves the ident above the threshold keeps the lock.       *)
LEMMA StaysLocked ==
  ASSUME NEW r, IsReception(r), NEW w, NEW t \in {1, -1}, NEW n, NEW g, HasLock(r, w, t, n, g),
         NEW v, NEW x \in r.p.threshold .. r.p.one, Measures(r.p, w, v, x)
  PROVE  /\ IsSwitch(v) /\ v.gain \in 0 .. r.p.one /\ 10 * v.gain >= r.p.one
         /\ Pred(v) = -Pred(w) /\ v.ident = x /\ v.ref = r.p.refLines /\ v.vFlip = Pred(v)
<1>0. /\ r.p.one \in Nat \ {0} /\ r.p.threshold \in Nat /\ r.p.threshold < r.p.one
      /\ r.p.identTc \in Nat \ {0} /\ r.p.killOn \in Nat \ {0} /\ r.p.killOff \in Nat \ {0}
      /\ r.p.refLines \in Nat /\ r.p.refLines > r.gap /\ r.gap \in Nat /\ r.spacing \in Nat
  BY Params
<1> USE <1>0
<1>1. IsSwitch(w) /\ w.gain \in 0 .. r.p.one /\ 10 * w.gain >= r.p.one /\ Pred(w) = t
  BY DEF HasLock
<1>2. ~MisPhased(r.p, x)
  BY DEF MisPhased
<1>3. Pred(v) = -Pred(w) /\ v.ident = x /\ v.vFlip = Pred(v)
  BY <1>1, <1>2, PredAfter
<1>4. IsSwitch(v) /\ v.ref = r.p.refLines /\ v.gain = UpdateKiller(r.p, w.gain, v.ident >= r.p.threshold)
  BY DEF Measures
<1>5. v.gain \in 0 .. r.p.one /\ v.gain >= w.gain
  <2>1. (v.ident >= r.p.threshold) = TRUE
    BY <1>3
  <2> DEFINE u == UpdateKiller(r.p, w.gain, TRUE)
  <2>2. u \in 0 .. r.p.one /\ (TRUE => u >= w.gain)
    BY <1>1, KillerRamp
  <2>3. v.gain = u
    BY <1>4, <2>1
  <2> HIDE DEF u
  <2> QED
    BY <2>2, <2>3
<1>6. 10 * v.gain >= r.p.one
  BY <1>1, <1>5
<1> QED
  BY <1>3, <1>4, <1>5, <1>6

LEMMA LockedClean ==
  ASSUME NEW r, IsReception(r), NEW w, NEW t \in {1, -1}, NEW n, NEW g, HasLock(r, w, t, n, g),
         NEW v, Measures(r.p, w, v, IdentStep(r.p, w.ident, (-t) * (-Pred(w))))
  PROVE  HasLock(r, v, -t, IF n < r.spacing THEN n + 1 ELSE n, 0)
<1>0. /\ r.p.one \in Nat \ {0} /\ r.p.threshold \in Nat /\ r.p.threshold < r.p.one
      /\ r.p.identTc \in Nat \ {0} /\ r.p.killOn \in Nat \ {0} /\ r.p.killOff \in Nat \ {0}
      /\ r.p.refLines \in Nat /\ r.p.refLines > r.gap /\ r.gap \in Nat /\ r.spacing \in Nat
  BY Params
<1> USE <1>0
<1> DEFINE m == IF n < r.spacing THEN n + 1 ELSE n
           x == IdentStep(r.p, w.ident, (-t) * (-Pred(w)))
<1>1. /\ n \in 0 .. r.spacing /\ Pred(w) = t /\ w.ident \in r.p.threshold .. r.p.one
      /\ Recovery(r)[n] <= w.ident
  BY DEF HasLock
<1>2. (-t) * (-Pred(w)) = 1 /\ w.ident \in -r.p.one .. r.p.one
  BY <1>1
<1>3. x = Toward(w.ident, r.p.one, r.p.identTc) /\ x \in w.ident .. r.p.one
  BY <1>2, Agrees
<1>4. Recovery(r)[m] <= x
  <2> DEFINE R == Recovery(r)
  <2>1. R[n] \in Int /\ R[n] <= w.ident
    BY <1>1, RecoveryType
  <2>2. CASE n < r.spacing
    <3>1. m = n + 1 /\ n + 1 \in 0 .. r.spacing /\ n + 1 > 0 /\ (n + 1) - 1 = n
      BY <1>1, <2>2
    <3>2. R[n + 1] = Toward(R[n], r.p.one, r.p.identTc)
      BY <3>1, RecoveryIs
    <3>3. Toward(R[n], r.p.one, r.p.identTc) <= Toward(w.ident, r.p.one, r.p.identTc)
      <4>1. R[n] \in Int /\ w.ident \in Int /\ R[n] <= w.ident /\ r.p.one \in Int /\ r.p.identTc \in Nat \ {0}
        BY <1>2, <2>1
      <4> HIDE DEF R
      <4> QED
        BY <4>1, TowardMonotone
    <3> QED
      BY <1>3, <3>1, <3>2, <3>3
  <2>3. CASE ~(n < r.spacing)
    <3>1. m = n
      BY <2>3
    <3> HIDE DEF R, x
    <3> QED
      BY <1>2, <1>3, <2>1, <3>1 DEF R
  <2> QED
    BY <2>2, <2>3
<1>5. m \in 0 .. r.spacing /\ 0 \in 0 .. r.gap
  BY <1>1
<1>6. x \in r.p.threshold .. r.p.one
  BY <1>1, <1>3
<1>7. /\ IsSwitch(v) /\ v.gain \in 0 .. r.p.one /\ 10 * v.gain >= r.p.one
      /\ Pred(v) = -Pred(w) /\ v.ident = x /\ v.ref = r.p.refLines /\ v.vFlip = Pred(v)
  <2>1. Measures(r.p, w, v, x)
    OBVIOUS
  <2>2. x \in r.p.threshold .. r.p.one
    BY <1>6
  <2> HIDE DEF x
  <2> QED
    BY <2>1, <2>2, StaysLocked, Zenon
<1> HIDE DEF m, x
<1>8. v.ref = r.p.refLines - 0
  BY <1>7
<1>9. HasLock(r, v, -t, m, 0)
  BY <1>4, <1>5, <1>6, <1>7, <1>8 DEF HasLock
<1> QED
  BY <1>9 DEF m

LEMMA LockedWrong ==
  ASSUME NEW r, IsReception(r), r.kind = "isolated",
         NEW w, NEW t \in {1, -1}, NEW n, NEW g, HasLock(r, w, t, n, g), n >= r.spacing,
         NEW v, Measures(r.p, w, v, IdentStep(r.p, w.ident, t * (-Pred(w))))
  PROVE  HasLock(r, v, -t, 0, 0)
<1>0. /\ r.p.one \in Nat \ {0} /\ r.p.threshold \in Nat /\ r.p.threshold < r.p.one
      /\ r.p.identTc \in Nat \ {0} /\ r.p.killOn \in Nat \ {0} /\ r.p.killOff \in Nat \ {0}
      /\ r.p.refLines \in Nat /\ r.p.refLines > r.gap /\ r.gap \in Nat /\ r.spacing \in Nat
  BY Params
<1> USE <1>0
<1> DEFINE x == IdentStep(r.p, w.ident, t * (-Pred(w)))
           R == Recovery(r)
<1>1. /\ n = r.spacing /\ Pred(w) = t /\ w.ident \in r.p.threshold .. r.p.one
      /\ R[r.spacing] <= w.ident
  BY DEF HasLock
<1>2. t * (-Pred(w)) = -1 /\ w.ident \in -r.p.one .. r.p.one
  BY <1>1
<1>3. x = Toward(w.ident, -r.p.one, r.p.identTc) /\ x \in -r.p.one .. w.ident
  BY <1>2, Disagrees
<1>4. r.p.threshold <= Toward(R[r.spacing], -r.p.one, r.p.identTc)
  BY DEF IsReception
<1>5. R[r.spacing] \in Int /\ R[0] = r.p.threshold
  BY RecoveryType, RecoveryIs
<1>6. Toward(R[r.spacing], -r.p.one, r.p.identTc) <= x
  <2>1. /\ R[r.spacing] \in Int /\ w.ident \in Int /\ R[r.spacing] <= w.ident /\ -r.p.one \in Int
        /\ r.p.identTc \in Nat \ {0}
    BY <1>1, <1>2, <1>5
  <2>2. x = Toward(w.ident, -r.p.one, r.p.identTc)
    BY <1>3
  <2> HIDE DEF R, x
  <2>3. Toward(R[r.spacing], -r.p.one, r.p.identTc) <= Toward(w.ident, -r.p.one, r.p.identTc)
    BY <2>1, TowardMonotone
  <2> QED
    BY <2>2, <2>3
<1>7. x \in r.p.threshold .. r.p.one
  <2>1. Toward(R[r.spacing], -r.p.one, r.p.identTc) \in Int
    <3>1. -r.p.one \in Int
      OBVIOUS
    <3> QED
      BY <1>5, <3>1, TowardMonotone
  <2> HIDE DEF R, x
  <2> QED
    BY <1>1, <1>3, <1>4, <1>6, <2>1
<1>8. /\ IsSwitch(v) /\ v.gain \in 0 .. r.p.one /\ 10 * v.gain >= r.p.one
      /\ Pred(v) = -Pred(w) /\ v.ident = x /\ v.ref = r.p.refLines /\ v.vFlip = Pred(v)
  <2>1. Measures(r.p, w, v, x)
    OBVIOUS
  <2>2. x \in r.p.threshold .. r.p.one
    BY <1>7
  <2> HIDE DEF x
  <2> QED
    BY <2>1, <2>2, StaysLocked, Zenon
<1> HIDE DEF x
<1>9. v.ref = r.p.refLines - 0 /\ 0 \in 0 .. r.gap /\ 0 \in 0 .. r.spacing
  BY <1>8
<1>10. Recovery(r)[0] <= v.ident
  BY <1>5, <1>7, <1>8
<1> QED
  BY <1>7, <1>8, <1>9, <1>10 DEF HasLock

LEMMA LockedWeak ==
  ASSUME NEW r, IsReception(r), NEW w, NEW t \in {1, -1}, NEW n, NEW g, HasLock(r, w, t, n, g), g < r.gap,
         NEW s, NEW v, v = FinalizeLine(r.p, w, "weak", s)
  PROVE  HasLock(r, v, -t, n, g + 1)
<1>0. /\ r.p.one \in Nat \ {0} /\ r.p.threshold \in Nat /\ r.p.threshold < r.p.one
      /\ r.p.identTc \in Nat \ {0} /\ r.p.killOn \in Nat \ {0} /\ r.p.killOff \in Nat \ {0}
      /\ r.p.refLines \in Nat /\ r.p.refLines > r.gap /\ r.gap \in Nat /\ r.spacing \in Nat
  BY Params
<1> USE <1>0
<1>1. /\ IsSwitch(w) /\ w.gain \in 0 .. r.p.one /\ 10 * w.gain >= r.p.one
      /\ n \in 0 .. r.spacing /\ g \in 0 .. r.gap
      /\ Pred(w) = t /\ w.ident \in r.p.threshold .. r.p.one /\ Recovery(r)[n] <= w.ident
      /\ w.ref = r.p.refLines - g
  BY DEF HasLock
<1>2. w.ref \in Nat /\ w.ref > 1
  BY <1>1
<1>3. IsSwitch(v) /\ Pred(v) = -Pred(w) /\ v.ident = w.ident /\ v.gain = w.gain /\ v.ref = w.ref - 1
  BY <1>1, <1>2, WeakHidden
<1>4. g + 1 \in 0 .. r.gap /\ v.ref = r.p.refLines - (g + 1) /\ g + 1 # 0
  BY <1>1, <1>3
<1> QED
  BY <1>1, <1>3, <1>4 DEF HasLock

-----------------------------------------------------------------------------
(* The invariant.                                                          *)

Calm ==
  /\ phase = "calm" /\ gap = 0 /\ Sided(rx, sw, tx)
  /\ rx.p.threshold = 0 => sw.gain = rx.p.one
On == phase = "on" /\ HasLock(rx, sw, tx, since, gap)

PalIInv ==
  /\ IsReception(rx) /\ tx \in {1, -1}
  /\ rx.kind = "wild" => phase \in {"calm", "wild"}
  /\ rx.kind = "isolated" => Calm \/ On

LEMMA PalInitHolds == PalInit => PalIInv
<1> SUFFICES ASSUME PalInit PROVE PalIInv
  OBVIOUS
<1>1. IsReception(rx) /\ tx \in {1, -1} /\ (rx.kind = "wild" => phase \in {"calm", "wild"})
  BY ReceptionsAssumption DEF PalInit
<1>2. ASSUME rx.kind = "isolated" PROVE Calm
  <2> DEFINE g == IF rx.p.threshold <= 0 THEN rx.p.one ELSE 0
  <2>1. phase = "calm" /\ gap = 0
    BY <1>2 DEF PalInit
  <2>2. sw = [parity |-> FALSE, polarity |-> FALSE, ident |-> 0, vFlip |-> 1, gain |-> g, ref |-> 0, gap |-> 0,
              good |-> FALSE, retuned |-> FALSE]
    BY DEF PalInit, SwitchInit
  <2>3. g \in 0 .. rx.p.one /\ (rx.p.threshold = 0 => g = rx.p.one) /\ 0 \in 0 .. rx.p.one /\ 0 \in -rx.p.one .. 0
    BY <1>1, Params
  <2> HIDE DEF g
  <2>4. IsSwitch(sw) /\ sw.ident = 0 /\ sw.gain = g
    BY <2>2 DEF IsSwitch
  <2> QED
    BY <2>1, <2>3, <2>4 DEF Calm, Sided
<1> QED
  BY <1>1, <1>2 DEF PalIInv

(* A line with a burst, of either sense, moves the switch as Measures says. *)
LEMMA GoodMeasures ==
  ASSUME tx \in {1, -1}, IsSwitch(sw), NEW wrong \in BOOLEAN, Good(wrong)
  PROVE  Measures(rx.p, sw, sw', IdentStep(rx.p, sw.ident, (IF wrong THEN tx ELSE -tx) * (-Pred(sw))))
<1> DEFINE s == IF wrong THEN tx ELSE -tx
<1>1. s \in {1, -1}
  OBVIOUS
<1>2. sw' = FinalizeLine(rx.p, sw, "strong", s)
  BY DEF Good
<1> HIDE DEF s
<1>3. Measures(rx.p, sw, sw', IdentStep(rx.p, sw.ident, s * (-Pred(sw))))
  BY <1>1, <1>2, StrongLine
<1> QED
  BY <1>3 DEF s

LEMMA StepClean ==
  ASSUME PalIInv, rx.kind = "isolated", CleanLine
  PROVE  Calm' \/ On'
<1>1. IsReception(rx) /\ tx \in {1, -1} /\ rx' = rx /\ tx' = -tx /\ gap' = 0
  BY DEF PalIInv, CleanLine, Good
<1>2. (-tx) \in {1, -1} /\ -(-tx) = tx
  BY <1>1
<1>3. phase' = PhaseAfter(sw') /\ since' = SinceAfter(FALSE)
  BY DEF CleanLine, Good
<1>4. IsSwitch(sw)
  BY DEF PalIInv, Calm, On, Sided, HasLock
<1>5. Measures(rx.p, sw, sw', IdentStep(rx.p, sw.ident, (-tx) * (-Pred(sw))))
  BY <1>1, <1>4, GoodMeasures DEF CleanLine
<1>6. CASE Calm
  <2>1. Sided(rx, sw, -(-tx)) /\ phase = "calm" /\ (rx.p.threshold = 0 => sw.gain = rx.p.one)
    BY <1>2, <1>6 DEF Calm
  <2>2. /\ Sided(rx, sw', -tx)
        /\ sw'.ident >= rx.p.threshold => Pred(sw') = -tx
        /\ rx.p.threshold = 0 => sw'.gain = sw.gain
    BY <1>1, <1>2, <1>5, <2>1, CalmClean
  <2>3. CASE phase' = "calm"
    BY <1>1, <2>1, <2>2, <2>3 DEF Calm
  <2>4. CASE phase' # "calm"
    <3>1. phase' = "on" /\ sw'.ident >= rx.p.threshold /\ KillerOpen(rx.p, sw')
      BY <1>3, <2>1, <2>4, Zenon DEF PhaseAfter
    <3>2. since' = 0
      BY <1>3, <2>1 DEF SinceAfter
    <3>3. IsSwitch(sw') /\ sw'.gain \in 0 .. rx.p.one /\ sw'.ident \in 0 .. rx.p.one /\ Pred(sw') = -tx
      BY <2>2, <3>1 DEF Sided
    <3>4. sw'.ident \in rx.p.threshold .. rx.p.one
      BY <1>1, <3>1, <3>3, Params
    <3>5. 10 * sw'.gain >= rx.p.one
      BY <3>1 DEF KillerOpen
    <3>6. sw'.ref = rx.p.refLines /\ sw'.vFlip = Pred(sw')
      BY <1>5 DEF Measures
    <3>7. sw'.ref = rx.p.refLines - 0 /\ 0 \in 0 .. rx.spacing /\ 0 \in 0 .. rx.gap
      BY <1>1, <3>6, Params
    <3>8. Recovery(rx)[0] <= sw'.ident
      BY <1>1, <3>1, RecoveryIs, Params, <3>4
    <3>9. HasLock(rx, sw', -tx, 0, 0)
      BY <3>3, <3>4, <3>5, <3>6, <3>7, <3>8 DEF HasLock
    <3> QED
      BY <1>1, <3>1, <3>2, <3>9 DEF On
  <2> QED
    BY <2>3, <2>4
<1>7. CASE On
  <2>1. phase = "on" /\ HasLock(rx, sw, tx, since, gap)
    BY <1>7 DEF On
  <2>2. since' = IF since < rx.spacing THEN since + 1 ELSE since
    BY <1>3, <2>1 DEF SinceAfter
  <2>3. phase' = "on"
    BY <1>3, <2>1 DEF PhaseAfter
  <2>4. HasLock(rx, sw', -tx, IF since < rx.spacing THEN since + 1 ELSE since, 0)
    BY <1>1, <1>5, <2>1, LockedClean
  <2> QED
    BY <1>1, <2>2, <2>3, <2>4 DEF On
<1> QED
  BY <1>6, <1>7 DEF PalIInv

LEMMA StepWrong ==
  ASSUME PalIInv, rx.kind = "isolated", WrongLine
  PROVE  On'
<1>1. IsReception(rx) /\ tx \in {1, -1} /\ rx' = rx /\ tx' = -tx /\ gap' = 0 /\ May("wrong") /\ Good(TRUE)
  BY DEF PalIInv, WrongLine, Good
<1>2. phase # "calm"
  BY <1>1 DEF May
<1>3. phase = "on" /\ HasLock(rx, sw, tx, since, gap)
  BY <1>2 DEF PalIInv, Calm, On
<1>4. since >= rx.spacing
  BY <1>1, <1>3 DEF May
<1>5. phase' = "on" /\ since' = 0
  BY <1>1, <1>3 DEF Good, PhaseAfter, SinceAfter
<1>6. Measures(rx.p, sw, sw', IdentStep(rx.p, sw.ident, tx * (-Pred(sw))))
  <2>1. IsSwitch(sw)
    BY <1>3 DEF HasLock
  <2> QED
    BY <1>1, <2>1, GoodMeasures
<1>7. HasLock(rx, sw', -tx, 0, 0)
  BY <1>1, <1>3, <1>4, <1>6, LockedWrong
<1> QED
  BY <1>1, <1>5, <1>7 DEF On

LEMMA StepWeak ==
  ASSUME PalIInv, rx.kind = "isolated", WeakLine
  PROVE  On'
<1>1. IsReception(rx) /\ tx \in {1, -1} /\ rx' = rx /\ tx' = -tx /\ phase' = phase /\ since' = since /\ May("weak")
  BY DEF PalIInv, WeakLine
<1>2. phase # "calm"
  BY <1>1 DEF May
<1>3. phase = "on" /\ HasLock(rx, sw, tx, since, gap)
  BY <1>2 DEF PalIInv, Calm, On
<1>4. gap < rx.gap /\ gap' = gap + 1
  BY <1>1, <1>3 DEF May, WeakLine
<1>5. PICK s \in {1, -1} : sw' = FinalizeLine(rx.p, sw, "weak", s)
  BY DEF WeakLine
<1>6. HasLock(rx, sw', -tx, since, gap + 1)
  BY <1>1, <1>3, <1>4, <1>5, LockedWeak
<1> QED
  BY <1>1, <1>3, <1>4, <1>6 DEF On

(* No isolated reception loses or doubles a gate close.                    *)
LEMMA StepRest ==
  ASSUME PalIInv, rx.kind = "isolated"
  PROVE  ~LostClose /\ ~DoubleClose /\ ~TurnsClean
<1>1. phase \in {"calm", "on"}
  BY DEF PalIInv, Calm, On
<1>2. ~May("lost") /\ ~May("double")
  <2>1. CASE phase = "calm"
    BY <2>1 DEF May
  <2>2. CASE phase = "on"
    BY <2>2 DEF May
  <2> QED
    BY <1>1, <2>1, <2>2
<1> QED
  BY <1>1, <1>2 DEF LostClose, DoubleClose, TurnsClean

LEMMA PalNextHolds == PalIInv /\ [PalNext]_palVars => PalIInv'
<1> SUFFICES ASSUME PalIInv, [PalNext]_palVars PROVE PalIInv'
  OBVIOUS
<1>1. CASE UNCHANGED palVars
  BY <1>1 DEF palVars, PalIInv, Calm, On
<1>2. CASE PalNext
  <2>1. rx' = rx /\ tx' \in {1, -1}
    <3>1. rx' = rx /\ (tx' = tx \/ tx' = -tx)
      BY <1>2 DEF PalNext, Line, CleanLine, WrongLine, WeakLine, LostClose, DoubleClose, TurnsClean, Good
    <3>2. tx \in {1, -1}
      BY DEF PalIInv
    <3> QED
      BY <3>1, <3>2
  <2>2. ASSUME rx.kind = "wild" PROVE phase' \in {"calm", "wild"}
    BY <1>2, <2>2 DEF PalIInv, PalNext, Line, CleanLine, WrongLine, WeakLine, LostClose, DoubleClose, TurnsClean, Good,
                      PhaseAfter
  <2>3. ASSUME rx.kind = "isolated" PROVE Calm' \/ On'
    BY <1>2, <2>3, StepClean, StepWrong, StepWeak, StepRest DEF PalNext, Line
  <2> QED
    BY <2>1, <2>2, <2>3 DEF PalIInv
<1> QED
  BY <1>1, <1>2

(* LockHeld but for the attack: once the colour is up on a signal whose    *)
(* wrong bursts are isolated, no number of them and no gap the reception   *)
(* allows inverts V on a line with a burst, or mutes the picture.          *)
THEOREM LockHolds == PalSpec => [](rx.kind # "attack" => LockHeld)
<1>1. PalIInv => (rx.kind # "attack" => LockHeld)
  <2> SUFFICES ASSUME PalIInv, rx.kind # "attack", phase = "on" PROVE LockHeld
    BY DEF LockHeld
  <2>1. rx.kind = "isolated" /\ HasLock(rx, sw, tx, since, gap)
    BY DEF PalIInv, IsReception, Calm, On
  <2> QED
    BY <2>1 DEF LockHeld, Attacked, Right, KillerOpen, HasLock
<1> QED
  BY <1>1, PalInitHolds, PalNextHolds, PTL DEF PalSpec

-----------------------------------------------------------------------------
(***************************************************************************)
(* SyncSignal: the horizontal pulse-width window, for every picture level, *)
(* carrier, length of field and noise.  The invariant says of every moment *)
(* the slicer may leave sync at what the width it measured can be: a       *)
(* line's pulse, or one the window refuses at any rate omega_clamp allows. *)
(* It needs the script's order (what may follow what), and that the low of *)
(* a broad pulse, as long as a line's sync, is not sliced as one.          *)
(***************************************************************************)

LEMMA QuotientNat ==
  ASSUME NEW a \in Nat, NEW c \in Nat \ {0}
  PROVE  a \div c \in Nat
<1> DEFINE q == a \div c
<1>1. q \in Int /\ a < c * q + c
  BY DivBounds
<1> HIDE DEF q
<1>2. ASSUME q + 1 <= 0 PROVE FALSE
  <2>1. c * (q + 1) <= 0
    BY <1>1, <1>2
  <2> QED
    BY <1>1, <2>1
<1>3. q \in Nat
  BY <1>1, <1>2
<1> QED
  BY <1>3 DEF q

-----------------------------------------------------------------------------
(* The slicer: what it keeps, and that a low is never sync after its pulse. *)

IsSlicer(s) ==
  /\ s = [mode |-> s.mode, tip |-> s.tip, peak |-> s.peak, floor |-> s.floor, seeded |-> s.seeded, sync |-> s.sync]
  /\ s.tip \in Nat /\ s.peak \in Nat /\ s.floor \in Nat /\ s.floor <= s.peak
  /\ s.seeded \in BOOLEAN /\ s.sync \in BOOLEAN

(* The slicer has seen a level of L.                                       *)
Peaked(s, L) == IF s.mode = "tip" THEN s.tip >= L ELSE s.seeded /\ s.peak >= L

(* No level so far was above L.                                            *)
Under(s, L) == s.tip <= L /\ s.peak <= L

LEMMA MostLeast ==
  ASSUME NEW a \in Int, NEW b \in Int
  PROVE  /\ Most(a, b) \in Int /\ Most(a, b) >= a /\ Most(a, b) >= b /\ (Most(a, b) = a \/ Most(a, b) = b)
         /\ Least(a, b) \in Int /\ Least(a, b) <= a /\ Least(a, b) <= b /\ (Least(a, b) = a \/ Least(a, b) = b)
BY DEF Most, Least

LEMMA Tracks ==
  ASSUME TicksAssumption, NEW s, IsSlicer(s), NEW L \in Nat, NEW dur \in Nat
  PROVE  LET v == Track(s, L, dur)
         IN  /\ IsSlicer(v) /\ v.mode = s.mode /\ v.tip = s.tip /\ v.sync = s.sync /\ v.seeded
             /\ L <= v.peak /\ v.floor <= L
             /\ (s.seeded /\ dur = 0) => (s.peak <= v.peak)
             /\ (s.seeded /\ dur = 0) => (v.floor <= s.floor)
             /\ \A M \in Nat : (s.peak <= M /\ L <= M) => v.peak <= M
<1> DEFINE v == Track(s, L, dur)
           d == ((s.peak - s.floor) * dur) \div TRACK_TICKS
           p == Most(L, s.peak - d)
           f == Least(L, s.floor + d)
<1>1. CASE ~s.seeded
  <2>1. v = [s EXCEPT !.peak = L, !.floor = L, !.seeded = TRUE]
    BY <1>1 DEF Track
  <2> HIDE DEF v
  <2>2. v = [mode |-> s.mode, tip |-> s.tip, peak |-> L, floor |-> L, seeded |-> TRUE, sync |-> s.sync]
    BY <2>1 DEF IsSlicer
  <2>3. /\ v.mode = s.mode /\ v.tip = s.tip /\ v.peak = L /\ v.floor = L /\ v.seeded = TRUE /\ v.sync = s.sync
    BY <2>2
  <2>4. IsSlicer(v)
    BY <2>2, <2>3 DEF IsSlicer
  <2> QED
    BY <1>1, <2>3, <2>4 DEF v
<1>2. CASE s.seeded
  <2>1. v = [s EXCEPT !.peak = p, !.floor = f]
    BY <1>2 DEF Track
  <2>2. d \in Nat /\ (dur = 0 => d = 0)
    <3>1. TRACK_TICKS \in Nat \ {0}
      BY DEF TicksAssumption, TRACK_TICKS
    <3> DEFINE n == (s.peak - s.floor) * dur
    <3>2. n \in Nat /\ (dur = 0 => n = 0)
      BY DEF IsSlicer
    <3> HIDE DEF n
    <3>3. n \div TRACK_TICKS \in Nat
      BY <3>1, <3>2, QuotientNat
    <3>4. n = 0 => n \div TRACK_TICKS = 0
      BY <3>1
    <3> QED
      BY <3>2, <3>3, <3>4 DEF n
  <2> HIDE DEF d, v
  <2>3. /\ p \in Int /\ p >= L /\ p >= s.peak - d /\ (p = L \/ p = s.peak - d)
        /\ f \in Int /\ f <= L /\ f <= s.floor + d /\ (f = L \/ f = s.floor + d)
    BY <2>2, MostLeast DEF IsSlicer
  <2> HIDE DEF p, f
  <2>4. v = [mode |-> s.mode, tip |-> s.tip, peak |-> p, floor |-> f, seeded |-> s.seeded, sync |-> s.sync]
    BY <2>1 DEF IsSlicer
  <2>5. /\ v.mode = s.mode /\ v.tip = s.tip /\ v.peak = p /\ v.floor = f /\ v.seeded = s.seeded /\ v.sync = s.sync
    BY <2>4
  <2>6. p \in Nat /\ f \in Nat /\ f <= p
    BY <2>2, <2>3 DEF IsSlicer
  <2>7. IsSlicer(v)
    BY <2>4, <2>5, <2>6 DEF IsSlicer
  <2>8. dur = 0 => s.peak <= p /\ f <= s.floor
    BY <2>2, <2>3 DEF IsSlicer
  <2>9. \A M \in Nat : (s.peak <= M /\ L <= M) => p <= M
    BY <2>2, <2>3 DEF IsSlicer
  <2> QED
    BY <1>2, <2>3, <2>5, <2>7, <2>8, <2>9 DEF v
<1> QED
  BY <1>1, <1>2 DEF IsSlicer

LEMMA TracksAtOnce ==
  ASSUME TicksAssumption, NEW s, IsSlicer(s), s.seeded, NEW L \in Nat
  PROVE  s.peak <= Track(s, L, 0).peak /\ Track(s, L, 0).floor <= s.floor
<1>1. 0 \in Nat
  OBVIOUS
<1> QED
  BY <1>1, Tracks

(* The slicer at the first sample of a segment.                            *)
LEMMA Slices ==
  ASSUME TicksAssumption, NEW s, IsSlicer(s), NEW L \in Nat
  PROVE  LET v == Slice(s, L)
         IN  /\ IsSlicer(v) /\ v.mode = s.mode
             /\ Peaked(v, L)
             /\ \A M \in Nat : (Under(s, M) /\ L <= M) => Under(v, M)
<1> DEFINE v == Slice(s, L)
<1>1. CASE s.mode = "tip"
  <2> DEFINE t == Most(L, s.tip)
             b == t > 0 /\ 1000 * L >= (IF s.sync THEN 915 ELSE 925) * t
             a == AgcAttack(s, L)
  <2>1. a = [s EXCEPT !.tip = t]
    BY DEF AgcAttack
  <2>2. t \in Nat /\ t >= L /\ (t = L \/ t = s.tip)
    BY DEF IsSlicer, Most
  <2> HIDE DEF t
  <2>3. a = [mode |-> s.mode, tip |-> t, peak |-> s.peak, floor |-> s.floor, seeded |-> s.seeded, sync |-> s.sync]
    BY <2>1 DEF IsSlicer
  <2> HIDE DEF a
  <2>4. a.tip = t /\ a.sync = s.sync
    BY <2>3
  <2>5. v = [a EXCEPT !.sync = b]
    BY <1>1, <2>4 DEF Slice, SliceFixed, a
  <2>6. b \in BOOLEAN
    OBVIOUS
  <2> HIDE DEF b, v
  <2>7. v = [mode |-> s.mode, tip |-> t, peak |-> s.peak, floor |-> s.floor, seeded |-> s.seeded, sync |-> b]
    BY <2>3, <2>5
  <2>8. v.mode = s.mode /\ v.tip = t /\ v.peak = s.peak /\ v.floor = s.floor /\ v.seeded = s.seeded /\ v.sync = b
    BY <2>7
  <2>9. IsSlicer(v)
    BY <2>2, <2>6, <2>7, <2>8 DEF IsSlicer
  <2>10. Peaked(v, L)
    BY <1>1, <2>2, <2>8 DEF Peaked
  <2>11. \A M \in Nat : (Under(s, M) /\ L <= M) => Under(v, M)
    BY <2>2, <2>8 DEF Under
  <2> QED
    BY <2>8, <2>9, <2>10, <2>11 DEF v
<1>2. CASE s.mode # "tip"
  <2> DEFINE a == Track(s, L, 0)
             r == a.peak - a.floor
             b == (1000 * (L - a.floor) >= (IF a.sync THEN 825 ELSE 875) * r) /\ (a.sync \/ r > 0)
  <2>1. /\ IsSlicer(a) /\ a.mode = s.mode /\ a.tip = s.tip /\ a.seeded /\ L <= a.peak
        /\ \A M \in Nat : (s.peak <= M /\ L <= M) => a.peak <= M
    BY Tracks
  <2> HIDE DEF a
  <2>2. v = [a EXCEPT !.sync = b]
    BY <1>2 DEF Slice, SliceAdaptive, a
  <2>3. b \in BOOLEAN
    BY <2>1 DEF IsSlicer
  <2> HIDE DEF b, v
  <2>4. v = [mode |-> a.mode, tip |-> a.tip, peak |-> a.peak, floor |-> a.floor, seeded |-> a.seeded, sync |-> b]
    BY <2>1, <2>2 DEF IsSlicer
  <2>5. v.mode = s.mode /\ v.tip = s.tip /\ v.peak = a.peak /\ v.floor = a.floor /\ v.seeded = a.seeded /\ v.sync = b
    BY <2>1, <2>4
  <2>6. IsSlicer(v)
    BY <2>1, <2>3, <2>4, <2>5 DEF IsSlicer
  <2>7. Peaked(v, L)
    BY <1>2, <2>1, <2>5 DEF Peaked
  <2>8. \A M \in Nat : (Under(s, M) /\ L <= M) => Under(v, M)
    BY <2>1, <2>5 DEF Under
  <2> QED
    BY <2>5, <2>6, <2>7, <2>8 DEF v
<1> QED
  BY <1>1, <1>2

(* The slicer over the length of a segment.                                *)
LEMMA Releases ==
  ASSUME TicksAssumption, NEW s, IsSlicer(s), NEW L \in Nat, NEW dur \in Nat
  PROVE  LET v == Release(s, L, dur)
         IN  /\ IsSlicer(v) /\ v.mode = s.mode /\ v.sync = s.sync
             /\ Peaked(v, L)
             /\ v.mode # "tip" => v.seeded /\ v.floor <= L
             /\ \A M \in Nat : (Under(s, M) /\ L <= M) => Under(v, M)
<1> DEFINE v == Release(s, L, dur)
<1>1. CASE s.mode = "tip"
  <2> DEFINE q == (s.tip * dur) \div AGC_TICKS
             t == Most(L, s.tip - q)
  <2>1. v = [s EXCEPT !.tip = t]
    BY <1>1 DEF Release, AgcRelease
  <2>2. q \in Nat
    <3>1. s.tip * dur \in Nat
      BY DEF IsSlicer
    <3>2. AGC_TICKS \in Nat \ {0}
      BY DEF TicksAssumption, AGC_TICKS
    <3> QED
      BY <3>1, <3>2, QuotientNat
  <2> HIDE DEF q
  <2>3. t \in Nat /\ t >= L /\ (t = L \/ t <= s.tip)
    BY <2>2 DEF IsSlicer, Most
  <2> HIDE DEF t, v
  <2>4. v = [mode |-> s.mode, tip |-> t, peak |-> s.peak, floor |-> s.floor, seeded |-> s.seeded, sync |-> s.sync]
    BY <2>1 DEF IsSlicer
  <2>5. v.mode = s.mode /\ v.tip = t /\ v.peak = s.peak /\ v.floor = s.floor /\ v.seeded = s.seeded /\ v.sync = s.sync
    BY <2>4
  <2>6. IsSlicer(v)
    BY <2>3, <2>4, <2>5 DEF IsSlicer
  <2>7. Peaked(v, L)
    BY <1>1, <2>3, <2>5 DEF Peaked
  <2>8. \A M \in Nat : (Under(s, M) /\ L <= M) => Under(v, M)
    BY <2>3, <2>5 DEF Under, IsSlicer
  <2> QED
    BY <1>1, <2>5, <2>6, <2>7, <2>8 DEF v
<1>2. CASE s.mode # "tip"
  <2>1. v = Track(s, L, dur)
    BY <1>2 DEF Release
  <2>2. /\ IsSlicer(v) /\ v.mode = s.mode /\ v.tip = s.tip /\ v.sync = s.sync /\ v.seeded
        /\ L <= v.peak /\ v.floor <= L
        /\ \A M \in Nat : (s.peak <= M /\ L <= M) => v.peak <= M
    BY <2>1, Tracks
  <2> HIDE DEF v
  <2>3. Peaked(v, L)
    BY <1>2, <2>2 DEF Peaked
  <2>4. \A M \in Nat : (Under(s, M) /\ L <= M) => Under(v, M)
    BY <2>2 DEF Under
  <2> QED
    BY <2>2, <2>3, <2>4 DEF v
<1> QED
  BY <1>1, <1>2

(* Levels, by name: full carrier, a picture's low, blanking or blacker.    *)
Full == 1000
Blank == 760
IsLow(low, L) == 1000 * low <= 760 * L
Blanked(x) == x <= 760
Attenuated(m, L) == (m * L) \div 1000

(* After a pulse at L, a segment at 0.76 of it or less is not sync.        *)
LEMMA LowIsOff ==
  ASSUME TicksAssumption, NEW s, IsSlicer(s), NEW L \in Nat \ {0}, Peaked(s, L),
         NEW low \in Nat, IsLow(low, L)
  PROVE  ~Slice(s, low).sync
<1>1. CASE s.mode = "tip"
  <2> DEFINE t == Most(low, s.tip)
             b == t > 0 /\ 1000 * low >= (IF s.sync THEN 915 ELSE 925) * t
             a == AgcAttack(s, low)
  <2>1. a = [s EXCEPT !.tip = t]
    BY DEF AgcAttack
  <2>2. t \in Nat /\ t >= L
    BY <1>1 DEF IsSlicer, Most, Peaked
  <2>3. ~b
    <3> HIDE DEF t
    <3> QED
      BY <2>2 DEF IsLow
  <2> HIDE DEF t
  <2>4. a = [mode |-> s.mode, tip |-> t, peak |-> s.peak, floor |-> s.floor, seeded |-> s.seeded, sync |-> s.sync]
    BY <2>1 DEF IsSlicer
  <2> HIDE DEF a
  <2>5. a.tip = t /\ a.sync = s.sync
    BY <2>4
  <2>6. Slice(s, low) = [a EXCEPT !.sync = b]
    BY <1>1, <2>5 DEF Slice, SliceFixed, a
  <2> HIDE DEF b
  <2>7. Slice(s, low).sync = b
    BY <2>4, <2>6
  <2> QED
    BY <2>3, <2>7
<1>2. CASE s.mode # "tip"
  <2> DEFINE a == Track(s, low, 0)
             r == a.peak - a.floor
             b == (1000 * (low - a.floor) >= (IF a.sync THEN 825 ELSE 875) * r) /\ (a.sync \/ r > 0)
  <2>1. /\ IsSlicer(a) /\ a.floor <= low
        /\ s.peak <= a.peak
    <3>1. s.seeded /\ 0 \in Nat
      BY <1>2 DEF Peaked
    <3>2. IsSlicer(a) /\ a.floor <= low
      BY <3>1, Tracks
    <3>3. s.peak <= a.peak
      BY <3>1, TracksAtOnce
    <3> QED
      BY <3>2, <3>3
  <2>2. L <= a.peak /\ a.peak \in Nat /\ a.floor \in Nat
    BY <1>2, <2>1 DEF Peaked, IsSlicer
  <2> HIDE DEF a
  <2>3. ~b
    <3>1. ~(1000 * (low - a.floor) >= 825 * r)
      BY <2>1, <2>2 DEF IsLow
    <3>2. ~(1000 * (low - a.floor) >= 875 * r)
      BY <2>1, <2>2 DEF IsLow
    <3> QED
      BY <3>1, <3>2
  <2>4. Slice(s, low) = [a EXCEPT !.sync = b]
    BY <1>2 DEF Slice, SliceAdaptive, a
  <2> HIDE DEF b
  <2>5. Slice(s, low).sync = b
    BY <2>1, <2>4 DEF IsSlicer
  <2> QED
    BY <2>3, <2>5
<1> QED
  BY <1>1, <1>2

(* A pulse at a level nothing was above is sync, once the slicer has seen  *)
(* a blanking level.                                                       *)
LEMMA HighIsOn ==
  ASSUME TicksAssumption, NEW s, IsSlicer(s), Under(s, Full), s.mode # "tip" => s.seeded /\ Blanked(s.floor)
  PROVE  Slice(s, Full).sync
<1>1. CASE s.mode = "tip"
  <2> DEFINE t == Most(Full, s.tip)
             b == t > 0 /\ 1000 * Full >= (IF s.sync THEN 915 ELSE 925) * t
             a == AgcAttack(s, Full)
  <2>1. a = [s EXCEPT !.tip = t]
    BY DEF AgcAttack
  <2>2. t = Full
    BY DEF IsSlicer, Most, Under, Full
  <2>3. b
    <3> HIDE DEF t
    <3> QED
      BY <2>2 DEF Full
  <2> HIDE DEF t
  <2>4. a = [mode |-> s.mode, tip |-> t, peak |-> s.peak, floor |-> s.floor, seeded |-> s.seeded, sync |-> s.sync]
    BY <2>1 DEF IsSlicer
  <2> HIDE DEF a
  <2>5. a.tip = t /\ a.sync = s.sync
    BY <2>4
  <2>6. Slice(s, Full) = [a EXCEPT !.sync = b]
    BY <1>1, <2>5 DEF Slice, SliceFixed, a
  <2> HIDE DEF b
  <2>7. Slice(s, Full).sync = b
    BY <2>4, <2>6
  <2> QED
    BY <2>3, <2>7, Zenon
<1>2. CASE s.mode # "tip"
  <2> DEFINE a == Track(s, Full, 0)
             r == a.peak - a.floor
             b == (1000 * (Full - a.floor) >= (IF a.sync THEN 825 ELSE 875) * r) /\ (a.sync \/ r > 0)
  <2>1. /\ IsSlicer(a) /\ Full <= a.peak /\ a.floor <= s.floor /\ a.peak <= Full
    <3>1. s.seeded /\ 0 \in Nat /\ Full \in Nat /\ s.peak <= Full
      BY <1>2 DEF Under, Full
    <3>2. /\ IsSlicer(a) /\ Full <= a.peak
          /\ \A M \in Nat : (s.peak <= M /\ Full <= M) => a.peak <= M
      BY <3>1, Tracks
    <3>3. a.floor <= s.floor
      BY <3>1, TracksAtOnce
    <3> HIDE DEF a
    <3> QED
      BY <3>1, <3>2, <3>3
  <2>2. a.peak = Full /\ a.floor \in Nat /\ a.floor <= 760
    BY <1>2, <2>1 DEF IsSlicer, Full, Blanked
  <2> HIDE DEF a
  <2>3. b
    BY <2>2 DEF Full
  <2>4. Slice(s, Full) = [a EXCEPT !.sync = b]
    BY <1>2 DEF Slice, SliceAdaptive, a
  <2> HIDE DEF b
  <2>5. Slice(s, Full).sync = b
    BY <2>1, <2>4 DEF IsSlicer
  <2> QED
    BY <2>3, <2>5, Zenon
<1> QED
  BY <1>1, <1>2

-----------------------------------------------------------------------------
(* The horizontal flywheel: which widths its window lets through.          *)

IsSweep(h) ==
  /\ h = [phase |-> h.phase, rate |-> h.rate, charge |-> h.charge, have |-> h.have, since |-> h.since,
          width |-> h.width, leadPhase |-> h.leadPhase, taken |-> h.taken, err |-> h.err]
  /\ h.phase \in Int /\ h.leadPhase \in Int /\ h.width \in Nat
  /\ h.rate \in Nat /\ 8000 <= h.rate /\ h.rate <= 12000

(* Wider than the window at any rate, a line's pulse, or narrower.         *)
IsWide(w) == w >= 188
Refused(w) == IsWide(w) \/ w = 37

LEMMA Window ==
  ASSUME NEW h, IsSweep(h)
  PROVE  Refused(h.width) => ~LineWidth(h)
<1> DEFINE w == h.width
           r == h.rate
<1>1. w \in Nat /\ r \in Nat /\ 8000 <= r /\ r <= 12000
  BY DEF IsSweep
<1> HIDE DEF w, r
<1>2. ASSUME w >= 188 PROVE w * r > 1500000
  <2>1. w * r >= 188 * r
    BY <1>1, <1>2
  <2> QED
    BY <1>1, <2>1
<1>3. ASSUME w = 37 PROVE w * r < 500000
  BY <1>1, <1>3
<1>4. w * r \in Int
  BY <1>1
<1> QED
  BY <1>2, <1>3, <1>4, SMT DEF LineWidth, w, r, Refused, IsWide

LEMMA RoundInt ==
  ASSUME NEW a \in Int, NEW b \in Nat \ {0}
  PROVE  Round(a, b) \in Int
<1>1. 2 * a + b \in Int /\ 2 * b \in Nat \ {0}
  OBVIOUS
<1> QED
  BY <1>1, DivBounds DEF Round

LEMMA ClampRange ==
  ASSUME NEW x \in Int
  PROVE  Clamp(x) \in Nat /\ 8000 <= Clamp(x) /\ Clamp(x) <= 12000
BY DEF Clamp, Least, Most

LEMMA Edges ==
  ASSUME NEW h, IsSweep(h), NEW was \in BOOLEAN, NEW now \in BOOLEAN
  PROVE  LET e == HEdge(h, was, now)
         IN  /\ IsSweep(e)
             /\ e.width = IF now /\ ~was THEN 0 ELSE h.width
             /\ e.taken => was /\ ~now /\ LineWidth(h)
<1> DEFINE e == HEdge(h, was, now)
<1>0. h = [phase |-> h.phase, rate |-> h.rate, charge |-> h.charge, have |-> h.have, since |-> h.since,
           width |-> h.width, leadPhase |-> h.leadPhase, taken |-> h.taken, err |-> h.err]
  BY DEF IsSweep
<1>1. CASE now /\ ~was
  <2>1. e = [h EXCEPT !.width = 0, !.leadPhase = h.phase, !.taken = FALSE]
    BY <1>1 DEF HEdge
  <2> HIDE DEF e
  <2>2. e = [phase |-> h.phase, rate |-> h.rate, charge |-> h.charge, have |-> h.have, since |-> h.since,
             width |-> 0, leadPhase |-> h.phase, taken |-> FALSE, err |-> h.err]
    BY <1>0, <2>1
  <2>3. /\ e.phase = h.phase /\ e.rate = h.rate /\ e.charge = h.charge /\ e.have = h.have /\ e.since = h.since
        /\ e.width = 0 /\ e.leadPhase = h.phase /\ e.taken = FALSE /\ e.err = h.err
    BY <2>2
  <2>4. IsSweep(e)
    BY <2>2, <2>3 DEF IsSweep
  <2> QED
    BY <1>1, <2>3, <2>4 DEF e
<1>2. CASE was /\ ~now /\ LineWidth(h) /\ GapElapsed(h)
  <2> DEFINE err == WrapError(h.leadPhase, 10000)
             kick == IF Locked(h) THEN Round(err, 10) ELSE Round(err, 2)
             pull == IF Locked(h) THEN Round(128 * err, 10000) ELSE Round(1280 * err, 10000)
             ph == (h.phase - kick) % 10000
             rt == Clamp(h.rate - pull)
             ch == Charge(h, err)
  <2>1. e = [h EXCEPT !.phase = ph, !.rate = rt, !.charge = ch, !.have = TRUE, !.since = 0, !.taken = TRUE, !.err = err]
    BY <1>2 DEF HEdge, TakeEdge
  <2>2. err \in Int
    <3> DEFINE x == h.leadPhase
    <3>1. x \in Int
      BY DEF IsSweep
    <3> HIDE DEF x
    <3>2. WrapError(x, 10000) \in Int
      BY <3>1 DEF WrapError
    <3> QED
      BY <3>2 DEF x
  <2> HIDE DEF err
  <2>3. kick \in Int /\ pull \in Int
    <3>1. Round(err, 10) \in Int /\ Round(err, 2) \in Int
      BY <2>2, RoundInt
    <3>2. 128 * err \in Int /\ 1280 * err \in Int
      BY <2>2
    <3>3. Round(128 * err, 10000) \in Int /\ Round(1280 * err, 10000) \in Int
      BY <3>2, RoundInt
    <3> QED
      BY <3>1, <3>3
  <2> HIDE DEF kick, pull
  <2>4. ph \in Int
    BY <2>3 DEF IsSweep
  <2>5. rt \in Nat /\ 8000 <= rt /\ rt <= 12000
    <3> DEFINE x == h.rate - pull
    <3>1. x \in Int
      BY <2>3 DEF IsSweep
    <3> HIDE DEF x
    <3>2. Clamp(x) \in Nat /\ 8000 <= Clamp(x) /\ Clamp(x) <= 12000
      BY <3>1, ClampRange
    <3> QED
      BY <3>2 DEF x
  <2> HIDE DEF ph, rt, ch, e
  <2>6. e = [phase |-> ph, rate |-> rt, charge |-> ch, have |-> TRUE, since |-> 0,
             width |-> h.width, leadPhase |-> h.leadPhase, taken |-> TRUE, err |-> err]
    BY <1>0, <2>1
  <2>7. /\ e.phase = ph /\ e.rate = rt /\ e.charge = ch /\ e.have = TRUE /\ e.since = 0
        /\ e.width = h.width /\ e.leadPhase = h.leadPhase /\ e.taken = TRUE /\ e.err = err
    BY <2>6
  <2>8. IsSweep(e)
    BY <2>4, <2>5, <2>6, <2>7 DEF IsSweep
  <2> QED
    BY <1>2, <2>7, <2>8 DEF e
<1>3. CASE ~(now /\ ~was) /\ ~(was /\ ~now /\ LineWidth(h) /\ GapElapsed(h))
  <2>1. e = [h EXCEPT !.taken = FALSE]
    BY <1>3 DEF HEdge
  <2> HIDE DEF e
  <2>2. e = [phase |-> h.phase, rate |-> h.rate, charge |-> h.charge, have |-> h.have, since |-> h.since,
             width |-> h.width, leadPhase |-> h.leadPhase, taken |-> FALSE, err |-> h.err]
    BY <1>0, <2>1
  <2>3. /\ e.phase = h.phase /\ e.rate = h.rate /\ e.charge = h.charge /\ e.have = h.have /\ e.since = h.since
        /\ e.width = h.width /\ e.leadPhase = h.leadPhase /\ e.taken = FALSE /\ e.err = h.err
    BY <2>2
  <2>4. IsSweep(e)
    BY <2>2, <2>3 DEF IsSweep
  <2> QED
    BY <1>3, <2>3, <2>4 DEF e
<1> QED
  BY <1>1, <1>2, <1>3

LEMMA Runs ==
  ASSUME TicksAssumption, NEW h, IsSweep(h), NEW dur \in Nat
  PROVE  LET r == HRun(h, dur)
         IN  /\ IsSweep(r) /\ r.taken = h.taken
             /\ r.width = Least(h.width + dur, FAR)
<1> DEFINE r == HRun(h, dur)
           ph == (h.phase + Round(h.rate * dur, 1000)) % 10000
           si == Least(h.since + dur, FAR)
           wi == Least(h.width + dur, FAR)
<1>0. h = [phase |-> h.phase, rate |-> h.rate, charge |-> h.charge, have |-> h.have, since |-> h.since,
           width |-> h.width, leadPhase |-> h.leadPhase, taken |-> h.taken, err |-> h.err]
  BY DEF IsSweep
<1>1. r = [h EXCEPT !.phase = ph, !.since = si, !.width = wi]
  BY DEF HRun
<1>2. ph \in Int
  <2>1. h.rate * dur \in Int
    BY DEF IsSweep
  <2>2. Round(h.rate * dur, 1000) \in Int
    BY <2>1, RoundInt
  <2> QED
    BY <2>2 DEF IsSweep
<1>3. wi \in Nat
  BY DEF IsSweep, Least, FAR, TicksAssumption
<1> HIDE DEF r, ph, si, wi
<1>4. r = [phase |-> ph, rate |-> h.rate, charge |-> h.charge, have |-> h.have, since |-> si,
           width |-> wi, leadPhase |-> h.leadPhase, taken |-> h.taken, err |-> h.err]
  BY <1>0, <1>1
<1>5. r.phase = ph /\ r.rate = h.rate /\ r.width = wi /\ r.leadPhase = h.leadPhase /\ r.taken = h.taken
  BY <1>4
<1>6. IsSweep(r)
  BY <1>2, <1>3, <1>4, <1>5 DEF IsSweep
<1> QED
  BY <1>5, <1>6 DEF r, wi

-----------------------------------------------------------------------------
(* One segment through the chain.                                          *)

IsChain(c) == IsSlicer(c.sl) /\ IsSweep(c.h)

LEMMA Plays ==
  ASSUME TicksAssumption, NEW c, IsChain(c), NEW L \in Nat, NEW dur \in Nat
  PROVE  LET v == Play(c, L, dur)
             on == Slice(c.sl, L).sync
         IN  /\ IsChain(v) /\ v.sl.sync = on /\ v.sl.mode = c.sl.mode
             /\ Peaked(v.sl, L)
             /\ v.sl.mode # "tip" => v.sl.seeded /\ v.sl.floor <= L
             /\ \A M \in Nat : (Under(c.sl, M) /\ L <= M) => Under(v.sl, M)
             /\ v.h.width = Least((IF on /\ ~c.sl.sync THEN 0 ELSE c.h.width) + dur, FAR)
             /\ v.h.taken => c.sl.sync /\ ~on /\ LineWidth(c.h)
<1> DEFINE v == Play(c, L, dur)
           s == Slice(c.sl, L)
           e == HEdge(c.h, c.sl.sync, s.sync)
<1>1. v.sl = Release(s, L, dur) /\ v.h = HRun(e, dur)
  BY DEF Play
<1>2. IsSlicer(s) /\ s.mode = c.sl.mode /\ \A M \in Nat : (Under(c.sl, M) /\ L <= M) => Under(s, M)
  BY Slices DEF IsChain
<1> HIDE DEF s
<1>3. /\ IsSlicer(v.sl) /\ v.sl.mode = c.sl.mode /\ v.sl.sync = s.sync /\ Peaked(v.sl, L)
      /\ v.sl.mode # "tip" => v.sl.seeded /\ v.sl.floor <= L
      /\ \A M \in Nat : (Under(s, M) /\ L <= M) => Under(v.sl, M)
  <2> DEFINE q == Release(s, L, dur)
  <2>1. /\ IsSlicer(q) /\ q.mode = s.mode /\ q.sync = s.sync /\ Peaked(q, L)
        /\ q.mode # "tip" => q.seeded /\ q.floor <= L
        /\ \A M \in Nat : (Under(s, M) /\ L <= M) => Under(q, M)
    BY <1>2, Releases
  <2> HIDE DEF q, v
  <2>2. v.sl = q
    BY <1>1 DEF q
  <2> QED
    BY <1>2, <2>1, <2>2
<1>4. \A M \in Nat : (Under(c.sl, M) /\ L <= M) => Under(v.sl, M)
  <2> HIDE DEF v
  <2> QED
    BY <1>2, <1>3
<1>5. c.sl.sync \in BOOLEAN /\ s.sync \in BOOLEAN /\ IsSweep(c.h)
  BY <1>2 DEF IsSlicer, IsChain
<1>6. /\ IsSweep(e)
      /\ e.width = IF s.sync /\ ~c.sl.sync THEN 0 ELSE c.h.width
      /\ e.taken => c.sl.sync /\ ~s.sync /\ LineWidth(c.h)
  BY <1>5, Edges
<1> HIDE DEF e
<1>7. IsSweep(HRun(e, dur)) /\ HRun(e, dur).taken = e.taken /\ HRun(e, dur).width = Least(e.width + dur, FAR)
  BY <1>6, Runs
<1> HIDE DEF v
<1>8. IsSweep(v.h) /\ v.h.taken = e.taken /\ v.h.width = Least(e.width + dur, FAR)
  BY <1>1, <1>7
<1>9. IsChain(v)
  BY <1>3, <1>8 DEF IsChain
<1>10. v.h.width = Least((IF s.sync /\ ~c.sl.sync THEN 0 ELSE c.h.width) + dur, FAR)
  BY <1>6, <1>8
<1>11. v.h.taken => c.sl.sync /\ ~s.sync /\ LineWidth(c.h)
  BY <1>6, <1>8
<1> QED
  BY <1>3, <1>4, <1>9, <1>10, <1>11 DEF v, s

-----------------------------------------------------------------------------
(* The script: pulses and what follows them.                               *)

Segs == [kind : {"eq", "broad", "line", "blank"}, hi : BOOLEAN, dur : Nat]

Seg(k, on, n) == [kind |-> k, hi |-> on, dur |-> n]
HiLo(i, hi, lo) == IF i % 2 = 1 THEN hi ELSE lo

(* n pulses of one kind and the lows after them.                           *)
IsTrain(s, k, a, b, n) ==
  /\ s \in Seq(Segs) /\ Len(s) = n
  /\ \A i \in 1 .. n : s[i] = HiLo(i, Seg(k, TRUE, a), Seg(k, FALSE, b))

(* s and then t, of lengths p and q.                                       *)
IsJoin(x, s, t, p, q) ==
  /\ x \in Seq(Segs) /\ Len(x) = p + q
  /\ \A i \in 1 .. p : x[i] = s[i]
  /\ \A i \in 1 .. q : x[p + i] = t[i]

LEMMA TimesIs ==
  ASSUME NEW n \in Nat, NEW k \in {"eq", "broad", "line"}, NEW a \in Nat, NEW b \in Nat, NEW m \in Nat, m = 2 * n
  PROVE  IsTrain(Times(n, Pulse(k, a, b)), k, a, b, m)
<1> DEFINE hi == Seg(k, TRUE, a)
           lo == Seg(k, FALSE, b)
           s == Times(n, << hi, lo >>)
<1>1. hi \in Segs /\ lo \in Segs
  BY DEF Segs, Seg
<1>2. Pulse(k, a, b) = << hi, lo >>
  BY DEF Pulse, Seg
<1> HIDE DEF hi, lo
<1>3. s = [i \in 1 .. n * 2 |-> << hi, lo >>[((i - 1) % 2) + 1]]
  BY DEF Times
<1>4. n * 2 = m
  OBVIOUS
<1>5. \A i \in 1 .. m : << hi, lo >>[((i - 1) % 2) + 1] = HiLo(i, hi, lo)
  <2> TAKE i \in 1 .. m
  <2>1. CASE i % 2 = 1
    <3>1. ((i - 1) % 2) + 1 = 1
      BY <2>1
    <3> QED
      BY <2>1, <3>1 DEF HiLo
  <2>2. CASE i % 2 # 1
    <3>1. ((i - 1) % 2) + 1 = 2
      BY <2>2
    <3> QED
      BY <2>2, <3>1 DEF HiLo
  <2> QED
    BY <2>1, <2>2
<1>6. s = [i \in 1 .. m |-> HiLo(i, hi, lo)]
  BY <1>3, <1>4, <1>5
<1> HIDE DEF s
<1>7. \A i \in 1 .. m : HiLo(i, hi, lo) \in Segs
  BY <1>1 DEF HiLo
<1>8. s \in Seq(Segs) /\ Len(s) = m
  <2>1. s \in [1 .. m -> Segs]
    BY <1>6, <1>7
  <2> QED
    BY <2>1
<1>9. \A i \in 1 .. m : s[i] = HiLo(i, hi, lo)
  BY <1>6
<1>10. IsTrain(s, k, a, b, m)
  BY <1>8, <1>9 DEF IsTrain, hi, lo
<1> QED
  BY <1>2, <1>10 DEF s

LEMMA JoinIs ==
  ASSUME NEW s \in Seq(Segs), NEW t \in Seq(Segs), NEW p, Len(s) = p, NEW q, Len(t) = q
  PROVE  IsJoin(s \o t, s, t, p, q)
<1>1. p \in Nat /\ q \in Nat
  OBVIOUS
<1>2. /\ s \o t \in Seq(Segs) /\ Len(s \o t) = p + q
      /\ \A i \in 1 .. p + q : (s \o t)[i] = IF i <= p THEN s[i] ELSE t[i - p]
  BY ConcatProperties
<1> DEFINE x == s \o t
<1> HIDE DEF x
<1>3. \A i \in 1 .. p : x[i] = s[i]
  <2> TAKE i \in 1 .. p
  <2>1. i \in 1 .. p + q /\ i <= p
    BY <1>1
  <2> QED
    BY <1>2, <2>1 DEF x
<1>4. \A i \in 1 .. q : x[p + i] = t[i]
  <2> TAKE i \in 1 .. q
  <2>1. p + i \in 1 .. p + q /\ ~(p + i <= p) /\ (p + i) - p = i
    BY <1>1
  <2> QED
    BY <1>2, <2>1 DEF x
<1> QED
  BY <1>2, <1>3, <1>4 DEF IsJoin, x

EqAt(i) == HiLo(i, Seg("eq", TRUE, 37), Seg("eq", FALSE, 463))
BroadAt(i) == HiLo(i, Seg("broad", TRUE, 427), Seg("broad", FALSE, 73))
IntervalSeg(i) ==
  IF i \in 11 .. 20 THEN BroadAt(i)
                    ELSE EqAt(i)

LEMMA IntervalIs ==
  Interval \in Seq(Segs) /\ Len(Interval) = 30 /\ \A i \in 1 .. 30 : Interval[i] = IntervalSeg(i)
<1> DEFINE e == Times(5, Pulse("eq", 37, 463))
           b == Times(5, Pulse("broad", 427, 73))
           x == e \o b
           y == x \o e
<1>0. /\ 5 \in Nat /\ 10 \in Nat /\ 37 \in Nat /\ 463 \in Nat /\ 427 \in Nat /\ 73 \in Nat /\ 10 = 2 * 5
      /\ "eq" \in {"eq", "broad", "line"} /\ "broad" \in {"eq", "broad", "line"}
  OBVIOUS
<1>1. IsTrain(e, "eq", 37, 463, 10)
  BY <1>0, TimesIs
<1>2. IsTrain(b, "broad", 427, 73, 10)
  BY <1>0, TimesIs
<1>3. Interval = y
  BY DEF Interval
<1> HIDE DEF e, b
<1>4. IsJoin(x, e, b, 10, 10)
  <2>1. e \in Seq(Segs) /\ Len(e) = 10 /\ b \in Seq(Segs) /\ Len(b) = 10
    BY <1>1, <1>2 DEF IsTrain
  <2> QED
    BY <2>1, JoinIs
<1> HIDE DEF x
<1>5. x \in Seq(Segs) /\ Len(x) = 20
  BY <1>4 DEF IsJoin
<1>6. IsJoin(y, x, e, 20, 10)
  <2>1. e \in Seq(Segs) /\ Len(e) = 10
    BY <1>1 DEF IsTrain
  <2> QED
    BY <1>5, <2>1, JoinIs
<1> HIDE DEF y
<1>9. \A i \in 1 .. 10 : e[i] = EqAt(i) /\ b[i] = BroadAt(i)
  <2>1. \A i \in 1 .. 10 : e[i] = EqAt(i)
    BY <1>1 DEF IsTrain, EqAt
  <2>2. \A i \in 1 .. 10 : b[i] = BroadAt(i)
    BY <1>2 DEF IsTrain, BroadAt
  <2> QED
    BY <2>1, <2>2, Zenon
<1>7. ASSUME NEW i \in 1 .. 30
      PROVE  y[i] = IntervalSeg(i)
  <2>1. CASE i \in 1 .. 10
    <3>1. i \in 1 .. 20 /\ i \notin 11 .. 20
      BY <2>1
    <3>2. y[i] = x[i]
      BY <1>6, <3>1, Zenon DEF IsJoin
    <3>3. x[i] = e[i]
      BY <1>4, <2>1, Zenon DEF IsJoin
    <3>4. e[i] = EqAt(i)
      BY <1>9, <2>1, Zenon
    <3> QED
      BY <3>1, <3>2, <3>3, <3>4 DEF IntervalSeg
  <2>2. CASE i \in 11 .. 20
    <3> DEFINE j == i - 10
    <3>1. j \in 1 .. 10 /\ i = 10 + j /\ i \in 1 .. 20 /\ (j % 2 = 1 <=> i % 2 = 1)
      BY <2>2
    <3> HIDE DEF j
    <3>2. y[i] = x[i]
      BY <1>6, <3>1, Zenon DEF IsJoin
    <3>3. x[i] = b[j]
      BY <1>4, <3>1, Zenon DEF IsJoin
    <3>4. b[j] = BroadAt(j)
      BY <1>9, <3>1, Zenon
    <3> QED
      BY <2>2, <3>1, <3>2, <3>3, <3>4 DEF IntervalSeg, HiLo, BroadAt
  <2>3. CASE i \in 21 .. 30
    <3> DEFINE j == i - 20
    <3>1. j \in 1 .. 10 /\ i = 20 + j /\ (j % 2 = 1 <=> i % 2 = 1) /\ i \notin 11 .. 20
      BY <2>3
    <3> HIDE DEF j
    <3>2. y[i] = e[j]
      BY <1>6, <3>1, Zenon DEF IsJoin
    <3>3. e[j] = EqAt(j)
      BY <1>9, <3>1, Zenon
    <3> QED
      BY <3>1, <3>2, <3>3 DEF IntervalSeg, HiLo, EqAt
  <2>4. i \in 1 .. 10 \/ i \in 11 .. 20 \/ i \in 21 .. 30
    OBVIOUS
  <2> QED
    BY <2>1, <2>2, <2>3, <2>4, Zenon
<1>8. y \in Seq(Segs) /\ Len(y) = 30
  BY <1>6 DEF IsJoin
<1> QED
  BY <1>3, <1>7, <1>8

(* A frame of n lines a field, part by part.                               *)
LineLow == 927
HalfLow == 427
BlankLow == 500
BlankSeg == Seg("blank", FALSE, BlankLow)
LineSegAt(i) == HiLo(i, Seg("line", TRUE, 73), Seg("line", FALSE, LineLow))
HalfSegAt(i) == HiLo(i, Seg("line", TRUE, 73), Seg("line", FALSE, HalfLow))
IsFrame(s, n) ==
  /\ s \in Seq(Segs) /\ Len(s) = 65 + 4 * n
  /\ \A i \in 1 .. 30 : s[i] = IntervalSeg(i)
  /\ s[31] = BlankSeg
  /\ \A i \in 1 .. 2 * n : s[31 + i] = LineSegAt(i)
  /\ \A i \in 1 .. 2 : s[31 + 2 * n + i] = HalfSegAt(i)
  /\ \A i \in 1 .. 30 : s[33 + 2 * n + i] = IntervalSeg(i)
  /\ \A i \in 1 .. 2 * n + 2 : s[63 + 2 * n + i] = LineSegAt(i)

LEMMA ScriptIs ==
  ASSUME NEW n \in Nat, n = ActiveLines
  PROVE  IsFrame(Script, n)
<1> DEFINE c == << BlankSeg >>
           l == Times(n, Pulse("line", 73, 927))
           p == Times(1, Pulse("line", 73, 427))
           m == Times(n + 1, Pulse("line", 73, 927))
           x1 == Interval \o c
           x2 == x1 \o l
           x3 == x2 \o p
           x4 == x3 \o Interval
           x5 == x4 \o m
           N == 2 * n
           p31 == 31 + N
           p33 == 33 + N
           p63 == 63 + N
           M == N + 2
<1>0. /\ 73 \in Nat /\ 927 \in Nat /\ 427 \in Nat /\ "line" \in {"eq", "broad", "line"} /\ n + 1 \in Nat
      /\ N \in Nat /\ M \in Nat /\ M = 2 * (n + 1) /\ 1 \in Nat /\ 2 \in Nat /\ 2 = 2 * 1
  OBVIOUS
<1>1. c \in Seq(Segs) /\ Len(c) = 1 /\ c[1] = BlankSeg
  <2> DEFINE z == BlankSeg
  <2>1. z \in Segs
    BY DEF Segs, Seg, BlankSeg, BlankLow
  <2> HIDE DEF z
  <2>2. c = << z >>
    BY DEF z
  <2> HIDE DEF c
  <2>3. c \in Seq(Segs) /\ Len(c) = 1 /\ c[1] = z
    BY <2>1, <2>2
  <2> QED
    BY <2>3 DEF z
<1>2. IsTrain(l, "line", 73, 927, N)
  BY <1>0, TimesIs
<1>3. IsTrain(p, "line", 73, 427, 2)
  BY <1>0, TimesIs
<1>4. IsTrain(m, "line", 73, 927, M)
  BY <1>0, TimesIs
<1>5. p = Pulse("line", 73, 427)
  <2> DEFINE hi == Seg("line", TRUE, 73)
             lo == Seg("line", FALSE, 427)
  <2>1. Pulse("line", 73, 427) = << hi, lo >>
    BY DEF Pulse, Seg
  <2>2. Len(p) = 2 /\ p \in Seq(Segs) /\ p[1] = hi /\ p[2] = lo
    <3> HIDE DEF p
    <3>1. Len(p) = 2 /\ p \in Seq(Segs) /\ \A i \in 1 .. 2 : p[i] = HiLo(i, hi, lo)
      BY <1>3 DEF IsTrain
    <3> HIDE DEF hi, lo
    <3>2. HiLo(1, hi, lo) = hi /\ HiLo(2, hi, lo) = lo
      BY DEF HiLo
    <3> QED
      BY <3>1, <3>2
  <2> HIDE DEF p, hi, lo
  <2>3. p = << hi, lo >>
    BY <2>2
  <2> QED
    BY <2>1, <2>3
<1>6. Script = x5
  <2>1. c = << [kind |-> "blank", hi |-> FALSE, dur |-> 500] >>
    BY DEF BlankSeg, BlankLow, Seg
  <2> HIDE DEF c
  <2> QED
    BY <1>5, <2>1, SMTT(20) DEF Script, LineSeg
<1> HIDE DEF c, l, p, m
<1>7. l \in Seq(Segs) /\ Len(l) = N /\ p \in Seq(Segs) /\ Len(p) = 2 /\ m \in Seq(Segs) /\ Len(m) = M
  <2> HIDE DEF N, M
  <2> QED
    BY <1>2, <1>3, <1>4 DEF IsTrain
<1>24. \A i \in 1 .. N : l[i] = LineSegAt(i)
  <2> HIDE DEF N
  <2> QED
    BY <1>2 DEF IsTrain, LineSegAt, LineLow
<1>25. \A i \in 1 .. M : m[i] = LineSegAt(i)
  <2> HIDE DEF M
  <2> QED
    BY <1>4 DEF IsTrain, LineSegAt, LineLow
<1>8. IsJoin(x1, Interval, c, 30, 1)
  BY <1>1, IntervalIs, JoinIs
<1> HIDE DEF x1
<1>9. x1 \in Seq(Segs) /\ Len(x1) = 31
  BY <1>8 DEF IsJoin
<1>10. IsJoin(x2, x1, l, 31, N)
  <2> HIDE DEF N
  <2> QED
    BY <1>7, <1>9, JoinIs
<1> HIDE DEF x2
<1>11. x2 \in Seq(Segs) /\ Len(x2) = p31
  BY <1>10 DEF IsJoin
<1>12. IsJoin(x3, x2, p, p31, 2)
  <2> HIDE DEF p31
  <2> QED
    BY <1>7, <1>11, JoinIs
<1> HIDE DEF x3
<1>13. x3 \in Seq(Segs) /\ Len(x3) = p33
  <2>1. x3 \in Seq(Segs) /\ Len(x3) = p31 + 2
    <3> HIDE DEF p31
    <3> QED
      BY <1>12 DEF IsJoin
  <2> QED
    BY <1>0, <2>1
<1>14. IsJoin(x4, x3, Interval, p33, 30)
  <2> HIDE DEF p33
  <2> QED
    BY <1>13, IntervalIs, JoinIs
<1> HIDE DEF x4
<1>15. x4 \in Seq(Segs) /\ Len(x4) = p63
  <2>1. x4 \in Seq(Segs) /\ Len(x4) = p33 + 30
    <3> HIDE DEF p33
    <3> QED
      BY <1>14 DEF IsJoin
  <2> QED
    BY <1>0, <2>1
<1>16. IsJoin(x5, x4, m, p63, M)
  <2> HIDE DEF p63, M
  <2> QED
    BY <1>7, <1>15, JoinIs
<1> HIDE DEF x5
<1>17. x5 \in Seq(Segs) /\ Len(x5) = 65 + 4 * n
  <2>1. x5 \in Seq(Segs) /\ Len(x5) = p63 + M
    <3> HIDE DEF p63, M
    <3> QED
      BY <1>16 DEF IsJoin
  <2> QED
    BY <1>0, <2>1
<1>18. \A i \in 1 .. 30 : x5[i] = IntervalSeg(i)
  <2> TAKE i \in 1 .. 30
  <2>1. i \in 1 .. 31 /\ i \in 1 .. p31 /\ i \in 1 .. p33 /\ i \in 1 .. p63
    BY <1>0
  <2> HIDE DEF p31, p33, p63, N, M
  <2>2. x5[i] = x4[i] /\ x4[i] = x3[i]
    BY <1>14, <1>16, <2>1, Zenon DEF IsJoin
  <2>3. x3[i] = x2[i] /\ x2[i] = x1[i]
    BY <1>10, <1>12, <2>1, Zenon DEF IsJoin
  <2>4. x1[i] = Interval[i]
    BY <1>8, Zenon DEF IsJoin
  <2>5. Interval[i] = IntervalSeg(i)
    BY IntervalIs
  <2> QED
    BY <2>2, <2>3, <2>4, <2>5, Zenon
<1>19. x5[31] = BlankSeg
  <2> DEFINE i == 31
  <2>1. i \in 1 .. 31 /\ i \in 1 .. p31 /\ i \in 1 .. p33 /\ i \in 1 .. p63 /\ i = 30 + 1 /\ 1 \in 1 .. 1
    BY <1>0
  <2> HIDE DEF p31, p33, p63, N, M, i
  <2>2. x5[i] = x4[i] /\ x4[i] = x3[i]
    BY <1>14, <1>16, <2>1, Zenon DEF IsJoin
  <2>3. x3[i] = x2[i] /\ x2[i] = x1[i]
    BY <1>10, <1>12, <2>1, Zenon DEF IsJoin
  <2>4. x1[i] = c[1]
    BY <1>8, <2>1 DEF IsJoin
  <2>5. x5[i] = BlankSeg
    BY <1>1, <2>2, <2>3, <2>4, Zenon
  <2> QED
    BY <2>5 DEF i
<1>20. \A i \in 1 .. N : x5[31 + i] = LineSegAt(i)
  <2> TAKE i \in 1 .. N
  <2> DEFINE j == 31 + i
  <2>1. j \in 1 .. p31 /\ j \in 1 .. p33 /\ j \in 1 .. p63
    BY <1>0
  <2> HIDE DEF p31, p33, p63, N, M
  <2>2. x2[j] = l[i]
    BY <1>10, Zenon DEF IsJoin
  <2> HIDE DEF j
  <2>3. x5[j] = x4[j] /\ x4[j] = x3[j]
    BY <1>14, <1>16, <2>1, Zenon DEF IsJoin
  <2>4. x3[j] = x2[j]
    BY <1>12, <2>1, Zenon DEF IsJoin
  <2>5. l[i] = LineSegAt(i)
    BY <1>24, Zenon
  <2>6. x5[j] = LineSegAt(i)
    BY <2>2, <2>3, <2>4, <2>5
  <2> QED
    BY <2>6, Zenon DEF j
<1>21. \A i \in 1 .. 2 : x5[p31 + i] = HalfSegAt(i)
  <2> TAKE i \in 1 .. 2
  <2> DEFINE j == p31 + i
  <2>1. j \in 1 .. p33 /\ j \in 1 .. p63
    BY <1>0
  <2> HIDE DEF p31, p33, p63, N, M
  <2>2. x3[j] = p[i]
    BY <1>12, Zenon DEF IsJoin
  <2> HIDE DEF j
  <2>3. x5[j] = x4[j] /\ x4[j] = x3[j]
    BY <1>14, <1>16, <2>1, Zenon DEF IsJoin
  <2>5. p[i] = HalfSegAt(i)
    BY <1>3 DEF IsTrain, HalfSegAt, HalfLow
  <2>6. x5[j] = HalfSegAt(i)
    BY <2>2, <2>3, <2>5, Zenon
  <2> QED
    BY <2>6, Zenon DEF j
<1>22. \A i \in 1 .. 30 : x5[p33 + i] = IntervalSeg(i)
  <2> TAKE i \in 1 .. 30
  <2> DEFINE j == p33 + i
  <2>1. j \in 1 .. p63
    BY <1>0
  <2> HIDE DEF p31, p33, p63, N, M
  <2>2. x4[j] = Interval[i]
    BY <1>14, Zenon DEF IsJoin
  <2> HIDE DEF j
  <2>3. x5[j] = x4[j]
    BY <1>16, <2>1, Zenon DEF IsJoin
  <2>5. Interval[i] = IntervalSeg(i)
    BY IntervalIs
  <2>6. x5[j] = IntervalSeg(i)
    BY <2>2, <2>3, <2>5, Zenon
  <2> QED
    BY <2>6, Zenon DEF j
<1>23. \A i \in 1 .. M : x5[p63 + i] = LineSegAt(i)
  <2> HIDE DEF p63, M
  <2> TAKE i \in 1 .. M
  <2>1. x5[p63 + i] = m[i]
    BY <1>16, Zenon DEF IsJoin
  <2>2. m[i] = LineSegAt(i)
    BY <1>25
  <2> QED
    BY <2>1, <2>2, Zenon
<1>26. /\ \A i \in 1 .. 2 * n : x5[31 + i] = LineSegAt(i)
       /\ \A i \in 1 .. 2 : x5[31 + 2 * n + i] = HalfSegAt(i)
  BY <1>20, <1>21, Zenon DEF N, p31
<1>27. /\ \A i \in 1 .. 30 : x5[33 + 2 * n + i] = IntervalSeg(i)
       /\ \A i \in 1 .. 2 * n + 2 : x5[63 + 2 * n + i] = LineSegAt(i)
  BY <1>22, <1>23, Zenon DEF N, p33, p63, M
<1>28. IsFrame(x5, n)
  BY <1>17, <1>18, <1>19, <1>26, <1>27, Zenon DEF IsFrame
<1> QED
  BY <1>6, <1>28

(* What the segment at p, and its neighbours, may be: a pulse is a line's, *)
(* or narrower or wider than the window, and with the low after it wider;  *)
(* a low is that wide by itself, or follows a broad pulse; a broad pulse   *)
(* follows a blanked low.                                                  *)
PulseOk(s, p) ==
  s[p].hi => /\ p + 1 \in 1 .. Len(s) /\ ~s[p + 1].hi /\ s[p + 1].kind = s[p].kind
             /\ IsWide(s[p].dur + s[p + 1].dur)
             /\ s[p].kind = "line" \/ Refused(s[p].dur)
LowOk(s, p) ==
  ~s[p].hi => /\ IsWide(s[p].dur) \/ s[p].kind = "broad"
              /\ s[p].kind = "broad" => p - 1 \in 1 .. Len(s) /\ s[p - 1].hi
BroadOk(s, p) ==
  s[p].hi /\ s[p].kind = "broad" =>
    p - 1 \in 1 .. Len(s) /\ ~s[p - 1].hi /\ s[p - 1].kind \in {"eq", "broad"}
SegOk(s, p) ==
  /\ s[p].hi \in BOOLEAN /\ s[p].dur \in Nat /\ s[p].kind # "merged"
  /\ PulseOk(s, p) /\ LowOk(s, p) /\ BroadOk(s, p)

LEMMA IntervalAt ==
  ASSUME NEW i \in 1 .. 30
  PROVE  /\ IntervalSeg(i).hi \in BOOLEAN /\ (IntervalSeg(i).hi <=> i % 2 = 1)
         /\ IntervalSeg(i).kind = IF i \in 11 .. 20 THEN "broad" ELSE "eq"
         /\ IntervalSeg(i).dur = IF i \in 11 .. 20 THEN (IF i % 2 = 1 THEN 427 ELSE 73) ELSE (IF i % 2 = 1 THEN 37 ELSE 463)
<1>1. CASE i % 2 = 1
  BY <1>1 DEF IntervalSeg, HiLo, Seg, EqAt, BroadAt
<1>2. CASE i % 2 # 1
  BY <1>2 DEF IntervalSeg, HiLo, Seg, EqAt, BroadAt
<1> QED
  BY <1>1, <1>2

LEMMA OddEven ==
  ASSUME NEW i \in 1 .. 30
  PROVE  /\ i % 2 = 1 => i + 1 \in 1 .. 30 /\ (i + 1) % 2 # 1 /\ (i + 1 \in 11 .. 20 <=> i \in 11 .. 20)
         /\ i % 2 # 1 => i - 1 \in 1 .. 30 /\ (i - 1) % 2 = 1
         /\ i % 2 = 1 /\ i \in 11 .. 20 => i - 1 \in 1 .. 30 /\ (i - 1) % 2 # 1
OBVIOUS

HasInterval(s, b) == \A i \in 1 .. 30 : s[b + i] = IntervalSeg(i)

SegAt(x, i) ==
  /\ x.hi \in BOOLEAN /\ (x.hi <=> i % 2 = 1)
  /\ x.kind = IF i \in 11 .. 20 THEN "broad" ELSE "eq"
  /\ x.dur = IF i \in 11 .. 20 THEN (IF i % 2 = 1 THEN 427 ELSE 73) ELSE (IF i % 2 = 1 THEN 37 ELSE 463)

LEMMA IntervalSegs ==
  ASSUME NEW s, NEW b, HasInterval(s, b), NEW i \in 1 .. 30
  PROVE  SegAt(s[b + i], i)
<1>1. s[b + i] = IntervalSeg(i)
  BY Zenon DEF HasInterval
<1>2. SegAt(IntervalSeg(i), i)
  BY IntervalAt, Zenon DEF SegAt
<1> QED
  BY <1>1, <1>2, Zenon

LEMMA IntervalOk ==
  ASSUME NEW s, NEW b \in Nat, NEW len \in Nat, len = Len(s), b + 30 <= len, HasInterval(s, b), NEW i \in 1 .. 30
  PROVE  SegOk(s, b + i)
<1> DEFINE p == b + i
           j == i + 1
           h == i - 1
           q == p + 1
           o == p - 1
<1>1. /\ p \in 1 .. len /\ q = b + j /\ o = b + h
      /\ j \in 1 .. 30 => q \in 1 .. len
      /\ h \in 1 .. 30 => o \in 1 .. len
  OBVIOUS
<1>2. /\ i % 2 = 1 => j \in 1 .. 30 /\ j % 2 # 1 /\ (j \in 11 .. 20 <=> i \in 11 .. 20)
      /\ i % 2 # 1 => h \in 1 .. 30 /\ h % 2 = 1
      /\ i % 2 = 1 /\ i \in 11 .. 20 => h \in 1 .. 30 /\ h % 2 # 1
  BY OddEven
<1>3. PulseOk(s, p) <=>
        (s[p].hi => /\ q \in 1 .. len /\ ~s[q].hi /\ s[q].kind = s[p].kind
                    /\ IsWide(s[p].dur + s[q].dur)
                    /\ s[p].kind = "line" \/ Refused(s[p].dur))
  BY Zenon DEF PulseOk
<1>4. LowOk(s, p) <=>
        (~s[p].hi => /\ IsWide(s[p].dur) \/ s[p].kind = "broad"
                     /\ s[p].kind = "broad" => o \in 1 .. len /\ s[o].hi)
  BY Zenon DEF LowOk
<1>5. BroadOk(s, p) <=>
        (s[p].hi /\ s[p].kind = "broad" =>
           o \in 1 .. len /\ ~s[o].hi /\ s[o].kind \in {"eq", "broad"})
  BY Zenon DEF BroadOk
<1> HIDE DEF p, j, h, q, o
<1>6. /\ s[p].hi \in BOOLEAN /\ (s[p].hi <=> i % 2 = 1)
      /\ s[p].kind = IF i \in 11 .. 20 THEN "broad" ELSE "eq"
      /\ s[p].dur = IF i \in 11 .. 20 THEN (IF i % 2 = 1 THEN 427 ELSE 73) ELSE (IF i % 2 = 1 THEN 37 ELSE 463)
  <2>1. SegAt(s[p], i)
    BY IntervalSegs, Zenon DEF p
  <2> QED
    BY <2>1 DEF SegAt
<1>7. s[p].dur \in Nat /\ s[p].kind # "merged"
  BY <1>6
<1>8. PulseOk(s, p)
  <2> SUFFICES ASSUME s[p].hi
               PROVE  /\ q \in 1 .. len /\ ~s[q].hi /\ s[q].kind = s[p].kind
                      /\ IsWide(s[p].dur + s[q].dur)
                      /\ s[p].kind = "line" \/ Refused(s[p].dur)
    BY <1>3, Zenon
  <2>1. j \in 1 .. 30 /\ j % 2 # 1 /\ (j \in 11 .. 20 <=> i \in 11 .. 20) /\ q \in 1 .. len /\ i % 2 = 1
    BY <1>1, <1>2, <1>6
  <2>2. /\ ~s[q].hi
        /\ s[q].kind = IF j \in 11 .. 20 THEN "broad" ELSE "eq"
        /\ s[q].dur = IF j \in 11 .. 20 THEN 73 ELSE 463
    <3>1. SegAt(s[q], j)
      BY <1>1, <2>1, IntervalSegs, Zenon
    <3> QED
      BY <2>1, <3>1 DEF SegAt
  <2>3. CASE i \in 11 .. 20
    BY <1>6, <2>1, <2>2, <2>3 DEF IsWide, Refused
  <2>4. CASE i \notin 11 .. 20
    BY <1>6, <2>1, <2>2, <2>4 DEF IsWide, Refused
  <2> QED
    BY <2>3, <2>4
<1>9. LowOk(s, p)
  <2> SUFFICES ASSUME ~s[p].hi
               PROVE  (IsWide(s[p].dur) \/ s[p].kind = "broad") /\ o \in 1 .. len /\ s[o].hi
    BY <1>4, Zenon
  <2>3. IsWide(s[p].dur) \/ s[p].kind = "broad"
    BY <1>6 DEF IsWide
  <2>1. h \in 1 .. 30 /\ h % 2 = 1 /\ o \in 1 .. len
    BY <1>1, <1>2, <1>6
  <2>2. SegAt(s[o], h)
    BY <1>1, <2>1, IntervalSegs, Zenon
  <2> QED
    BY <2>1, <2>2, <2>3 DEF SegAt
<1>10. BroadOk(s, p)
  <2> SUFFICES ASSUME s[p].hi, s[p].kind = "broad"
               PROVE  o \in 1 .. len /\ ~s[o].hi /\ s[o].kind \in {"eq", "broad"}
    BY <1>5, Zenon
  <2>1. h \in 1 .. 30 /\ h % 2 # 1 /\ o \in 1 .. len
    BY <1>1, <1>2, <1>6
  <2>2. ~s[o].hi /\ s[o].kind = IF h \in 11 .. 20 THEN "broad" ELSE "eq"
    <3>1. SegAt(s[o], h)
      BY <1>1, <2>1, IntervalSegs, Zenon
    <3> QED
      BY <2>1, <3>1 DEF SegAt
  <2> QED
    BY <2>1, <2>2
<1> QED
  BY <1>6, <1>7, <1>8, <1>9, <1>10 DEF SegOk, p

LineAt(x, i, l) ==
  /\ x.hi \in BOOLEAN /\ (x.hi <=> i % 2 = 1) /\ x.kind = "line"
  /\ x.dur = IF i % 2 = 1 THEN 73 ELSE l
HasLines(s, b, m, l) == \A i \in 1 .. 2 * m : s[b + i] = HiLo(i, Seg("line", TRUE, 73), Seg("line", FALSE, l))

LEMMA LineSegs ==
  ASSUME NEW s, NEW b, NEW m, NEW l, HasLines(s, b, m, l), NEW i \in 1 .. 2 * m
  PROVE  LineAt(s[b + i], i, l)
<1>1. s[b + i] = HiLo(i, Seg("line", TRUE, 73), Seg("line", FALSE, l))
  BY Zenon DEF HasLines
<1>2. CASE i % 2 = 1
  <2>1. s[b + i] = Seg("line", TRUE, 73)
    BY <1>1, <1>2, Zenon DEF HiLo
  <2> HIDE DEF HasLines
  <2>2. Seg("line", TRUE, 73).hi = TRUE /\ Seg("line", TRUE, 73).kind = "line" /\ Seg("line", TRUE, 73).dur = 73
    BY DEF Seg
  <2> QED
    BY <1>2, <2>1, <2>2, Zenon DEF LineAt
<1>3. CASE i % 2 # 1
  <2>1. s[b + i] = Seg("line", FALSE, l)
    BY <1>1, <1>3, Zenon DEF HiLo
  <2>2. Seg("line", FALSE, l).hi = FALSE /\ Seg("line", FALSE, l).kind = "line" /\ Seg("line", FALSE, l).dur = l
    BY DEF Seg
  <2> QED
    BY <1>3, <2>1, <2>2, Zenon DEF LineAt
<1> QED
  BY <1>2, <1>3

LEMMA LinesOk ==
  ASSUME NEW s, NEW b \in Nat, NEW m \in Nat, NEW l \in Nat, l >= 188, NEW len \in Nat, len = Len(s), b + 2 * m <= len,
         HasLines(s, b, m, l), NEW i \in 1 .. 2 * m
  PROVE  SegOk(s, b + i)
<1> DEFINE p == b + i
           q == p + 1
           o == p - 1
<1>1. LineAt(s[p], i, l)
  BY LineSegs, Zenon
<1>2. i % 2 = 1 => i + 1 \in 1 .. 2 * m /\ (i + 1) % 2 # 1 /\ q = b + (i + 1) /\ q \in 1 .. len
  OBVIOUS
<1>3. PulseOk(s, p) <=>
        (s[p].hi => /\ q \in 1 .. len /\ ~s[q].hi /\ s[q].kind = s[p].kind
                    /\ IsWide(s[p].dur + s[q].dur)
                    /\ s[p].kind = "line" \/ Refused(s[p].dur))
  BY Zenon DEF PulseOk
<1>4. LowOk(s, p) <=>
        (~s[p].hi => /\ IsWide(s[p].dur) \/ s[p].kind = "broad"
                     /\ s[p].kind = "broad" => o \in 1 .. len /\ s[o].hi)
  BY Zenon DEF LowOk
<1>5. BroadOk(s, p) <=>
        (s[p].hi /\ s[p].kind = "broad" =>
           o \in 1 .. len /\ ~s[o].hi /\ s[o].kind \in {"eq", "broad"})
  BY Zenon DEF BroadOk
<1> HIDE DEF p, q, o
<1>6. /\ s[p].hi \in BOOLEAN /\ (s[p].hi <=> i % 2 = 1) /\ s[p].kind = "line"
      /\ s[p].dur = IF i % 2 = 1 THEN 73 ELSE l
  BY <1>1, Zenon DEF LineAt
<1>7. s[p].dur \in Nat /\ s[p].kind # "merged" /\ s[p].kind # "broad"
  BY <1>6
<1>8. PulseOk(s, p)
  <2> SUFFICES ASSUME s[p].hi
               PROVE  q \in 1 .. len /\ ~s[q].hi /\ s[q].kind = s[p].kind /\ IsWide(s[p].dur + s[q].dur)
    BY <1>3, <1>6, Zenon
  <2>1. i % 2 = 1 /\ i + 1 \in 1 .. 2 * m /\ (i + 1) % 2 # 1 /\ q = b + (i + 1) /\ q \in 1 .. len
    BY <1>2, <1>6
  <2>2. LineAt(s[q], i + 1, l)
    BY <2>1, LineSegs, Zenon
  <2>3. ~s[q].hi /\ s[q].kind = "line" /\ s[q].dur = l
    BY <2>1, <2>2, Zenon DEF LineAt
  <2> QED
    BY <1>6, <2>1, <2>3 DEF IsWide
<1>9. LowOk(s, p)
  <2>1. ~s[p].hi => IsWide(s[p].dur)
    BY <1>6 DEF IsWide
  <2> QED
    BY <1>4, <1>7, <2>1, Zenon
<1>10. BroadOk(s, p)
  BY <1>5, <1>7, Zenon
<1> QED
  BY <1>6, <1>7, <1>8, <1>9, <1>10, Zenon DEF SegOk, p

LEMMA BlankOk ==
  ASSUME NEW s, s[31] = BlankSeg
  PROVE  SegOk(s, 31)
<1>1. s[31].hi = FALSE /\ s[31].dur = BlankLow /\ s[31].kind = "blank"
  BY DEF Seg, BlankSeg
<1>2. s[31].hi \in BOOLEAN /\ ~s[31].hi /\ s[31].dur \in Nat /\ IsWide(s[31].dur) /\ s[31].kind # "merged" /\ s[31].kind # "broad"
  <2>1. BlankLow \in Nat /\ IsWide(BlankLow)
    BY DEF IsWide, BlankLow
  <2>2. s[31].dur \in Nat /\ IsWide(s[31].dur)
    BY <1>1, <2>1
  <2>3. s[31].kind # "merged" /\ s[31].kind # "broad"
    BY <1>1
  <2>4. s[31].hi \in BOOLEAN /\ ~s[31].hi
    BY <1>1
  <2> QED
    BY <2>2, <2>3, <2>4
<1> QED
  BY <1>2, Zenon DEF SegOk, PulseOk, LowOk, BroadOk

(* The regions of the frame.                                               *)
LEMMA Regions ==
  ASSUME NEW n \in Nat, NEW p \in 1 .. 65 + 4 * n
  PROVE  \/ p \in 1 .. 30
         \/ p = 31
         \/ \E i \in 1 .. 2 * n : p = 31 + i
         \/ \E i \in 1 .. 2 : p = 31 + 2 * n + i
         \/ \E i \in 1 .. 30 : p = 33 + 2 * n + i
         \/ \E i \in 1 .. 2 * n + 2 : p = 63 + 2 * n + i
<1>1. CASE p <= 31
  BY <1>1
<1>2. CASE 31 < p /\ p <= 31 + 2 * n
  <2>1. p - 31 \in 1 .. 2 * n /\ p = 31 + (p - 31)
    BY <1>2
  <2> QED
    BY <2>1
<1>3. CASE 31 + 2 * n < p /\ p <= 33 + 2 * n
  <2> DEFINE i == p - (31 + 2 * n)
  <2>1. i \in 1 .. 2 /\ p = 31 + 2 * n + i
    BY <1>3
  <2> HIDE DEF i
  <2> QED
    BY <2>1, Zenon
<1>4. CASE 33 + 2 * n < p /\ p <= 63 + 2 * n
  <2> DEFINE i == p - (33 + 2 * n)
  <2>1. i \in 1 .. 30 /\ p = 33 + 2 * n + i
    BY <1>4
  <2> HIDE DEF i
  <2> QED
    BY <2>1, Zenon
<1>5. CASE 63 + 2 * n < p
  <2> DEFINE i == p - (63 + 2 * n)
  <2>1. i \in 1 .. 2 * n + 2 /\ p = 63 + 2 * n + i
    BY <1>5
  <2> HIDE DEF i
  <2> QED
    BY <2>1, Zenon
<1> QED
  BY <1>1, <1>2, <1>3, <1>4, <1>5

LEMMA FrameOk ==
  ASSUME NEW n \in Nat, NEW s, IsFrame(s, n), NEW p \in 1 .. 65 + 4 * n
  PROVE  SegOk(s, p)
<1> DEFINE len == 65 + 4 * n
           b1 == 31 + 2 * n
           b2 == 33 + 2 * n
           b3 == 63 + 2 * n
<1>1. len = Len(s)
  BY Zenon DEF IsFrame
<1>2. /\ len \in Nat /\ b1 \in Nat /\ b2 \in Nat /\ b3 \in Nat
      /\ 0 + 30 <= len /\ b2 + 30 <= len
      /\ 31 + 2 * n <= len /\ b1 + 2 * 1 <= len
      /\ n + 1 \in Nat /\ 2 * (n + 1) = 2 * n + 2
  OBVIOUS
<1>3. b3 + 2 * (n + 1) <= len
  OBVIOUS
<1>4. HasInterval(s, 0)
  <2> SUFFICES ASSUME NEW i \in 1 .. 30 PROVE s[0 + i] = IntervalSeg(i)
    BY Zenon DEF HasInterval
  <2>1. 0 + i = i
    OBVIOUS
  <2>2. s[i] = IntervalSeg(i)
    BY Zenon DEF IsFrame
  <2> QED
    BY <2>1, <2>2, Zenon
<1>5. HasInterval(s, b2)
  BY Zenon DEF HasInterval, IsFrame
<1>6. HasLines(s, 31, n, LineLow)
  BY Zenon DEF HasLines, IsFrame, LineSegAt, HalfSegAt
<1>7. HasLines(s, b1, 1, HalfLow)
  <2>1. 2 * 1 = 2
    OBVIOUS
  <2> QED
    BY <2>1, Zenon DEF HasLines, IsFrame, LineSegAt, HalfSegAt
<1>8. HasLines(s, b3, n + 1, LineLow)
  BY <1>2, Zenon DEF HasLines, IsFrame, LineSegAt, HalfSegAt
<1>9. CASE p \in 1 .. 30
  <2>1. p = 0 + p /\ 0 \in Nat
    OBVIOUS
  <2>2. SegOk(s, 0 + p)
    BY <1>1, <1>2, <1>4, <1>9, <2>1, IntervalOk
  <2> QED
    BY <2>1, <2>2, Zenon
<1>10. CASE p = 31
  BY <1>10, BlankOk, Zenon DEF IsFrame
<1> HIDE DEF len, b1, b2, b3
<1>11. ASSUME NEW i \in 1 .. 2 * n PROVE SegOk(s, 31 + i)
  <2>1. 31 \in Nat /\ LineLow \in Nat /\ LineLow >= 188 /\ 31 + 2 * n <= len
    BY <1>2 DEF LineLow
  <2> QED
    BY <1>1, <1>2, <1>6, <2>1, LinesOk
<1>12. ASSUME NEW i \in 1 .. 2 PROVE SegOk(s, b1 + i)
  <2>1. 1 \in Nat /\ HalfLow \in Nat /\ HalfLow >= 188 /\ i \in 1 .. 2 * 1
    BY DEF HalfLow
  <2> QED
    BY <1>1, <1>2, <1>7, <2>1, LinesOk
<1>13. ASSUME NEW i \in 1 .. 30 PROVE SegOk(s, b2 + i)
  BY <1>1, <1>2, <1>5, IntervalOk
<1>14. ASSUME NEW i \in 1 .. 2 * n + 2 PROVE SegOk(s, b3 + i)
  <2>1. LineLow \in Nat /\ LineLow >= 188 /\ i \in 1 .. 2 * (n + 1)
    BY <1>2 DEF LineLow
  <2> QED
    BY <1>1, <1>2, <1>3, <1>8, <2>1, LinesOk
<1>15. \/ p \in 1 .. 30
       \/ p = 31
       \/ \E i \in 1 .. 2 * n : p = 31 + i
       \/ \E i \in 1 .. 2 : p = b1 + i
       \/ \E i \in 1 .. 30 : p = b2 + i
       \/ \E i \in 1 .. 2 * n + 2 : p = b3 + i
  BY Regions DEF b1, b2, b3
<1> QED
  BY <1>9, <1>10, <1>11, <1>12, <1>13, <1>14, <1>15, Zenon

LEMMA LevelsOrdered ==
  ASSUME NEW low \in Nat, IsLow(low, Full)
  PROVE  Blanked(low) /\ low <= Full /\ Full \in Nat /\ \A f \in Nat : f <= low => Blanked(f)
BY DEF IsLow, Full, Blanked

(* What the proof needs of the script.                                     *)
FrameIsOk ==
  /\ Len(Script) \in Nat /\ Len(Script) >= 65 /\ Script[1].hi = TRUE
  /\ \A p \in 1 .. Len(Script) : SegOk(Script, p)

LEMMA ScriptOk ==
  ASSUME SignalAssumption
  PROVE  FrameIsOk
<1> DEFINE n == ActiveLines
<1>1. n \in Nat
  BY Zenon DEF SignalAssumption
<1>2. IsFrame(Script, n)
  BY <1>1, ScriptIs
<1> HIDE DEF n
<1>3. Len(Script) = 65 + 4 * n
  BY <1>2, Zenon DEF IsFrame
<1>4. \A p \in 1 .. Len(Script) : SegOk(Script, p)
  BY <1>1, <1>2, <1>3, FrameOk, Zenon
<1>5. Script[1] = IntervalSeg(1)
  <2>1. 1 \in 1 .. 30
    OBVIOUS
  <2> QED
    BY <1>2, <2>1 DEF IsFrame
<1>6. Script[1].hi = TRUE
  BY <1>5 DEF IntervalSeg, HiLo, Seg, EqAt
<1>7. Len(Script) \in Nat /\ Len(Script) >= 65
  BY <1>1, <1>3
<1> QED
  BY <1>4, <1>6, <1>7, Zenon DEF FrameIsOk

LEMMA Wraps ==
  ASSUME NEW len \in Nat, NEW p \in 1 .. len
  PROVE  (p % len) + 1 \in 1 .. len /\ (p % len) + 1 = IF p = len THEN 1 ELSE p + 1
<1>1. CASE p = len
  <2>1. len % len = 0
    OBVIOUS
  <2> QED
    BY <1>1, <2>1
<1>2. CASE p < len
  <2>1. p % len = p
    BY <1>2
  <2> QED
    BY <1>2, <2>1
<1> QED
  BY <1>1, <1>2

-----------------------------------------------------------------------------
(* A segment through the chain, with the bit it slices to named.           *)

LEMMA ChainIs ==
  ASSUME NEW c, IsChain(c)
  PROVE  IsSlicer(c.sl) /\ IsSweep(c.h) /\ c.h.width \in Nat
<1>1. IsSlicer(c.sl) /\ IsSweep(c.h)
  BY Zenon DEF IsChain
<1> QED
  BY <1>1 DEF IsSweep

Played(c, v, L, dur) ==
  /\ IsChain(v) /\ v.sl.mode = c.sl.mode /\ Peaked(v.sl, L)
  /\ v.sl.mode # "tip" => v.sl.seeded /\ v.sl.floor <= L
  /\ \A M \in Nat : (Under(c.sl, M) /\ L <= M) => Under(v.sl, M)
  /\ v.h.width = Least((IF v.sl.sync /\ ~c.sl.sync THEN 0 ELSE c.h.width) + dur, FAR)
  /\ v.h.taken => c.sl.sync /\ ~v.sl.sync /\ LineWidth(c.h)
  /\ v.sl.sync = Slice(c.sl, L).sync

LEMMA PlayIs ==
  ASSUME TicksAssumption, NEW c, IsChain(c), NEW L \in Nat, NEW dur \in Nat
  PROVE  Played(c, Play(c, L, dur), L, dur)
<1> DEFINE v == Play(c, L, dur)
           on == Slice(c.sl, L).sync
<1>1. /\ IsChain(v) /\ v.sl.sync = on /\ v.sl.mode = c.sl.mode
      /\ Peaked(v.sl, L)
      /\ v.sl.mode # "tip" => v.sl.seeded /\ v.sl.floor <= L
      /\ \A M \in Nat : (Under(c.sl, M) /\ L <= M) => Under(v.sl, M)
      /\ v.h.width = Least((IF on /\ ~c.sl.sync THEN 0 ELSE c.h.width) + dur, FAR)
      /\ v.h.taken => c.sl.sync /\ ~on /\ LineWidth(c.h)
  BY Plays
<1> HIDE DEF v, on
<1>2. Played(c, v, L, dur) <=> Played(c, v, L, dur)
  OBVIOUS
<1>3. v.sl.sync = Slice(c.sl, L).sync
  BY <1>1, Zenon DEF on
<1> QED
  BY <1>1, <1>3, Zenon DEF Played, v

(* What an oscillator of nine fields at least makes of a short width.      *)
LEMMA Widens ==
  ASSUME TicksAssumption, NEW w \in Nat, NEW dur \in Nat
  PROVE  /\ Least(w + dur, FAR) \in Nat
         /\ IsWide(w + dur) => IsWide(Least(w + dur, FAR))
         /\ IsWide(Least(w + dur, FAR)) \/ Least(w + dur, FAR) = w + dur
BY DEF TicksAssumption, FAR, Least, IsWide

(* Wide enough for the window to refuse it, or the pulse before this low.  *)
Wide(c, p) ==
  IsWide(c.h.width) \/ (p - 1 \in 1 .. Len(Script) /\ ~Script[p].hi /\ Script[p - 1].hi /\ c.h.width = Script[p - 1].dur)
(* Before a broad pulse's low: still in it, or a slicer that has seen it. *)
BroadReady(c, p, L) ==
  ~Script[p].hi /\ Script[p].kind = "broad" => c.sl.sync \/ Peaked(c.sl, L)
(* A carrier that never changed: no level was above it, and broad pulses   *)
(* are sliced.                                                             *)
Steady(c, p) ==
  /\ Under(c.sl, Full)
  /\ Script[p].hi /\ Script[p].kind = "broad" /\ c.sl.mode # "tip" => c.sl.seeded /\ Blanked(c.sl.floor)
  /\ ~Script[p].hi /\ Script[p].kind = "broad" => c.sl.sync

LEMMA HighPlay ==
  ASSUME TicksAssumption, FrameIsOk, NEW c, IsChain(c), NEW p \in 1 .. Len(Script), Script[p].hi,
         c.sl.sync => Wide(c, p), NEW L \in Nat \ {0}, NEW v, Played(c, v, L, Script[p].dur), NEW q, q = p + 1
  PROVE  /\ q \in 1 .. Len(Script) /\ ~v.h.taken
         /\ v.sl.sync => Wide(v, q)
         /\ BroadReady(v, q, L)
         /\ L = Full /\ Steady(c, p) => Steady(v, q)
<1> DEFINE dur == Script[p].dur
<1>1. SegOk(Script, p)
  BY Zenon DEF FrameIsOk
<1>2. /\ q \in 1 .. Len(Script) /\ ~Script[q].hi /\ Script[q].kind = Script[p].kind
      /\ dur \in Nat
  BY <1>1, Zenon DEF SegOk, PulseOk
<1>4. c.sl.sync => IsWide(c.h.width)
  BY Zenon DEF Wide
<1>5. ~v.h.taken
  <2>1. IsSweep(c.h)
    BY Zenon DEF IsChain
  <2>2. IsWide(c.h.width) => ~LineWidth(c.h)
    BY <2>1, Window, Zenon DEF Refused
  <2> QED
    BY <1>4, <2>2, Zenon DEF Played
<1>6. v.sl.sync => Wide(v, q)
  <2> SUFFICES ASSUME v.sl.sync PROVE Wide(v, q)
    OBVIOUS
  <2>1. c.h.width \in Nat
    BY ChainIs, Zenon
  <2>2. CASE c.sl.sync
    <3>1. v.h.width = Least(c.h.width + dur, FAR)
      BY <2>2, Zenon DEF Played
    <3> DEFINE w == c.h.width
    <3>2. IsWide(w + dur) /\ w \in Nat
      <4>1. IsWide(w) /\ w \in Nat
        BY <1>4, <2>1, <2>2
      <4> HIDE DEF w, dur
      <4> QED
        BY <1>2, <4>1 DEF IsWide
    <3>3. IsWide(Least(w + dur, FAR))
      BY <1>2, <3>2, Widens, Zenon
    <3> QED
      BY <3>1, <3>3, Zenon DEF Wide
  <2>3. CASE ~c.sl.sync
    <3>1. v.h.width = Least(0 + dur, FAR)
      BY <2>3, Zenon DEF Played
    <3> HIDE DEF dur
    <3>2. 0 \in Nat /\ 0 + dur = dur
      BY <1>2
    <3>4. IsWide(Least(0 + dur, FAR)) \/ Least(0 + dur, FAR) = dur
      BY <1>2, <3>2, Widens, Zenon
    <3>5. q - 1 = p
      OBVIOUS
    <3> QED
      BY <1>2, <3>1, <3>4, <3>5, Zenon DEF Wide, dur
  <2> QED
    BY <2>2, <2>3
<1>7. BroadReady(v, q, L)
  BY Zenon DEF BroadReady, Played
<1>8. ASSUME L = Full, Steady(c, p) PROVE Steady(v, q)
  <2>1. Under(v.sl, Full)
    <3>1. Full \in Nat /\ L <= Full
      BY <1>8 DEF Full
    <3> QED
      BY <1>8, <3>1, Zenon DEF Played, Steady
  <2>2. Script[q].kind = "broad" => v.sl.sync
    <3> SUFFICES ASSUME Script[q].kind = "broad" PROVE v.sl.sync
      OBVIOUS
    <3>1. Under(c.sl, Full) /\ (c.sl.mode # "tip" => c.sl.seeded /\ Blanked(c.sl.floor)) /\ IsSlicer(c.sl)
      BY <1>2, <1>8, Zenon DEF Steady, IsChain
    <3>2. Slice(c.sl, Full).sync
      BY <3>1, HighIsOn, Zenon
    <3> QED
      BY <1>8, <3>2, Zenon DEF Played
  <2> QED
    BY <1>2, <2>1, <2>2, Zenon DEF Steady
<1> QED
  BY <1>2, <1>5, <1>6, <1>7, <1>8, Zenon

(* After a low comes no broad pulse's low; a broad pulse comes only after  *)
(* an equalising or a broad one's.                                         *)
LEMMA AfterLow ==
  ASSUME FrameIsOk, NEW p \in 1 .. Len(Script), ~Script[p].hi, NEW q, q = (p % Len(Script)) + 1
  PROVE  /\ q \in 1 .. Len(Script)
         /\ ~(~Script[q].hi /\ Script[q].kind = "broad")
         /\ Script[q].hi /\ Script[q].kind = "broad" => Script[p].kind \in {"eq", "broad"}
<1> DEFINE len == Len(Script)
<1>1. len \in Nat /\ len >= 65 /\ SegOk(Script, 1) /\ Script[1].hi = TRUE
  <2>1. Len(Script) \in Nat /\ Len(Script) >= 65 /\ Script[1].hi = TRUE
    BY Zenon DEF FrameIsOk
  <2>2. 1 \in 1 .. Len(Script)
    BY <2>1
  <2> QED
    BY <2>1, <2>2, Zenon DEF FrameIsOk
<1> HIDE DEF len
<1>2. p \in 1 .. len /\ q = (p % len) + 1
  BY Zenon DEF len
<1>3. q \in 1 .. len /\ q = IF p = len THEN 1 ELSE p + 1
  <2>1. (p % len) + 1 \in 1 .. len /\ (p % len) + 1 = IF p = len THEN 1 ELSE p + 1
    BY <1>1, <1>2, Wraps
  <2> QED
    BY <1>2, <2>1, Zenon
<1>4. SegOk(Script, q)
  BY <1>3, Zenon DEF FrameIsOk, len
<1>5. p # len => q - 1 = p
  BY <1>2, <1>3
<1>6. ASSUME ~Script[q].hi, Script[q].kind = "broad" PROVE FALSE
  <2>1. q - 1 \in 1 .. Len(Script) /\ Script[q - 1].hi
    BY <1>4, <1>6, Zenon DEF SegOk, LowOk
  <2>2. p # len
    BY <1>1, <1>3, <1>6, Zenon
  <2> QED
    BY <1>5, <2>1, <2>2, Zenon
<1>7. ASSUME Script[q].hi, Script[q].kind = "broad" PROVE Script[p].kind \in {"eq", "broad"}
  <2>1. q - 1 \in 1 .. Len(Script) /\ Script[q - 1].kind \in {"eq", "broad"}
    BY <1>4, <1>7, Zenon DEF SegOk, BroadOk
  <2>2. p # len
    <3> SUFFICES ASSUME p = len PROVE FALSE
      OBVIOUS
    <3>1. q = 1
      BY <1>3
    <3> HIDE DEF len
    <3>2. q - 1 = 0
      BY <3>1
    <3>3. 0 \in 1 .. Len(Script)
      BY <2>1, <3>2, Zenon
    <3> QED
      BY <3>3
  <2> QED
    BY <1>5, <2>1, <2>2, Zenon
<1> QED
  BY <1>3, <1>6, <1>7, Zenon DEF len

LEMMA LowPlay ==
  ASSUME TicksAssumption, FrameIsOk, NEW c, IsChain(c), NEW p \in 1 .. Len(Script), ~Script[p].hi,
         c.sl.sync => Wide(c, p), NEW L \in Nat \ {0}, BroadReady(c, p, L), NEW low \in Nat, IsLow(low, L),
         NEW v, Played(c, v, low, Script[p].dur), NEW q, q = (p % Len(Script)) + 1
  PROVE  /\ q \in 1 .. Len(Script)
         /\ v.h.taken => Script[p].kind = "line"
         /\ v.sl.sync => Wide(v, q)
         /\ BroadReady(v, q, L)
         /\ L = Full /\ Steady(c, p) => Steady(v, q)
<1> DEFINE dur == Script[p].dur
<1>1. SegOk(Script, p)
  BY Zenon DEF FrameIsOk
<1>2. dur \in Nat /\ (IsWide(dur) \/ Script[p].kind = "broad")
  BY <1>1, Zenon DEF SegOk, LowOk
<1>3. /\ q \in 1 .. Len(Script)
      /\ ~(~Script[q].hi /\ Script[q].kind = "broad")
      /\ Script[q].hi /\ Script[q].kind = "broad" => Script[p].kind \in {"eq", "broad"}
  BY AfterLow, Zenon
<1>4. c.h.width \in Nat /\ IsSlicer(c.sl) /\ IsSweep(c.h)
  BY ChainIs, Zenon
<1>5. ASSUME c.sl.sync PROVE IsWide(c.h.width + dur)
  <2>1. CASE IsWide(c.h.width)
    <3> DEFINE w == c.h.width
    <3>1. w \in Nat /\ IsWide(w)
      BY <1>4, <2>1
    <3> HIDE DEF w, dur
    <3>2. IsWide(w + dur)
      BY <1>2, <3>1 DEF IsWide
    <3> QED
      BY <3>2 DEF w
  <2>2. CASE p - 1 \in 1 .. Len(Script) /\ Script[p - 1].hi /\ c.h.width = Script[p - 1].dur
    <3> DEFINE o == p - 1
    <3>1. o + 1 = p
      OBVIOUS
    <3>2. o \in 1 .. Len(Script) /\ Script[o].hi /\ c.h.width = Script[o].dur
      BY <2>2
    <3> HIDE DEF o
    <3>3. SegOk(Script, o)
      BY <3>2, Zenon DEF FrameIsOk
    <3>4. IsWide(Script[o].dur + Script[o + 1].dur)
      BY <3>2, <3>3, Zenon DEF SegOk, PulseOk
    <3> QED
      BY <3>1, <3>2, <3>4, Zenon
  <2> QED
    BY <1>5, <2>1, <2>2, Zenon DEF Wide
<1>6. v.h.taken => Script[p].kind = "line"
  <2> SUFFICES ASSUME v.h.taken PROVE Script[p].kind = "line"
    OBVIOUS
  <2>1. c.sl.sync /\ LineWidth(c.h)
    BY Zenon DEF Played
  <2>2. ~Refused(c.h.width) /\ ~IsWide(c.h.width)
    BY <1>4, <2>1, Window, Zenon DEF Refused
  <2> DEFINE o == p - 1
  <2>3. o \in 1 .. Len(Script) /\ Script[o].hi /\ c.h.width = Script[o].dur
    BY <2>1, <2>2, Zenon DEF Wide
  <2>4. o + 1 = p
    OBVIOUS
  <2> HIDE DEF o
  <2>5. SegOk(Script, o)
    BY <2>3, Zenon DEF FrameIsOk
  <2>6. Script[o + 1].kind = Script[o].kind /\ (Script[o].kind = "line" \/ Refused(Script[o].dur))
    BY <2>3, <2>5, Zenon DEF SegOk, PulseOk
  <2> QED
    BY <2>2, <2>3, <2>4, <2>6, Zenon
<1>7. v.sl.sync => Wide(v, q)
  <2> SUFFICES ASSUME v.sl.sync PROVE IsWide(v.h.width)
    BY Zenon DEF Wide
  <2>1. CASE c.sl.sync
    <3> DEFINE w == c.h.width
    <3>1. v.h.width = Least(w + dur, FAR)
      BY <2>1, Zenon DEF Played
    <3>2. w \in Nat /\ IsWide(w + dur)
      BY <1>4, <1>5, <2>1
    <3>3. IsWide(Least(w + dur, FAR))
      BY <1>2, <3>2, Widens, Zenon
    <3> QED
      BY <3>1, <3>3, Zenon
  <2>2. CASE ~c.sl.sync
    <3>1. v.h.width = Least(0 + dur, FAR)
      BY <2>2, Zenon DEF Played
    <3>2. Script[p].kind # "broad"
      <4> SUFFICES ASSUME Script[p].kind = "broad" PROVE FALSE
        OBVIOUS
      <4>1. Peaked(c.sl, L)
        BY <2>2, Zenon DEF BroadReady
      <4>2. ~Slice(c.sl, low).sync
        BY <1>4, <4>1, LowIsOff
      <4> QED
        BY <4>2, Zenon DEF Played
    <3> HIDE DEF dur
    <3>3. 0 \in Nat /\ IsWide(0 + dur)
      <4>1. 0 + dur = dur
        BY <1>2
      <4> QED
        BY <1>2, <3>2, <4>1
    <3>4. IsWide(Least(0 + dur, FAR))
      BY <1>2, <3>3, Widens, Zenon
    <3> QED
      BY <3>1, <3>4, Zenon
  <2> QED
    BY <2>1, <2>2
<1>8. BroadReady(v, q, L)
  BY <1>3, Zenon DEF BroadReady
<1>9. ASSUME L = Full, Steady(c, p) PROVE Steady(v, q)
  <2>1. Blanked(low) /\ low <= Full /\ Full \in Nat /\ \A f \in Nat : f <= low => Blanked(f)
    BY <1>9, LevelsOrdered, Zenon
  <2>2. Under(v.sl, Full)
    <3> QED
      BY <1>9, <2>1, Zenon DEF Played, Steady
  <2>3. v.sl.mode # "tip" => v.sl.seeded /\ Blanked(v.sl.floor)
    <3>1. v.sl.mode # "tip" => v.sl.seeded /\ v.sl.floor <= low
      BY Zenon DEF Played
    <3>2. v.sl.floor \in Nat
      BY Zenon DEF Played, IsChain, IsSlicer
<3> QED
      BY <2>1, <3>1, <3>2, Zenon
  <2> QED
    BY <1>3, <2>2, <2>3, Zenon DEF Steady
<1> QED
  BY <1>3, <1>6, <1>7, <1>8, <1>9, Zenon

-----------------------------------------------------------------------------
(* The invariant.                                                          *)

(* At every edge the slicer may make, the pulse-width window refuses what  *)
(* is not a line's pulse.                                                  *)
SyncIInv ==
  /\ IsSignal(signal) /\ pos \in 1 .. Len(Script) /\ level \in Nat \ {0} /\ IsChain(chain)
  /\ OnlyLinePulsesDrive
  /\ condition = "garbage" => ~chain.sl.sync /\ signal.kind = "power"
  /\ chain.sl.sync => Wide(chain, pos)
  /\ condition # "garbage" => BroadReady(chain, pos, level)
  /\ condition = "clean" /\ signal.kind = "fade" => level = Full /\ Steady(chain, pos)

LEMMA LowLevel ==
  ASSUME NEW L \in Nat \ {0}, NEW m \in Nat, Blanked(m)
  PROVE  Attenuated(m, L) \in Nat /\ IsLow(Attenuated(m, L), L)
<1> DEFINE a == m * L
           d == a \div 1000
<1>1. a \in Nat
  OBVIOUS
<1>2. (760 - m) * L >= 0
  <2> DEFINE k == 760 - m
  <2>1. k \in Nat
    BY DEF Blanked
  <2> HIDE DEF k
  <2>2. k * L >= 0
    BY <2>1
  <2> QED
    BY <2>2 DEF k
<1>3. a <= 760 * L
  BY <1>2
<1> HIDE DEF a
<1>4. d \in Nat /\ 1000 * d <= a
  BY <1>1, DivBounds, QuotientNat
<1> HIDE DEF d
<1>5. d \in Nat /\ 1000 * d <= 760 * L
  BY <1>1, <1>3, <1>4
<1> QED
  BY <1>5 DEF d, a, Attenuated, IsLow

LEMMA LevelIs ==
  ASSUME IsSignal(signal), level \in Nat \ {0}, NEW kind
  PROVE  /\ LevelOf(FALSE, kind) \in Nat /\ IsLow(LevelOf(FALSE, kind), level)
         /\ LevelOf(TRUE, kind) = level
<1>1. signal.picture \in Nat /\ Blanked(signal.picture) /\ Blank \in Nat /\ Blanked(Blank)
  BY DEF IsSignal, Blank, Blanked
<1>2. Attenuated(signal.picture, level) \in Nat /\ IsLow(Attenuated(signal.picture, level), level)
  BY <1>1, LowLevel, Zenon
<1>3. Attenuated(Blank, level) \in Nat /\ IsLow(Attenuated(Blank, level), level)
  BY <1>1, LowLevel, Zenon
<1>4. LevelOf(TRUE, kind) = level
  BY DEF LevelOf
<1>5. kind = "line" => LevelOf(FALSE, kind) = Attenuated(signal.picture, level)
  BY DEF LevelOf, Attenuated
<1>6. kind # "line" => LevelOf(FALSE, kind) = Attenuated(Blank, level)
  BY DEF LevelOf, Attenuated, Blank
<1> QED
  BY <1>2, <1>3, <1>4, <1>5, <1>6, Zenon

LEMMA SyncInitHolds ==
  ASSUME SignalAssumption, SyncInit
  PROVE  SyncIInv
<1>1. FrameIsOk
  BY ScriptOk
<1>2. IsSignal(signal)
  BY Zenon DEF SyncInit, SignalAssumption
<1>3. pos = 1 /\ 1 \in 1 .. Len(Script) /\ Script[pos].hi = TRUE /\ SegOk(Script, pos)
  <2>1. pos = 1 /\ Len(Script) \in Nat /\ Len(Script) >= 65 /\ Script[1].hi = TRUE
    BY <1>1, Zenon DEF SyncInit, FrameIsOk
  <2>2. 1 \in 1 .. Len(Script)
    BY <2>1
  <2> QED
    BY <1>1, <2>1, <2>2, Zenon DEF FrameIsOk
<1>4. level = Full /\ level \in Nat \ {0} /\ drove = "none"
  BY DEF SyncInit, Full
<1>5. /\ chain.sl = SlicerInit(signal.mode) /\ chain.h = SweepInit
      /\ chain.sl.sync = FALSE /\ chain.sl.tip = 0 /\ chain.sl.peak = 0
  BY DEF SyncInit, SlicerInit
<1>6. IsChain(chain)
  <2>1. IsSlicer(chain.sl)
    BY <1>5 DEF IsSlicer, SlicerInit
  <2>2. IsSweep(chain.h)
    BY <1>5 DEF IsSweep, SweepInit
  <2> QED
    BY <2>1, <2>2 DEF IsChain
<1>7. Under(chain.sl, Full)
  BY <1>5 DEF Under, Full
<1>8. Script[pos].kind # "broad"
  <2> SUFFICES ASSUME Script[pos].kind = "broad" PROVE FALSE
    OBVIOUS
  <2>1. pos - 1 \in 1 .. Len(Script)
    BY <1>3, Zenon DEF SegOk, BroadOk
  <2>2. pos - 1 = 0
    BY <1>3
  <2>3. 0 \in 1 .. Len(Script)
    BY <2>1, <2>2, Zenon
  <2> QED
    BY <2>3
<1>9. Steady(chain, pos) /\ BroadReady(chain, pos, level)
  BY <1>7, <1>8, Zenon DEF Steady, BroadReady
<1>10. condition = "garbage" => signal.kind = "power"
  BY DEF SyncInit
<1> QED
  BY <1>2, <1>3, <1>4, <1>5, <1>6, <1>9, <1>10, Zenon DEF SyncIInv, OnlyLinePulsesDrive

LEMMA TransmitIInv ==
  ASSUME TicksAssumption, FrameIsOk, SyncIInv, Transmit
  PROVE  SyncIInv'
<1> DEFINE seg == Script[pos]
           low == LevelOf(FALSE, seg.kind)
           lev == LevelOf(seg.hi, seg.kind)
           c   == Play(chain, lev, seg.dur)
<1>1. /\ signal' = signal /\ level' = level /\ condition # "garbage" /\ pos' = NextPos
      /\ condition' = IF condition = "clean" /\ signal.kind = "spoilt" /\ Charged THEN "spoilt" ELSE condition
  BY Zenon DEF Transmit
<1>2. chain' = c /\ drove' = IF seg.hi THEN (IF c.h.taken THEN "merged" ELSE drove) ELSE (IF c.h.taken THEN seg.kind ELSE drove)
  <2>1. CASE seg.hi
    BY <2>1, Zenon DEF Transmit
  <2>2. CASE ~seg.hi
    BY <2>2, Zenon DEF Transmit, Observe
  <2> QED
    BY <2>1, <2>2, Zenon
<1> HIDE DEF c
<1>3. /\ IsSignal(signal) /\ pos \in 1 .. Len(Script) /\ level \in Nat \ {0} /\ IsChain(chain)
      /\ OnlyLinePulsesDrive
      /\ chain.sl.sync => Wide(chain, pos)
      /\ BroadReady(chain, pos, level)
      /\ condition = "clean" /\ signal.kind = "fade" => level = Full /\ Steady(chain, pos)
  BY <1>1, Zenon DEF SyncIInv
<1>4. SegOk(Script, pos)
  BY <1>3, Zenon DEF FrameIsOk
<1>5. seg.dur \in Nat /\ seg.hi \in BOOLEAN
  BY <1>4, Zenon DEF SegOk
<1>6. low \in Nat /\ IsLow(low, level) /\ LevelOf(TRUE, seg.kind) = level
  BY <1>3, LevelIs, Zenon
<1> HIDE DEF seg, low
<1>7. lev \in Nat
  <2>1. CASE seg.hi
    BY <1>3, <1>5, <1>6, <2>1, Zenon
  <2>2. CASE ~seg.hi
    BY <1>5, <1>6, <2>2, Zenon DEF low
  <2> QED
    BY <2>1, <2>2
<1> HIDE DEF lev
<1>8. Played(chain, c, lev, seg.dur)
  BY <1>3, <1>5, <1>7, PlayIs, Zenon DEF c
<1>9. /\ NextPos \in 1 .. Len(Script)
      /\ seg.hi => ~c.h.taken
      /\ ~seg.hi /\ c.h.taken => seg.kind = "line"
      /\ c.sl.sync => Wide(c, NextPos)
      /\ BroadReady(c, NextPos, level)
      /\ level = Full /\ Steady(chain, pos) => Steady(c, NextPos)
  <2>1. CASE seg.hi
    <3>1. lev = level
      BY <1>5, <1>6, <2>1, Zenon DEF lev
    <3>2. pos + 1 \in 1 .. Len(Script)
      BY <1>4, <2>1, Zenon DEF SegOk, PulseOk, seg
    <3>3. NextPos = pos + 1
      <4>1. pos # Len(Script)
        <5> SUFFICES ASSUME pos = Len(Script) PROVE FALSE
          OBVIOUS
        <5> DEFINE n == Len(Script)
        <5>1. n \in Nat /\ n + 1 \in 1 .. n
          BY <3>2, Zenon DEF FrameIsOk
        <5> HIDE DEF n
        <5> QED
          BY <5>1
      <4>2. Len(Script) \in Nat /\ Len(Script) >= 65
        BY Zenon DEF FrameIsOk
      <4> QED
        BY <1>3, <4>1, <4>2, Wraps, Zenon DEF NextPos
    <3>4. /\ ~c.h.taken
          /\ c.sl.sync => Wide(c, pos + 1)
          /\ BroadReady(c, pos + 1, level)
          /\ level = Full /\ Steady(chain, pos) => Steady(c, pos + 1)
      BY <1>3, <1>8, <2>1, <3>1, HighPlay, Zenon DEF seg
    <3> QED
      BY <2>1, <3>2, <3>3, <3>4, Zenon
  <2>2. CASE ~seg.hi
    <3>1. lev = low
      BY <1>5, <2>2, Zenon DEF lev, low
    <3>3. level \in Nat \ {0} /\ low \in Nat /\ IsLow(low, level) /\ IsChain(chain) /\ ~Script[pos].hi /\ BroadReady(chain, pos, level)
      BY <1>3, <1>6, <2>2, Zenon DEF seg
    <3>4. Played(chain, c, low, Script[pos].dur) /\ pos \in 1 .. Len(Script) /\ (chain.sl.sync => Wide(chain, pos))
      BY <1>3, <1>8, <3>1, Zenon DEF seg
    <3>5. NextPos = (pos % Len(Script)) + 1
      BY Zenon DEF NextPos
    <3>2. /\ NextPos \in 1 .. Len(Script)
          /\ c.h.taken => seg.kind = "line"
          /\ c.sl.sync => Wide(c, NextPos)
          /\ BroadReady(c, NextPos, level)
          /\ level = Full /\ Steady(chain, pos) => Steady(c, NextPos)
      <4> DEFINE q == NextPos
      <4>1. q = (pos % Len(Script)) + 1
        BY <3>5
      <4> HIDE DEF q
      <4>2. /\ q \in 1 .. Len(Script)
            /\ c.h.taken => Script[pos].kind = "line"
            /\ c.sl.sync => Wide(c, q)
            /\ BroadReady(c, q, level)
            /\ level = Full /\ Steady(chain, pos) => Steady(c, q)
        BY <3>3, <3>4, <4>1, LowPlay
      <4> QED
        BY <4>2, Zenon DEF q, seg
    <3> QED
      BY <2>2, <3>2, Zenon
  <2> QED
    BY <2>1, <2>2
<1>10. IsChain(c)
  BY <1>8, Zenon DEF Played
<1>11. OnlyLinePulsesDrive'
  BY <1>2, <1>3, <1>5, <1>9, Zenon DEF OnlyLinePulsesDrive
<1>12. condition' # "garbage" /\ (condition' = "clean" => condition = "clean")
  BY <1>1
<1> QED
  BY <1>1, <1>2, <1>3, <1>9, <1>10, <1>11, <1>12, Zenon DEF SyncIInv, Wide, BroadReady, Steady

(* Two levels played one after the other, the second that of a low.        *)
LEMMA PeakThenLow ==
  ASSUME TicksAssumption, NEW c, IsChain(c), NEW L \in Nat \ {0}, NEW d \in Nat, NEW low \in Nat, IsLow(low, L), NEW e \in Nat,
         NEW a, a = Play(c, L, d), NEW b, b = Play(a, low, e)
  PROVE  IsChain(a) /\ Played(c, a, L, d) /\ IsChain(b) /\ Played(a, b, low, e) /\ ~b.sl.sync
<1>1. Played(c, a, L, d)
  BY PlayIs
<1>2. IsChain(a) /\ IsSlicer(a.sl) /\ Peaked(a.sl, L)
  BY <1>1, Zenon DEF Played, IsChain
<1>3. Played(a, b, low, e)
  BY <1>2, PlayIs, Zenon
<1>4. ~Slice(a.sl, low).sync
  BY <1>2, LowIsOff
<1> QED
  BY <1>1, <1>2, <1>3, <1>4, Zenon DEF Played

LEMMA ImpulseIInv ==
  ASSUME TicksAssumption, SignalAssumption, SyncIInv, Impulse
  PROVE  SyncIInv'
<1> DEFINE low == LevelOf(FALSE, "line")
<1>1. PICK i \in Impulses : Observe(Play(Play(chain, level, i[1]), low, i[2]), "noise")
  BY Zenon DEF Impulse
<1>2. signal' = signal /\ level' = level /\ condition = "garbage" /\ condition' = condition /\ pos' = pos
  BY Zenon DEF Impulse
<1> DEFINE d == i[1]
           e == i[2]
           a == Play(chain, level, d)
           b == Play(a, low, e)
<1>3. d \in Nat /\ e \in Nat
  <2>1. i \in Nat \X Nat
    BY Zenon DEF SignalAssumption
  <2> QED
    BY <2>1
<1>4. IsSignal(signal) /\ pos \in 1 .. Len(Script) /\ level \in Nat \ {0} /\ IsChain(chain) /\ OnlyLinePulsesDrive /\ signal.kind = "power"
  BY <1>2, Zenon DEF SyncIInv
<1>5. low \in Nat /\ IsLow(low, level)
  BY <1>4, LevelIs
<1>6. chain' = b /\ (drove' = drove \/ drove' = "noise")
  BY <1>1, Zenon DEF Observe
<1> HIDE DEF low, d, e, a, b
<1>7. level \in Nat
  BY <1>4
<1>8. IsChain(b) /\ ~b.sl.sync
  BY <1>3, <1>4, <1>5, PeakThenLow, Zenon DEF a, b
<1>9. OnlyLinePulsesDrive'
  BY <1>4, <1>6, Zenon DEF OnlyLinePulsesDrive
<1> QED
  BY <1>2, <1>4, <1>6, <1>8, <1>9, Zenon DEF SyncIInv

LEMMA ArriveIInv ==
  ASSUME EntriesAssumption, SyncIInv, Arrive
  PROVE  SyncIInv'
<1>1. /\ signal' = signal /\ level' = level /\ chain' = chain /\ drove' = drove /\ condition = "garbage" /\ pos' \in 1 .. Len(Script)
      /\ Script[pos'].hi
  BY Zenon DEF Arrive, observed, EntriesAssumption
<1>2. ~chain.sl.sync /\ signal.kind = "power"
  BY <1>1, Zenon DEF SyncIInv
<1>3. signal.kind # "fade"
  BY <1>2
<1>4. IsSignal(signal) /\ level \in Nat \ {0} /\ IsChain(chain) /\ OnlyLinePulsesDrive
  BY Zenon DEF SyncIInv
<1>5. OnlyLinePulsesDrive'
  BY <1>1, <1>4, Zenon DEF OnlyLinePulsesDrive
<1> QED
  BY <1>1, <1>2, <1>3, <1>4, <1>5, Zenon DEF SyncIInv, BroadReady

SpikeOut(at, width, rest) ==
  LET a == Play(chain, LevelOf(FALSE, "line"), at)
      b == Play(a, level, width)
      c == Play(b, LevelOf(FALSE, "line"), rest)
  IN  chain' = c /\ drove' = (IF c.h.taken THEN "noise" ELSE IF a.h.taken THEN "line" ELSE drove)

LEMMA SpikePlays ==
  ASSUME Spike
  PROVE \E at \in {200, 500, 820} : \E width \in {80, 300} :
       /\ at + width < 927
       /\ LET low == LevelOf(FALSE, "line")
              a == Play(chain, low, at)
              b == Play(a, level, width)
              c == Play(b, low, 927 - at - width)
          IN  chain' = c /\ lineTaken' = a.h.taken /\ drove' = (IF c.h.taken THEN "noise" ELSE IF a.h.taken THEN "line" ELSE drove)
BY ZenonT(60) DEF Spike

LEMMA SpikeIs ==
  ASSUME Spike
  PROVE  \E at, width, rest \in Nat : SpikeOut(at, width, rest)
<1>2. PICK at \in {200, 500, 820}, width \in {80, 300} :
        /\ at + width < 927
        /\ LET low == LevelOf(FALSE, "line")
               a == Play(chain, low, at)
               b == Play(a, level, width)
               c == Play(b, low, 927 - at - width)
           IN  chain' = c /\ lineTaken' = a.h.taken /\ drove' = (IF c.h.taken THEN "noise" ELSE IF a.h.taken THEN "line" ELSE drove)
  BY SpikePlays
<1>3. SpikeOut(at, width, 927 - at - width)
  BY <1>2, SMT DEF SpikeOut
<1>4. at \in Nat /\ width \in Nat /\ 927 - at - width \in Nat
  BY <1>2
<1> QED
  BY <1>3, <1>4

LEMMA SpikeIInv ==
  ASSUME TicksAssumption, FrameIsOk, SyncIInv, Spike
  PROVE  SyncIInv'
<1> DEFINE low == LevelOf(FALSE, "line")
<1>1. PICK at, width, rest \in Nat : SpikeOut(at, width, rest)
  BY SpikeIs
<1>2. signal' = signal /\ level' = level /\ condition = "spoilt" /\ condition' = condition /\ pos' = NextPos /\ ~Script[pos].hi
  <2>1. Script[pos].hi = FALSE
    BY DEF Spike, MaySpoil
  <2> QED
    BY <2>1 DEF Spike, MaySpoil
<1> DEFINE a == Play(chain, low, at)
           b == Play(a, level, width)
           c == Play(b, low, rest)
<1>3. chain' = c /\ (drove' = drove \/ drove' \in {"noise", "line"})
  BY <1>1, Zenon DEF SpikeOut
<1>4. at \in Nat /\ width \in Nat /\ rest \in Nat
  BY <1>1
<1>5. IsSignal(signal) /\ pos \in 1 .. Len(Script) /\ level \in Nat \ {0} /\ IsChain(chain) /\ OnlyLinePulsesDrive
  BY Zenon DEF SyncIInv
<1>6. low \in Nat /\ IsLow(low, level)
  BY <1>5, LevelIs
<1> HIDE DEF low, a, b, c
<1>7. IsChain(a)
  BY <1>4, <1>5, <1>6, PlayIs, Zenon DEF a, Played
<1>8. IsChain(c) /\ ~c.sl.sync
  BY <1>4, <1>5, <1>6, <1>7, PeakThenLow, Zenon DEF b, c
<1>9. /\ NextPos \in 1 .. Len(Script)
      /\ ~(~Script[NextPos].hi /\ Script[NextPos].kind = "broad")
  BY <1>2, <1>5, AfterLow, Zenon DEF NextPos
<1>10. OnlyLinePulsesDrive'
  BY <1>3, <1>5, Zenon DEF OnlyLinePulsesDrive
<1>11. condition' # "garbage" /\ condition' # "clean"
  BY <1>2
<1> QED
  BY <1>2, <1>3, <1>5, <1>8, <1>9, <1>10, <1>11, Zenon DEF SyncIInv, BroadReady

(* A low that follows a low: in sync at its end, the pulse is wide.        *)
LEMMA TwoLows ==
  ASSUME TicksAssumption, NEW c, IsChain(c), c.sl.sync => IsWide(c.h.width), NEW low \in Nat,
         NEW early \in Nat, NEW late \in Nat, IsWide(late), NEW a, a = Play(c, low, early), NEW b, b = Play(a, low, late)
  PROVE  IsChain(b) /\ (b.sl.sync => IsWide(b.h.width))
<1>2. Played(c, a, low, early)
  BY PlayIs, Zenon
<1>3. IsChain(a)
  BY <1>2, Zenon DEF Played
<1>4. Played(a, b, low, late)
  BY <1>3, PlayIs, Zenon
<1>5. a.h.width \in Nat
  BY <1>3, ChainIs, Zenon
<1> DEFINE w == IF b.sl.sync /\ ~a.sl.sync THEN 0 ELSE a.h.width
<1>6. b.h.width = Least(w + late, FAR) /\ w \in Nat
  <2>1. 0 \in Nat
    OBVIOUS
  <2> QED
    BY <1>4, <1>5, <2>1, Zenon DEF Played
<1> HIDE DEF w
<1>7. IsWide(w + late)
  BY <1>6 DEF IsWide
<1>8. IsWide(Least(w + late, FAR))
  BY <1>6, <1>7, Widens, Zenon
<1> QED
  BY <1>4, <1>6, <1>8, Zenon DEF Played

LEMMA DropoutIInv ==
  ASSUME TicksAssumption, FrameIsOk, SyncIInv, Dropout
  PROVE  SyncIInv'
<1> DEFINE low == LevelOf(FALSE, "line")
           early == 73
           late == 927
           a == Play(chain, low, early)
           b == Play(a, low, late)
<1>1. /\ signal' = signal /\ level' = level /\ condition = "spoilt" /\ condition' = condition /\ pos' = (NextPos % Len(Script)) + 1
      /\ Script[pos].hi = TRUE /\ chain' = b /\ drove' = drove
  BY Zenon DEF Dropout, MaySpoil
<1>2. IsSignal(signal) /\ pos \in 1 .. Len(Script) /\ level \in Nat \ {0} /\ IsChain(chain) /\ OnlyLinePulsesDrive
  BY Zenon DEF SyncIInv
<1> HIDE DEF low, a, b, early, late
<1>3. low \in Nat /\ early \in Nat /\ late \in Nat /\ IsWide(late)
  <2>1. low \in Nat
    BY <1>2, LevelIs, Zenon DEF low
  <2>2. early \in Nat /\ late \in Nat /\ IsWide(late)
    BY DEF IsWide, early, late
  <2> QED
    BY <2>1, <2>2, Zenon
<1>4. chain.sl.sync => IsWide(chain.h.width)
  BY <1>1, Zenon DEF SyncIInv, Wide
<1>5. IsChain(b) /\ (b.sl.sync => IsWide(b.h.width))
  BY <1>2, <1>3, <1>4, TwoLows, Zenon DEF a, b
<1>6. NextPos \in 1 .. Len(Script) /\ ~Script[NextPos].hi
  <2>1. SegOk(Script, pos)
    BY <1>2, Zenon DEF FrameIsOk
  <2>2. pos + 1 \in 1 .. Len(Script) /\ ~Script[pos + 1].hi
    BY <1>1, <2>1, Zenon DEF SegOk, PulseOk
  <2> DEFINE n == Len(Script)
  <2>3. n \in Nat /\ n >= 65 /\ pos \in 1 .. n /\ pos + 1 \in 1 .. n
    BY <1>2, <2>2, Zenon DEF FrameIsOk
  <2> HIDE DEF n
  <2>4. pos # n
    BY <2>3
  <2>5. (pos % n) + 1 = pos + 1
    BY <2>3, <2>4, Wraps, Zenon
  <2> QED
    BY <2>2, <2>5, Zenon DEF NextPos, n
<1>7. pos' \in 1 .. Len(Script) /\ ~(~Script[pos'].hi /\ Script[pos'].kind = "broad")
  BY <1>1, <1>6, AfterLow, Zenon
<1>8. OnlyLinePulsesDrive'
  BY <1>1, <1>2, Zenon DEF OnlyLinePulsesDrive
<1>9. condition' # "garbage" /\ condition' # "clean"
  BY <1>1
<1> QED
  BY <1>1, <1>2, <1>5, <1>7, <1>8, <1>9, Zenon DEF SyncIInv, BroadReady, Wide

LEMMA FadeIInv ==
  ASSUME SyncIInv, Fade
  PROVE  SyncIInv'
<1>1. signal' = signal /\ level' = signal.level /\ condition = "clean" /\ signal.kind = "fade" /\ condition' = "faded" /\ pos' = pos /\ chain' = chain /\ drove' = drove
  BY Zenon DEF Fade
<1>2. /\ IsSignal(signal) /\ pos \in 1 .. Len(Script) /\ IsChain(chain) /\ OnlyLinePulsesDrive
      /\ chain.sl.sync => Wide(chain, pos)
      /\ Steady(chain, pos)
  BY <1>1, Zenon DEF SyncIInv
<1>3. level' \in Nat \ {0}
  BY <1>1, <1>2, Zenon DEF IsSignal
<1>4. BroadReady(chain, pos, signal.level)
  BY <1>2, Zenon DEF BroadReady, Steady
<1>5. OnlyLinePulsesDrive'
  BY <1>1, <1>2, Zenon DEF OnlyLinePulsesDrive
<1>6. condition' # "garbage" /\ condition' # "clean"
  BY <1>1
<1> QED
  BY <1>1, <1>2, <1>3, <1>4, <1>5, <1>6, Zenon DEF SyncIInv, Wide, BroadReady

LEMMA SyncNextHolds ==
  ASSUME TicksAssumption, SignalAssumption, EntriesAssumption, SyncIInv, [SyncNext]_syncVars
  PROVE  SyncIInv'
<1>1. FrameIsOk
  BY ScriptOk
<1>2. CASE Transmit
  BY <1>1, <1>2, TransmitIInv
<1>3. CASE Impulse
  BY <1>3, ImpulseIInv
<1>4. CASE Arrive
  BY <1>4, ArriveIInv
<1>5. CASE Spike
  BY <1>1, <1>5, SpikeIInv
<1>6. CASE Dropout
  BY <1>1, <1>6, DropoutIInv
<1>7. CASE Fade
  BY <1>7, FadeIInv
<1>8. CASE UNCHANGED syncVars
  BY <1>8, Zenon DEF syncVars, SyncIInv, OnlyLinePulsesDrive, Wide, BroadReady, Steady
<1> QED
  BY <1>2, <1>3, <1>4, <1>5, <1>6, <1>7, <1>8, Zenon DEF SyncNext

(* Nothing but a line's sync pulse, or an impulse of its width, ever drives *)
(* the horizontal flywheel: HorizontalSweep's pulse-width window refuses   *)
(* equalising and broad pulses at every rate the noise may have left it at, *)
(* and two pulses are never one to the slicer.                             *)
THEOREM WindowHolds == SyncSpec => []OnlyLinePulsesDrive
<1>1. SyncInit => SyncIInv
  BY SignalAssumption, SyncInitHolds
<1>2. SyncIInv /\ [SyncNext]_syncVars => SyncIInv'
  BY TicksAssumption, SignalAssumption, EntriesAssumption, SyncNextHolds
<1>3. SyncIInv => OnlyLinePulsesDrive
  BY DEF SyncIInv
<1> QED
  BY <1>1, <1>2, <1>3, PTL DEF SyncSpec

=============================================================================
