---------------------------- MODULE TuningProofs -----------------------------
(***************************************************************************)
(* What a session leaves behind and what render makes of it, for any       *)
(* modes, sliders, profile names, hand-edited files and command lines.     *)
(*                                                                         *)
(* The invariant: whatever is on the sliders, or was last rendered or      *)
(* saved, is a whole slider set - every knob of the session's input and no *)
(* other, each inside its range - and a saved name's file is what          *)
(* profile_json makes of the set saved under it.  The range is what both   *)
(* directions need: load_profile refuses a file with one value out of it,  *)
(* and of the sets inside it render refuses only those whose gate never    *)
(* opens (VerdictIs).  The outcome of a command line is render's verdict   *)
(* on the files as they still are.                                         *)
(***************************************************************************)
EXTENDS TuningSession, WellFoundedInduction, TLAPS

-----------------------------------------------------------------------------
(* The table.                                                              *)

\* Every default and every end of a range of the table is itself in range (knobs.py 31-263).
LEMMA TableSane ==
  \A k \in Knobs : /\ Table[k].max \in Int
                   /\ InRange(k, Table[k].default) /\ InRange(k, Table[k].min) /\ InRange(k, Table[k].max)
<1>1. \A k \in Knobs : Table[k].max \in Int
  BY SMTT(60) DEF Knobs, Table, Slider, Choice, Toggle, Index
<1>2. \A k \in Knobs : Table[k].min <= Table[k].default
  BY SMTT(60) DEF Knobs, Table, Slider, Choice, Toggle, Index
<1>3. \A k \in Knobs : Table[k].default <= Table[k].max
  BY SMTT(60) DEF Knobs, Table, Slider, Choice, Toggle, Index
<1>4. \A k \in Knobs : Table[k].min <= Table[k].min /\ Table[k].max <= Table[k].max
  BY SMTT(60) DEF Knobs, Table, Slider, Choice, Toggle, Index
<1>5. \A k \in Knobs : Table[k].min <= Table[k].max
  BY SMTT(60) DEF Knobs, Table, Slider, Choice, Toggle, Index
<1> QED BY <1>1, <1>2, <1>3, <1>4, <1>5 DEF InRange

\* int() of a slider is the slider; of a whole position, and of an int() again, itself; of any number, a number.
LEMMA CutIs ==
  \A k \in Knobs : /\ Table[k].kind = "slider" => \A v : Cut(k, v) = v
                   /\ Cut(k, Table[k].min) = Table[k].min /\ Cut(k, Table[k].default) = Table[k].default
                   /\ Cut(k, Table[k].max) = Table[k].max
                   /\ \A v \in Int : Cut(k, v) \in Int /\ Cut(k, Cut(k, v)) = Cut(k, v)
<1>1. SUFFICES ASSUME NEW k \in Knobs
               PROVE  /\ Table[k].kind = "slider" => \A v : Cut(k, v) = v
                      /\ Cut(k, Table[k].min) = Table[k].min /\ Cut(k, Table[k].default) = Table[k].default
                      /\ Cut(k, Table[k].max) = Table[k].max
                      /\ \A v \in Int : Cut(k, v) \in Int /\ Cut(k, Cut(k, v)) = Cut(k, v)
  OBVIOUS
<1>2. CASE Table[k].kind = "slider"
  BY <1>2 DEF Cut
<1>3. CASE Table[k].kind = "toggle"
  <2>1. \A v : Cut(k, v) = IF -1000 < v /\ v < 1000 THEN 0 ELSE 1000
    BY <1>3 DEF Cut, Index
  <2>2. Table[k].min \in {0, 1000} /\ Table[k].default \in {0, 1000} /\ Table[k].max \in {0, 1000}
    <3>1. k = "colour"
      BY <1>3, SMTT(60) DEF Knobs, Table, Slider, Choice, Toggle, Index
    <3> QED BY <3>1 DEF Table, Toggle, Index
  <2> QED BY <1>3, <2>1, <2>2
<1>4. CASE Table[k].kind = "choice"
  <2> DEFINE whole(v) == IF v < 0 THEN -(1000 * ((-v) \div 1000)) ELSE 1000 * (v \div 1000)
  <2>1. \A v : Cut(k, v) = whole(v)
    BY <1>4 DEF Cut, Index
  <2>2. \A v \in Int : whole(v) \in Int /\ whole(whole(v)) = whole(v)
    OBVIOUS
  <2>3. \A i \in 0 .. 3 : whole(1000 * i) = 1000 * i
    OBVIOUS
  <2>4. \E i, j, n \in 0 .. 3 : Table[k].min = 1000 * i /\ Table[k].default = 1000 * j /\ Table[k].max = 1000 * n
    <3>1. k \in {"if", "detector", "agc", "comb_mode"}
      BY <1>4, SMTT(60) DEF Knobs, Table, Slider, Choice, Toggle, Index
    <3>2. CASE k = "if"
      BY <3>2, SMTT(30) DEF Table, Choice, Index
    <3>3. CASE k = "detector"
      BY <3>3, SMTT(30) DEF Table, Choice, Index
    <3>4. CASE k = "agc"
      BY <3>4, SMTT(30) DEF Table, Choice, Index
    <3>5. CASE k = "comb_mode"
      BY <3>5, SMTT(30) DEF Table, Choice, Index
    <3> QED BY <3>1, <3>2, <3>3, <3>4, <3>5, Zenon
  <2> HIDE DEF whole
  <2> QED BY <1>4, <2>1, <2>2, <2>3, <2>4
<1>5. Table[k].kind \in {"slider", "choice", "toggle"}
  BY SMTT(60) DEF Knobs, Table, Slider, Choice, Toggle, Index
<1> QED BY <1>2, <1>3, <1>4, <1>5

\* A session's knobs are knobs of the table.
LEMMA KnobsOfInput == ASSUME NEW m PROVE ForInput(m) \subseteq Knobs
BY DEF ForInput

\* Of the table's knobs only colour is a toggle; none is spelt "color"; every row is one of three kinds.
LEMMA Kinds ==
  \A k \in Knobs : /\ k # "color" /\ Table[k].min \in Int /\ Table[k].max \in Int /\ Table[k].default \in Int
                   /\ Table[k].kind \in {"slider", "choice", "toggle"}
                   /\ Table[k].kind = "toggle" <=> k = "colour"
BY SMTT(60) DEF Knobs, Table, Slider, Choice, Toggle, Index

\* A slider inside its range never gives a value that means "unset" (knobs.py 31-263, render_command.cpp).
LEMMA MeantInRange == \A k \in Knobs : \A v \in Int : InRange(k, v) => Meant(k, v)
BY SMTT(60) DEF Knobs, Table, Slider, Choice, Toggle, Index, InRange, Meant, CompositeOnly

\* Every default of render's lies inside its slider too, but the row sigma's.
LEMMA DefaultInRange ==
  \A m, adaptive, saw90 : \A k \in Knobs \ {"beam_sigma_x"} :
    RenderDefault(m, adaptive, saw90, k) \in Int /\ InRange(k, RenderDefault(m, adaptive, saw90, k))
BY SMTT(100) DEF Knobs, Table, Slider, Choice, Toggle, Index, InRange, RenderDefault

\* A whole slider set of an input mode: of every position, what int() makes of it is in range.
Whole(m, v) == v = [k \in ForInput(m) |-> v[k]] /\ \A k \in ForInput(m) : v[k] \in Int /\ InRange(k, Cut(k, v[k]))

\* profile_json, then load_profile over the defaults: every slider is back, cut to a whole position.
LEMMA RoundTrip ==
  ASSUME NEW m, NEW v, Whole(m, v)
  PROVE  LET r == LoadProfile(ProfileJson(v, m), ForInput(m), m)
         IN  r.ok /\ Over(r.values, Defaults(m)) = [k \in DOMAIN v |-> Cut(k, v[k])]
<1> DEFINE kept == {k \in DOMAIN v : v[k] # Table[k].default}
           file == ProfileJson(v, m)
           r    == LoadProfile(file, ForInput(m), m)
<1>1. DOMAIN v = ForInput(m) /\ kept \subseteq ForInput(m)
  BY DEF Whole
<1>2. /\ file.parses /\ file.input = m
      /\ DOMAIN file.values = kept
      /\ \A k \in kept : file.values[k] = Typed(JsonOf(k), Cut(k, v[k]))
  BY DEF ProfileJson, File
<1>3. ASSUME NEW k \in kept
      PROVE  WellTyped(k, file.values[k]) /\ file.values[k].v = Cut(k, v[k])
  <2>1. InRange(k, Cut(k, v[k])) /\ Cut(k, Cut(k, v[k])) = Cut(k, v[k])
    BY <1>1, CutIs, KnobsOfInput DEF Whole
  <2>2. file.values[k] = [json |-> JsonOf(k), v |-> Cut(k, v[k])]
    <3> HIDE DEF file, kept
    <3> QED BY <1>2 DEF Typed
  <2> HIDE DEF file, r, kept
  <2> QED BY <2>1, <2>2 DEF WellTyped
<1>4. r = [ok |-> TRUE, values |-> [k \in DOMAIN file.values |-> file.values[k].v]]
  <2> HIDE DEF file
  <2> QED BY <1>1, <1>2, <1>3 DEF LoadProfile
<1>5. r.ok /\ r.values = [k \in kept |-> Cut(k, v[k])]
  <2> HIDE DEF file, r
  <2> QED BY <1>2, <1>3, <1>4
<1>6. \A k \in ForInput(m) \ kept : Table[k].default = Cut(k, v[k])
  <2>1. \A k \in ForInput(m) \ kept : v[k] = Table[k].default
    BY <1>1
  <2> HIDE DEF kept
  <2> QED BY <2>1, CutIs, KnobsOfInput
<1>7. Over(r.values, Defaults(m)) = [k \in ForInput(m) |-> Cut(k, v[k])]
  <2>1. \A k \in ForInput(m) : k \in DOMAIN r.values <=> k \in kept
    <3> HIDE DEF r, kept
    <3> QED BY <1>5
  <2> HIDE DEF r, kept
  <2> QED BY <1>1, <1>5, <1>6 DEF Over, Defaults
<1> QED BY <1>1, <1>5, <1>7

\* Every knob the constructors look at, inside its slider's ends.
GoodConfig(c) == \A k \in Knobs \ {"beam_sigma_x"} : c[k] \in Int /\ InRange(k, c[k])

Row(k, lo, hi)       == k \in Knobs \ {"beam_sigma_x"} /\ Table[k].min = lo /\ Table[k].max = hi
Inside(c, k, lo, hi) == c[k] \in Int /\ lo <= c[k] /\ c[k] <= hi

LEMMA RowInside ==
  ASSUME NEW c, GoodConfig(c), NEW k, NEW lo, NEW hi, Row(k, lo, hi)
  PROVE  Inside(c, k, lo, hi)
BY DEF GoodConfig, InRange, Row, Inside

\* The ends, part by part: the low-pass filters and the separator,
LEMMA FilterRanges ==
  ASSUME NEW c, GoodConfig(c)
  PROVE  /\ Inside(c, "sync_cutoff", 300, 3000) /\ Inside(c, "uv_bandwidth", 200, 2600) /\ Inside(c, "sync_level", 500, 950)
         /\ Inside(c, "slice_depth", 20, 300)
<1>1. Row("sync_cutoff", 300, 3000)
  BY DEF Row, Knobs, Table, Slider
<1>2. Row("uv_bandwidth", 200, 2600)
  BY DEF Row, Knobs, Table, Slider
<1>3. Row("sync_level", 500, 950)
  BY DEF Row, Knobs, Table, Slider
<1>4. Row("slice_depth", 20, 300)
  BY DEF Row, Knobs, Table, Slider
<1> QED BY <1>1, <1>2, <1>3, <1>4, RowInside

\* the horizontal sweep,
LEMMA LineRanges ==
  ASSUME NEW c, GoodConfig(c)
  PROVE  /\ Inside(c, "h_kp", 0, 1000) /\ Inside(c, "h_acq_kp", 0, 1000) /\ Inside(c, "h_ki", 0, 50000)
         /\ Inside(c, "h_acq_ki", 0, 500000) /\ Inside(c, "h_clamp", 20, 300)
<1>1. Row("h_kp", 0, 1000)
  BY DEF Row, Knobs, Table, Slider
<1>2. Row("h_acq_kp", 0, 1000)
  BY DEF Row, Knobs, Table, Slider
<1>3. Row("h_ki", 0, 50000)
  BY DEF Row, Knobs, Table, Slider
<1>4. Row("h_acq_ki", 0, 500000)
  BY DEF Row, Knobs, Table, Slider
<1>5. Row("h_clamp", 20, 300)
  BY DEF Row, Knobs, Table, Slider
<1> QED BY <1>1, <1>2, <1>3, <1>4, <1>5, RowInside

\* the vertical sync,
LEMMA FieldRanges ==
  ASSUME NEW c, GoodConfig(c)
  PROVE  /\ Inside(c, "v_tc", 100, 3000) /\ Inside(c, "v_level", 100, 900) /\ Inside(c, "v_min_field", 0, 950)
         /\ Inside(c, "v_kp", 0, 1000) /\ Inside(c, "v_ki", 0, 100)
<1>1. Row("v_tc", 100, 3000)
  BY DEF Row, Knobs, Table, Slider
<1>2. Row("v_level", 100, 900)
  BY DEF Row, Knobs, Table, Slider
<1>3. Row("v_min_field", 0, 950)
  BY DEF Row, Knobs, Table, Slider
<1>4. Row("v_kp", 0, 1000)
  BY DEF Row, Knobs, Table, Slider
<1>5. Row("v_ki", 0, 100)
  BY DEF Row, Knobs, Table, Slider
<1> QED BY <1>1, <1>2, <1>3, <1>4, <1>5, RowInside

\* the burst gate and the reference oscillator,
LEMMA ChromaRanges ==
  ASSUME NEW c, GoodConfig(c)
  PROVE  /\ Inside(c, "burst_lo", 60, 240) /\ Inside(c, "burst_hi", 80, 280) /\ Inside(c, "ref_tc", 2, 100)
         /\ Inside(c, "ident_tc", 2, 3000) /\ Inside(c, "apc_catch", 0, 2000) /\ Inside(c, "apc_pull", 2, 200)
<1>1. Row("burst_lo", 60, 240)
  BY DEF Row, Knobs, Table, Slider
<1>2. Row("burst_hi", 80, 280)
  BY DEF Row, Knobs, Table, Slider
<1>3. Row("ref_tc", 2, 100)
  BY DEF Row, Knobs, Table, Slider
<1>4. Row("ident_tc", 2, 3000)
  BY DEF Row, Knobs, Table, Slider
<1>5. Row("apc_catch", 0, 2000)
  BY DEF Row, Knobs, Table, Slider
<1>6. Row("apc_pull", 2, 200)
  BY DEF Row, Knobs, Table, Slider
<1> QED BY <1>1, <1>2, <1>3, <1>4, <1>5, <1>6, RowInside

\* the tube,
LEMMA TubeRanges ==
  ASSUME NEW c, GoodConfig(c)
  PROVE  /\ Inside(c, "saturation", 0, 500) /\ Inside(c, "contrast", 400, 3000) /\ Inside(c, "beam_sigma", 0, 1200)
         /\ Inside(c, "persistence", 300, 6000) /\ Inside(c, "readout_gamma", 1000, 2600)
<1>1. Row("saturation", 0, 500)
  BY DEF Row, Knobs, Table, Slider
<1>2. Row("contrast", 400, 3000)
  BY DEF Row, Knobs, Table, Slider
<1>3. Row("beam_sigma", 0, 1200)
  BY DEF Row, Knobs, Table, Slider
<1>4. Row("persistence", 300, 6000)
  BY DEF Row, Knobs, Table, Slider
<1>5. Row("readout_gamma", 1000, 2600)
  BY DEF Row, Knobs, Table, Slider
<1> QED BY <1>1, <1>2, <1>3, <1>4, <1>5, RowInside

\* its supply,
LEMMA SupplyRanges ==
  ASSUME NEW c, GoodConfig(c)
  PROVE  /\ Inside(c, "eht_sag", 0, 250) /\ Inside(c, "eht_tc", 250, 10000) /\ Inside(c, "eht_focus", 0, 1000)
         /\ Inside(c, "line_pull", 0, 20)
<1>1. Row("eht_sag", 0, 250)
  BY DEF Row, Knobs, Table, Slider
<1>2. Row("eht_tc", 250, 10000)
  BY DEF Row, Knobs, Table, Slider
<1>3. Row("eht_focus", 0, 1000)
  BY DEF Row, Knobs, Table, Slider
<1>4. Row("line_pull", 0, 20)
  BY DEF Row, Knobs, Table, Slider
<1> QED BY <1>1, <1>2, <1>3, <1>4, RowInside

\* the beam limiters, and the picture's frame.
LEMMA BeamRanges ==
  ASSUME NEW c, GoodConfig(c)
  PROVE  /\ Inside(c, "bcl", 0, 1200) /\ Inside(c, "bcl_tc", 100, 5000) /\ Inside(c, "pwl", 0, 2000)
         /\ Inside(c, "overscan", -10, 150) /\ Inside(c, "h_shift", -50, 50) /\ Inside(c, "v_shift", -50, 50)
<1>1. Row("bcl", 0, 1200)
  BY DEF Row, Knobs, Table, Slider
<1>2. Row("bcl_tc", 100, 5000)
  BY DEF Row, Knobs, Table, Slider
<1>3. Row("pwl", 0, 2000)
  BY DEF Row, Knobs, Table, Slider
<1>4. Row("overscan", -10, 150)
  BY DEF Row, Knobs, Table, Slider
<1>5. Row("h_shift", -50, 50)
  BY DEF Row, Knobs, Table, Slider
<1>6. Row("v_shift", -50, 50)
  BY DEF Row, Knobs, Table, Slider
<1> QED BY <1>1, <1>2, <1>3, <1>4, <1>5, <1>6, RowInside

\* Rounded down.
LEMMA Quotient ==
  ASSUME NEW a \in Int, NEW n \in Nat, n > 0
  PROVE  a \div n \in Int /\ n * (a \div n) <= a /\ a < n * (a \div n) + n
OBVIOUS

LEMMA Times ==
  ASSUME NEW a \in Int, NEW b \in Int, NEW n \in Nat, a <= b
  PROVE  a * n \in Int /\ b * n \in Int /\ a * n <= b * n
OBVIOUS

\* A window a sweep and a quarter overshoot by at most its own span below and three fifths of it above.
Roomy(lo, hi) ==
  /\ lo \in Int /\ hi \in Int /\ 690 <= hi - lo /\ hi - lo <= 1000
  /\ 250 + lo <= hi - lo /\ 5 * (1250 - lo) <= 8 * (hi - lo)

\* So the beam lands no further than that outside the picture,
Near(at, size) == at \in Int /\ 0 <= at + size /\ 5 * at <= 8 * size

LEMMA LandsNear ==
  ASSUME NEW lo, NEW hi, Roomy(lo, hi), NEW size \in Nat, NEW p \in {-250, 1250}
  PROVE  Near(Landing(p, lo, hi, size), size)
<1> DEFINE span == hi - lo
           d    == p - lo
           a    == d * size
           b    == span * size
           q    == a \div span
           c    == span * q
<1>1. span \in Nat /\ span > 0 /\ d \in Int /\ 0 <= d + span /\ 5 * d <= 8 * span
  BY DEF Roomy
<1> HIDE DEF span, d
<1>2. a \in Int /\ b \in Int /\ 0 <= a + b /\ 5 * a <= 8 * b
  <2>1. 0 * size <= (d + span) * size /\ (5 * d) * size <= (8 * span) * size
    BY <1>1, Times
  <2>2. (d + span) * size = a + b /\ (5 * d) * size = 5 * a /\ (8 * span) * size = 8 * b /\ a \in Int /\ b \in Int
    BY <1>1
  <2> HIDE DEF a, b
  <2> QED BY <2>1, <2>2
<1>3. q \in Int /\ c <= a /\ a < c + span /\ c \in Int
  <2> HIDE DEF a
  <2> QED BY <1>1, <1>2, Quotient
<1>4. 5 * q <= 8 * size
  <2>1. ASSUME 8 * size + 1 <= 5 * q PROVE FALSE
    <3>1. (8 * size + 1) * span <= (5 * q) * span
      <4> HIDE DEF q
      <4> QED BY <1>1, <1>3, <2>1, Times
    <3>2. (8 * size + 1) * span = 8 * b + span /\ (5 * q) * span = 5 * c
      <4> HIDE DEF q
      <4> QED BY <1>1, <1>3
    <3> HIDE DEF a, b, c
    <3> QED BY <1>1, <1>2, <1>3, <3>1, <3>2
  <2> HIDE DEF q
  <2> QED BY <1>3, <2>1
<1>5. 0 <= q + size
  <2>1. ASSUME q + size + 1 <= 0 PROVE FALSE
    <3>1. (q + size + 1) * span <= 0 * span
      <4> HIDE DEF q
      <4> QED BY <1>1, <1>3, <2>1, Times
    <3>2. (q + size + 1) * span = c + b + span
      <4> HIDE DEF q
      <4> QED BY <1>1, <1>3
    <3> HIDE DEF a, b, c
    <3> QED BY <1>1, <1>2, <1>3, <3>1, <3>2
  <2> HIDE DEF q
  <2> QED BY <1>3, <2>1
<1>6. Landing(p, lo, hi, size) = q
  BY DEF Landing, span, d
<1> HIDE DEF q
<1> QED BY <1>3, <1>4, <1>5, <1>6 DEF Near

\* and the spread of the sliders' worst supply and pull, and the tilt, leave it on an int16.
Sized(size) == size \in Int /\ 1 <= size /\ size <= 16384
Spreads(g)  == g \in Int /\ 1000 <= g /\ g <= 1305

LEMMA TiltSmall ==
  ASSUME NEW size, Sized(size), NEW yoke \in {0, 1}, NEW g, Spreads(g), NEW n \in Nat, 172500 <= n
  PROVE  LET q == (yoke * size * g) \div n IN q \in Int /\ 0 <= q /\ q <= 124
<1> DEFINE a == yoke * size * g
           q == a \div n
<1>1. a \in Int /\ 0 <= a /\ a <= 21381120
  <2>1. /\ size * g \in Int /\ size * g <= 16384 * g /\ 0 * g <= size * g
        /\ size \in Int /\ g \in Int /\ g <= 1305
    BY Times DEF Sized, Spreads
  <2> DEFINE b == size * g
  <2>2. a = 0 \/ a = b
    <3>1. CASE yoke = 0
      BY <3>1, SMT DEF Sized, Spreads
    <3>2. CASE yoke = 1
      BY <3>2, SMT DEF Sized, Spreads
    <3> QED BY <3>1, <3>2
  <2>3. b \in Int /\ b <= 16384 * g /\ 0 <= b
    BY <2>1, SMT
  <2> HIDE DEF a, b
  <2> QED BY <2>1, <2>2, <2>3, SMT
<1> HIDE DEF a
<1>2. q \in Int /\ n * q <= a /\ a < n * q + n
  BY <1>1, Quotient, SMT
<1> HIDE DEF q
<1>3. 0 <= q
  <2>1. ASSUME q + 1 <= 0 PROVE FALSE
    <3>1. (q + 1) * n <= 0 * n
      BY <1>2, <2>1, Times, SMT
    <3> QED BY <1>1, <1>2, <3>1, SMT
  <2> QED BY <1>2, <2>1, SMT
<1>4. q <= 124
  <2>1. ASSUME 125 <= q PROVE FALSE
    <3>1. 125 * n <= q * n
      BY <1>2, <2>1, Times, SMT
    <3> QED BY <1>1, <1>2, <3>1, SMT
  <2> QED BY <1>2, <2>1, SMT
<1> QED BY <1>2, <1>3, <1>4 DEF q, a

LEMMA SpreadSmall ==
  ASSUME NEW size, Sized(size), NEW at, Near(at, size), NEW g, Spreads(g)
  PROVE  Spread(at, size, g) \in Int /\ 0 <= Spread(at, size, g) + 23881 /\ Spread(at, size, g) <= 31712
<1> DEFINE grown == g - 1000
           a     == 2 * at - size
           b     == a * grown
           s     == size * grown
           moved == b \div 2000
<1>1. at \in Int /\ 0 <= at + 16384 /\ at <= 26214 /\ size \in Int
  BY SMT DEF Near, Sized
<1>2. grown \in Nat /\ grown <= 305
  BY SMT DEF Spreads
<1>3. a \in Int /\ 5 * a <= 11 * size /\ 0 <= a + 3 * size
  BY <1>1, SMT DEF Near
<1> HIDE DEF grown, a
<1>4. s \in Int /\ s <= 4997120
  <2>1. s \in Int /\ s <= 16384 * grown
    BY <1>2, Times DEF Sized
  <2> HIDE DEF s
  <2> QED BY <1>2, <2>1, SMT
<1>5. b \in Int /\ 5 * b <= 11 * s /\ 0 <= b + 3 * s
  <2>1. (5 * a) * grown <= (11 * size) * grown /\ 0 * grown <= (a + 3 * size) * grown
    BY <1>1, <1>2, <1>3, Times
  <2>2. (5 * a) * grown = 5 * b /\ (11 * size) * grown = 11 * s /\ (a + 3 * size) * grown = b + 3 * s /\ b \in Int
    BY <1>1, <1>2, <1>3
  <2> HIDE DEF b, s
  <2> QED BY <1>2, <2>1, <2>2
<1> HIDE DEF b, s
<1>6. moved \in Int /\ moved <= 5497 /\ 0 <= moved + 7497
  BY <1>4, <1>5, SMT
<1>7. Spread(at, size, g) = at + moved
  BY DEF Spread, b, a, grown
<1> HIDE DEF moved
<1> QED BY <1>1, <1>6, <1>7, SMT

LEMMA FitsRoomy ==
  ASSUME NEW lo, NEW hi, Roomy(lo, hi), NEW size, Sized(size), NEW yoke \in {0, 1},
         NEW spreads, \A g \in spreads : Spreads(g)
  PROVE  BeamFits(lo, hi, size, spreads, yoke)
<1> DEFINE at(p)   == Landing(p, lo, hi, size)
           tilt(g) == (yoke * size * g) \div (250 * (hi - lo))
           n       == 250 * (hi - lo)
<1>1. ASSUME NEW p \in {-250, 1250} PROVE Near(at(p), size)
  <2>1. size \in Nat
    BY DEF Sized
  <2> QED BY <2>1, LandsNear
<1> HIDE DEF at
<1>2. ASSUME NEW p \in {-250, 1250}, NEW g \in spreads
      PROVE  Between(tilt(g) - CoordLimit, Spread(at(p), size, g), CoordLimit - tilt(g))
  <2>1. n \in Nat /\ 172500 <= n
    BY SMT DEF Roomy
  <2> HIDE DEF n
  <2> DEFINE t == (yoke * size * g) \div n
             x == Spread(at(p), size, g)
  <2>2. t \in Int /\ 0 <= t /\ t <= 124
    BY <2>1, TiltSmall
  <2>3. x \in Int /\ 0 <= x + 23881 /\ x <= 31712
    BY <1>1, SpreadSmall
  <2>4. t = tilt(g)
    BY DEF n
  <2> HIDE DEF tilt, t, x
  <2>5. Between(t - CoordLimit, x, CoordLimit - t)
    BY <2>2, <2>3, SMT DEF Between, CoordLimit
  <2> QED BY <2>4, <2>5 DEF x
<1> QED BY <1>2 DEF BeamFits, at

\* A set of numbers up to some number, such as the positions of a sequence, has a last one.
LEMMA LastOne ==
  ASSUME NEW n \in Nat, NEW S, S \subseteq 1 .. n, S # {}
  PROVE  \E i \in S : \A j \in S : j <= i
<1> DEFINE below == {ss \in Nat \X Nat : ss[1] < ss[2]}
           left  == {n - i : i \in S}
<1>1. IsWellFoundedOn(below, Nat)
  BY NatLessThanWellFounded DEF OpToRel
<1>2. left \subseteq Nat /\ left # {}
  <2>1. ASSUME NEW i \in S PROVE n - i \in Nat
    <3>1. i \in 1 .. n
      OBVIOUS
    <3> QED BY <3>1
  <2>2. left # {}
    <3>1. PICK i \in S : TRUE
      OBVIOUS
    <3>2. n - i \in left
      OBVIOUS
    <3> QED BY <3>2
  <2> QED BY <2>1, <2>2
<1>3. PICK x \in left : \A y \in left : << y, x >> \notin below
  <2> HIDE DEF below, left
  <2> QED BY <1>1, <1>2, WFMin
<1>4. PICK i \in S : x = n - i
  OBVIOUS
<1>5. ASSUME NEW j \in S PROVE j <= i
  <2>1. n - j \in left /\ n - j \in Nat /\ x \in Nat
    BY <1>2
  <2>2. ~(n - j < x)
    BY <1>3, <2>1
  <2> QED BY <1>4, <2>2
<1> QED BY <1>5

\* The worst of the sliders' droop.
LEMMA SwellIs ==
  ASSUME NEW sag \in Int, 0 <= sag, sag <= 250
  PROVE  Swell[sag] \in Int /\ 1000 <= Swell[sag] /\ Swell[sag] <= 1265
<1> DEFINE S == {g \in 1000 .. 2000 : Swells(sag, g)}
<1>1. ASSUME NEW g \in Int, 1266 <= g PROVE ~Swells(sag, g)
  <2> DEFINE a == g * g
             q == a \div 1000
             r == 2000 - 3 * sag
  <2>1. a \in Int /\ 1266 * g <= a
    BY <1>1, Times
  <2> HIDE DEF a
  <2>2. q \in Int /\ 1602 <= q
    BY <1>1, <2>1, SMT
  <2>3. r \in Nat /\ 1250 <= r
    BY SMT
  <2>4. Swells(sag, g) <=> q * r <= 2000000
    BY DEF Swells, a
  <2> HIDE DEF q, r
  <2>5. 1602 * r <= q * r /\ q * r \in Int
    BY <2>2, <2>3, Times, SMT
  <2> DEFINE s == q * r
  <2>6. 1602 * r <= s /\ s \in Int
    BY <2>5
  <2> HIDE DEF s
  <2>7. ~(s <= 2000000)
    BY <2>3, <2>6, SMT
  <2> QED BY <2>4, <2>7 DEF s
<1>2. Swells(sag, 1000)
  BY SMT DEF Swells
<1>3. PICK g \in S : \A h \in S : h <= g
  <2> DEFINE top == 2000
  <2>1. S \subseteq 1 .. top /\ S # {} /\ top \in Nat
    BY <1>2, SMT
  <2> HIDE DEF S, top
  <2> QED BY <2>1, LastOne, Zenon
<1>4. Swells(sag, g) /\ ~Swells(sag, g + 1) /\ g \in 1000 .. 2000
  <2>1. Swells(sag, g) /\ g \in 1000 .. 2000
    OBVIOUS
  <2>2. ASSUME Swells(sag, g + 1) PROVE FALSE
    <3>1. g \in Int /\ g + 1 \in Int /\ ~(1266 <= g + 1) /\ 1000 <= g
      BY <1>1, <2>1, <2>2, SMT
    <3>2. g + 1 \in 1000 .. 2000
      BY <3>1, SMT
    <3>3. g + 1 \in S
      BY <2>2, <3>2
    <3> HIDE DEF S
    <3> QED BY <1>3, <3>1, <3>3, SMT
  <2> QED BY <2>1, <2>2
<1>5. Swell[sag] = GreatestSwell(sag)
  <2>1. sag \in 0 .. 499
    BY SMT
  <2> QED BY <2>1 DEF Swell
<1>6. Swell[sag] \in 1000 .. 2000 /\ Swells(sag, Swell[sag])
  <2> DEFINE Turn(h) == Swells(sag, h) /\ ~Swells(sag, h + 1)
             range   == 1000 .. 2000
  <2>1. GreatestSwell(sag) = CHOOSE h \in range : Turn(h)
    BY DEF GreatestSwell
  <2>2. g \in range /\ Turn(g)
    BY <1>4
  <2>3. Swell[sag] \in range /\ Turn(Swell[sag])
    <3> HIDE DEF range, Turn
    <3> QED BY <1>5, <2>1, <2>2
  <2>4. Swells(sag, Swell[sag])
    <3> HIDE DEF range
    <3> QED BY <2>3
  <2> HIDE DEF Turn
  <2>5. Swell[sag] \in range
    <3> HIDE DEF range
    <3> QED BY <2>3
  <2> QED BY <2>4, <2>5, SMTT(30)
<1>7. Swell[sag] \in Int /\ 1000 <= Swell[sag]
  <2>1. Swell[sag] \in 1000 .. 2000
    BY <1>6
  <2> HIDE DEF S
  <2> QED BY <2>1, SMTT(30)
<1>8. ~(1266 <= Swell[sag])
  BY <1>1, <1>6, <1>7
<1> QED BY <1>7, <1>8, SMT

\* No slider of any picture that size puts the beam off an int16.
LEMMA BeamStays ==
  ASSUME NEW c, GoodConfig(c), NEW width, Sized(width), NEW height, Sized(height)
  PROVE  BeamInRange(c, width, height)
<1> DEFINE g       == (Swell[c["eht_sag"]] * (2000 + 3 * c["line_pull"])) \div 2000
           spreads == {1000, g}
           w       == Window(c)
<1>1. Spreads(g)
  <2> DEFINE swell == Swell[c["eht_sag"]]
             pull  == 2000 + 3 * c["line_pull"]
             a     == swell * pull
  <2>1. swell \in Int /\ 1000 <= swell /\ swell <= 1265
    <3>1. Inside(c, "eht_sag", 0, 250)
      BY SupplyRanges
    <3> QED BY <3>1, SwellIs DEF Inside
  <2>2. pull \in Nat /\ 2000 <= pull /\ pull <= 2060
    <3>1. Inside(c, "line_pull", 0, 20)
      BY SupplyRanges
    <3> QED BY <3>1, SMT DEF Inside
  <2>3. g = a \div 2000
    OBVIOUS
  <2> HIDE DEF swell, pull, g
  <2>4. a \in Int /\ 1000 * pull <= a /\ a <= 1265 * pull
    BY <2>1, <2>2, Times
  <2> HIDE DEF a
  <2> QED BY <2>2, <2>3, <2>4, SMT DEF Spreads
<1>2. Roomy(w[1], w[2]) /\ Roomy(w[3], w[4])
  <2> DEFINE o == c["overscan"]
             h == c["h_shift"]
             v == c["v_shift"]
             x == (o * 813) \div 2000
             y == (o * 920) \div 2000
  <2>1. /\ o \in Int /\ 0 <= o + 10 /\ o <= 150
        /\ h \in Int /\ 0 <= h + 50 /\ h <= 50
        /\ v \in Int /\ 0 <= v + 50 /\ v <= 50
    <3>1. Inside(c, "overscan", -10, 150) /\ Inside(c, "h_shift", -50, 50) /\ Inside(c, "v_shift", -50, 50)
      BY BeamRanges
    <3> QED BY <3>1, SMT DEF Inside
  <2>2. /\ o < 0 => w = << 0 - h, 1000 - h, 0 - v, 1000 - v >>
        /\ ~(o < 0) => w = << (148 + x) - h, (961 - x) - h, (80 + y) - v, (1000 - y) - v >>
    BY SMT DEF Window
  <2> HIDE DEF o, h, v
  <2>3. CASE o < 0
    <3>1. w = << 0 - h, 1000 - h, 0 - v, 1000 - v >>
      <4> HIDE DEF w
      <4> QED BY <2>2, <2>3
    <3> HIDE DEF w
    <3>2. Roomy(0 - h, 1000 - h) /\ Roomy(0 - v, 1000 - v)
      BY <2>1, SMT DEF Roomy
    <3> QED BY <3>1, <3>2
  <2>4. CASE ~(o < 0)
    <3>1. x \in Int /\ 0 <= x /\ x <= 60 /\ y \in Int /\ 0 <= y /\ y <= 69
      BY <2>1, <2>4, SMT
    <3>2. w = << (148 + x) - h, (961 - x) - h, (80 + y) - v, (1000 - y) - v >>
      <4> HIDE DEF w, x, y
      <4> QED BY <2>2, <2>4
    <3> HIDE DEF x, y, w
    <3>3. Roomy((148 + x) - h, (961 - x) - h) /\ Roomy((80 + y) - v, (1000 - y) - v)
      BY <2>1, <3>1, SMT DEF Roomy
    <3> QED BY <3>2, <3>3
  <2> QED BY <2>3, <2>4
<1>3. \A s \in spreads : Spreads(s)
  <2>1. Spreads(1000)
    BY SMT DEF Spreads
  <2> HIDE DEF g
  <2> QED BY <1>1, <2>1
<1> HIDE DEF g, spreads, w
<1>4. BeamFits(w[1], w[2], width, spreads, 0) /\ BeamFits(w[3], w[4], height, spreads, 1)
  BY <1>2, <1>3, FitsRoomy
<1> QED BY <1>4 DEF BeamInRange, spreads, g, w

\* Every set inside the sliders passes every check of the constructors but one, in any picture of a size they take.
LEMMA Accepted ==
  ASSUME NEW c, GoodConfig(c), NEW rate \in Nat, 2 * SubcarrierKHz < rate,
         NEW width \in Nat \ {0}, NEW height \in Nat \ {0}
  PROVE  /\ ~FramingRefused(c)
         /\ DecoderAccepts(c, rate, width, height) <=> GateOpensFirst(c) /\ width <= 16384 /\ height <= 16384
<1> USE DEF Between, Inside
<1> HIDE DEF GoodConfig
<1>1. ~FramingRefused(c)
  BY BeamRanges DEF FramingRefused
<1>2. LowpassAccepts(c["sync_cutoff"], rate) /\ LowpassAccepts(c["uv_bandwidth"], rate)
  BY FilterRanges DEF LowpassAccepts, SubcarrierKHz
<1>3. SeparatorAccepts(c)
  BY FilterRanges DEF SeparatorAccepts
<1>4. HorizontalAccepts(c, rate)
  <2>1. 2 * 16 < rate
    BY DEF SubcarrierKHz
  <2>2. Between(0, c["h_kp"], 1000) /\ Between(0, c["h_acq_kp"], 1000)
    BY LineRanges
  <2>3. c["h_ki"] >= 0 /\ c["h_acq_ki"] >= 0
    BY LineRanges
  <2>4. Between(1, c["h_clamp"], 999)
    BY LineRanges
  <2> HIDE DEF Between
  <2> QED BY <2>1, <2>2, <2>3, <2>4 DEF HorizontalAccepts
<1>5. VerticalAccepts(c, rate)
  <2>1. c["v_tc"] * rate >= 100 * rate
    BY FieldRanges
  <2>2. 100 * rate >= 15625 /\ c["v_tc"] * rate \in Int
    BY FieldRanges DEF SubcarrierKHz
  <2>3. c["v_tc"] * rate >= 15625
    BY <2>1, <2>2
  <2> QED BY <2>3, FieldRanges DEF VerticalAccepts
<1>6. ChromaAccepts(c, rate) <=> GateOpensFirst(c)
  BY ChromaRanges DEF ChromaAccepts, GateOpensFirst
<1>7. ScreenAccepts(c, width, height) <=> width <= 16384 /\ height <= 16384
  <2>1. Window(c)[1] < Window(c)[2] /\ Window(c)[3] < Window(c)[4]
    BY BeamRanges DEF Window
  <2>2. c["saturation"] >= 0 /\ c["contrast"] >= 0 /\ c["beam_sigma"] >= 0
    BY TubeRanges
  <2>3. Between(1, c["persistence"], 64000) /\ c["readout_gamma"] > 0
    BY TubeRanges
  <2>4. /\ Between(0, c["eht_sag"], 499) /\ LineOrMore(c["eht_tc"]) /\ Between(0, c["eht_focus"], 1000)
        /\ Between(0, c["line_pull"], 99)
    BY SupplyRanges DEF LineOrMore
  <2>5. Between(0, c["bcl"], 1500) /\ LineOrMore(c["bcl_tc"]) /\ Between(0, c["pwl"], 4000)
    BY BeamRanges DEF LineOrMore
  <2>6. width <= 16384 /\ height <= 16384 => BeamInRange(c, width, height)
    <3>1. ASSUME NEW n \in Nat \ {0}, n <= 16384 PROVE Sized(n)
      BY <3>1, SMT DEF Sized
    <3> QED BY <3>1, BeamStays
  <2> HIDE DEF Between
  <2> QED BY <2>1, <2>2, <2>3, <2>4, <2>5, <2>6 DEF ScreenAccepts
<1> QED BY <1>1, <1>2, <1>3, <1>4, <1>5, <1>6, <1>7 DEF DecoderAccepts

-----------------------------------------------------------------------------
(* Render's own checks.                                                    *)

\* Arguments of the input's own, each inside its slider or unset.
Sound(m, b) == \A k \in Knobs \cap DOMAIN b : OrdinaryFlag(m, k, b[k]) /\ b[k].v \in Int

\* The configuration render makes of them is inside every slider.
LEMMA ConfigInside ==
  ASSUME NEW cmd, NEW b, Sound(Mode(cmd), b) PROVE GoodConfig(Config(cmd, b))
<1> DEFINE adaptive == Says(b, "agc") /\ b["agc"].v = Index(1)
           saw90    == Says(b, "if") /\ b["if"].v = Index(1)
           usual(k) == RenderDefault(Mode(cmd), adaptive, saw90, k)
<1>1. Config(cmd, b) = [k \in Knobs |-> IF Says(b, k) THEN b[k].v
                                        ELSE IF k = "comb_mode" /\ cmd.noDelayLine THEN 0 ELSE usual(k)]
  BY DEF Config
<1>2. ASSUME NEW k \in Knobs, Says(b, k) PROVE b[k].v \in Int /\ InRange(k, b[k].v)
  BY <1>2 DEF Says, Sound, OrdinaryFlag, WellTyped
<1>3. \A k \in Knobs \ {"beam_sigma_x"} : usual(k) \in Int /\ InRange(k, usual(k))
  BY DefaultInRange
<1>4. "comb_mode" \in Knobs /\ InRange("comb_mode", 0)
  BY SMTT(60) DEF Knobs, Table, Choice, Index, InRange
<1> HIDE DEF usual
<1> QED BY <1>1, <1>2, <1>3, <1>4 DEF GoodConfig

\* Nothing of another input mode's, no choice out of its list.
LEMMA NoConflict ==
  ASSUME NEW cmd, NEW b, Sound(Mode(cmd), b), Mode(cmd) \in InputModes,
         Mode(cmd) = "composite" => ~(cmd.carrier > 0) /\ ~cmd.scan
  PROVE  /\ ~ModeConflict(cmd, b)
         /\ ~BadChoice(b, {"if", "detector"}) /\ ~BadChoice(b, {"agc"}) /\ ~BadChoice(b, {"comb_mode"})
<1>1. RfOnly \cup CompositeOnly \cup {"if", "detector", "agc", "comb_mode"} \subseteq Knobs
  BY SMTT(60) DEF Knobs, Table, RfOnly, CompositeOnly
<1>2. \A k \in Knobs \cap DOMAIN b : k \in ForInput(Mode(cmd))
  BY DEF Sound, OrdinaryFlag
<1>3. ~ModeConflict(cmd, b)
  <2>1. CASE Mode(cmd) = "composite"
    <3>1. DOMAIN b \cap RfOnly = {}
      BY <1>1, <1>2, <2>1 DEF ForInput
    <3> QED BY <2>1, <3>1 DEF ModeConflict, Says, RfOnly
  <2>2. CASE Mode(cmd) # "composite"
    <3>1. DOMAIN b \cap CompositeOnly = {}
      BY <1>1, <1>2, <2>2 DEF ForInput
    <3> QED BY <2>2, <3>1 DEF ModeConflict, Says
  <2> QED BY <2>1, <2>2
<1>4. ASSUME NEW k \in {"if", "detector", "agc", "comb_mode"}, k \in DOMAIN b PROVE WellTyped(k, b[k])
  <2>1. OrdinaryFlag(Mode(cmd), k, b[k])
    BY <1>1, <1>4 DEF Sound
  <2>2. Meant(k, b[k].v)
    BY DEF Meant, CompositeOnly
  <2> QED BY <2>1, <2>2 DEF OrdinaryFlag, WellTyped
<1> QED BY <1>3, <1>4 DEF BadChoice

\* So render refuses a sound command line for its burst gate, a picture too big, or not at all.
LEMMA VerdictIs ==
  ASSUME NEW cmd, NEW b, Sound(Mode(cmd), b), Mode(cmd) \in InputModes,
         Mode(cmd) = "composite" => ~(cmd.carrier > 0) /\ ~cmd.scan,
         cmd.width \in Nat \ {0}, cmd.height \in Nat \ {0}, ~LiveConflict(cmd), ~cmd.noSync,
         EnvelopeRate(cmd) \in Nat, 2 * SubcarrierKHz < EnvelopeRate(cmd)
  PROVE  Verdict(cmd, b, Config(cmd, b)) =
           IF GateOpensFirst(Config(cmd, b)) /\ SplatsFit(cmd) THEN "runs" ELSE "config"
<1> DEFINE c == Config(cmd, b)
           rate == EnvelopeRate(cmd)
           accepted == DecoderAccepts(c, rate, cmd.width, cmd.height)
<1>1. GoodConfig(c)
  BY ConfigInside
<1>2. rate \in Nat /\ 2 * SubcarrierKHz < rate
  OBVIOUS
<1> HIDE DEF c, rate
<1>3. ~FramingRefused(c) /\ (accepted <=> GateOpensFirst(c) /\ SplatsFit(cmd))
  BY <1>1, <1>2, Accepted DEF SplatsFit
<1>4. /\ ~ModeConflict(cmd, b)
      /\ ~BadChoice(b, {"if", "detector"}) /\ ~BadChoice(b, {"agc"}) /\ ~BadChoice(b, {"comb_mode"})
  BY NoConflict
<1>5. cmd.width # 0 /\ cmd.height # 0
  OBVIOUS
<1>6. Verdict(cmd, b, c) = IF accepted THEN "runs" ELSE "config"
  BY <1>3, <1>4, <1>5, Zenon DEF Verdict, rate
<1> HIDE DEF accepted
<1>7. Verdict(cmd, b, c) = IF GateOpensFirst(c) /\ SplatsFit(cmd) THEN "runs" ELSE "config"
  BY <1>3, <1>6
<1> QED BY <1>7 DEF c

\* The flags either tool makes of a whole set are sound, and say int() of all of it but a toggle at zero.
LEMMA FlagsOf ==
  ASSUME NEW m, NEW v, Whole(m, v), NEW b, b = AsFlags(ForInput(m), v)
  PROVE  /\ DOMAIN b = {k \in ForInput(m) : k = "colour" => Cut(k, v[k]) # 0}
         /\ \A k \in DOMAIN b : b[k] = [json |-> JsonOf(k), v |-> Cut(k, v[k])]
         /\ Sound(m, b)
<1>1. ForInput(m) \subseteq Knobs
  BY DEF ForInput
<1>2. b = [k \in {g \in ForInput(m) : Table[g].kind = "toggle" => Cut(g, v[g]) # 0} |->
             [json |-> JsonOf(k), v |-> Cut(k, v[k])]]
  BY DEF AsFlags, Typed
<1>3. {g \in ForInput(m) : Table[g].kind = "toggle" => Cut(g, v[g]) # 0} =
      {k \in ForInput(m) : k = "colour" => Cut(k, v[k]) # 0}
  BY <1>1, Kinds
<1>4. /\ DOMAIN b = {k \in ForInput(m) : k = "colour" => Cut(k, v[k]) # 0}
      /\ \A k \in DOMAIN b : b[k] = [json |-> JsonOf(k), v |-> Cut(k, v[k])]
  BY <1>2, <1>3
<1>5. Sound(m, b)
  <2>1. SUFFICES ASSUME NEW k \in DOMAIN b PROVE OrdinaryFlag(m, k, b[k]) /\ b[k].v \in Int
    BY DEF Sound
  <2>2. k \in ForInput(m) /\ b[k].json = JsonOf(k) /\ b[k].v = Cut(k, v[k])
    <3>1. k \in ForInput(m)
      BY <1>4
    <3>2. b[k] = [json |-> JsonOf(k), v |-> Cut(k, v[k])]
      BY <1>4
    <3> QED BY <3>1, <3>2
  <2>3. Cut(k, v[k]) \in Int /\ InRange(k, Cut(k, v[k])) /\ Cut(k, Cut(k, v[k])) = Cut(k, v[k])
    BY <1>1, <2>2, CutIs DEF Whole
  <2> QED BY <2>2, <2>3 DEF OrdinaryFlag, WellTyped
<1> QED BY <1>4, <1>5

\* Sound arguments parse.
LEMMA SoundFits ==
  ASSUME NEW m, NEW f, NEW arg, OrdinaryFlag(m, Canonical(f), arg)
  PROVE  Fits(f, arg)
<1> DEFINE k == Canonical(f)
<1> HIDE DEF k
<1>1. k \in Knobs /\ arg.json = JsonOf(k)
  BY DEF OrdinaryFlag, WellTyped, ForInput, k
<1>2. Table[k].kind \in {"slider", "choice", "toggle"}
  BY <1>1, Kinds
<1>3. (Table[k].kind = "toggle" <=> arg.json = "bool") /\ (Table[k].kind = "slider" => arg.json = "number")
  BY <1>1, <1>2 DEF JsonOf
<1> QED BY <1>1, <1>3 DEF Fits, k

\* Over nothing, a function stays what it is.
LEMMA OverNothing ==
  ASSUME NEW b, b = [k \in DOMAIN b |-> b[k]]
  PROVE  Over(b, << >>) = b
BY DEF Over

\* What either tool's decoder makes of a whole set: it runs, but for a gate that never opens.
LEMMA ToolVerdictIs ==
  ASSUME NEW t \in {"live", "tune"}, NEW m \in InputModes, NEW v, Whole(m, v)
  PROVE  ToolVerdict(t, m, v) = IF GateOpensFirst(v) THEN "runs" ELSE "config"
<1> DEFINE b   == AsFlags(ForInput(m), v)
           cmd == ToolCommand(t, m, b)
           c   == Config(cmd, b)
<1>1. ToolFlags(t, m, v) = [ok |-> TRUE, args |-> b]
  <2>1. DOMAIN v = ForInput(m) /\ \A k \in ForInput(m) : InRange(k, Cut(k, v[k]))
    BY DEF Whole
  <2>2. ForInput(m) \cap DOMAIN v = ForInput(m)
    BY <2>1
  <2> QED BY <2>1, <2>2 DEF ToolFlags, FlagsFor
<1>2. /\ DOMAIN b = {k \in ForInput(m) : k = "colour" => Cut(k, v[k]) # 0}
      /\ \A k \in DOMAIN b : b[k] = [json |-> JsonOf(k), v |-> Cut(k, v[k])]
      /\ Sound(m, b)
  BY FlagsOf
<1>3. /\ ~cmd.help /\ cmd.given = b /\ ~cmd.profiles /\ cmd.specs = << >>
      /\ cmd.width \in {720, 643} /\ cmd.height = 576 /\ ~cmd.noSync /\ ~cmd.scan /\ cmd.rate = 20000
  BY DEF ToolCommand
<1>4. /\ cmd.live = (t = "live") /\ cmd.frameFd = (t = "live")
      /\ cmd.decimate = (IF t = "live" THEN 1 ELSE 0)
      /\ cmd.carrier = (IF t = "live" /\ m = "rf" THEN 3000 ELSE 0)
      /\ cmd.input = (IF m = "composite" \/ t = "tune" THEN m ELSE "absent")
  BY DEF ToolCommand
<1> HIDE DEF b, cmd
<1>5. Mode(cmd) = m
  BY <1>4 DEF Mode, InputModes
<1>6. EnvelopeRate(cmd) = 20000
  <2>1. AutoDecimate(20000) = 1
    BY DEF AutoDecimate, SubcarrierKHz
  <2> QED BY <1>3, <1>4, <2>1 DEF EnvelopeRate
<1>7. ~LiveConflict(cmd) /\ (m = "composite" => ~(cmd.carrier > 0) /\ ~cmd.scan)
  <2>1. m = "composite" => cmd.carrier = 0
    BY <1>4
  <2>2. t = "live" /\ m = "rf" => cmd.carrier # 0
    BY <1>4
  <2>3. /\ ~cmd.noSync /\ ~cmd.scan /\ cmd.rate # 0
        /\ (t = "live" => cmd.frameFd) /\ (cmd.live => t = "live")
    <3>1. ~cmd.noSync /\ ~cmd.scan
      BY <1>3
    <3>2. (t = "live" => cmd.frameFd) /\ (cmd.live => t = "live")
      BY <1>4, Zenon
    <3> QED BY <1>3, <3>1, <3>2
  <2>4. cmd.live => ~(Mode(cmd) = "rf" /\ cmd.carrier = 0)
    BY <1>5, <2>2, <2>3
  <2>5. ~LiveConflict(cmd)
    BY <2>3, <2>4, Zenon DEF LiveConflict
  <2>6. m = "composite" => ~(cmd.carrier > 0)
    BY <2>1
  <2> QED BY <2>3, <2>5, <2>6
<1>8. Verdict(cmd, b, c) = IF GateOpensFirst(c) THEN "runs" ELSE "config"
  <2>1. Verdict(cmd, b, c) = IF GateOpensFirst(c) /\ SplatsFit(cmd) THEN "runs" ELSE "config"
    BY <1>2, <1>3, <1>7, <1>5, <1>6, VerdictIs DEF SubcarrierKHz
  <2>2. SplatsFit(cmd)
    BY <1>3 DEF SplatsFit
  <2> QED BY <2>1, <2>2
<1>9. GateOpensFirst(c) <=> GateOpensFirst(v)
  <2>1. {"burst_lo", "burst_hi"} \subseteq ForInput(m) \cap Knobs
    BY SMTT(60) DEF ForInput, Knobs, Table, RfOnly, CompositeOnly
  <2>2. ASSUME NEW k \in {"burst_lo", "burst_hi"} PROVE c[k] = v[k]
    <3>1. k \in DOMAIN b /\ b[k].v = v[k] /\ k \in Knobs
      <4>1. k \in ForInput(m) /\ k \in Knobs /\ k # "colour"
        BY <2>1
      <4>2. k \in DOMAIN b
        BY <1>2, <4>1
      <4>3. b[k] = [json |-> JsonOf(k), v |-> Cut(k, v[k])]
        BY <1>2, <4>2
      <4>4. Cut(k, v[k]) = v[k]
        <5>1. Table[k].kind = "slider"
          BY DEF Table, Slider
        <5> QED BY <4>1, <5>1, CutIs
      <4> QED BY <4>1, <4>2, <4>3, <4>4
    <3>2. Says(b, k)
      BY <3>1 DEF Says, Meant, CompositeOnly
    <3> QED BY <3>1, <3>2 DEF Config
  <2> HIDE DEF c
  <2> QED BY <2>2 DEF GateOpensFirst
<1>10. Expansion(cmd, << >>) = [ok |-> TRUE, tokens |-> << >>]
  BY <1>3 DEF Expansion
<1>11. Parses(cmd.given, << >>)
  <2>1. DOMAIN b \subseteq Knobs
    BY <1>2 DEF ForInput
  <2>2. ASSUME NEW f \in DOMAIN b PROVE Fits(f, b[f])
    <3>1. Canonical(f) = f /\ OrdinaryFlag(m, f, b[f])
      BY <1>2, <2>1, Kinds DEF Canonical, Sound
    <3> QED BY <3>1, SoundFits
  <2> QED BY <1>3, <2>1, <2>2, Kinds DEF Parses
<1>12. Bound(Over(cmd.given, << >>)) = b
  <2>1. b = [k \in DOMAIN b |-> b[k]]
    BY DEF b, AsFlags
  <2>2. "color" \notin DOMAIN b
    BY <1>2, Kinds DEF ForInput
  <2> QED BY <1>3, <2>1, <2>2, OverNothing DEF Bound
<1>13. Render(cmd, << >>).verdict = Verdict(cmd, b, c)
  <2> HIDE DEF c
  <2>1. Config(cmd, b) = c
    BY DEF c
  <2> QED BY <1>3, <1>10, <1>11, <1>12, <2>1 DEF Render
<1>14. ToolVerdict(t, m, v) = Render(cmd, << >>).verdict
  BY <1>1 DEF ToolVerdict, cmd
<1> QED BY <1>8, <1>9, <1>13, <1>14

-----------------------------------------------------------------------------
(* The profiles of a command line, file over file.                         *)

\* What holds of zero, and of the next number with each, holds of all.
LEMMA AllNumbers ==
  ASSUME NEW S, S \subseteq Nat, 0 \in S, \A n \in S : n + 1 \in S PROVE S = Nat
<1> DEFINE below == {ss \in Nat \X Nat : ss[1] < ss[2]}
           rest  == Nat \ S
<1>1. IsWellFoundedOn(below, Nat)
  BY NatLessThanWellFounded DEF OpToRel
<1>2. ASSUME rest # {} PROVE FALSE
  <2>1. PICK x \in rest : \A y \in rest : << y, x >> \notin below
    <3>1. rest \subseteq Nat
      OBVIOUS
    <3> HIDE DEF below, rest
    <3> QED BY <1>1, <1>2, <3>1, WFMin
  <2>2. x \in Nat /\ x # 0 /\ x - 1 \in Nat
    OBVIOUS
  <2>3. x - 1 \notin rest
    <3>1. x - 1 < x
      BY <2>2
    <3> HIDE DEF rest
    <3> QED BY <2>1, <2>2, <3>1
  <2>4. x - 1 \in S /\ (x - 1) + 1 = x
    BY <2>2, <2>3
  <2>5. x \in S
    BY <2>4
  <2> QED BY <2>1, <2>5
<1> QED BY <1>2

\* The merge of the first n files says, of every knob one of them names, what the last to name it says.
Latest(files, n, k, j) ==
  j \in 1 .. n /\ k \in DOMAIN files[j].values /\ \A i \in 1 .. n : k \in DOMAIN files[i].values => i <= j
Merges(files, n, g) ==
  \A k : /\ k \in DOMAIN g <=> \E j \in 1 .. n : k \in DOMAIN files[j].values
         /\ k \in DOMAIN g => \E j \in 1 .. n : Latest(files, n, k, j) /\ g[k] = files[j].values[k]

\* One more file laid over a merge is the merge of one more.
LEMMA OneMore ==
  ASSUME NEW files, NEW n \in Nat, NEW g, Merges(files, n, g)
  PROVE  Merges(files, n + 1, Over(files[n + 1].values, g))
<1> DEFINE f == files[n + 1].values
           h == Over(f, g)
<1>1. /\ DOMAIN h = DOMAIN f \cup DOMAIN g
      /\ \A k \in DOMAIN h : h[k] = IF k \in DOMAIN f THEN f[k] ELSE g[k]
  <2> HIDE DEF f
  <2> QED BY DEF Over
<1>2. ASSUME NEW k
      PROVE  k \in DOMAIN h <=> \E j \in 1 .. n + 1 : k \in DOMAIN files[j].values
  <2>1. k \in DOMAIN g <=> \E j \in 1 .. n : k \in DOMAIN files[j].values
    BY DEF Merges
  <2>2. \A j : j \in 1 .. n + 1 <=> j \in 1 .. n \/ j = n + 1
    OBVIOUS
  <2> HIDE DEF h
  <2> QED BY <1>1, <2>1, <2>2
<1>3. ASSUME NEW k, k \in DOMAIN h
      PROVE  \E j \in 1 .. n + 1 : Latest(files, n + 1, k, j) /\ h[k] = files[j].values[k]
  <2>1. CASE k \in DOMAIN f
    <3>1. Latest(files, n + 1, k, n + 1)
      BY <2>1 DEF Latest
    <3>2. h[k] = f[k] /\ n + 1 \in 1 .. n + 1
      <4> HIDE DEF f, h
      <4> QED BY <1>1, <1>3, <2>1
    <3> QED BY <3>1, <3>2
  <2>2. CASE k \notin DOMAIN f
    <3>1. k \in DOMAIN g /\ h[k] = g[k]
      <4> HIDE DEF f, h
      <4> QED BY <1>1, <1>3, <2>2
    <3>2. PICK j \in 1 .. n : Latest(files, n, k, j) /\ g[k] = files[j].values[k]
      BY <3>1 DEF Merges
    <3>3. Latest(files, n + 1, k, j)
      <4>1. \A i : i \in 1 .. n + 1 => i \in 1 .. n \/ i = n + 1
        OBVIOUS
      <4> QED BY <2>2, <3>2, <4>1 DEF Latest
    <3> HIDE DEF h
    <3> QED BY <3>1, <3>2, <3>3
  <2> QED BY <2>1, <2>2
<1> HIDE DEF h
<1>4. Merges(files, n + 1, h)
  BY <1>2, <1>3 DEF Merges
<1> QED BY <1>4 DEF h

\* Merged, whatever the number of files.
LEMMA MergedIs ==
  ASSUME NEW files, Len(files) \in Nat PROVE Merges(files, Len(files), Merged(files))
<1> DEFINE n == Len(files)
           next(g, i)   == IF i = 0 THEN << >> ELSE Over(files[i].values, g[i - 1])
           Upto(g, m)   == g = [i \in 0 .. m |-> next(g, i)]
           reached      == {m \in Nat : \E g : Upto(g, m)}
<1>1. reached = Nat
  <2>1. 0 \in reached
    <3> DEFINE g == [i \in 0 .. 0 |-> << >>]
    <3>1. g = [i \in 0 .. 0 |-> next(g, i)]
      OBVIOUS
    <3> QED BY <3>1
  <2>2. ASSUME NEW m \in reached PROVE m + 1 \in reached
    <3>1. m \in Nat /\ \E g : Upto(g, m)
      OBVIOUS
    <3>2. PICK g : g = [i \in 0 .. m |-> next(g, i)]
      BY <3>1
    <3> DEFINE h == [i \in 0 .. m + 1 |-> IF i = m + 1 THEN Over(files[m + 1].values, g[m]) ELSE g[i]]
    <3>3. ASSUME NEW i \in 0 .. m + 1 PROVE h[i] = next(h, i)
      <4>1. CASE i = m + 1
        <5>1. i # 0 /\ i - 1 = m /\ m \in 0 .. m + 1 /\ m # m + 1
          BY <3>1, <4>1
        <5>2. h[i] = Over(files[i].values, g[m]) /\ h[m] = g[m]
          BY <4>1, <5>1
        <5> HIDE DEF h
        <5> QED BY <5>1, <5>2
      <4>2. CASE i # m + 1
        <5>1. i \in 0 .. m /\ (i # 0 => i - 1 \in 0 .. m + 1 /\ i - 1 # m + 1)
          BY <3>1, <4>2
        <5>2. h[i] = g[i] /\ (i # 0 => h[i - 1] = g[i - 1])
          BY <4>2, <5>1
        <5>3. g[i] = next(g, i)
          BY <3>2, <5>1
        <5> HIDE DEF h
        <5> QED BY <5>2, <5>3
      <4> QED BY <4>1, <4>2
    <3>4. h = [i \in 0 .. m + 1 |-> h[i]]
      OBVIOUS
    <3> HIDE DEF h
    <3>5. h = [i \in 0 .. m + 1 |-> next(h, i)]
      BY <3>3, <3>4
    <3> QED BY <3>1, <3>5
  <2>3. reached \subseteq Nat
    OBVIOUS
  <2> HIDE DEF reached
  <2> QED BY <2>1, <2>2, <2>3, AllNumbers
<1> DEFINE upTo == CHOOSE g : g = [i \in 0 .. n |-> next(g, i)]
<1>2. Merged(files) = upTo[n]
  BY DEF Merged
<1>3. upTo = [i \in 0 .. n |-> next(upTo, i)]
  <2>1. \E g : g = [i \in 0 .. n |-> next(g, i)]
    BY <1>1
  <2> HIDE DEF n, next
  <2> QED BY <2>1
<1> HIDE DEF upTo
<1> DEFINE good == {i \in Nat : i <= n => Merges(files, i, upTo[i])}
<1>4. good = Nat
  <2>1. 0 \in good
    <3>1. upTo[0] = << >>
      BY <1>3
    <3>2. Merges(files, 0, << >>)
      BY DEF Merges
    <3> QED BY <3>1, <3>2
  <2>2. ASSUME NEW i \in good PROVE i + 1 \in good
    <3>1. SUFFICES ASSUME i + 1 <= n PROVE Merges(files, i + 1, upTo[i + 1])
      OBVIOUS
    <3>2. i \in Nat /\ i <= n /\ i + 1 \in 0 .. n
      BY <3>1
    <3>3. Merges(files, i, upTo[i])
      BY <3>2
    <3>4. upTo[i + 1] = next(upTo, i + 1)
      <4> HIDE DEF next
      <4> QED BY <1>3, <3>2
    <3>5. next(upTo, i + 1) = Over(files[i + 1].values, upTo[i])
      <4>1. i + 1 # 0 /\ (i + 1) - 1 = i
        BY <3>2
      <4> QED BY <4>1
    <3> HIDE DEF next
    <3> QED BY <3>2, <3>3, <3>4, <3>5, OneMore
  <2>3. good \subseteq Nat
    OBVIOUS
  <2> HIDE DEF good
  <2> QED BY <2>1, <2>2, <2>3, AllNumbers
<1>5. Merges(files, n, upTo[n])
  BY <1>4
<1> QED BY <1>2, <1>5

\* A file load_profile takes, of whole numbers.
Loads(m, file) ==
  /\ LoadProfile(file, ForInput(m), m).ok
  /\ \A k \in DOMAIN file.values : file.values[k].v \in Int

\* render takes it too unless its input is null, and what it names could be a slider's
\* (profile_args.cpp against knobs.py 345-388).
LEMMA LoadsIs ==
  ASSUME NEW m \in InputModes, NEW file, Loads(m, file)
  PROVE  /\ FileFails(file, m) <=> file.input = "null"
         /\ \A k \in DOMAIN file.values : k \in ForInput(m) /\ WellTyped(k, file.values[k]) /\ file.values[k].v \in Int
<1>1. /\ file.parses /\ file.input \in {"absent", "null", m} /\ m # "null"
      /\ \A k \in DOMAIN file.values : k \in ForInput(m) /\ WellTyped(k, file.values[k])
  BY DEF Loads, LoadProfile, Refused, InputModes
<1>2. ASSUME NEW k \in DOMAIN file.values PROVE file.values[k].json \in {"bool", "string", "number"}
  <2>1. k \in Knobs /\ file.values[k].json = JsonOf(k)
    BY <1>1 DEF WellTyped, ForInput
  <2>2. Table[k].kind \in {"slider", "choice", "toggle"}
    BY <2>1, Kinds
  <2> QED BY <2>1, <2>2 DEF JsonOf
<1> QED BY <1>1, <1>2 DEF FileFails, Loads

\* What the parser leaves for a knob: the flag of either spelling, or the profiles' token.
LEMMA BoundAt ==
  ASSUME NEW given, NEW tokens, DOMAIN tokens \subseteq Knobs, \A k \in DOMAIN tokens : ~UserHas(given, k),
         ~({"colour", "color"} \subseteq DOMAIN given), NEW b, b = Bound(Over(given, tokens)), NEW k \in Knobs
  PROVE  /\ k \in DOMAIN b <=> k \in DOMAIN tokens \/ \E f \in DOMAIN given : Canonical(f) = k
         /\ \A f \in DOMAIN given : Canonical(f) = k => b[k] = given[f]
         /\ k \in DOMAIN tokens => b[k] = tokens[k]
<1> DEFINE a == Over(given, tokens)
<1>1. /\ DOMAIN a = DOMAIN given \cup DOMAIN tokens
      /\ \A f \in DOMAIN a : a[f] = IF f \in DOMAIN given THEN given[f] ELSE tokens[f]
  BY DEF Over
<1>2. k # "color" /\ "color" \notin DOMAIN tokens
  BY Kinds
<1>3. CASE "color" \in DOMAIN given
  <2>1. b = Over([x \in {"colour"} |-> a["color"]], a)
    <3> HIDE DEF a
    <3> QED BY <1>1, <1>3 DEF Bound, a
  <2>2. /\ DOMAIN b = {"colour"} \cup DOMAIN a
        /\ \A x \in DOMAIN b : b[x] = IF x = "colour" THEN a["color"] ELSE a[x]
    <3> HIDE DEF a
    <3> QED BY <2>1 DEF Over
  <2>3. "colour" \notin DOMAIN given /\ "colour" \notin DOMAIN tokens /\ a["color"] = given["color"]
    <3> HIDE DEF a
    <3> QED BY <1>1, <1>3 DEF UserHas
  <2>4. \A f \in DOMAIN given : Canonical(f) = IF f = "color" THEN "colour" ELSE f
    BY DEF Canonical
  <2> HIDE DEF a
  <2>5. k \in DOMAIN tokens => k \notin DOMAIN given
    BY DEF UserHas
  <2> QED BY <1>1, <1>2, <1>3, <2>2, <2>3, <2>4, <2>5
<1>4. CASE "color" \notin DOMAIN given
  <2>1. b = a
    <3> HIDE DEF a
    <3> QED BY <1>1, <1>2, <1>4 DEF Bound, a
  <2>2. \A f \in DOMAIN given : Canonical(f) = f
    BY <1>4 DEF Canonical
  <2>3. k \in DOMAIN tokens => k \notin DOMAIN given
    BY DEF UserHas
  <2> HIDE DEF a
  <2> QED BY <1>1, <2>1, <2>2, <2>3
<1> QED BY <1>3, <1>4

\* The files a command line names, as a sequence.
FilesOf(cmd) == [i \in DOMAIN cmd.specs |-> store[cmd.specs[i]]]

LEMMA FilesSeq ==
  ASSUME NEW cmd \in Commands
  PROVE  Len(FilesOf(cmd)) \in Nat /\ DOMAIN cmd.specs = 1 .. Len(FilesOf(cmd))
<1> DEFINE n == Len(cmd.specs)
           all == {store[cmd.specs[i]] : i \in 1 .. n}
<1>1. n \in Nat /\ DOMAIN cmd.specs = 1 .. n
  BY TuningAssumption
<1>2. FilesOf(cmd) \in [1 .. n -> all]
  BY <1>1 DEF FilesOf
<1>3. FilesOf(cmd) \in Seq(all)
  <2> HIDE DEF all, n
  <2> QED BY <1>1, <1>2
<1>4. Len(FilesOf(cmd)) \in Nat /\ DOMAIN FilesOf(cmd) = 1 .. Len(FilesOf(cmd))
  <2> HIDE DEF all, n
  <2> QED BY <1>3
<1>5. DOMAIN FilesOf(cmd) = DOMAIN cmd.specs
  BY DEF FilesOf
<1> QED BY <1>4, <1>5

\* What expand_profiles passes on: for every knob a file names and the user does not,
\* the last such file's value, but no toggle that is off.
Passed(cmd, tokens) ==
  LET n       == Len(FilesOf(cmd))
      said(j) == store[cmd.specs[j]].values
  IN  /\ \A k \in DOMAIN tokens :
           /\ ~UserHas(cmd.given, k) /\ k \in ForInput(Mode(cmd)) /\ WellTyped(k, tokens[k]) /\ tokens[k].v \in Int
           /\ \E j \in 1 .. n : Latest(FilesOf(cmd), n, k, j) /\ tokens[k] = said(j)[k]
      /\ \A k : \A j \in 1 .. n : Latest(FilesOf(cmd), n, k, j) /\ ~UserHas(cmd.given, k) =>
           k \in DOMAIN tokens \/ (k = "colour" /\ said(j)[k].v = 0)

LEMMA TokensOf ==
  ASSUME NEW cmd \in Commands, ~cmd.help, cmd.specs # << >>,
         Mode(cmd) \in InputModes, ~NamesNull(cmd),
         \A i \in DOMAIN cmd.specs : Loads(Mode(cmd), store[cmd.specs[i]]),
         NEW tokens, tokens = Tokens(cmd.given, Merged(FilesOf(cmd)))
  PROVE  Expansion(cmd, store) = [ok |-> TRUE, tokens |-> tokens] /\ Passed(cmd, tokens)
<1> DEFINE files  == FilesOf(cmd)
           m      == Mode(cmd)
           given  == cmd.given
           merged == Merged(files)
           n      == Len(files)
           said(j) == store[cmd.specs[j]]
<1>1. n \in Nat /\ DOMAIN cmd.specs = 1 .. n /\ DOMAIN files = 1 .. n /\ \A j \in 1 .. n : files[j] = said(j)
  BY FilesSeq DEF FilesOf
<1>2. ASSUME NEW j \in 1 .. n
      PROVE  /\ ~FileFails(files[j], m)
             /\ \A k \in DOMAIN files[j].values :
                  k \in ForInput(m) /\ WellTyped(k, files[j].values[k]) /\ files[j].values[k].v \in Int
  <2>1. Loads(m, files[j]) /\ files[j].input # "null" /\ m \in InputModes
    BY <1>1 DEF NamesNull
  <2> HIDE DEF files, m
  <2> QED BY <2>1, LoadsIs
<1>3. Merges(files, n, merged)
  <2>1. Len(files) \in Nat /\ n = Len(files)
    BY <1>1
  <2> HIDE DEF files
  <2> QED BY <2>1, MergedIs DEF merged
<1>4. Expansion(cmd, store) = [ok |-> TRUE, tokens |-> tokens]
  <2>1. ~\E i \in DOMAIN files : FileFails(files[i], m)
    BY <1>1, <1>2
  <2>2. Expansion(cmd, store) = IF \E i \in DOMAIN files : FileFails(files[i], m) THEN Refused ELSE [ok |-> TRUE, tokens |-> tokens]
    BY DEF Expansion, FilesOf
  <2> HIDE DEF files, m
  <2> QED BY <2>1, <2>2
<1> HIDE DEF files, m, given, merged
<1>5. tokens = [k \in {key \in DOMAIN merged : ~UserHas(given, key) /\ (merged[key].json = "bool" => merged[key].v # 0)} |-> merged[k]]
  BY DEF Tokens, given, merged, files
<1>6. ASSUME NEW k \in DOMAIN tokens
      PROVE  /\ ~UserHas(given, k) /\ k \in ForInput(m) /\ WellTyped(k, tokens[k]) /\ tokens[k].v \in Int
             /\ \E j \in 1 .. n : Latest(files, n, k, j) /\ tokens[k] = files[j].values[k]
  <2>1. k \in DOMAIN merged /\ ~UserHas(given, k) /\ tokens[k] = merged[k]
    BY <1>5
  <2>2. PICK j \in 1 .. n : Latest(files, n, k, j) /\ merged[k] = files[j].values[k]
    BY <1>3, <2>1 DEF Merges
  <2>3. k \in DOMAIN files[j].values
    BY <2>2 DEF Latest
  <2> QED BY <1>2, <2>1, <2>2, <2>3
<1>7. ASSUME NEW k, NEW j \in 1 .. n, Latest(files, n, k, j), ~UserHas(given, k), k \notin DOMAIN tokens
      PROVE  k = "colour" /\ files[j].values[k].v = 0
  <2>1. k \in DOMAIN files[j].values
    BY <1>7 DEF Latest
  <2>2. k \in DOMAIN merged
    BY <1>3, <2>1 DEF Merges
  <2>3. PICK i \in 1 .. n : Latest(files, n, k, i) /\ merged[k] = files[i].values[k]
    BY <1>3, <2>2 DEF Merges
  <2>4. i = j
    <3>1. i \in Nat /\ j \in Nat /\ i <= j /\ j <= i
      BY <1>1, <1>7, <2>3 DEF Latest
    <3> QED BY <3>1
  <2>5. merged[k].json = "bool" /\ merged[k].v = 0
    BY <1>5, <1>7, <2>2
  <2>6. k \in Knobs /\ JsonOf(k) = "bool"
    BY <1>2, <2>1, <2>3, <2>4, <2>5 DEF WellTyped, ForInput
  <2>7. Table[k].kind = "toggle"
    <3>1. Table[k].kind \in {"slider", "choice", "toggle"}
      BY <2>6, Kinds
    <3> QED BY <2>6, <3>1 DEF JsonOf
  <2>8. k = "colour"
    BY <2>6, <2>7, Kinds
  <2> QED BY <2>3, <2>4, <2>5, <2>8
<1>8. \A j \in 1 .. n : files[j].values = said(j).values
  BY <1>1
<1> HIDE DEF said
<1>9. Passed(cmd, tokens)
  <2>1. \A j : said(j).values = store[cmd.specs[j]].values
    BY DEF said
  <2> QED BY <1>6, <1>7, <1>8, <2>1 DEF Passed, files, m, given, n
<1> QED BY <1>4, <1>9

\* The choices and the defaults that lean on them agree with the configuration they end up in.
LEMMA ConfigIs ==
  ASSUME NEW cmd, NEW b, NEW c, c = Config(cmd, b), NEW k \in Knobs
  PROVE  c[k] = IF Says(b, k) THEN b[k].v
                ELSE IF k = "comb_mode" /\ cmd.noDelayLine THEN 0
                ELSE RenderDefault(Mode(cmd), c["agc"] = Index(1), c["if"] = Index(1), k)
<1> DEFINE adaptive == Says(b, "agc") /\ b["agc"].v = Index(1)
           saw90    == Says(b, "if") /\ b["if"].v = Index(1)
           usual(x) == RenderDefault(Mode(cmd), adaptive, saw90, x)
<1>1. \A x \in Knobs : c[x] = IF Says(b, x) THEN b[x].v
                              ELSE IF x = "comb_mode" /\ cmd.noDelayLine THEN 0 ELSE usual(x)
  BY DEF Config
<1>2. /\ "agc" \in Knobs /\ "if" \in Knobs /\ Table["agc"].default = 0 /\ Table["if"].default = 0 /\ Index(1) # 0
  <2>1. "agc" \in Knobs /\ "if" \in Knobs
    BY DEF Knobs, Table
  <2>2. Table["agc"].default = 0
    BY DEF Table, Choice, Index
  <2>3. Table["if"].default = 0
    BY DEF Table, Choice, Index
  <2>4. Index(1) # 0
    BY DEF Index
  <2> QED BY <2>1, <2>2, <2>3, <2>4
<1>3. usual("agc") = 0 /\ usual("if") = 0
  BY <1>2 DEF RenderDefault
<1> HIDE DEF usual
<1>4. (adaptive <=> c["agc"] = Index(1)) /\ (saw90 <=> c["if"] = Index(1))
  BY <1>1, <1>2, <1>3
<1> HIDE DEF adaptive, saw90
<1>5. usual(k) = RenderDefault(Mode(cmd), c["agc"] = Index(1), c["if"] = Index(1), k)
  BY <1>4 DEF RenderDefault, usual
<1> QED BY <1>1, <1>5

\* An ordinary command line on files the tools would load: it parses, its arguments
\* are sound, and render turns it down for its gate, a picture too big, or not at all.
LEMMA OrdinaryRender ==
  ASSUME NEW cmd \in Commands, OrdinaryUse(cmd), ~NamesNull(cmd),
         \A i \in DOMAIN cmd.specs : Loads(Mode(cmd), store[cmd.specs[i]]),
         NEW tokens, tokens = Tokens(cmd.given, Merged(FilesOf(cmd))),
         NEW b, b = Bound(Over(cmd.given, tokens)), NEW c, c = Config(cmd, b)
  PROVE  Render(cmd, store) = [verdict |-> IF GateOpensFirst(c) /\ SplatsFit(cmd) THEN "runs" ELSE "config", config |-> c]
<1> DEFINE m == Mode(cmd)
           given == cmd.given
           n == Len(FilesOf(cmd))
<1>1. /\ ~cmd.help /\ cmd.specs # << >> /\ ~cmd.live /\ ~cmd.noSync /\ cmd.width > 0 /\ cmd.height > 0
      /\ m \in InputModes /\ (m = "composite" => cmd.carrier = 0 /\ ~cmd.scan)
      /\ 2 * SubcarrierKHz < EnvelopeRate(cmd)
      /\ \A f \in DOMAIN given : OrdinaryFlag(m, Canonical(f), given[f])
      /\ ~({"colour", "color"} \subseteq DOMAIN given)
  BY DEF OrdinaryUse
<1>2. /\ cmd.rate \in Nat /\ cmd.decimate \in Nat /\ cmd.width \in Nat /\ cmd.height \in Nat
      /\ \A f \in DOMAIN given : given[f].v \in Int
  BY TuningAssumption
<1>3. /\ Expansion(cmd, store) = [ok |-> TRUE, tokens |-> tokens]
      /\ \A k \in DOMAIN tokens :
           ~UserHas(given, k) /\ k \in ForInput(m) /\ WellTyped(k, tokens[k]) /\ tokens[k].v \in Int
  <2>1. Expansion(cmd, store) = [ok |-> TRUE, tokens |-> tokens] /\ Passed(cmd, tokens)
    BY <1>1, TokensOf
  <2> QED BY <2>1 DEF Passed
<1> HIDE DEF m, given
<1>4. \A k \in DOMAIN tokens : k \in Knobs /\ OrdinaryFlag(m, k, tokens[k]) /\ Canonical(k) = k
  BY <1>3, Kinds DEF ForInput, OrdinaryFlag, Canonical
<1>5. \A f \in DOMAIN given : Canonical(f) \in Knobs
  BY <1>1 DEF OrdinaryFlag, ForInput
<1>6. Parses(given, tokens)
  <2>1. \A f \in DOMAIN given : Fits(f, given[f])
    BY <1>1, SoundFits
  <2>2. \A f \in DOMAIN tokens : Fits(f, tokens[f])
    BY <1>4, SoundFits
  <2>3. ASSUME NEW f \in DOMAIN given, Canonical(f) \in DOMAIN tokens PROVE FALSE
    <3>1. ~UserHas(given, Canonical(f))
      BY <1>3, <2>3
    <3> QED BY <2>3, <3>1 DEF UserHas, Canonical
  <2> QED BY <1>1, <2>1, <2>2, <2>3 DEF Parses
<1>7. Sound(m, b)
  <2>1. SUFFICES ASSUME NEW k \in Knobs, k \in DOMAIN b PROVE OrdinaryFlag(m, k, b[k]) /\ b[k].v \in Int
    BY DEF Sound
  <2>2. DOMAIN tokens \subseteq Knobs /\ \A x \in DOMAIN tokens : ~UserHas(given, x)
    BY <1>3, <1>4
  <2>3. b = Bound(Over(given, tokens))
    BY DEF given
  <2>4. /\ k \in DOMAIN tokens \/ \E f \in DOMAIN given : Canonical(f) = k
        /\ \A f \in DOMAIN given : Canonical(f) = k => b[k] = given[f]
        /\ k \in DOMAIN tokens => b[k] = tokens[k]
    BY <1>1, <2>1, <2>2, <2>3, BoundAt
  <2>5. CASE k \in DOMAIN tokens
    BY <1>3, <1>4, <2>4, <2>5
  <2>6. CASE \E f \in DOMAIN given : Canonical(f) = k
    BY <1>1, <1>2, <2>4, <2>6 DEF given
  <2> QED BY <2>4, <2>5, <2>6
<1>8. EnvelopeRate(cmd) \in Nat
  <2> DEFINE by == IF cmd.decimate > 0 THEN cmd.decimate ELSE AutoDecimate(cmd.rate)
  <2>1. by \in Nat /\ by > 0
    <3>1. AutoDecimate(cmd.rate) \in Nat /\ AutoDecimate(cmd.rate) > 0
      BY <1>2 DEF AutoDecimate, SubcarrierKHz
    <3> QED BY <1>2, <3>1
  <2> HIDE DEF by
  <2>2. cmd.rate \div by \in Nat
    BY <1>2, <2>1
  <2> QED BY <2>2 DEF EnvelopeRate, by
<1>9. Verdict(cmd, b, c) = IF GateOpensFirst(c) /\ SplatsFit(cmd) THEN "runs" ELSE "config"
  <2>1. cmd.width \in Nat \ {0} /\ cmd.height \in Nat \ {0} /\ ~LiveConflict(cmd) /\ ~cmd.noSync
    BY <1>1, <1>2 DEF LiveConflict
  <2>2. Mode(cmd) = "composite" => ~(cmd.carrier > 0) /\ ~cmd.scan
    BY <1>1 DEF m
  <2>3. Sound(Mode(cmd), b) /\ Mode(cmd) \in InputModes
    BY <1>1, <1>7 DEF m
  <2> QED BY <1>1, <1>8, <2>1, <2>2, <2>3, VerdictIs
<1>10. Parses(cmd.given, tokens)
  BY <1>6 DEF given
<1>11. Render(cmd, store) = [verdict |-> Verdict(cmd, b, c), config |-> c]
  BY <1>1, <1>3, <1>10 DEF Render
<1> QED BY <1>9, <1>11

\* One file whose input is null, and render is over.
LEMMA NullFails ==
  ASSUME NEW cmd, OrdinaryUse(cmd), NamesNull(cmd) PROVE Render(cmd, store).verdict = "profile"
<1> DEFINE files == FilesOf(cmd)
<1>1. ~cmd.help /\ cmd.specs # << >> /\ Mode(cmd) # "null"
  BY DEF OrdinaryUse, InputModes
<1>2. PICK i \in DOMAIN cmd.specs : files[i].input = "null"
  BY DEF NamesNull, FilesOf
<1>3. i \in DOMAIN files /\ FileFails(files[i], Mode(cmd))
  BY <1>1, <1>2 DEF FileFails, FilesOf
<1>4. Expansion(cmd, store) = Refused
  BY <1>1, <1>3 DEF Expansion, FilesOf
<1> QED BY <1>4 DEF Render, Refused

\* Each knob of the input is what docs/render.md says: flag, then the last profile to name it, then default.
LEMMA ExpectedIs ==
  ASSUME NEW cmd \in Commands, OrdinaryUse(cmd), ~NamesNull(cmd),
         \A i \in DOMAIN cmd.specs : Loads(Mode(cmd), store[cmd.specs[i]]),
         NEW tokens, tokens = Tokens(cmd.given, Merged(FilesOf(cmd))),
         NEW b, b = Bound(Over(cmd.given, tokens)), NEW c, c = Config(cmd, b),
         NEW k \in ForInput(Mode(cmd))
  PROVE  c[k] = Expected(cmd, c, k)
<1> DEFINE m == Mode(cmd)
           given == cmd.given
           files == FilesOf(cmd)
           n     == Len(files)
           said(j) == store[cmd.specs[j]].values
           flag  == CHOOSE f \in Spelt(cmd, k) : TRUE
           last  == CHOOSE i \in Naming(cmd, k) : \A j \in Naming(cmd, k) : j <= i
           usual == IF k = "comb_mode" /\ cmd.noDelayLine THEN 0
                    ELSE RenderDefault(Mode(cmd), c["agc"] = Index(1), c["if"] = Index(1), k)
<1>1. k \in Knobs
  BY DEF ForInput
<1>2. c[k] = IF Says(b, k) THEN b[k].v ELSE usual
  BY <1>1, ConfigIs
<1>3. Expected(cmd, c, k) =
        CASE Spelt(cmd, k) # {} /\ Meant(k, given[flag].v) -> given[flag].v
          [] Spelt(cmd, k) = {} /\ Naming(cmd, k) # {} -> said(last)[k].v
          [] OTHER -> usual
  BY DEF Expected
<1>4. ~cmd.help /\ cmd.specs # << >> /\ ~({"colour", "color"} \subseteq DOMAIN given) /\ Mode(cmd) \in InputModes
  BY DEF OrdinaryUse
<1>5. /\ n \in Nat /\ DOMAIN cmd.specs = 1 .. n
      /\ \A x \in DOMAIN tokens :
           /\ ~UserHas(given, x) /\ x \in ForInput(m) /\ WellTyped(x, tokens[x]) /\ tokens[x].v \in Int
           /\ \E j \in 1 .. n : Latest(files, n, x, j) /\ tokens[x] = said(j)[x]
      /\ \A x : \A j \in 1 .. n : Latest(files, n, x, j) /\ ~UserHas(given, x) =>
              x \in DOMAIN tokens \/ (x = "colour" /\ said(j)[x].v = 0)
  <2>1. n \in Nat /\ DOMAIN cmd.specs = 1 .. n
    BY FilesSeq
  <2>2. Passed(cmd, tokens)
    BY <1>4, TokensOf
  <2> QED BY <2>1, <2>2 DEF Passed
<1>6. /\ k \in DOMAIN b <=> k \in DOMAIN tokens \/ \E f \in DOMAIN given : Canonical(f) = k
      /\ \A f \in DOMAIN given : Canonical(f) = k => b[k] = given[f]
      /\ k \in DOMAIN tokens => b[k] = tokens[k]
  <2>1. DOMAIN tokens \subseteq Knobs /\ \A x \in DOMAIN tokens : ~UserHas(given, x)
    BY <1>5 DEF ForInput
  <2> QED BY <1>1, <1>4, <2>1, BoundAt
<1>7. Spelt(cmd, k) = {f \in DOMAIN given : Canonical(f) = k}
  BY DEF Spelt
<1>8. UserHas(given, k) <=> Spelt(cmd, k) # {}
  <2>1. k # "color"
    BY <1>1, Kinds
  <2> HIDE DEF given
  <2> QED BY <1>7, <2>1 DEF UserHas, Canonical
<1>9. /\ Naming(cmd, k) = {i \in 1 .. n : k \in DOMAIN said(i)}
      /\ \A j : Latest(files, n, k, j) <=> j \in Naming(cmd, k) /\ \A i \in Naming(cmd, k) : i <= j
  <2>1. Naming(cmd, k) = {i \in 1 .. n : k \in DOMAIN said(i)}
    BY <1>5 DEF Naming
  <2>2. \A i \in 1 .. n : files[i].values = said(i)
    BY <1>5 DEF FilesOf
  <2> HIDE DEF files, n, said
  <2> QED BY <2>1, <2>2 DEF Latest
<1> HIDE DEF m, given, files, n, said, usual
<1>10. CASE Spelt(cmd, k) # {}
  <2>1. flag \in DOMAIN given /\ Canonical(flag) = k
    BY <1>7, <1>10
  <2> HIDE DEF flag, last
  <2>2. k \in DOMAIN b /\ b[k] = given[flag]
    BY <1>6, <2>1
  <2>3. CASE Meant(k, given[flag].v)
    BY <1>2, <1>3, <1>10, <2>2, <2>3 DEF Says
  <2>4. CASE ~Meant(k, given[flag].v)
    BY <1>2, <1>3, <1>10, <2>2, <2>4 DEF Says
  <2> QED BY <2>3, <2>4
<1>11. CASE Spelt(cmd, k) = {} /\ Naming(cmd, k) # {}
  <2>1. \E i \in Naming(cmd, k) : \A j \in Naming(cmd, k) : j <= i
    BY <1>5, <1>9, <1>11, LastOne
  <2>2. last \in Naming(cmd, k) /\ \A j \in Naming(cmd, k) : j <= last
    BY <2>1
  <2> HIDE DEF flag, last
  <2>3. last \in 1 .. n /\ Latest(files, n, k, last)
    BY <1>9, <2>2
  <2>4. Expected(cmd, c, k) = said(last)[k].v
    BY <1>3, <1>11
  <2>5. CASE k \in DOMAIN tokens
    <3>1. PICK j \in 1 .. n : Latest(files, n, k, j) /\ tokens[k] = said(j)[k]
      BY <1>5, <2>5
    <3>2. j = last
      <4>1. j \in Nat /\ last \in Nat /\ j <= last /\ last <= j
        BY <1>5, <1>9, <2>2, <2>3, <3>1
      <4> QED BY <4>1
    <3>3. Meant(k, tokens[k].v)
      BY <1>1, <1>5, <2>5, MeantInRange DEF WellTyped
    <3>4. Says(b, k) /\ b[k] = tokens[k]
      BY <1>6, <2>5, <3>3 DEF Says
    <3> QED BY <1>2, <2>4, <3>1, <3>2, <3>4
  <2>6. CASE k \notin DOMAIN tokens
    <3>1. k = "colour" /\ said(last)[k].v = 0
      BY <1>5, <1>8, <1>11, <2>3, <2>6
    <3>2. ~Says(b, k)
      BY <1>6, <1>7, <1>11, <2>6 DEF Says
    <3>3. usual = 0
      BY <3>1 DEF usual, RenderDefault
    <3> QED BY <1>2, <2>4, <3>1, <3>2, <3>3
  <2> QED BY <2>5, <2>6
<1>12. CASE Spelt(cmd, k) = {} /\ Naming(cmd, k) = {}
  <2>1. k \notin DOMAIN tokens
    BY <1>5, <1>9, <1>12
  <2>2. ~Says(b, k)
    BY <1>6, <1>7, <1>12, <2>1 DEF Says
  <2> HIDE DEF flag, last
  <2> QED BY <1>2, <1>3, <1>12, <2>2
<1> QED BY <1>10, <1>11, <1>12

\* Where render's default is not the table's.
LEMMA DefaultsDifferIs ==
  ASSUME NEW m \in InputModes, NEW v, NEW k \in ForInput(m)
  PROVE  RenderDefault(m, Cut("agc", v["agc"]) = Index(1), m = "rf" /\ Cut("if", v["if"]) = Index(1), k) # Table[k].default
         <=> k \in DefaultsDiffer(m, v)
BY SMTT(100) DEF RenderDefault, DefaultsDiffer, ForInput, Knobs, Table, Slider, Choice, Toggle, Index, InputModes,
                 RfOnly, CompositeOnly

\* A saved set, played back by render from its one file.
LEMMA PlaybackIs ==
  ASSUME NEW cmd \in Commands, Len(cmd.specs) = 1, cmd.given = << >>, ~cmd.noDelayLine,
         NEW m \in InputModes, NEW was, Whole(m, was), store[cmd.specs[1]] = ProfileJson(was, m),
         Render(cmd, store).verdict = "runs", NEW k \in ForInput(m)
  PROVE  Render(cmd, store).config[k] # Cut(k, was[k]) <=> k \in DefaultsDiffer(m, was) /\ was[k] = Table[k].default
<1> DEFINE file   == store[cmd.specs[1]]
           files  == FilesOf(cmd)
           tokens == Tokens(cmd.given, Merged(files))
           b      == Bound(Over(cmd.given, tokens))
           c      == Config(cmd, b)
           kept   == {x \in ForInput(m) : was[x] # Table[x].default}
<1>1. cmd.specs # << >> /\ DOMAIN cmd.specs = {1} /\ Len(files) = 1 /\ DOMAIN files = {1} /\ files[1] = file
  <2>1. DOMAIN cmd.specs = 1 .. 1
    BY TuningAssumption
  <2>2. Len(files) \in Nat /\ DOMAIN cmd.specs = 1 .. Len(files)
    BY FilesSeq
  <2>3. Len(files) = 1
    <3>1. 1 \in 1 .. Len(files) /\ Len(files) \in 1 .. 1
      <4> HIDE DEF files
      <4>1. Len(files) # 0
        BY <2>1, <2>2
      <4> QED BY <2>1, <2>2, <4>1
    <3> HIDE DEF files
    <3> QED BY <2>2, <3>1
  <2>4. DOMAIN files = DOMAIN cmd.specs /\ files[1] = file
    BY <2>1 DEF FilesOf
  <2> HIDE DEF files
  <2> QED BY <2>1, <2>3, <2>4
<1>2. /\ DOMAIN file.values = kept /\ file.input = m /\ file.parses
      /\ \A x \in kept : file.values[x].v = Cut(x, was[x]) /\ Cut(x, was[x]) \in Int
  <2>1. file = [parses |-> TRUE, input |-> m, values |-> [x \in {y \in DOMAIN was : was[y] # Table[y].default} |->
                  [json |-> JsonOf(x), v |-> Cut(x, was[x])]]]
    BY DEF ProfileJson, File, Typed
  <2>2. DOMAIN was = ForInput(m)
    BY DEF Whole
  <2>3. \A x \in kept : Cut(x, was[x]) \in Int
    BY CutIs, KnobsOfInput DEF Whole
  <2> HIDE DEF file
  <2> QED BY <2>1, <2>2, <2>3
<1>3. Loads(m, file)
  <2>1. LoadProfile(file, ForInput(m), m).ok
    BY RoundTrip
  <2> HIDE DEF file, kept
  <2> QED BY <1>2, <2>1 DEF Loads
<1> HIDE DEF file, files
<1>4. ~cmd.help
  <2>1. cmd.help => Expansion(cmd, store).ok
    BY DEF Expansion
  <2> QED BY <2>1 DEF Render
<1>5. Mode(cmd) = m
  <2>1. SUFFICES ASSUME Mode(cmd) # m PROVE FALSE
    OBVIOUS
  <2>2. m # "absent"
    BY DEF InputModes
  <2>3. FileFails(files[1], Mode(cmd))
    BY <1>1, <1>2, <2>1, <2>2 DEF FileFails
  <2>4. Expansion(cmd, store) = Refused
    BY <1>1, <1>4, <2>3 DEF Expansion, files, FilesOf
  <2> QED BY <2>4 DEF Render, Refused
<1>6. Expansion(cmd, store) = [ok |-> TRUE, tokens |-> tokens] /\ Passed(cmd, tokens)
  <2>1. \A i \in DOMAIN cmd.specs : Loads(Mode(cmd), store[cmd.specs[i]])
    BY <1>1, <1>3, <1>5 DEF file
  <2>2. ~NamesNull(cmd)
    <3>1. m # "null"
      BY DEF InputModes
    <3>2. \A i \in DOMAIN cmd.specs : store[cmd.specs[i]].input = m
      BY <1>1, <1>2 DEF file
    <3> QED BY <3>1, <3>2 DEF NamesNull
  <2> QED BY <1>1, <1>4, <1>5, <2>1, <2>2, TokensOf DEF files
<1> HIDE DEF tokens
<1>7. Render(cmd, store).config = c
  <2>1. Render(cmd, store) = IF ~Parses(cmd.given, tokens) THEN [verdict |-> "parse", config |-> << >>]
                             ELSE [verdict |-> Verdict(cmd, b, c), config |-> c]
    BY <1>4, <1>6 DEF Render
  <2> HIDE DEF c, b
  <2> QED BY <2>1
<1>8. /\ \A x \in DOMAIN tokens : x \in kept /\ tokens[x] = file.values[x]
      /\ \A x \in kept : x \in DOMAIN tokens \/ (x = "colour" /\ Cut(x, was[x]) = 0)
  <2>1. \A x : \A j \in 1 .. 1 : Latest(files, 1, x, j) <=> x \in kept
    BY <1>1, <1>2 DEF Latest
  <2>2. \A x : ~UserHas(cmd.given, x)
    BY DEF UserHas
  <2>3. store[cmd.specs[1]] = file /\ Len(FilesOf(cmd)) = 1
    BY <1>1 DEF files, file
  <2>4. /\ \A x \in DOMAIN tokens : \E j \in 1 .. 1 : Latest(files, 1, x, j) /\ tokens[x] = store[cmd.specs[j]].values[x]
        /\ \A x : \A j \in 1 .. 1 : Latest(files, 1, x, j) =>
             x \in DOMAIN tokens \/ (x = "colour" /\ store[cmd.specs[j]].values[x].v = 0)
    BY <1>6, <2>2, <2>3 DEF Passed, files
  <2>5. \A x \in DOMAIN tokens : x \in kept /\ tokens[x] = file.values[x]
    BY <2>1, <2>3, <2>4
  <2>6. \A x \in kept : x \in DOMAIN tokens \/ (x = "colour" /\ file.values[x].v = 0)
    BY <2>1, <2>3, <2>4
  <2> HIDE DEF kept
  <2> QED BY <1>2, <2>5, <2>6
<1>9. ASSUME NEW x \in Knobs
      PROVE  /\ x \in DOMAIN b <=> x \in DOMAIN tokens
             /\ x \in DOMAIN tokens => b[x] = tokens[x]
  <2>1. DOMAIN tokens \subseteq Knobs
    BY <1>8 DEF ForInput
  <2>2. (\A y \in DOMAIN tokens : ~UserHas(cmd.given, y)) /\ ~({"colour", "color"} \subseteq DOMAIN cmd.given)
    BY DEF UserHas
  <2>3. DOMAIN cmd.given = {}
    OBVIOUS
  <2> HIDE DEF b
  <2> QED BY <2>1, <2>2, <2>3, BoundAt DEF b
<1>10. \A x \in Knobs : c[x] = IF Says(b, x) THEN b[x].v ELSE RenderDefault(m, c["agc"] = Index(1), c["if"] = Index(1), x)
  <2> HIDE DEF b
  <2> QED BY <1>5, ConfigIs
<1> HIDE DEF b, c
<1>11. ASSUME NEW x \in kept PROVE c[x] = Cut(x, was[x])
  <2>1. x \in Knobs /\ Cut(x, was[x]) \in Int /\ InRange(x, Cut(x, was[x]))
    BY CutIs DEF Whole, ForInput
  <2>2. CASE x \in DOMAIN tokens
    <3>1. x \in DOMAIN b /\ b[x].v = Cut(x, was[x])
      BY <1>2, <1>8, <1>9, <2>1, <2>2
    <3>2. Says(b, x)
      BY <2>1, <3>1, MeantInRange DEF Says
    <3> QED BY <1>10, <2>1, <3>1, <3>2
  <2>3. CASE x \notin DOMAIN tokens
    <3>1. x = "colour" /\ Cut(x, was[x]) = 0
      BY <1>8, <2>3
    <3>2. ~Says(b, x)
      BY <1>9, <2>1, <2>3 DEF Says
    <3>3. c[x] = RenderDefault(m, c["agc"] = Index(1), c["if"] = Index(1), x)
      BY <1>10, <2>1, <3>2
    <3> QED BY <3>1, <3>3 DEF RenderDefault
  <2> QED BY <2>2, <2>3
<1>12. ASSUME NEW x \in Knobs \ kept PROVE c[x] = RenderDefault(m, c["agc"] = Index(1), c["if"] = Index(1), x)
  BY <1>8, <1>9, <1>10 DEF Says
<1>13. c["agc"] = Cut("agc", was["agc"]) /\ (c["if"] = Index(1) <=> m = "rf" /\ Cut("if", was["if"]) = Index(1))
  <2>1. /\ "agc" \in ForInput(m) /\ "agc" \in Knobs /\ "if" \in Knobs
        /\ "if" \in ForInput(m) <=> m = "rf"
        /\ Table["agc"].default = 0 /\ Table["if"].default = 0 /\ Index(1) # 0
    <3>1. "agc" \in Knobs /\ "if" \in Knobs
      BY DEF Knobs, Table
    <3>2. Table["agc"].default = 0
      BY DEF Table, Choice, Index
    <3>3. Table["if"].default = 0
      BY DEF Table, Choice, Index
    <3>4. Index(1) # 0
      BY DEF Index
    <3> QED BY <3>1, <3>2, <3>3, <3>4 DEF ForInput, RfOnly, CompositeOnly, InputModes
  <2>2. ASSUME NEW x \in {"agc", "if"}, x \notin kept PROVE c[x] = 0
    <3>1. c[x] = RenderDefault(m, c["agc"] = Index(1), c["if"] = Index(1), x)
      BY <1>12, <2>1, <2>2
    <3> QED BY <2>1, <3>1 DEF RenderDefault
  <2>3. ASSUME NEW x \in {"agc", "if"} \cap ForInput(m), x \notin kept PROVE Cut(x, was[x]) = 0
    BY <2>1, <2>3, CutIs
  <2> QED BY <1>11, <2>1, <2>2, <2>3
<1>14. CASE k \in kept
  BY <1>7, <1>11, <1>14
<1>15. CASE k \notin kept
  <2>1. was[k] = Table[k].default /\ Cut(k, was[k]) = Table[k].default
    BY <1>15, CutIs DEF ForInput
  <2>2. c[k] = RenderDefault(m, c["agc"] = Index(1), c["if"] = Index(1), k)
    BY <1>12, <1>15 DEF ForInput
  <2>3. c[k] = RenderDefault(m, Cut("agc", was["agc"]) = Index(1), m = "rf" /\ Cut("if", was["if"]) = Index(1), k)
    BY <1>13, <2>2 DEF RenderDefault
  <2> QED BY <1>7, <2>1, <2>3, DefaultsDifferIs
<1> QED BY <1>14, <1>15

-----------------------------------------------------------------------------
(* The session.                                                            *)

IsSet(v) == Whole(mode, v)

Written(n)  == saved[n] # << >> => IsSet(saved[n]) /\ store[n] = ProfileJson(saved[n], mode)
Integral(n) == store[n].parses => \A k \in DOMAIN store[n].values : store[n].values[k].v \in Int

Files ==
  /\ DOMAIN store = Names \cup DOMAIN HandFiles /\ saved = [n \in Names |-> saved[n]]
  /\ \A n \in Names : Written(n)
  /\ \A n \in DOMAIN store : Integral(n)

Sliders ==
  /\ phase = "open" => IsSet(values)
  /\ phase = "died" => ~GateOpensFirst(values)
  /\ rendered # << >> => IsSet(rendered)

Tried == command # << >> => phase = "closed" /\ command \in Commands /\ outcome = Render(command, store)

IInv == tool \in {"live", "tune"} /\ mode \in Modes /\ Sliders /\ Files /\ Tried

\* What reaches the decoder becomes the sliders, or everything stays; and a live
\* session dies of nothing but a gate that closes before it opens.
LEMMA ApplyMoves ==
  ASSUME IInv, phase = "open", NEW v, IsSet(v), Apply(v), UNCHANGED mode
  PROVE  Sliders' /\ phase' # "closed"
<1>1. ToolVerdict(tool, mode, v) = IF GateOpensFirst(v) THEN "runs" ELSE "config"
  BY TuningAssumption, ToolVerdictIs DEF IInv, IsSet
<1> DEFINE verdict == ToolVerdict(tool, mode, v)
<1> HIDE DEF verdict
<1>2. IF verdict = "refused" THEN UNCHANGED << values, phase, rendered >>
      ELSE /\ values' = v
           /\ phase' = IF tool = "live" /\ verdict # "runs" THEN "died" ELSE phase
           /\ rendered' = IF tool = "tune" /\ verdict = "runs" THEN v ELSE rendered
  BY DEF Apply, verdict
<1>3. verdict # "refused" /\ (verdict # "runs" => ~GateOpensFirst(v))
  BY <1>1 DEF verdict
<1>4. values' = v /\ phase' \in {"open", "died"} /\ (phase' = "died" => ~GateOpensFirst(v)) /\ rendered' \in {rendered, v}
  BY <1>2, <1>3
<1>5. IsSet(v)' <=> IsSet(v)
  BY DEF IsSet
<1>6. IsSet(values')
  BY <1>4
<1>7. rendered # << >> => IsSet(rendered)
  BY DEF IInv, Sliders
<1>8. rendered' # << >> => IsSet(rendered')
  BY <1>4, <1>7
<1>9. \A x : Whole(mode', x) <=> Whole(mode, x)
  OBVIOUS
<1>10. GateOpensFirst(values)' <=> GateOpensFirst(v)
  BY <1>4 DEF GateOpensFirst
<1> QED BY <1>4, <1>6, <1>8, <1>9, <1>10 DEF Sliders, IsSet

\* A value out of its slider's range is refused before anything is touched.
LEMMA OutOfRangeRefused ==
  ASSUME NEW v, NEW k \in ForInput(mode) \cap DOMAIN v, ~InRange(k, Cut(k, v[k])),
         tool = "live", Apply(v)
  PROVE  UNCHANGED << values, phase, rendered >>
<1>1. ~ToolFlags(tool, mode, v).ok
  BY DEF ToolFlags, FlagsFor, Refused
<1>2. ToolVerdict(tool, mode, v) = "refused"
  BY <1>1 DEF ToolVerdict
<1> QED BY <1>2 DEF Apply

\* One slider of a set moved within its range leaves a set.
LEMMA MovedSet ==
  ASSUME NEW v, IsSet(v), NEW k \in DOMAIN v, NEW x \in Int, InRange(k, Cut(k, x))
  PROVE  IsSet([v EXCEPT ![k] = x])
BY DEF IsSet, Whole

\* What load_profile returns, laid over a set, is a set.
LEMMA LoadedOverSet ==
  ASSUME NEW v, IsSet(v), NEW n, Integral(n), NEW r, r = LoadProfile(store[n], ForInput(mode), mode), r.ok
  PROVE  IsSet(Over(r.values, v))
<1> DEFINE file == store[n]
<1>1. /\ r.values = [k \in DOMAIN file.values |-> file.values[k].v] /\ file.parses
      /\ \A k \in DOMAIN file.values : k \in ForInput(mode) /\ InRange(k, Cut(k, file.values[k].v))
  <2> HIDE DEF file
  <2> QED BY DEF LoadProfile, Refused, WellTyped, file
<1>2. \A k \in DOMAIN file.values : file.values[k].v \in Int
  BY <1>1 DEF Integral
<1> HIDE DEF file
<1> QED BY <1>1, <1>2 DEF IsSet, Whole, Over

\* The sliders a session starts with are a set.
LEMMA SeedIsSet ==
  ASSUME Files, NEW specs \in Seeds, Seeded(specs).ok PROVE IsSet(Seeded(specs).values)
<1> DEFINE loaded    == [i \in DOMAIN specs |-> LoadProfile(store[specs[i]], ForInput(mode), mode)]
           naming(k) == {i \in DOMAIN specs : k \in DOMAIN loaded[i].values}
           last(k)   == CHOOSE i \in naming(k) : \A j \in naming(k) : j <= i
           seed      == [k \in ForInput(mode) |-> IF naming(k) = {} THEN Table[k].default
                                                  ELSE loaded[last(k)].values[k]]
<1>1. Seeded(specs) = IF \E i \in DOMAIN specs : ~loaded[i].ok THEN Refused ELSE [ok |-> TRUE, values |-> seed]
  BY DEF Seeded
<1>2. (\A i \in DOMAIN specs : loaded[i].ok) /\ Seeded(specs).values = seed
  <2> HIDE DEF loaded, seed
  <2> QED BY <1>1 DEF Refused
<1>3. ASSUME NEW i \in DOMAIN specs, NEW k \in DOMAIN loaded[i].values
      PROVE  loaded[i].values[k] \in Int /\ InRange(k, Cut(k, loaded[i].values[k]))
  <2> DEFINE file == store[specs[i]]
  <2>1. loaded[i] = LoadProfile(file, ForInput(mode), mode) /\ loaded[i].ok
    BY <1>2
  <2>2. Integral(specs[i])
    BY TuningAssumption DEF Files
  <2>3. file.parses => \A x \in DOMAIN file.values : file.values[x].v \in Int
    BY <2>2 DEF Integral
  <2> HIDE DEF loaded, file
  <2>4. /\ loaded[i].values = [x \in DOMAIN file.values |-> file.values[x].v] /\ file.parses
        /\ \A x \in DOMAIN file.values : InRange(x, Cut(x, file.values[x].v))
    BY <2>1 DEF LoadProfile, Refused, WellTyped
  <2> QED BY <2>3, <2>4
<1>4. ASSUME NEW k \in ForInput(mode), naming(k) # {} PROVE last(k) \in naming(k)
  <2>1. naming(k) \subseteq 1 .. Len(specs) /\ Len(specs) \in Nat
    BY TuningAssumption
  <2>2. \E i \in naming(k) : \A j \in naming(k) : j <= i
    <3> HIDE DEF naming
    <3> QED BY <1>4, <2>1, LastOne
  <2> HIDE DEF naming
  <2> QED BY <2>2
<1>5. ASSUME NEW k \in ForInput(mode) PROVE seed[k] \in Int /\ InRange(k, Cut(k, seed[k]))
  <2>1. CASE naming(k) = {}
    <3>1. seed[k] = Table[k].default /\ k \in Knobs
      <4> HIDE DEF naming
      <4> QED BY <2>1, KnobsOfInput
    <3>2. Table[k].default \in Int /\ InRange(k, Table[k].default) /\ Cut(k, Table[k].default) = Table[k].default
      BY <3>1, TableSane, Kinds, CutIs
    <3> HIDE DEF seed
    <3> QED BY <3>1, <3>2
  <2>2. CASE naming(k) # {}
    <3>1. last(k) \in DOMAIN specs /\ k \in DOMAIN loaded[last(k)].values
      BY <1>4, <2>2
    <3>2. seed[k] = loaded[last(k)].values[k]
      BY <2>2
    <3> HIDE DEF seed, last, loaded
    <3> QED BY <1>3, <3>1, <3>2
  <2> QED BY <2>1, <2>2
<1>6. seed = [k \in ForInput(mode) |-> seed[k]]
  <2> DEFINE at(k) == IF naming(k) = {} THEN Table[k].default ELSE loaded[last(k)].values[k]
  <2>1. seed = [k \in ForInput(mode) |-> at(k)]
    OBVIOUS
  <2> HIDE DEF seed, at
  <2> QED BY <2>1
<1> HIDE DEF seed
<1> QED BY <1>2, <1>5, <1>6 DEF IsSet, Whole

\* Nothing that leaves the files, the mode and the history alone disturbs a name.
LEMMA FilesKept ==
  ASSUME Files, UNCHANGED << mode, store, saved >>
  PROVE  Files' /\ \A v : IsSet(v)' <=> IsSet(v)
BY DEF Files, Written, Integral, IsSet

\* What a set is written as holds whole numbers.
LEMMA WrittenIntegral ==
  ASSUME NEW m, NEW v, Whole(m, v), NEW file, file = ProfileJson(v, m)
  PROVE  \A k \in DOMAIN file.values : file.values[k].v \in Int
<1> DEFINE kept == {k \in DOMAIN v : v[k] # Table[k].default}
<1>1. kept \subseteq ForInput(m)
  BY DEF Whole
<1>2. file.values = [k \in kept |-> [json |-> JsonOf(k), v |-> Cut(k, v[k])]]
  BY DEF ProfileJson, File, Typed
<1> HIDE DEF kept
<1>3. ASSUME NEW k \in kept PROVE Cut(k, v[k]) \in Int
  <2>1. k \in Knobs /\ v[k] \in Int
    BY <1>1, KnobsOfInput DEF Whole
  <2> QED BY <2>1, CutIs
<1> QED BY <1>2, <1>3

\* Writing a set under a name keeps every name's file the one of its set.
LEMMA WriteKeeps ==
  ASSUME Files, NEW n \in Names, NEW v, IsSet(v), Write(n, v), mode' = mode
  PROVE  Files'
<1>1. /\ saved = [m \in Names |-> saved[m]] /\ DOMAIN store = Names \cup DOMAIN HandFiles
      /\ \A m \in Names : Written(m)
      /\ \A m \in DOMAIN store : Integral(m)
  BY DEF Files
<1>2. saved' = [m \in Names |-> IF m = n THEN v ELSE saved[m]]
  BY <1>1 DEF Write
<1>3. /\ DOMAIN store' = Names \cup DOMAIN HandFiles
      /\ \A m \in DOMAIN store : store'[m] = IF m = n THEN ProfileJson(v, mode) ELSE store[m]
  BY <1>1 DEF Write
<1>4. ASSUME NEW m \in Names PROVE Written(m)'
  <2>1. CASE m = n
    <3>1. saved'[m] = v /\ store'[m] = ProfileJson(v, mode')
      BY <1>1, <1>2, <1>3, <2>1
    <3> QED BY <3>1 DEF Written, IsSet, ProfileJson, File
  <2>2. CASE m # n
    <3>1. saved'[m] = saved[m] /\ store'[m] = store[m] /\ Written(m)
      BY <1>1, <1>2, <1>3, <2>2
    <3> QED BY <3>1 DEF Written, IsSet, ProfileJson, File
  <2> QED BY <2>1, <2>2
<1>5. ASSUME NEW m \in DOMAIN store PROVE Integral(m)'
  <2>1. CASE m = n
    <3>1. store'[m] = ProfileJson(v, mode)
      BY <1>3, <2>1
    <3>2. \A k \in DOMAIN store'[m].values : store'[m].values[k].v \in Int
      BY <3>1, WrittenIntegral DEF IsSet
    <3> QED BY <3>2 DEF Integral
  <2>2. CASE m # n
    <3>1. store'[m] = store[m] /\ Integral(m)
      BY <1>1, <1>3, <2>2
    <3> QED BY <3>1 DEF Integral
  <2> QED BY <2>1, <2>2
<1>6. DOMAIN store' = DOMAIN store
  BY <1>1, <1>3
<1> QED BY <1>1, <1>2, <1>3, <1>4, <1>5, <1>6 DEF Files

\* An open session has tried no command line yet.
LEMMA NoneTried == ASSUME IInv, phase # "closed" PROVE command = << >>
BY DEF IInv, Tried

\* After a step whose sliders and rendered set are old ones or a whole set, both are whole.
LEMMA StepKeepsSets ==
  ASSUME IInv, NEW v, phase = "open", IsSet(v), Apply(v), UNCHANGED << tool, mode, store, saved, command >>
  PROVE  IInv'
<1>1. Sliders'
  BY ApplyMoves
<1>2. Files'
  BY FilesKept DEF IInv
<1>3. command' = << >>
  BY NoneTried
<1> QED BY <1>1, <1>2, <1>3 DEF IInv, Tried

\* A step that leaves the sliders alone.
LEMMA SlidersKept ==
  ASSUME Sliders, UNCHANGED << mode, values, phase, rendered >> PROVE Sliders'
BY DEF Sliders, IsSet, GateOpensFirst

LEMMA InitInv == Init => IInv
<1> SUFFICES ASSUME Init PROVE IInv
  OBVIOUS
<1>1. /\ DOMAIN store = Names \cup DOMAIN HandFiles
      /\ \A n \in DOMAIN HandFiles : store[n] = HandFiles[n]
      /\ \A n \in Names : store[n] = Missing
  BY TuningAssumption DEF Init, Over
<1>2. /\ saved = [n \in Names |-> << >>] /\ phase = "closed" /\ rendered = << >> /\ command = << >>
      /\ tool \in {"live", "tune"} /\ mode \in Modes
  BY DEF Init
<1>3. ASSUME NEW n \in DOMAIN store PROVE Integral(n)
  <2>1. CASE n \in Names
    BY <1>1, <2>1 DEF Integral, Missing
  <2>2. CASE n \in DOMAIN HandFiles
    BY <1>1, <2>2, TuningAssumption DEF Integral
  <2> QED BY <1>1, <2>1, <2>2
<1>4. \A n \in Names : Written(n)
  BY <1>2 DEF Written
<1>5. Files
  BY <1>1, <1>2, <1>3, <1>4 DEF Files
<1> QED BY <1>2, <1>5 DEF IInv, Sliders, Tried

LEMMA NextInv == IInv /\ [Next]_vars => IInv'
<1> SUFFICES ASSUME IInv, [Next]_vars PROVE IInv'
  OBVIOUS
<1>a. tool \in {"live", "tune"} /\ mode \in Modes /\ Sliders /\ Files /\ Tried
  BY DEF IInv
<1>1. ASSUME NEW specs \in Seeds, Start(specs) PROVE IInv'
  <2>1. UNCHANGED << tool, mode, rendered, store, saved, command >> /\ command = << >> /\ phase' \in {"over", "open"}
    BY <1>1 DEF Start
  <2>2. phase' = "open" => IsSet(values')
    <3>1. SUFFICES ASSUME phase' = "open" PROVE IsSet(values')
      OBVIOUS
    <3>2. Seeded(specs).ok /\ values' = Seeded(specs).values
      BY <1>1, <3>1 DEF Start
    <3> QED BY <1>a, <3>2, SeedIsSet
  <2>3. Files' /\ \A v : IsSet(v)' <=> IsSet(v)
    BY <1>a, <2>1, FilesKept
  <2>4. Sliders'
    BY <1>a, <2>1, <2>2 DEF Sliders, IsSet
  <2> QED BY <1>a, <2>1, <2>3, <2>4 DEF IInv, Tried
<1>2. ASSUME NEW k \in Movable, NEW x \in {Table[k].min, Table[k].default, Table[k].max}, MoveSlider(k, x)
      PROVE  IInv'
  <2>1. k \in Knobs /\ x \in Int /\ InRange(k, Cut(k, x))
    BY TuningAssumption, TableSane, Kinds, CutIs
  <2>2. IsSet(values) /\ k \in DOMAIN values /\ phase = "open"
    BY <1>2, <1>a DEF MoveSlider, Sliders
  <2>3. IsSet([values EXCEPT ![k] = x])
    BY <2>1, <2>2, MovedSet
  <2>4. Apply([values EXCEPT ![k] = x]) /\ UNCHANGED << tool, mode, store, saved, command >>
    BY <1>2 DEF MoveSlider
  <2> QED BY <2>2, <2>3, <2>4, StepKeepsSets
<1>3. ASSUME NEW k \in Movable, NEW x \in {Table[k].min - 500, Table[k].max + 500}, SetByHand(k, x) PROVE IInv'
  <2> DEFINE v == [values EXCEPT ![k] = x]
  <2>1. IsSet(values) /\ k \in DOMAIN values /\ tool = "live" /\ phase = "open"
    BY <1>3, <1>a DEF SetByHand, Sliders
  <2>2. k \in ForInput(mode) /\ DOMAIN values = ForInput(mode) /\ x \in Int
    BY <2>1, Kinds, KnobsOfInput DEF IsSet, Whole
  <2>3. k \in ForInput(mode) \cap DOMAIN v /\ v[k] = x
    BY <2>2
  <2>4. Apply(v) /\ UNCHANGED << tool, mode, store, saved, command, outcome >>
    BY <1>3 DEF SetByHand
  <2>5. CASE InRange(k, Cut(k, x))
    <3>1. IsSet(v)
      BY <2>1, <2>2, <2>5, MovedSet
    <3> HIDE DEF v
    <3> QED BY <2>1, <2>4, <3>1, StepKeepsSets
  <2>6. CASE ~InRange(k, Cut(k, x))
    <3>1. UNCHANGED << values, phase, rendered >>
      <4> HIDE DEF v
      <4> QED BY <2>1, <2>3, <2>4, <2>6, OutOfRangeRefused
    <3>2. Sliders' /\ Files'
      BY <1>a, <2>4, <3>1, FilesKept, SlidersKept
    <3> HIDE DEF v
    <3> QED BY <1>a, <2>4, <3>1, <3>2 DEF IInv, Tried
  <2> QED BY <2>5, <2>6
<1>4. ASSUME NEW n \in DOMAIN store, LoadFromPage(n) PROVE IInv'
  <2> DEFINE r == LoadProfile(store[n], ForInput(mode), mode)
  <2>1. IsSet(values) /\ phase = "open" /\ UNCHANGED << tool, mode, store, saved, command, outcome >>
    BY <1>4, <1>a DEF LoadFromPage, Sliders
  <2>2. IF r.ok THEN Apply(Over(r.values, values)) ELSE UNCHANGED << values, phase, rendered >>
    BY <1>4 DEF LoadFromPage
  <2>3. CASE r.ok
    <3>1. IsSet(Over(r.values, values))
      <4>1. Integral(n)
        BY <1>a DEF Files
      <4> HIDE DEF r
      <4> QED BY <2>1, <2>3, <4>1, LoadedOverSet DEF r
    <3> HIDE DEF r
    <3> QED BY <2>1, <2>2, <2>3, <3>1, StepKeepsSets
  <2>4. CASE ~r.ok
    <3> HIDE DEF r
    <3>1. Sliders' /\ Files' /\ UNCHANGED phase
      BY <1>a, <2>1, <2>2, <2>4, FilesKept, SlidersKept
    <3> QED BY <1>a, <2>1, <3>1 DEF IInv, Tried
  <2> QED BY <2>3, <2>4
<1>5. ASSUME NEW n \in Names, SaveFromPage(n) PROVE IInv'
  <2>1. /\ IsSet(values) /\ Write(n, values) /\ phase = "open"
        /\ UNCHANGED << tool, mode, phase, values, rendered, command, outcome >>
    BY <1>5, <1>a DEF SaveFromPage, Sliders
  <2>2. Files' /\ Sliders'
    BY <1>a, <2>1, WriteKeeps, SlidersKept
  <2>3. command' = << >>
    BY <2>1, NoneTried
  <2> QED BY <1>a, <2>1, <2>2, <2>3 DEF IInv, Tried
<1>6. ASSUME NEW n \in Names, Quit(n) PROVE IInv'
  <2>1. /\ phase = "open" /\ phase' = "closed" /\ values' = << >> /\ rendered' = << >>
        /\ UNCHANGED << tool, mode, command, outcome >>
    BY <1>6 DEF Quit
  <2>2. ASSUME rendered # << >>, Write(n, rendered) PROVE Files'
    BY <1>a, <2>1, <2>2, WriteKeeps DEF Sliders
  <2>3. ASSUME UNCHANGED << store, saved >> PROVE Files'
    BY <1>a, <2>1, <2>3, FilesKept
  <2>4. Files'
    BY <1>6, <2>2, <2>3 DEF Quit
  <2>5. Sliders' /\ command' = << >>
    BY <2>1, NoneTried DEF Sliders
  <2> QED BY <1>a, <2>1, <2>4, <2>5 DEF IInv, Tried
<1>7. ASSUME NEW cmd \in Commands, Offline(cmd) PROVE IInv'
  <2>1. /\ UNCHANGED << tool, mode, phase, values, rendered, store, saved >>
        /\ phase = "closed" /\ command' = cmd /\ outcome' = Render(cmd, store)
    BY <1>7 DEF Offline
  <2>2. Files' /\ Sliders'
    BY <1>a, <2>1, FilesKept, SlidersKept
  <2>3. store' = store
    BY <2>1
  <2>4. Tried'
    BY <2>1 DEF Tried, Render, Expansion
  <2> QED BY <1>a, <2>1, <2>2, <2>4 DEF IInv
<1>8. CASE UNCHANGED vars
  <2>1. UNCHANGED << tool, mode, phase, values, rendered, store, saved, command, outcome >>
    BY <1>8 DEF vars
  <2>2. Files' /\ Sliders'
    BY <1>a, <2>1, FilesKept, SlidersKept
  <2> QED BY <1>a, <2>1, <2>2 DEF IInv, Tried
<1> QED BY <1>1, <1>2, <1>3, <1>4, <1>5, <1>6, <1>7, <1>8 DEF Next

\* The sliders are a whole set in range at every step of every session, every saved
\* file is profile_json of the set it was saved from, and a live session dies only
\* of a burst gate that closes before it opens.
THEOREM Invariant == Spec => []IInv
BY InitInv, NextInv, PTL DEF Spec

\* A fresh session of the same input seeded from a saved profile has every slider
\* where it was when the file was written, cut to a whole position (knobs.py 392-413).
THEOREM ProfilesReload == Spec => []SavedSessionReloads
<1>1. IInv => SavedSessionReloads
  <2>1. SUFFICES ASSUME IInv, NEW n \in Names, saved[n] # << >>
                 PROVE  LET r == LoadProfile(store[n], ForInput(mode), mode)
                        IN  r.ok /\ Over(r.values, Defaults(mode)) = [k \in DOMAIN saved[n] |-> Cut(k, saved[n][k])]
    BY DEF SavedSessionReloads
  <2>2. IsSet(saved[n]) /\ store[n] = ProfileJson(saved[n], mode)
    BY <2>1 DEF IInv, Files, Written
  <2> QED BY <2>2, RoundTrip DEF IsSet
<1> QED BY <1>1, Invariant, PTL

\* Of the whole slider sets, the decoder turns down exactly those whose burst gate
\* closes before it opens: every other end of every range of the table is one that
\* render's checks and the constructors accept (render_command.cpp, decoder.cpp).
THEOREM GateAloneRefused == Spec => []OnlyCrossedGateRefused
<1>1. IInv => OnlyCrossedGateRefused
  <2> SUFFICES ASSUME IInv PROVE OnlyCrossedGateRefused
    OBVIOUS
  <2>1. phase = "died" => ~GateOpensFirst(values)
    BY DEF IInv, Sliders
  <2>2. ASSUME phase = "open", NEW k \in DOMAIN values, NEW v \in {Table[k].min, Table[k].max}
        PROVE  LET set == [values EXCEPT ![k] = v]
               IN  ToolVerdict(tool, mode, set) = IF GateOpensFirst(set) THEN "runs" ELSE "config"
    <3>1. IsSet(values)
      BY <2>2 DEF IInv, Sliders
    <3>2. k \in Knobs
      BY <3>1, KnobsOfInput DEF IsSet, Whole
    <3>3. v \in Int /\ InRange(k, Cut(k, v))
      BY <3>2, TableSane, Kinds, CutIs
    <3>4. Whole(mode, [values EXCEPT ![k] = v])
      BY <3>1, <3>3, MovedSet DEF IsSet
    <3>5. tool \in {"live", "tune"} /\ mode \in InputModes
      BY TuningAssumption DEF IInv
    <3> QED BY <3>4, <3>5, ToolVerdictIs
  <2> QED BY <2>1, <2>2 DEF OnlyCrossedGateRefused
<1> QED BY <1>1, Invariant, PTL

\* Every file named on a command line holds whole numbers.
LEMMA NamedIntegral ==
  ASSUME IInv, NEW cmd \in Commands, NEW i \in DOMAIN cmd.specs PROVE Integral(cmd.specs[i])
<1>1. cmd.specs[i] \in Names \cup DOMAIN HandFiles
  BY TuningAssumption
<1> QED BY <1>1 DEF IInv, Files

\* Of the files the tools would load, with any ordinary flags of the user's, render turns
\* down those whose input is null (profile_args.cpp 136-139 against knobs.py 364-365), and
\* no others: it runs, or refuses a crossed gate or a picture too big for the splats, and
\* each knob comes from the flag, the last profile to name it or the default
\* (docs/render.md 141-145).
THEOREM ProfilesExpand == Spec => []RenderTakesProfiles
<1>1. IInv => RenderTakesProfiles
  <2> SUFFICES ASSUME IInv, command # << >>, OrdinaryUse(command)
               PROVE  IF NamesNull(command) THEN outcome.verdict = "profile"
                      ELSE /\ outcome.verdict \in {"runs", "config"}
                           /\ outcome.verdict = "runs" <=> GateOpensFirst(outcome.config) /\ SplatsFit(command)
                           /\ \A k \in ForInput(Mode(command)) :
                                outcome.config[k] = Expected(command, outcome.config, k)
    BY DEF RenderTakesProfiles
  <2>1. command \in Commands /\ outcome = Render(command, store)
    BY DEF IInv, Tried
  <2>2. ASSUME NEW i \in DOMAIN command.specs PROVE Loads(Mode(command), store[command.specs[i]])
    <3>1. LoadProfile(store[command.specs[i]], ForInput(Mode(command)), Mode(command)).ok
      BY <2>2 DEF OrdinaryUse
    <3>2. store[command.specs[i]].parses
      BY <3>1 DEF LoadProfile, Refused
    <3>3. Integral(command.specs[i])
      BY <2>1, <2>2, NamedIntegral
    <3> QED BY <3>1, <3>2, <3>3 DEF Loads, Integral
  <2> DEFINE tokens == Tokens(command.given, Merged(FilesOf(command)))
             b      == Bound(Over(command.given, tokens))
             c      == Config(command, b)
  <2>3. CASE NamesNull(command)
    BY <2>1, <2>3, NullFails
  <2>4. CASE ~NamesNull(command)
    <3>1. Render(command, store) =
            [verdict |-> IF GateOpensFirst(c) /\ SplatsFit(command) THEN "runs" ELSE "config", config |-> c]
      BY <2>1, <2>2, <2>4, OrdinaryRender
    <3>2. \A k \in ForInput(Mode(command)) : c[k] = Expected(command, c, k)
      BY <2>1, <2>2, <2>4, ExpectedIs
    <3> HIDE DEF c
    <3>3. outcome.config = c /\ outcome.verdict = IF GateOpensFirst(c) /\ SplatsFit(command) THEN "runs" ELSE "config"
      BY <2>1, <3>1
    <3> QED BY <2>4, <3>2, <3>3
  <2> QED BY <2>3, <2>4
<1> QED BY <1>1, Invariant, PTL

\* A saved session played back by render decodes with its sliders, but for those left
\* at a default render does not share (render_command.cpp, knobs.py 392-413).
THEOREM PlaybackIsFaithful == Spec => []PlaybackKeepsSliders
<1>1. IInv => PlaybackKeepsSliders
  <2> SUFFICES ASSUME IInv, command # << >>, Len(command.specs) = 1, command.given = << >>, ~command.noDelayLine,
                      outcome.verdict = "runs", command.specs[1] \in Names,
                      NEW k \in DOMAIN saved[command.specs[1]]
               PROVE  LET was == saved[command.specs[1]]
                      IN  outcome.config[k] # Cut(k, was[k]) <=> k \in DefaultsDiffer(mode, was) /\ was[k] = Table[k].default
    BY DEF PlaybackKeepsSliders
  <2> DEFINE was == saved[command.specs[1]]
  <2>1. command \in Commands /\ outcome = Render(command, store) /\ mode \in InputModes
    BY TuningAssumption DEF IInv, Tried
  <2>2. was # << >>
    OBVIOUS
  <2>3. Whole(mode, was) /\ store[command.specs[1]] = ProfileJson(was, mode)
    BY <2>2 DEF IInv, Files, Written, IsSet
  <2>4. k \in ForInput(mode)
    <3> HIDE DEF was
    <3> QED BY <2>3 DEF Whole, was
  <2> QED BY <2>1, <2>3, <2>4, PlaybackIs
<1> QED BY <1>1, Invariant, PTL
=============================================================================
