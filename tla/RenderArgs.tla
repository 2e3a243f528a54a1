----------------------------- MODULE RenderArgs -----------------------------
(***************************************************************************)
(* From the words of a `palindrome render` command line to a decoder, or   *)
(* to the complaint it ends with: expand_profiles, the option parser,      *)
(* RenderCommand::run up to the pipeline, decoder_config, and what the     *)
(* constructors of the decoder refuse.                                     *)
(*                                                                         *)
(* A command line is a record: the knob flags typed (given, by flag), the   *)
(* profile files named, in order, and the other options.  The recording    *)
(* itself always loads here; its front end is FrontEnd's subject.          *)
(***************************************************************************)
EXTENDS KnobTable, Sequences

CommandFields == {"help", "input", "given", "profiles", "specs", "live", "rate", "decimate",
                  "frameFd", "carrier", "scan", "noSync", "noDelayLine", "width", "height"}

InputModes == {"rf", "composite"}
Mode(cmd) == IF cmd.input = "absent" THEN "rf" ELSE cmd.input

-----------------------------------------------------------------------------
(* expand_profiles: the profiles become flags ahead of the user's own.     *)

\* An input of null is no string, and fails.
FileFails(file, mode) ==
  \/ ~file.parses
  \/ file.input \notin {"absent", mode}
  \/ \E k \in DOMAIN file.values : file.values[k].json \notin {"bool", "string", "number"}

\* insert_or_assign, file after file.
Merged(files) ==
  LET upTo[i \in 0 .. Len(files)] == IF i = 0 THEN << >> ELSE Over(files[i].values, upTo[i - 1])
  IN  upTo[Len(files)]

UserHas_OneSpelling(given, k) == k \in DOMAIN given
\* Either spelling of the one aliased flag silences the profile's copy.
UserHas(given, k) == k \in DOMAIN given \/ (k = "colour" /\ "color" \in DOMAIN given)

Tokens_ZeroIsFalse(given, merged) ==
  [k \in {key \in DOMAIN merged : ~UserHas(given, key) /\ merged[key].v # 0} |-> merged[k]]
\* A false is no flag; every other value is its flag's argument.
Tokens(given, merged) ==
  [k \in {key \in DOMAIN merged : ~UserHas(given, key) /\ (merged[key].json = "bool" => merged[key].v # 0)} |-> merged[k]]

\* What the parser is given: the profiles' tokens, or why there are none.
Expansion(cmd, store) ==
  LET files == [i \in DOMAIN cmd.specs |-> store[cmd.specs[i]]]
  IN  IF cmd.help THEN [ok |-> TRUE, tokens |-> << >>]
      ELSE IF cmd.specs = << >> THEN (IF cmd.profiles THEN Refused ELSE [ok |-> TRUE, tokens |-> << >>])
      ELSE IF \E i \in DOMAIN files : FileFails(files[i], Mode(cmd)) THEN Refused
      ELSE [ok |-> TRUE, tokens |-> Tokens(cmd.given, Merged(files))]

-----------------------------------------------------------------------------
(* The option parser (lyra): an unknown option, a value of the wrong form  *)
(* or a second copy of an option is an error.                              *)

Canonical(flag) == IF flag = "color" THEN "colour" ELSE flag

Fits(flag, arg) ==
  LET k == Canonical(flag)
  IN  /\ k \in Knobs
      /\ Table[k].kind = "toggle" <=> arg.json = "bool"
      /\ Table[k].kind = "slider" => arg.json = "number"

Parses(given, tokens) ==
  /\ \A f \in DOMAIN given : Fits(f, given[f])
  /\ \A f \in DOMAIN tokens : Fits(f, tokens[f])
  /\ DOMAIN tokens \cap {Canonical(f) : f \in DOMAIN given} = {}
  /\ ~({"colour", "color"} \subseteq DOMAIN given)

-----------------------------------------------------------------------------
(* RenderCommand::run.                                                     *)

\* The "unset" sentinels: a value on this side of them is as good as no flag.
Meant(k, v) ==
  CASE k \in {"cutoff", "uv_bandwidth"} \cup CompositeOnly -> v > 0
    [] k \in {"saturation", "contrast", "sound_notch_db", "gd_ripple"} -> v >= 0
    [] OTHER -> TRUE

\* What the parser leaves in the members, by knob.
Bound(args) ==
  IF "color" \in DOMAIN args THEN Over([k \in {"colour"} |-> args["color"]], args) ELSE args

Says(bound, k) == k \in DOMAIN bound /\ Meant(k, bound[k].v)

\* A flag of the other input mode is rejected, not ignored (a choice at its default cannot be told from none).
ModeConflict(cmd, bound) ==
  IF Mode(cmd) = "composite"
  THEN \/ cmd.carrier > 0 \/ cmd.scan
       \/ \E k \in {"if", "detector"} : k \in DOMAIN bound /\ bound[k].v # Table[k].default
       \/ \E k \in {"sound_notch_db", "gd_ripple"} : Says(bound, k)
  ELSE \E k \in CompositeOnly : Says(bound, k)

LiveConflict(cmd) ==
  cmd.live /\ (\/ cmd.rate = 0 \/ cmd.noSync \/ ~cmd.frameFd \/ cmd.scan
               \/ Mode(cmd) = "rf" /\ cmd.carrier = 0)

BadChoice(bound, knobs) == \E k \in knobs \cap DOMAIN bound : ~WellTyped(k, bound[k])

SubcarrierKHz == 4434
\* The most decimation that keeps the subcarrier below 0.7 of the Nyquist rate.
AutoDecimate(rate) == LET n == (7 * rate) \div (20 * SubcarrierKHz) IN IF n > 1 THEN n ELSE 1
EnvelopeRate(cmd) == cmd.rate \div (IF cmd.decimate > 0 THEN cmd.decimate ELSE AutoDecimate(cmd.rate))

\* What render decodes with where no flag says: the library's defaults, the CLI's
\* opinions, and the ones that follow the input, the level scheme or the IF.
RenderDefault(mode, adaptive, saw90, k) ==
  CASE k = "colour" -> 0
    [] k = "cutoff" /\ mode = "composite" -> 5500
    [] k = "beam_sigma_x" -> -1000                       \* matches the row sigma
    [] k = "saturation" /\ adaptive -> 170
    [] k = "contrast" /\ adaptive -> 850
    [] k = "sound_notch_db" /\ saw90 -> 40
    [] k = "gd_ripple" /\ saw90 -> 8
    [] OTHER -> Table[k].default

\* decoder_config, and the front end's share of it.
Config(cmd, bound) ==
  LET adaptive == Says(bound, "agc") /\ bound["agc"].v = Index(1)
      saw90    == Says(bound, "if") /\ bound["if"].v = Index(1)
  IN  [k \in Knobs |-> IF Says(bound, k) THEN bound[k].v
                       ELSE IF k = "comb_mode" /\ cmd.noDelayLine THEN 0
                       ELSE RenderDefault(Mode(cmd), adaptive, saw90, k)]

\* The scan window in thousandths: the active picture less the overscan, moved by the centring pots.
Window(c) ==
  LET full == c["overscan"] < 0
      h    == IF full THEN << 0, 1000 >> ELSE << 148 + (c["overscan"] * 813) \div 2000, 961 - (c["overscan"] * 813) \div 2000 >>
      v    == IF full THEN << 0, 1000 >> ELSE << 80 + (c["overscan"] * 920) \div 2000, 1000 - (c["overscan"] * 920) \div 2000 >>
  IN  << h[1] - c["h_shift"], h[2] - c["h_shift"], v[1] - c["v_shift"], v[2] - c["v_shift"] >>

FramingRefused(c) ==
  c["overscan"] >= 500 \/ \E k \in {"h_shift", "v_shift"} : c[k] > 1000 \/ c[k] < -1000

-----------------------------------------------------------------------------
(* What the constructors refuse.  The members no flag reaches keep the     *)
(* library's defaults, which pass; rates are in kHz.                       *)

Between(lo, v, hi) == lo <= v /\ v <= hi

LowpassAccepts(cutoff, rate) == cutoff > 0 /\ 2 * cutoff < rate

SeparatorAccepts(c) ==
  IF c["agc"] = Index(1) THEN 10 * c["sync_level"] > 250 /\ 10 * c["sync_level"] < 9750
  ELSE c["slice_depth"] > 5 /\ c["slice_depth"] < 995

HorizontalAccepts(c, rate) ==
  /\ 2 * 16 < rate
  /\ Between(0, c["h_kp"], 1000) /\ Between(0, c["h_acq_kp"], 1000)
  /\ c["h_ki"] >= 0 /\ c["h_acq_ki"] >= 0
  /\ Between(1, c["h_clamp"], 999)

\* The integrator's step stays a convex combination: at least one sample of time constant.
VerticalAccepts(c, rate) ==
  /\ c["v_tc"] * rate >= 15625
  /\ c["v_level"] > 25 /\ c["v_level"] < 975
  /\ Between(0, c["v_min_field"], 999)
  /\ Between(0, c["v_kp"], 1000) /\ c["v_ki"] >= 0

\* Built, and so validated, in monochrome too.
ChromaAccepts(c, rate) ==
  /\ 2 * SubcarrierKHz < rate
  /\ 0 <= c["burst_lo"] /\ c["burst_lo"] < c["burst_hi"] /\ c["burst_hi"] < 1000
  /\ Between(2, c["ref_tc"], 100) /\ c["ident_tc"] >= 2
  /\ c["apc_catch"] >= 0 /\ Between(1, c["apc_pull"], 1000)

\* An integrator over 312.5 lines a field needs a time constant of a line or more.
LineOrMore(fields) == 3125 * fields >= 10000

\* The worst EHT droop spreads the raster about its middle by 1 / sqrt(1 - 1.5 sag): in thousandths.
Swells(sag, g) == ((g * g) \div 1000) * (2000 - 3 * sag) <= 2000000
GreatestSwell(sag) == CHOOSE g \in 1000 .. 2000 : Swells(sag, g) /\ ~Swells(sag, g + 1)
Swell == [sag \in 0 .. 499 |-> GreatestSwell(sag)]

\* Where phase p of a sweep lands in a picture of this size whose window is lo to hi, unspread and spread by g.
Landing(p, lo, hi, size) == ((p - lo) * size) \div (hi - lo)
Spread(at, size, g)      == at + ((2 * at - size) * (g - 1000)) \div 2000

CoordLimit == 32000
\* Both ends of a sweep and a quarter beyond land on an int16, spread or not; down the
\* picture (yoke 1, not 0) with a margin for the tilt, one line's worth of the field.
BeamFits(lo, hi, size, spreads, yoke) ==
  \A p \in {-250, 1250}, g \in spreads :
    LET tilt == (yoke * size * g) \div (250 * (hi - lo))
    IN  Between(tilt - CoordLimit, Spread(Landing(p, lo, hi, size), size, g), CoordLimit - tilt)

\* The line's pull spreads the raster further.
BeamInRange(c, width, height) ==
  LET spreads == {1000, (Swell[c["eht_sag"]] * (2000 + 3 * c["line_pull"])) \div 2000}
  IN  /\ BeamFits(Window(c)[1], Window(c)[2], width, spreads, 0)
      /\ BeamFits(Window(c)[3], Window(c)[4], height, spreads, 1)

ScreenAccepts(c, width, height) ==
  /\ width <= 16384 /\ height <= 16384
  /\ c["saturation"] >= 0 /\ c["contrast"] >= 0 /\ c["beam_sigma"] >= 0
  /\ Between(1, c["persistence"], 64000) /\ c["readout_gamma"] > 0
  /\ Window(c)[1] < Window(c)[2] /\ Window(c)[3] < Window(c)[4]
  /\ Between(0, c["eht_sag"], 499) /\ LineOrMore(c["eht_tc"]) /\ Between(0, c["eht_focus"], 1000)
  /\ Between(0, c["line_pull"], 99)
  /\ Between(0, c["bcl"], 1500) /\ (c["bcl"] > 0 => LineOrMore(c["bcl_tc"]))
  /\ Between(0, c["pwl"], 4000)
  /\ BeamInRange(c, width, height)

\* Decoder::Decoder, every member in turn.
DecoderAccepts(c, rate, width, height) ==
  /\ LowpassAccepts(c["sync_cutoff"], rate) /\ LowpassAccepts(c["uv_bandwidth"], rate)
  /\ SeparatorAccepts(c) /\ HorizontalAccepts(c, rate) /\ VerticalAccepts(c, rate)
  /\ ChromaAccepts(c, rate) /\ ScreenAccepts(c, width, height)

\* Where a parsed command line ends, in the order of the checks.
Verdict(cmd, bound, c) ==
  CASE cmd.width = 0 \/ cmd.height = 0 -> "size"
    [] Mode(cmd) \notin InputModes -> "input"
    [] ModeConflict(cmd, bound) -> "mode"
    [] LiveConflict(cmd) -> "live"
    [] BadChoice(bound, {"if", "detector"}) -> "choice"
    [] cmd.noSync -> "folded"
    [] BadChoice(bound, {"agc"}) -> "choice"
    [] FramingRefused(c) -> "framing"
    [] BadChoice(bound, {"comb_mode"}) -> "choice"
    [] ~DecoderAccepts(c, EnvelopeRate(cmd), cmd.width, cmd.height) -> "config"
    [] OTHER -> "runs"

\* main: expand, parse, run.
Render(cmd, store) ==
  LET expanded == Expansion(cmd, store)
      bound    == Bound(Over(cmd.given, expanded.tokens))
      c        == Config(cmd, bound)
  IN  IF ~expanded.ok THEN [verdict |-> "profile", config |-> << >>]
      ELSE IF ~Parses(cmd.given, expanded.tokens) THEN [verdict |-> "parse", config |-> << >>]
      ELSE IF cmd.help THEN [verdict |-> "help", config |-> << >>]
      ELSE [verdict |-> Verdict(cmd, bound, c), config |-> c]
=============================================================================
