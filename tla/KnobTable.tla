----------------------------- MODULE KnobTable ------------------------------
(***************************************************************************)
(* tools/knobs.py: the table of tunables, and the three translations the   *)
(* tools make with it - slider positions to render flags, a profile file   *)
(* to slider positions, slider positions to a profile file.                *)
(*                                                                         *)
(* A slider position is an integer: thousandths of an index for a choice,  *)
(* 0 or 1000 for a toggle, thousandths of the table's unit for the rest    *)
(* (frequencies in kHz, gains of 1e-5 and below in 1e-9).  A value in a    *)
(* profile file has a JSON type and stands for that same integer: a        *)
(* choice's string is its index.  Labels, steps and help are left out.     *)
(***************************************************************************)
EXTENDS Integers, FiniteSets, TLC

\* The position of a choice's value, and of a toggle that is off (0) or on (1).
Index(i) == 1000 * i

Slider(lo, hi, default) == [kind |-> "slider", min |-> lo, max |-> hi, default |-> default]
Choice(n, default)      == [kind |-> "choice", min |-> 0, max |-> Index(n - 1), default |-> Index(default)]
Toggle(default)         == [kind |-> "toggle", min |-> 0, max |-> Index(1), default |-> Index(default)]

Table ==
  [colour |-> Toggle(1),
   cutoff |-> Slider(3000, 8000, 4800),          sync_cutoff |-> Slider(300, 3000, 1200),
   composite_sync |-> Slider(50, 1000, 300),     composite_scale |-> Slider(200, 4000, 1000),
   composite_clamp |-> Slider(4, 512, 128),      persistence |-> Slider(300, 6000, 1600),
   beam_sigma |-> Slider(0, 1200, 520),          beam_sigma_x |-> Slider(0, 2500, 1100),
   gamma |-> Slider(1000, 3000, 2600),           readout_gamma |-> Slider(1000, 2600, 2200),
   overscan |-> Slider(-10, 150, 60),            bcl |-> Slider(0, 1200, 700),
   bcl_tc |-> Slider(100, 5000, 500),            h_shift |-> Slider(-50, 50, 0),
   v_shift |-> Slider(-50, 50, 0),               eht_sag |-> Slider(0, 250, 60),
   eht_tc |-> Slider(250, 10000, 2000),          eht_focus |-> Slider(0, 1000, 300),
   line_pull |-> Slider(0, 20, 3),               saturation |-> Slider(0, 500, 85),
   uv_bandwidth |-> Slider(200, 2600, 1300),     contrast |-> Slider(400, 3000, 1600),
   pwl |-> Slider(0, 2000, 1250),                if |-> Choice(3, 0),
   detector |-> Choice(2, 0),                    sound_notch_db |-> Slider(10, 60, 26),
   gd_ripple |-> Slider(0, 200, 50),             agc |-> Choice(2, 0),
   slice_depth |-> Slider(20, 300, 80),          burst_lo |-> Slider(60, 240, 110),
   burst_hi |-> Slider(80, 280, 140),            comb_mode |-> Choice(4, 1),
   ref_tc |-> Slider(2, 100, 10),                ident_tc |-> Slider(2, 3000, 10),
   apc_catch |-> Slider(0, 2000, 500),           apc_pull |-> Slider(2, 200, 20),
   h_blank |-> Slider(100, 280, 160),            sync_level |-> Slider(500, 950, 850),
   h_kp |-> Slider(0, 1000, 100),                h_ki |-> Slider(0, 50000, 10000),
   h_acq_kp |-> Slider(0, 1000, 500),            h_acq_ki |-> Slider(0, 500000, 100000),
   h_clamp |-> Slider(20, 300, 200),             v_level |-> Slider(100, 900, 400),
   v_kp |-> Slider(0, 1000, 1000),               v_ki |-> Slider(0, 100, 20),
   v_tc |-> Slider(100, 3000, 500),              v_min_field |-> Slider(0, 950, 700)]

Knobs == DOMAIN Table

RfOnly        == {"if", "detector", "sound_notch_db", "gd_ripple"}
CompositeOnly == {"composite_sync", "composite_scale", "composite_clamp"}

ForInput_Unfiltered(mode) == Knobs
\* The knobs a session of this input mode has: render rejects the others' flags.
ForInput(mode) == IF mode = "composite" THEN Knobs \ RfOnly ELSE Knobs \ CompositeOnly

Defaults(mode) == [k \in ForInput(mode) |-> Table[k].default]

InRange(k, v) == Table[k].min <= v /\ v <= Table[k].max

\* What of a position the decoder or a file gets: int() cuts a choice towards zero,
\* and asks of a toggle only whether its whole part is zero.
Cut(k, v) ==
  CASE Table[k].kind = "slider" -> v
    [] Table[k].kind = "choice" -> IF v < 0 THEN -Index((-v) \div 1000) ELSE Index(v \div 1000)
    [] Table[k].kind = "toggle" -> IF -1000 < v /\ v < 1000 THEN 0 ELSE Index(1)

Refused == [ok |-> FALSE]

\* dict(g) updated with f, as @@ is; written out so that it can be reasoned about.
Over(f, g) == [k \in DOMAIN f \cup DOMAIN g |-> IF k \in DOMAIN f THEN f[k] ELSE g[k]]

\* A value as JSON types it; a render argument is one too: --flag=value, or a bare --flag ("bool").
Typed(json, v) == [json |-> json, v |-> v]
JsonOf(k) == CASE Table[k].kind = "choice" -> "string"
               [] Table[k].kind = "toggle" -> "bool"
               [] Table[k].kind = "slider" -> "number"

\* Values as arguments, by flag: a toggle at zero is no argument.
AsFlags(knobs, values) ==
  [k \in {g \in knobs : Table[g].kind = "toggle" => Cut(g, values[g]) # 0} |-> Typed(JsonOf(k), Cut(k, values[k]))]

\* flags_for: a choice's range is its index's, and no toggle is out of range.
FlagsFor(knobs, values) ==
  LET given == knobs \cap DOMAIN values
  IN  IF \E k \in given : ~InRange(k, Cut(k, values[k])) THEN Refused
      ELSE [ok |-> TRUE, args |-> AsFlags(given, values)]

\* A value of the knob's own type: a number in range, a string of the list, a bool.
WellTyped(k, typed) == typed.json = JsonOf(k) /\ InRange(k, typed.v) /\ Cut(k, typed.v) = typed.v

\* load_profile: as sparse as the file; anything a slider could not be at is an error.
\* An input of null is as good as none.
LoadProfile(file, knobs, mode) ==
  IF \/ ~file.parses
     \/ file.input \notin {"absent", "null", mode}
     \/ \E k \in DOMAIN file.values : k \notin knobs \/ ~WellTyped(k, file.values[k])
  THEN Refused
  ELSE [ok |-> TRUE, values |-> [k \in DOMAIN file.values |-> file.values[k].v]]

File(mode, kept, values) ==
  [parses |-> TRUE, input |-> mode, values |-> [k \in kept |-> Typed(JsonOf(k), Cut(k, values[k]))]]

ProfileJson_DropsZero(values, mode) ==
  File(mode, {k \in DOMAIN values : values[k] # 0 /\ values[k] # Table[k].default}, values)
\* profile_json: sparse on the way out too, a value at the table's default is dropped.
ProfileJson(values, mode) == File(mode, {k \in DOMAIN values : values[k] # Table[k].default}, values)
=============================================================================
