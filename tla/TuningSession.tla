--------------------------- MODULE TuningSession ----------------------------
(***************************************************************************)
(* A tuning session in one of the two tools - the live view, whose sliders *)
(* restart a decoder, or tune.py, whose sliders re-render a recording -    *)
(* the profiles it loads and leaves behind, and the command line they are  *)
(* used on afterwards.                                                     *)
(*                                                                         *)
(* One browser page drives the session; requests are served one at a time  *)
(* here (LiveView is about their interleaving), and what is at stake is    *)
(* what values, files and command lines come to.                           *)
(***************************************************************************)
EXTENDS RenderArgs

CONSTANTS
  Modes,      \* input modes a session can have
  Movable,    \* the sliders a session moves: to an end of their range, or back
  Names,      \* the names profiles are saved under
  HandFiles,  \* profiles that are there to begin with, by name: edited by hand, or stale
  Seeds,      \* the --profile arguments a session may be started with
  Commands,   \* the command lines tried on the profiles afterwards
  MaxMoves    \* bound: slider moves, in all

ASSUME TuningAssumption ==
  /\ Modes \subseteq InputModes /\ Movable \subseteq Knobs
  /\ Names \cap DOMAIN HandFiles = {} /\ MaxMoves \in Nat
  /\ Seeds \subseteq Seq(Names \cup DOMAIN HandFiles)
  /\ \A n \in DOMAIN HandFiles : HandFiles[n].parses =>
       \A k \in DOMAIN HandFiles[n].values : HandFiles[n].values[k].v \in Int
  /\ \A cmd \in Commands :
       /\ DOMAIN cmd = CommandFields /\ cmd.rate \in Nat /\ cmd.decimate \in Nat
       /\ cmd.width \in Nat /\ cmd.height \in Nat
       /\ cmd.specs \in Seq(Names \cup DOMAIN HandFiles) /\ \A f \in DOMAIN cmd.given : cmd.given[f].v \in Int

VARIABLES
  tool,      \* "live" or "tune"
  mode,      \* the session's input mode
  phase,     \* "closed", "open", "died" (the decoder would not start), "over"
  values,    \* where the sliders are: the live view's applied values, tune.py's page
  rendered,  \* tune.py's last successful set, or << >>
  store,     \* the profile directory
  saved,     \* history: saved[n] is the session's values when it wrote n, or << >>
  moves,     \* slider moves made
  command,   \* the command line tried, or << >>
  outcome    \* and what became of it

vars == << tool, mode, phase, values, rendered, store, saved, moves, command, outcome >>

Missing == [parses |-> FALSE]

Init ==
  /\ tool \in {"live", "tune"} /\ mode \in Modes
  /\ phase = "closed" /\ values = << >> /\ rendered = << >>
  /\ store = Over(HandFiles, [n \in Names |-> Missing])
  /\ saved = [n \in Names |-> << >>] /\ moves = 0
  /\ command = << >> /\ outcome = << >>

\* What either tool runs the decoder with: the flags of these values, its own options.
ToolCommand(t, m, args) ==
  [help |-> FALSE, input |-> IF m = "composite" \/ t = "tune" THEN m ELSE "absent", given |-> args,
   profiles |-> FALSE, specs |-> << >>, live |-> t = "live", rate |-> 20000,
   decimate |-> IF t = "live" THEN 1 ELSE 0, frameFd |-> t = "live",
   carrier |-> IF t = "live" /\ m = "rf" THEN 3000 ELSE 0, scan |-> FALSE, noSync |-> FALSE,
   noDelayLine |-> FALSE, width |-> IF t = "live" THEN 720 ELSE 643, height |-> 576]

\* tune.py names every knob; the live view asks flags_for.
ToolFlags(t, m, v) ==
  IF t = "live" THEN FlagsFor(ForInput(m), v)
  ELSE [ok |-> TRUE, args |-> AsFlags(ForInput(m), v)]

ToolVerdict(t, m, v) ==
  LET flags == ToolFlags(t, m, v) IN IF flags.ok THEN Render(ToolCommand(t, m, flags.args), << >>).verdict ELSE "refused"

-----------------------------------------------------------------------------
(* The session.                                                            *)

\* Profiles overlaid in order on the default sliders; a bad one, and the tool does not start.
Seeded(specs) ==
  LET loaded    == [i \in DOMAIN specs |-> LoadProfile(store[specs[i]], ForInput(mode), mode)]
      naming(k) == {i \in DOMAIN specs : k \in DOMAIN loaded[i].values}
      last(k)   == CHOOSE i \in naming(k) : \A j \in naming(k) : j <= i
  IN  IF \E i \in DOMAIN specs : ~loaded[i].ok THEN Refused
      ELSE [ok |-> TRUE, values |-> [k \in ForInput(mode) |-> IF naming(k) = {} THEN Table[k].default
                                                              ELSE loaded[last(k)].values[k]]]

Start(specs) ==
  /\ phase = "closed" /\ command = << >>
  /\ \/ ~Seeded(specs).ok /\ phase' = "over" /\ UNCHANGED values
     \/ Seeded(specs).ok /\ phase' = "open" /\ values' = Seeded(specs).values
  /\ UNCHANGED << tool, mode, rendered, store, saved, moves, command, outcome >>

\* The new sliders reach the decoder: the live view restarts it, and a child that
\* refuses them takes the server with it; tune.py reports a failed render and goes on.
Apply(v) ==
  LET verdict == ToolVerdict(tool, mode, v)
  IN  IF verdict = "refused" THEN UNCHANGED << values, phase, rendered >>
      ELSE /\ values' = v
           /\ phase' = IF tool = "live" /\ verdict # "runs" THEN "died" ELSE phase
           /\ rendered' = IF tool = "tune" /\ verdict = "runs" THEN v ELSE rendered

MoveSlider(k, v) ==
  /\ phase = "open" /\ moves < MaxMoves /\ k \in DOMAIN values /\ v # values[k]
  /\ Apply([values EXCEPT ![k] = v])
  /\ moves' = moves + 1
  /\ UNCHANGED << tool, mode, store, saved, command, outcome >>

\* A /set typed by hand: past an end of the range, or between two choices.
SetByHand(k, v) ==
  /\ phase = "open" /\ tool = "live" /\ moves < MaxMoves /\ k \in DOMAIN values
  /\ Apply([values EXCEPT ![k] = v])
  /\ moves' = moves + 1
  /\ UNCHANGED << tool, mode, store, saved, command, outcome >>

\* The page's load button: the file's knobs move, the rest stay where they are.
LoadFromPage(n) ==
  /\ phase = "open" /\ tool = "live"
  /\ LET r == LoadProfile(store[n], ForInput(mode), mode)
     IN  IF r.ok THEN Apply(Over(r.values, values)) ELSE UNCHANGED << values, phase, rendered >>
  /\ UNCHANGED << tool, mode, store, saved, moves, command, outcome >>

Write(n, v) ==
  /\ store' = [store EXCEPT ![n] = ProfileJson(v, mode)]
  /\ saved' = [saved EXCEPT ![n] = v]

SaveFromPage(n) ==
  /\ phase = "open" /\ tool = "live"
  /\ Write(n, values)
  /\ UNCHANGED << tool, mode, phase, values, rendered, moves, command, outcome >>

\* Ctrl-C.  tune.py prints the last set that rendered, if any, as a profile.
Quit(n) ==
  /\ phase = "open" /\ phase' = "closed" /\ values' = << >> /\ rendered' = << >>
  /\ IF tool = "tune" /\ rendered # << >> THEN Write(n, rendered) ELSE UNCHANGED << store, saved >>
  /\ UNCHANGED << tool, mode, moves, command, outcome >>

\* The profiles on render's own command line.
Offline(cmd) ==
  /\ phase = "closed" /\ command = << >> /\ moves > 0
  /\ command' = cmd /\ outcome' = Render(cmd, store)
  /\ UNCHANGED << tool, mode, phase, values, rendered, store, saved, moves >>

Next ==
  \/ \E specs \in Seeds : Start(specs)
  \/ \E k \in Movable : \E v \in {Table[k].min, Table[k].default, Table[k].max} : MoveSlider(k, v)
  \/ \E k \in Movable : \E v \in {Table[k].min - 500, Table[k].max + 500} : SetByHand(k, v)
  \/ \E n \in DOMAIN store : LoadFromPage(n)
  \/ \E n \in Names : SaveFromPage(n)
  \/ \E n \in Names : Quit(n)
  \/ \E cmd \in Commands : Offline(cmd)

Spec == Init /\ [][Next]_vars

-----------------------------------------------------------------------------
(* Properties.                                                             *)

(* A profile speaks for the whole session that wrote it: a fresh session   *)
(* of the same input seeded from it has every slider where it was, a       *)
(* choice or toggle set between two of its values at the one it stood for, *)
(* sparse as the file is (knobs.py 392-399).                               *)
SavedSessionReloads ==
  \A n \in Names : saved[n] # << >> =>
    LET r == LoadProfile(store[n], ForInput(mode), mode)
    IN  r.ok /\ Over(r.values, Defaults(mode)) = [k \in DOMAIN saved[n] |-> Cut(k, saved[n][k])]

\* A flag of the input's own, as its slider could give it, or at its "unset" value.
OrdinaryFlag(m, k, arg) == k \in ForInput(m) /\ (WellTyped(k, arg) \/ (arg.json = JsonOf(k) /\ ~Meant(k, arg.v)))

\* A picture asked for from a recording that carries the subcarrier, with profiles
\* the tools would load and ordinary flags, none given twice.
OrdinaryUse(cmd) ==
  /\ cmd.profiles /\ cmd.specs # << >> /\ ~cmd.help /\ ~cmd.live /\ ~cmd.noSync /\ cmd.width > 0 /\ cmd.height > 0
  /\ Mode(cmd) \in InputModes /\ (Mode(cmd) = "composite" => cmd.carrier = 0 /\ ~cmd.scan)
  /\ 2 * SubcarrierKHz < EnvelopeRate(cmd)
  /\ \A f \in DOMAIN cmd.given : OrdinaryFlag(Mode(cmd), Canonical(f), cmd.given[f])
  /\ ~({"colour", "color"} \subseteq DOMAIN cmd.given)
  /\ \A i \in DOMAIN cmd.specs : LoadProfile(store[cmd.specs[i]], ForInput(Mode(cmd)), Mode(cmd)).ok

GateOpensFirst(c) == c["burst_lo"] < c["burst_hi"]
SplatsFit(cmd)    == cmd.width <= 16384 /\ cmd.height <= 16384
NamesNull(cmd)    == \E i \in DOMAIN cmd.specs : store[cmd.specs[i]].input = "null"

Naming(cmd, k) == {i \in DOMAIN cmd.specs : k \in DOMAIN store[cmd.specs[i]].values}
Spelt(cmd, k)  == {f \in DOMAIN cmd.given : Canonical(f) = k}

\* Where docs/render.md says a knob's value comes from; an "unset" flag still beats a profile.
Expected(cmd, c, k) ==
  LET flag == CHOOSE f \in Spelt(cmd, k) : TRUE
      last == CHOOSE i \in Naming(cmd, k) : \A j \in Naming(cmd, k) : j <= i
  IN  CASE Spelt(cmd, k) # {} /\ Meant(k, cmd.given[flag].v) -> cmd.given[flag].v
        [] Spelt(cmd, k) = {} /\ Naming(cmd, k) # {} -> store[cmd.specs[last]].values[k].v
        [] OTHER -> IF k = "comb_mode" /\ cmd.noDelayLine THEN 0
                    ELSE RenderDefault(Mode(cmd), c["agc"] = Index(1), c["if"] = Index(1), k)

(* Of the files the tools would load, render takes all but those whose     *)
(* input is null, with any flags of the user's: nothing is passed twice or *)
(* to the wrong front end, an explicit flag beats a profile and a later    *)
(* profile an earlier one, knob by knob (docs/render.md 141-145).  What is *)
(* left for render to refuse is a burst gate that closes before it opens,  *)
(* each end where its slider may be, and a picture too big for its splats; *)
(* no slider of any picture that size puts the beam off them.              *)
RenderTakesProfiles ==
  command # << >> /\ OrdinaryUse(command) =>
    IF NamesNull(command) THEN outcome.verdict = "profile"
    ELSE /\ outcome.verdict \in {"runs", "config"}
         /\ outcome.verdict = "runs" <=> GateOpensFirst(outcome.config) /\ SplatsFit(command)
         /\ \A k \in ForInput(Mode(command)) : outcome.config[k] = Expected(command, outcome.config, k)

\* Knobs whose default is one thing in the table and another in render.
DefaultsDiffer(m, v) ==
  {"colour", "beam_sigma_x"}
  \cup (IF m = "composite" THEN {"cutoff"} ELSE {})
  \cup (IF Cut("agc", v["agc"]) = Index(1) THEN {"saturation", "contrast"} ELSE {})
  \cup (IF m = "rf" /\ Cut("if", v["if"]) = Index(1) THEN {"sound_notch_db", "gd_ripple"} ELSE {})

(* A saved session played back by render with that one profile decodes     *)
(* with the sliders it was saved at, except where a slider was left at a   *)
(* default that render does not share: those, and no others, are lost.     *)
PlaybackKeepsSliders ==
  command # << >> /\ Len(command.specs) = 1 /\ command.given = << >> /\ ~command.noDelayLine
                  /\ outcome.verdict = "runs" /\ command.specs[1] \in Names =>
    LET was == saved[command.specs[1]]
    IN  \A k \in DOMAIN was :
          outcome.config[k] # Cut(k, was[k]) <=> k \in DefaultsDiffer(mode, was) /\ was[k] = Table[k].default

(* The decoder turns down, of all the slider sets a session comes to and   *)
(* of all it can be moved to from the start, exactly those whose burst     *)
(* gate closes before it opens: every other end of every range of the      *)
(* table is one that render and the constructors accept.                   *)
OnlyCrossedGateRefused ==
  /\ phase = "died" => ~GateOpensFirst(values)
  /\ phase = "open" /\ moves = 0 =>
       \A k \in DOMAIN values : \A v \in {Table[k].min, Table[k].max} :
         LET set == [values EXCEPT ![k] = v]
         IN  ToolVerdict(tool, mode, set) = IF GateOpensFirst(set) THEN "runs" ELSE "config"
=============================================================================
