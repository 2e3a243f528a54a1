-------------------------- MODULE MCTuningSession ---------------------------
EXTENDS TuningSession

Sparse(input, kept) == [parses |-> TRUE, input |-> input, values |-> kept]

On        == Typed("bool", Index(1))
Number(v) == Typed("number", v)
Word(i)   == Typed("string", Index(i))

\* Good, of input null, garbled, stale, wrongly typed, of no mode, and of the other mode's knobs.
MCHandFiles ==
  [warm     |-> Sparse("absent", [contrast |-> Number(1900), colour |-> On]),
   nulled   |-> Sparse("null", [contrast |-> Number(1700)]),
   garbled  |-> Missing,
   stale    |-> Sparse("rf", [hue |-> Number(1000)]),
   indexed  |-> Sparse("absent", [comb_mode |-> Number(2000)]),
   listed   |-> Sparse("absent", [contrast |-> Typed("array", 0)]),
   modeless |-> Sparse("absent", [if |-> Word(1), contrast |-> Number(800)])]

MCSeeds == {<< >>, << "warm" >>, << "garbled" >>, << "nulled", "a" >>}

Plain == [help |-> FALSE, input |-> "absent", given |-> << >>, profiles |-> FALSE, specs |-> << >>, live |-> FALSE,
          rate |-> 20000, decimate |-> 0, frameFd |-> FALSE, carrier |-> 0, scan |-> FALSE, noSync |-> FALSE,
          noDelayLine |-> FALSE, width |-> 720, height |-> 576]

Using(specs) == [Plain EXCEPT !.profiles = TRUE, !.specs = specs]

Flags == {<< >>, [color |-> On], [colour |-> On, contrast |-> Number(1000)],
          [agc |-> Word(1)], [if |-> Word(2)], [cutoff |-> Number(0)]}

MCCommands ==
  {[Using(<< "warm", "a" >>) EXCEPT !.input = i, !.given = g] : i \in {"absent", "composite"}, g \in Flags}
  \cup {[Using(s) EXCEPT !.input = i] : s \in {<< "a" >>, << "a", "warm" >>}, i \in {"absent", "composite"}}
  \cup {Using(<< n >>) : n \in DOMAIN MCHandFiles} \cup {[Using(<< "modeless" >>) EXCEPT !.input = "composite"]}
  \cup {[Using(<< "a" >>) EXCEPT !.noDelayLine = TRUE], [Using(<< "a" >>) EXCEPT !.help = TRUE], Using(<< >>),
        [Using(<< "a" >>) EXCEPT !.live = TRUE], [Using(<< "a" >>) EXCEPT !.noSync = TRUE],
        [Using(<< "a" >>) EXCEPT !.width = 16384, !.height = 16384], [Using(<< "a" >>) EXCEPT !.width = 20000],
        [Plain EXCEPT !.width = 0], [Plain EXCEPT !.input = "ntsc"], [Plain EXCEPT !.given = [overscan |-> Number(600)]],
        [Plain EXCEPT !.given = [v_tc |-> Number(0)]], [Plain EXCEPT !.given = [comb_mode |-> Word(4)]],
        [Plain EXCEPT !.given = [overscan |-> Number(499)], !.width = 16384]}
=============================================================================
