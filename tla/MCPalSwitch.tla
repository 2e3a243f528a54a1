---------------------------- MODULE MCPalSwitch ----------------------------
EXTENDS PalSwitch

\* Coarse, so that every order of lines fits: four-line ident, short ramps.
Small == [one |-> 32, identTc |-> 4, killOn |-> 8, killOff |-> 4, threshold |-> 12, refLines |-> 3, pull |-> TRUE]
\* The shipped values, at a resolution the 1500-line ramp needs.
Shipped == [one |-> 1000000, identTc |-> 10, killOn |-> 1500, killOff |-> 100, threshold |-> 400000,
            refLines |-> 2400, pull |-> TRUE]

\* The frame that inverts the swing every 313 lines, on a set with this ident.
Attack(tc) == [p |-> [Shipped EXCEPT !.identTc = tc], kind |-> "attack", spacing |-> 0, gap |-> 25, frame |-> 313]

MCReceptions ==
  { [p |-> Small, kind |-> "wild", spacing |-> 0, gap |-> 1, frame |-> 1],
    [p |-> [Small EXCEPT !.one = 64, !.threshold = 24], kind |-> "isolated", spacing |-> 6, gap |-> 2, frame |-> 1],
    [p |-> [Small EXCEPT !.threshold = 0], kind |-> "isolated", spacing |-> 6, gap |-> 2, frame |-> 1],
    Attack(10), Attack(30), Attack(200), Attack(1000) }
=============================================================================
