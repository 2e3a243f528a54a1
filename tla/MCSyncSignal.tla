---------------------------- MODULE MCSyncSignal ----------------------------
EXTENDS SyncSignal

MCSignals ==
  {[mode |-> m, picture |-> p, kind |-> "power", level |-> 1000] : m \in {"tip", "adaptive"}, p \in {200, 760}}
  \cup {[mode |-> m, picture |-> p, kind |-> "fade", level |-> l] : m \in {"tip", "adaptive"}, p \in {200, 760}, l \in {500, 1300}}
  \cup {[mode |-> m, picture |-> 200, kind |-> "spoilt", level |-> 1000] : m \in {"tip", "adaptive"}}

MCImpulses == {<< 80, 1280 >>, << 80, 1550 >>, << 300, 700 >>}   \* drives the rate from 0.83 to 1.17 of nominal
MCEntries == {1, 40, 90}
MCTicks == {27, 37, 73, 80, 127, 200, 300, 347, 427, 463, 500, 627, 647, 700, 820, 927, 1280, 1550}
=============================================================================
