----------------------------- MODULE MCFrontEnd -----------------------------
EXTENDS FrontEnd
CONSTANTS Blocks, Bytes

Base == [live |-> FALSE, format |-> "s16", complex |-> FALSE, rate |-> 20000, rx |-> 8000, air |-> 0, bytes |-> 0,
         input |-> "rf", ifMode |-> "saw80", detector |-> "quasi_sync", dec |-> 1, cutoff |-> 5500,
         carrier |-> 0, scan |-> FALSE, notch |-> -1, block |-> 1]

\* Every chain at every decimation, cut every way, from files and from stdin.
ChainOptions ==
  {[Base EXCEPT !.ifMode = m[1], !.detector = m[2], !.input = m[3], !.cutoff = m[4]] :
     m \in { << "saw80", "quasi_sync", "rf", 5500 >>, << "saw90", "envelope", "rf", 5500 >>,
             << "flat", "envelope", "rf", 4000 >>,
             << "saw80", "envelope", "composite", 3000 >>, << "saw80", "envelope", "composite", 12000 >> }}
Streams ==
  {[o EXCEPT !.dec = d, !.block = b, !.bytes = n, !.format = f, !.live = l, !.carrier = IF l THEN 8000 ELSE 0] :
     o \in ChainOptions, d \in 1 .. 3, b \in Blocks, n \in Bytes, f \in {"s16", "u8"}, l \in BOOLEAN}

\* Recordings and options that loading, the scan or a constructor may turn down.
Refusable ==
  {[Base EXCEPT !.bytes = n, !.block = 20, !.rate = r, !.format = f, !.complex = x, !.rx = c, !.air = a,
                !.scan = s, !.ifMode = m, !.dec = d] :
     n \in {7, 41}, r \in {0, 2000, 16000, 20000}, f \in {"s16", "f32"}, x \in BOOLEAN, c \in {0, 8000}, a \in {0, 4000},
     s \in BOOLEAN, m \in {"saw80", "flat"}, d \in {0, 2, 6}}
  \cup {[Base EXCEPT !.bytes = 41, !.block = 20, !.live = l, !.input = i, !.cutoff = c, !.dec = d, !.ifMode = "flat", !.carrier = z] :
          l \in BOOLEAN, i \in {"rf", "composite"}, c \in {0, 5500, 10000, 15000}, d \in 0 .. 2, z \in {0, 4000}}

\* A Nyquist rate at the sound carrier: only the notch keeps the template off it.
Notched ==
  {[Base EXCEPT !.bytes = 41, !.block = 20, !.rate = 28000, !.ifMode = m, !.notch = n] :
     m \in {"saw80", "saw90", "flat"}, n \in {-1, 1000, 6000}}

MCConfigs == Streams \cup Refusable \cup Notched
=============================================================================
