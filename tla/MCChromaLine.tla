---------------------------- MODULE MCChromaLine ----------------------------
EXTENDS ChromaLine, SequencesExt
CONSTANT Lines

B == [start |-> FALSE, gate |-> FALSE]
G == [start |-> FALSE, gate |-> TRUE]
S == [start |-> TRUE, gate |-> FALSE]
T == [start |-> TRUE, gate |-> TRUE]

LineShapes ==
  { << S, G, G, B >>,                    \* nominal
    << S, B, G >>,                       \* the next start falls in the gate
    << S, G, B, G, B >>,                 \* the gate closes twice
    << T, G, B, B, B, B, B >>,           \* the longest line the ring holds, started in the gate
    << S, G, G, B, B, B, B, B >>,        \* one longer: not measured
    << S, B >> }                         \* no gate at all

Streams == {FlattenSeq(lines) : lines \in [1 .. Lines -> LineShapes]}
MCInputs ==
  {[beam |-> b, levels |-> l, mode |-> m, pull |-> p] :
     b \in Streams, l \in {<< "strong" >>, << "strong", "weak", "strong" >>, << "weak", "strong", "weak" >>},
     m \in {"off", "post", "delay_line", "glass"}, p \in BOOLEAN}
=============================================================================
