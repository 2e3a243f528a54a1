\* A source pool of two buffers, one-buffer output pools, four blocks: a
\* block can be in every stage at once while the source waits for a buffer.
SPECIFICATION FairSpec
CONSTANTS
  NStages = 3
  NBlocks = 4
  InFlight <- ThreeStages
INVARIANTS
  TypeOK
  NoEmptyDeref
  BuffersConserved
  BackpressureBound
  CleanDrain
PROPERTIES
  InOrder
  Refines
  Terminates
