\* Two children and two recordings; a pipe shorter than a chunk, recordings
\* that end on the edge of a chunk and inside one.
SPECIFICATION FairSpec
CONSTANTS
  r1 = r1
  r2 = r2
  Recorders <- TwoRecorders
  Parts = 2
  Room = 1
  Takes = {2, 3}
  MaxGens = 2
  Cycle = 2
INVARIANTS
  SinkIsOwned
  OkMeansRecorded
PROPERTIES
  InputUnsheared
  RestartCompletes
CHECK_DEADLOCK FALSE
