SPECIFICATION ChromaSpec
CONSTANTS
  Inputs <- MCInputs
  NominalLine = 4
  GlassLen = 5
  RefLines = 2
  Lines = 3
  Blocks = {1, 3, 4, 30}
INVARIANTS RetunesAtGateClose BurstsMeasuredWhole CombReadsOneLineBack
CHECK_DEADLOCK FALSE
