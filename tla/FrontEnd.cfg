SPECIFICATION Spec
CONSTANTS
  Configs <- MCConfigs
  IfTaps = 5
  VisionTaps = 7
  ScanSamples = 16
  Blocks = {1, 2, 3, 9, 15, 20, 63, 70}
  Bytes = {150}
INVARIANTS ChunkingInvariant LoadsInBounds WholeSourceDecoded
CHECK_DEADLOCK FALSE
