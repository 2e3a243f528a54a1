SPECIFICATION Spec
CONSTANTS
  Modes = {"rf", "composite"}
  Movable = {"colour", "contrast", "cutoff", "if", "agc", "burst_lo", "comb_mode"}
  Names = {"a"}
  HandFiles <- MCHandFiles
  Seeds <- MCSeeds
  Commands <- MCCommands
  MaxMoves = 2
INVARIANTS SavedSessionReloads RenderTakesProfiles PlaybackKeepsSliders OnlyCrossedGateRefused
CHECK_DEADLOCK FALSE
