\* render --live: one transform (decode) and the sink (deposit).
SPECIFICATION LiveSpec
CONSTANTS
  NStages = 2
  NBlocks = 1
  MaxChains = 3
  InFlight <- TwoStages
PROPERTY
  ExceptionIsRethrown
