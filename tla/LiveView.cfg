\* Two handlers that restart, hence up to three children, and one that is refused.
SPECIFICATION FairSpec
CONSTANTS
  h1 = h1
  h2 = h2
  h3 = h3
  gain = gain
  Colour = Colour
  Setters <- ThreeSetters
  Knobs <- TwoKnobs
  Slides <- GainSlides
  Defaults <- ColourOn
  Request <- Queries
  MaxSpawns = 3
INVARIANTS
  RestartIsNoDeath
  DecoderRunsValues
  CurrentReaderIsSized
PROPERTY
  DeathIsNoticed
CHECK_DEADLOCK FALSE
