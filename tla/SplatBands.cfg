\* Two lanes, three bands each: seven rows do not split evenly.
SPECIFICATION BandsSpec
CONSTANTS
  Height = 7
  Lanes = 2
  BandsPerLane = 3
  Centres <- SomeCentres
  Radii = {0, 2}
  MaxRecs = 2
INVARIANTS
  ByteIdentical
