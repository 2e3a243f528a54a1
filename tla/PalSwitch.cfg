SPECIFICATION PalSpec
CONSTANTS
  Receptions <- MCReceptions
INVARIANTS LockHeld
PROPERTIES ColourReturns SlowIdentIsKilled
