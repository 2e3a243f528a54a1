SPECIFICATION SyncSpec
CONSTANTS
  CoincidenceLines = 16
  FieldTicks = 24500
  Ticks <- MCTicks
  Signals <- MCSignals
  ActiveLines = 16
  Impulses <- MCImpulses
  Garbage = 4
  Entries <- MCEntries
  SpoilAfter = 20
  Spoils = 2
  Clear = 3
  Settle = 9
INVARIANTS OnlyLinePulsesDrive NoiseKeepsLock TracksAgain FieldReturns
