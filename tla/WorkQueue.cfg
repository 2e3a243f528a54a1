\* Two consecutive batches show what one leaves behind for the next.
SPECIFICATION FairSpec
CONSTANTS
  w1 = w1
  w2 = w2
  Workers <- Helpers
  Caller = Caller
  MaxTasks = 3
  MaxBatches = 2
INVARIANTS
  TypeOK
  ClaimsAreOwn
PROPERTIES
  Refines
  BatchReturns
  WorkersExit
