\* prepare() skipped and first growth to two records: the storage is
\* reallocated, with and without records committed in it.
SPECIFICATION Spec
CONSTANTS
  Fade = Fade
  Junk = Junk
  MinGrowth = 2
  Prepared = 0
  MaxBlock = 3
  MaxSplats = 5
  MaxFields = 3
PROPERTY
  ShowsEagerPhosphor
