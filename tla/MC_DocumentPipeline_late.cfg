SPECIFICATION Spec
CONSTANTS
  d1 = d1
  d2 = d2
  j1 = j1
  none = none
  Docs <- MC_OneDoc
  Jobs <- MC_OneJob
  NoDoc = none
  Parts = 1
  Capacity = 1
  Faults = FALSE
INVARIANTS
  QueuedIsQueued
