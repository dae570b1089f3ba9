SPECIFICATION FairSpec
CONSTANTS
  d1 = d1
  d2 = d2
  j1 = j1
  none = none
  Docs <- MC_Docs
  Jobs <- MC_OneJob
  NoDoc = none
  Parts = 2
  Capacity = 1
  Faults = TRUE
INVARIANTS
  TypeOK
  RowHasObject
  StuckExplained
  SuccessIsIndexed
  
PROPERTIES
  EventuallyFinished
