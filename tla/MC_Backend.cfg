SPECIFICATION Spec
CONSTANTS
  u1 = u1
  c1 = c1
  d1 = d1
  d2 = d2
  j1 = j1
  Setters <- MC_Setters
  Chats <- MC_Chats
  Docs <- MC_Docs
  Jobs <- MC_Jobs
  NoDoc = NoDoc
  NoSubject = none
  Parts = 1
  Capacity = 1
  DBFails = FALSE
  Faults = FALSE
  MaxVer = 2
PROPERTIES
  ImplementsSettings
  ImplementsDocuments
