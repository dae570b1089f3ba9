SPECIFICATION FairSpec
CONSTANTS
  u1 = u1
  u2 = u2
  c1 = c1
  Setters <- MC_Setters
  Chats <- MC_Chats
  Capacity = 2
  DBFails = FALSE
  MaxVer = 4
PROPERTIES
  EventuallyFresh
