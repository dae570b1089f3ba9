SPECIFICATION FairSpec
CONSTANTS
  a = a
  b = b
  s1 = s1
  s2 = s2
  none = none
  Subjects <- MC_Subjects
  Subs <- MC_Subs
  Cancelable <- MC_Cancelable
  NoSubject = none
  Capacity = 2
  MayClose = TRUE
  MaxMsg = 3
INVARIANTS
  TypeOK
  SubscribedIsOpen
  PanicOnlyAfterCloseAndCancel
  InOrderOnce
PROPERTIES
  ImplementsBroadcast
  ReadersReleased
CHECK_DEADLOCK FALSE
