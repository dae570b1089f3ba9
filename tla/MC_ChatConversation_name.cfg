SPECIFICATION Spec
CONSTANTS
  c1 = c1
  c2 = c2
  c3 = c3
  r1 = r1
  r2 = r2
  n1 = n1
  n2 = n2
  b1 = b1
  b2 = b2
  none = none
  ChatIds <- MC_TwoChats
  Requests <- MC_OneRequest
  Namers <- MC_Namers
  Branchers <- MC_OneBrancher
  None = none
  Databases <- MC_Both
  DBFails = FALSE
PROPERTIES
  NameIsKept
