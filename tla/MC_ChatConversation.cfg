SPECIFICATION Spec
CONSTANTS
  c1 = c1
  c2 = c2
  c3 = c3
  r1 = r1
  r2 = r2
  n1 = n1
  n2 = n2
  b1 = b1
  b2 = b2
  none = none
  ChatIds <- MC_Chats
  Requests <- MC_Requests
  Namers <- MC_OneNamer
  Branchers <- MC_Branchers
  None = none
  Databases <- MC_Both
  DBFails = TRUE
INVARIANTS
  TypeOK
  NoNestedBranch
  BranchIsComplete
  AnswersFollowQuestions
  ContextComplete
SYMMETRY Symmetric
