SPECIFICATION Spec
CONSTANTS
  o1 = o1
  o2 = o2
  MaxSize = 5
  MaxWords = 5
  Texts <- MC_Texts
  ChunkSize = 2
  Foreign <- MC_Foreign
INVARIANTS
  TypeOK
  WordsPartitioned
  ExactIfNormalised
  ContextIsText
PROPERTIES
  FewerOnlyIfCrowded
