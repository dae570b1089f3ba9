SPECIFICATION Spec
CONSTANTS
  u1 = u1
  u2 = u2
  u3 = u3
  u4 = u4
  u5 = u5
  p1 = p1
  nothing = nothing
  Uploads <- MC_Uploads
  Projects <- MC_OneProject
  NoProject = nothing
  Sizes <- MC_Sizes
  KB = 2
  MaxFile = 4
  MaxProject = 4
  AtOnce = 1
SYMMETRY MC_Symmetry
INVARIANTS
  LimitIsInBytes
