SPECIFICATION Spec
CONSTANTS
  Addr <- MCAddr
  Page <- MCPage
  Off <- MCOff
  Frames = {0, 1}
  VPages = {3, 4}
  UserPages = {4}
  Roots = {"k", "u"}
  Root0 = "k"
  NoFrame = NoFrame
  Images <- MCImages
  Tables <- MCTables
  Patches = {"jump", "alu"}
  Targets = {0, 3, 6, 8}
  Vectors <- MCVectors
  MaxBlock = 3
  MaxWrites = 1
INVARIANTS
  TypeOK
  BlocksFaithful
  InOrder
