SPECIFICATION Spec
CONSTANTS
  Source = {1, 10}
  MaxPriority = 1
  MaxRx = 2
  MaxUsed = 2
  MaxMasks = 2
INVARIANTS
  TypeOK
  ClaimMeansWork
  SeipFresh
PROPERTIES
  CompletionReaped
  InputRead
