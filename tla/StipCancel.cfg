SPECIFICATION Spec
CONSTANTS
  Period = 4
  SBlock = 2
  MBlock = 4
  Unit = 2
  MaxNow = 5
  Deadline = {1, 2}
  Never = 9
INVARIANTS
  StipFollows
