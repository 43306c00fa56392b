CONSTANTS
  CharKeys = {a}
  None = none
  Period = 2
  HeldLimit = 3
  CountLimit = 2
  LineLimit = 1
SPECIFICATION FairSpec
INVARIANTS
  KeysCounted
  LineIsShown
PROPERTIES
  RepeatsNoFaster
  KeepsRepeating
CHECK_DEADLOCK FALSE
