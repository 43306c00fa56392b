CONSTANTS
  CharKeys = {a}
  None = none
  Period = 2
  HeldLimit = 2
  CountLimit = 2
  LineLimit = 2
SPECIFICATION Spec
PROPERTY ProcessesShownLine
CHECK_DEADLOCK FALSE
