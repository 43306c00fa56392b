CONSTANTS
  CharKeys = {a, b}
  None = none
  Period = 2
  HeldLimit = 3
  CountLimit = 2
  LineLimit = 1
SPECIFICATION Spec
PROPERTY RepeatsHeldKey
CHECK_DEADLOCK FALSE
