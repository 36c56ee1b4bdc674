SPECIFICATION Spec
CONSTANTS
  MaxPosted = 2
INVARIANT ConnectLasts
CHECK_DEADLOCK FALSE
