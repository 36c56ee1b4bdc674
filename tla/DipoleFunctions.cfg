SPECIFICATION DipolesSpec
CONSTANTS
  Configurations <- MCConfigurations
  A = 2
  MaxDistance = 9
  Sizes = {1, 2, 3}
INVARIANT FunctionsAgree
CHECK_DEADLOCK FALSE
