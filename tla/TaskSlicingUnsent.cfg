SPECIFICATION Spec
CONSTANTS
  Nodes = {n1, n2}
  MaxIndex = 5
  Word = 24
  Speeds = {1, 2, 5}
  Sizes = {0}
  UnknownSize = 9
  GarbageWords <- MCGarbage
INVARIANT AcceptedMeansSent
