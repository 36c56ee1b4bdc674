SPECIFICATION Spec
CONSTANTS
  Nodes = {n1, n2, n3}
  MaxIndex = 5
  Word = 24
  Speeds = {1, 2, 5}
  Sizes = {0}
  UnknownSize = 9
  GarbageWords <- MCGarbage
INVARIANT NonIntersecting
INVARIANT NothingLost
INVARIANT BalancedBlocks
INVARIANT ThrowsOnlyOnEmptyShare
PROPERTY ImplementsPartition
