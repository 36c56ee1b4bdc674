SPECIFICATION Spec
CONSTANTS
  MaxPosted = 2
INVARIANT TypeOK
INVARIANT ConnectedIsServed
INVARIANT NothingLeftToFree
PROPERTY PromiseSetOnce
PROPERTY CallsReturn
PROPERTY ImplementsLife
CHECK_DEADLOCK FALSE
