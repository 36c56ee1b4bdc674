SPECIFICATION Spec
CONSTANTS
  w1 = w1
  b1 = b1
  b2 = b2
  m1 = m1
  m2 = m2
  noBroker = noBroker
  noBlock = noBlock
  Workers = {w1}
  Brokers = {b1, b2}
  NoBroker = noBroker
  Blocks = {m1, m2}
  Bad = {m2}
  NoBlock = noBlock
  MaxFaults = 2
  MaxMeddling = 1
INVARIANT TypeOK
INVARIANT NoSpuriousRepeat
INVARIANT BlocksReachTheirNode
PROPERTY ImplementsAtLeastOnce
PROPERTY QueueDrains
