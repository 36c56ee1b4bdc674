SPECIFICATION Spec
CONSTANTS
  t1 = t1
  t2 = t2
  m1 = m1
  m2 = m2
  m3 = m3
  normal = normal
  uniform = uniform
  unknown = unknown
  noBlock = noBlock
  unmade = unmade
  Team = {t1, t2}
  Blocks = {m1, m2, m3}
  Block <- MCBlock
  Types = {normal, uniform}
  Unmade = unmade
  NoBlock = noBlock
  Sizes = 2
CHECK_DEADLOCK FALSE
INVARIANT BlockSum
INVARIANT OneGenerator
INVARIANT AnswersAreWhole
PROPERTY BlocksEnd
