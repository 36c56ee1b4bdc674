SPECIFICATION Spec
CONSTANTS
  t1 = t1
  t2 = t2
  Run = Run
  Single = Single
  Loop = Loop
  Threads = {t1, t2}
  Programs <- MCPrograms
  OpenAt <- MCOpenAt
  MaxTime = 4
  Configurations <- MCConfigurations
  A = 2
  MaxDistance = 9
  Sizes = {1, 2}
  Team = {t1, t2}
  Main = Run
  nsym = 3
  Counts = {1, 2}
  Dims <- MCDims
  Limits <- MCLimits
  MaxRecords = 2
  Tokens = {"name", "5433"}
  PortNumbers = {"5432", "5433"}
  Inputs <- MCInputs
  Word32 = 4
  Numbers <- MCNumbers
  MaxHops = 2
CHECK_DEADLOCK FALSE
INVARIANT TimesAreTrue
INVARIANT ObjectIsRenewed
INVARIANT SystemIsSolved
INVARIANT SimulationsAveraged
INVARIANT RecordsComeBack
INVARIANT StringsComeBack
INVARIANT ObjectsComeBack
