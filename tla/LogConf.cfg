CONSTANTS
  A = A
  f1 = f1
  f2 = f2
  Setters = {s1, s2}
  Values <- MCValues
  Default <- Empty
  Root = Root
  Names <- MCNames
  Threads = {t1, t2}
  Levels = {1, 2}
  NoFormat = NoFormat
  Formats <- MCFormats
  BadFormat = BadFormat
  Period = 1
  MaxClock = 3
  MaxRotations = 1
  MaxEvents = 1
  Nobody = Nobody
SPECIFICATION Spec
SYMMETRY Symmetry
INVARIANTS
  LoggersFollowConfig
  NothingVanishes
  LinesMisplacedBriefly
CHECK_DEADLOCK FALSE
