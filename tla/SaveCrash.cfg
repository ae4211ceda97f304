SPECIFICATION Spec
CONSTANTS
  NoFile = NoFile
  Torn = Torn
  NoTime = NoTime
  NoDeadline = NoDeadline
  NoSession = NoSession
  Configs <- MCDebouncedRam
  TicksPerSecond = 2
  Debounce = 1
  FrameSteps = 2
  CapturesPerFrame = 1
  TargetHistory = 2
  MaxSnapshots = 2
  FirstWall = 1
  MaxWall <- MCMaxWall
  MaxStep = 4
  MaxWrites = 2
  MaxFaults = 1
  MaxOps = 2
INVARIANT SaveSurvivesCrash
CHECK_DEADLOCK FALSE
