SPECIFICATION FairSpec
CONSTANTS
  CounterMod = 64
  TimaMod = 3
  Selects = {1, 2}
  HalfPeriod <- MCHalfPeriod
  ApuHalf <- MCApuHalf
  Corrections = {0, 13}
INVARIANTS
  TimerInv
PROPERTIES
  RequestComesOnTime
  EnabledTimerKeepsFiring
