\* Every speed but the smallest int.
SPECIFICATION Spec
CONSTANTS
  Width = 5
  Shift = 2
  Period = 16
  LowByte = 2
  TimerWrap = 8
  BoostTicks = 3
  InitialSpeed = 1
  Speeds <- MCSafeSpeeds
INVARIANTS
  QuarterDuty
