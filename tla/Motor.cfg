\* Scaled 16-bit arithmetic, every speed class of both signs and the smallest int.
SPECIFICATION Spec
CONSTANTS
  Width = 5
  Shift = 2
  Period = 16
  LowByte = 2
  TimerWrap = 8
  BoostTicks = 3
  InitialSpeed = 1
  Speeds <- MCSpeeds
INVARIANTS
  TypeOK
  PulseWithinSpeed
PROPERTIES
  PulseFollowsSign
  BoostLasts
  BoostEnds
  StandsStill
