\* Scaled words; messages of both ends of the range, a knob that skips edges.
SPECIFICATION Spec
CONSTANTS
  Width = 5
  CountWidth = 5
  PULSELEN = 1
  OFFSET = 7
  InitialOffset = 3
  InitialLen = 12
  Lengths <- MCLengths
INVARIANTS
  TypeOK
  TimerFollows
  NeverDark
PROPERTIES
  TurnsSaturate
  KnobRests
