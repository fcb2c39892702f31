\* The chip loses its configuration (power, interrupts), once.
SPECIFICATION Spec
CONSTANTS
  FifoSize = 3
  Message = {"m1", "m2"}
  Other = "other"
  NotifyTicks = 1
  ResetTicks = 3
  TickWrap = 6
  Breakages = {{"CONFIG"}}
  MaxBreakages = 1
PROPERTIES
  RadioRecovers
