\* The chip's FIFO of three; a radio that loses its channel, or turns auto-ack on
\* and loses its address, twice in all.
SPECIFICATION Spec
CONSTANTS
  FifoSize = 3
  Message = {"m1", "m2"}
  Other = "other"
  NotifyTicks = 1
  ResetTicks = 3
  TickWrap = 6
  Breakages = {{"RF_CH"}, {"EN_AA", "RX_ADDR_P0"}}
  MaxBreakages = 2
INVARIANTS
  TypeOK
  UpToDate
  Listening
PROPERTIES
  TransmitEnds
  DeafRecovers
