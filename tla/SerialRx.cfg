\* The ring of the firmware (2 slots), two lost bytes anywhere, one byte inside readpos++; &= MASK.
SPECIFICATION Spec
CONSTANTS
  Size = 2
  FrameLen = 3
  Burst = 1
  MaxLoss = 2
  Byte <- MCByte
  Zero = "data"
  END = "end"
  ESC = "esc"
  STANDARD = "std"
  Packets <- MCPackets
INVARIANTS
  TypeOK
  DamageBounded
PROPERTIES
  CapturedStaysWhole
  RingDrains
