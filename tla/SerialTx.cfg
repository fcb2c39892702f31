\* The ring of the firmware (4 slots), up to FrameLen interrupts inside writepos++; &= MASK.
SPECIFICATION FairSpec
CONSTANTS
  Size = 4
  FrameLen = 3
  Burst = 3
  Byte <- MCByte
  Zero = "std"
  END = "end"
  ESC = "esc"
  Packets <- MCPackets
INVARIANTS
  TypeOK
  NoLostWakeup
PROPERTIES
  WholeFrames
  LineNeverStalls
