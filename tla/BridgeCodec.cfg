\* The gateway also sends a frame that carries the escape byte.
SPECIFICATION Spec
CONSTANTS
  FrameLen = 2
  Timeout = 1
  InFlight = 1
  Byte <- MCByte
  END = "end"
  ESC = "esc"
  Packets <- MCEscPackets
  Datagrams <- MCDatagrams
INVARIANT Resynchronises
