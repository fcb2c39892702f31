\* Connections that come and go, writes cut short; no ESC in the gateway's frames.
SPECIFICATION Spec
CONSTANTS
  FrameLen = 2
  Timeout = 1
  InFlight = 1
  Byte <- MCByte
  END = "end"
  ESC = "esc"
  Packets <- MCPackets
  Datagrams <- MCDatagrams
INVARIANTS
  TypeOK
  Resynchronises
  ShortWriteBounded
PROPERTIES
  ReconnectsUnlessKilled
