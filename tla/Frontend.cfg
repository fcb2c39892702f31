SPECIFICATION Spec
CONSTANTS
  Phone = {"p1", "p2"}
  Control = {"c1", "c2"}
  Position = {0, 1, 2}
  Wire = {0, 1}
  Encode <- MCEncode
  Decode <- MCDecode
  MaxWishes = 2
  MaxOutbox = 2
  MaxFlight = 2
  device = "device"
INVARIANTS
  TypeOK
PROPERTIES
  NoClobber
  Converges
