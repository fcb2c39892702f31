SPECIFICATION Spec
CONSTANTS
  Device = {"a", "b"}
  Present = {"a"}
  Database <- MCDatabase
  MaxRequests = 2
  Connection = {"c1"}
  MaxQueue = 1
  None = None
INVARIANTS
  TypeOK
  Described
PROPERTIES
  Discovered
