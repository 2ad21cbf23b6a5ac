SPECIFICATION FairSpec
CONSTANTS
  a = a  b = b
  Clients = {a}
  Kinds = {"card", "event"}
  DeviceUsers = {a}
  VTs = {v1, v2}
  NoVT = NoVT
  MAX_DEVICES = 1
  MaxId = 3
  MaxQueue = 0
  Faults = TRUE
  Eager = TRUE
INVARIANTS
  MasterKept
  DevicesAgree
PROPERTIES
  CallsReturn
\* the daemon may end
CHECK_DEADLOCK FALSE
