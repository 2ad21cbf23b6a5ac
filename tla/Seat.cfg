SPECIFICATION FairSpec
CONSTANTS
  a = a  b = b
  Clients = {a, b}
  Kinds = {"card"}
  DeviceUsers = {a, b}
  VTs = {v1, v2}
  NoVT = NoVT
  MAX_DEVICES = 1
  MaxId = 3
  MaxQueue = 0
  Faults = FALSE
  Eager = FALSE
INVARIANT ToldIffShown
PROPERTIES Handover SwitchDone
\* the daemon may end
CHECK_DEADLOCK FALSE
