\* The polling OPC-UA client on a device that fails and comes back.
SPECIFICATION LifecycleSpec
CONSTANTS
  Protocols = {"opcua_poll"}
  DelayLevels = 1
  ZeroPolls = 3
CHECK_DEADLOCK FALSE
PROPERTY Reconnects
