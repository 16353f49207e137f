SPECIFICATION Spec
CONSTANTS
  AccessAddr = {"WBO_REG1", "WBO_REG2", "WBO_REST", "WBI", "NONE"}
  MinAccess = 3
  MinGap = 1
  TimeoutGap = 5
  Recover = 3
INVARIANTS TypeOK RegistersHoldWrites ReadsTheAddressed BusIsReleased
PROPERTIES OneCyclePerRead
