SPECIFICATION Spec
CONSTANTS
  AccessAddr = {"WBO_REG1", "NONE"}
  MinAccess = 7
  MinGap = 1
  TimeoutGap = 4
  Recover = 4
PROPERTIES DummyAddressStoresNothing
