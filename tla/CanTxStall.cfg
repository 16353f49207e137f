SPECIFICATION FairSpec
CONSTANTS
  CAN_RING_BUFSIZE = 3
  AppDevs = {1, 2}
  TxDevs = {1}
  RxDevs = {1}
  Ioctls = {}
  CanClose = FALSE
  MaxBurst = 2
  HwRxDepth = 1
  SlowFrames = TRUE
  MaxAcc = 2
  MaxBus = 0
PROPERTY TxDrains
