SPECIFICATION Spec
CONSTANTS
  CAN_RING_BUFSIZE = 3
  AppDevs = {1, 2}
  TxDevs = {1}
  RxDevs = {1}
  Ioctls = {}
  CanClose = FALSE
  MaxBurst = 1
  HwRxDepth = 1
  SlowFrames = TRUE
  MaxAcc = 4
  MaxBus = 1
INVARIANT TxArmed
