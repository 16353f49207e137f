SPECIFICATION FairSpec
CONSTANTS
  CAN_RING_BUFSIZE = 3
  AppDevs = {1, 2}
  TxDevs = {}
  RxDevs = {1, 2}
  Ioctls = {"CLEAR_RX_ERROR"}
  CanClose = FALSE
  MaxBurst = 2
  HwRxDepth = 2
  SlowFrames = TRUE
  MaxAcc = 0
  MaxBus = 3
INVARIANTS RxRingSound RxArmed
PROPERTIES ImplementsFifo RxServed
