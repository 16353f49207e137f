SPECIFICATION Spec
CONSTANTS
  CAN_RING_BUFSIZE = 2
  AppDevs = {1, 2}
  TxDevs = {1}
  RxDevs = {2}
  Ioctls = {"SET_BAUD_RATE", "CLEAR_RX_ERROR", "CLEAR_TX_ERROR", "MODE_SELF_TEST", "MODE_LISTEN_ONLY", "MODE_OPERATING", "MODE_RESET"}
  CanClose = TRUE
  MaxBurst = 1
  HwRxDepth = 1
  SlowFrames = TRUE
  MaxAcc = 2
  MaxBus = 1
INVARIANTS RxArmed NoNullRegs
PROPERTIES ImplementsFifo
