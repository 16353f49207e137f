\* Controller 1 transmits and receives; controller 2 is open but idle.
SPECIFICATION Spec
CONSTANTS
  CAN_RING_BUFSIZE = 3
  AppDevs = {1, 2}
  TxDevs = {1}
  RxDevs = {1}
  Ioctls = {"SET_BAUD_RATE"}
  CanClose = FALSE
  MaxBurst = 2
  HwRxDepth = 1
  SlowFrames = TRUE
  MaxAcc = 5
  MaxBus = 1
INVARIANTS TypeOK TxRingSound RingInv
PROPERTIES NoTxOverwrite ImplementsFifo
