SPECIFICATION FairSpec
INVARIANTS TypeOK BaudReadback ResetOnlyOnRequest ModeInForce SameRateSameBit
PROPERTY BusOffReturns
CHECK_DEADLOCK FALSE
