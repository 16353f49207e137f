SPECIFICATION FairSpec
CONSTANTS
  Width = 4
  IntervalMs = 2
  Resolutions = {1, 2}
  TASK0_INTERVAL = 2
  TASK1_INTERVAL = 1
  MaxAge = 5
  MaxInit = 1
INVARIANTS TypeOK TickPerMatch NeverEarly InTime
PROPERTIES TasksServed
