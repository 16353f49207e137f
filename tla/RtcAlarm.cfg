SPECIFICATION FairSpec
CONSTANTS
  SecMod = 3
  MinMod = 2
  HourMod = 3
  LocalTime <- MCLocalTime
  AlarmTime <- MCAlarmTime
  MaxCall = 2
INVARIANTS TypeOK AlarmNotLost ReadNotBehind SetTimeExact
PROPERTIES AlarmReported
