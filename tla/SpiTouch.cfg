SPECIFICATION Spec
CONSTANTS
  Command = {"X", "Y"}
  PollLimit = 1
INVARIANTS TypeOK SpoilsAtMostNext
PROPERTIES NeverHangs
