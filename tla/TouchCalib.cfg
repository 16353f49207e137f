SPECIFICATION Spec
CONSTANTS
  Coord = {1, 3}
  MaxTouch = 4
INVARIANTS TypeOK OnePointPerTouch
PROPERTIES CursorUnderFinger
