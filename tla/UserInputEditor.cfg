SPECIFICATION EditorSpec
CONSTANTS
  Texts = {e, x, y}
  x = x
  y = y
  Empty = e
  Absent = Absent
  Draft = Draft
  Other = Other
  MaxId = 2
  MaxChanges = 2
  MaxTroubles = 1
SYMMETRY Contents
INVARIANT ShownIsTrue
PROPERTY TextEndsInOneFile
CHECK_DEADLOCK FALSE
