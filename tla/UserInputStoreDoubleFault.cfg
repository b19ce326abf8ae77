SPECIFICATION Spec
CONSTANTS
  Procs = {c1}
  Contents = {x}
  MaxId = 3
  FoundIds = {1}
  Absent = Absent
  NoOne = NoOne
PROPERTIES
  DeletedIdsStayBurned
CHECK_DEADLOCK TRUE
