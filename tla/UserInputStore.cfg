SPECIFICATION Spec
VIEW WithoutReports
SYMMETRY Interchangeable
CONSTANTS
  Procs = {c1, c2}
  Contents = {x, y}
  MaxId = 3
  FoundIds = {1, 3}
  Absent = Absent
  NoOne = NoOne
PROPERTIES
  IdsNeverReused
  NoLostUpdate
  LoadIsSnapshot
  ReportedSurvives
CHECK_DEADLOCK TRUE
