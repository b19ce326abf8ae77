SPECIFICATION Spec
SYMMETRY Interchangeable
CONSTANTS
  Writers = {w1, w2}
  Readers = {r1}
  Found = Found
  Alien = Alien
  NoDir = NoDir
  NoOne = NoOne
  MaxMeddling = 2
  MaxFaults = 1
  MaxKills = 1
INVARIANTS
  OnlySupersededIsDeleted
  LoadFindsTheNewest
  OutcomeIsTrue
  ForeignIsNeverDeleted
CHECK_DEADLOCK FALSE
