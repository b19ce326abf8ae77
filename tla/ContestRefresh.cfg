SPECIFICATION Spec
CONSTANTS
  Ops = {o1, o2}
  Old = Old
  Hand = Hand
  Nothing = Nothing
  MaxTroubles = 2
SYMMETRY Symmetry
INVARIANTS
  AllOrNothing
  OldDataSurvives
  UnownedSurvives
PROPERTIES
  PutsAsidePlannedOnly
CHECK_DEADLOCK FALSE
