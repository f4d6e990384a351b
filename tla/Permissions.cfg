CONSTANTS
  None = None
  a1 = a1
  a2 = a2
  Slugs <- MCSlugs
  Admins = {a1, a2}
  MaxTime = 1
  MaxChanges = 3
CHECK_DEADLOCK FALSE
SPECIFICATION Spec
SYMMETRY MCSymmetry
INVARIANTS
  TypeOK
  ReadingsAgree
  ImpliedToTheEnd
  BulkGrantHolds
  BulkGrantFinishes
PROPERTIES
  RevokingOnlyTakes
