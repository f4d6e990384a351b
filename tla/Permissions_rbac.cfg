CONSTANTS
  None = None
  a1 = a1
  a2 = a2
  Slugs <- TestedSlugs
  Admins = {a1}
  MaxTime = 1
  MaxChanges = 3
CHECK_DEADLOCK FALSE
SPECIFICATION Spec
INVARIANTS
  ManageImpliesViewOwn
