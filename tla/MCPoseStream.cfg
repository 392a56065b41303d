SPECIFICATION FairSpec
CONSTANTS
  e1 = e1
  e2 = e2
  e3 = e3
  Entries = {e1, e2, e3}
  MaxReconnects = 1
  None = None
INVARIANTS TypeOK StatusNeverOverclaims CanvasFollowsTab
PROPERTIES PatientStartsWork
