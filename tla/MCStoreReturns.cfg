SPECIFICATION FairSpec
CONSTANTS
  Threads = {"t1", "t2"}
  Tables <- MCAllTables
  Rows = {"r1"}
  Ops = {"list", "motion"}
  None = None
PROPERTIES OpsReturn
CHECK_DEADLOCK FALSE
