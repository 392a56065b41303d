SPECIFICATION FairSpec
CONSTANTS
  Threads = {"t1", "t2", "t3"}
  Tables <- MCTables
  Rows = {"r1"}
  Ops = {"list", "write", "export", "import", "motion"}
  None = None
INVARIANTS TypeOK WaitsForRunner
PROPERTIES HangsOnlyByReentry ImplementsAtomic
CHECK_DEADLOCK FALSE
