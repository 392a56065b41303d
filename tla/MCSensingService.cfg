SPECIFICATION FairSpec
CONSTANTS
  a1 = a1
  a2 = a2
  a3 = a3
  Attempts = {a1, a2, a3}
  MaxAttempts = 3
  SimAfter = 2
  None = None
INVARIANTS TypeOK NoOrphanSocket NoMixedFrames StateIsBacked
PROPERTIES AttemptCountsOutages ImplementsClient Recovers LabelSettles
