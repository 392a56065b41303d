SPECIFICATION FairSpec
CONSTANTS
  s1 = s1  s2 = s2  s3 = s3
  Sockets = {s1, s2, s3}
  Servers = {"a", "b"}
  BadUrls = {"x"}
  MaxAttempts = 2
  None = None
INVARIANTS TypeOK NoTimerAfterDisconnect StatusIsBacked
PROPERTIES Reconnects
CHECK_DEADLOCK FALSE
