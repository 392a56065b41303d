SPECIFICATION Spec
CONSTANTS
  p1 = p1  p2 = p2
  r1 = r1
  g1 = g1
  Cameras = {"cam"}
  BuiltIns = {"black"}
  Requests = {r1}
  Restarts = {g1}
  Pids = {p1, p2}
  PushURLs = {"u"}
  Overlays = {"o"}
  Versions = {"v1"}
  None = None
INVARIANTS NeverPanics
CHECK_DEADLOCK FALSE
