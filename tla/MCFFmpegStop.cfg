SPECIFICATION Spec
CONSTANTS
  d1 = d1  d2 = d2
  p1 = p1  p2 = p2  p3 = p3  p4 = p4
  r1 = r1  r2 = r2
  Devices = {d1}
  Procs = {p1, p2, p3}
  Requests = {r1}
  Configs = {"auto"}
  AutoConfig = "auto"
  Protocol <- OneHttp
  Input <- SameInput
  MaxConcurrent = 2
  HealthLimit = 1
  Deletable = {d1}
  Reserve = 1
  RetryCap = 1
  None = None
PROPERTIES StopIsFinal
CHECK_DEADLOCK FALSE
