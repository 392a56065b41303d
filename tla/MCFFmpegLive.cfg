SPECIFICATION FairSpec
CONSTANTS
  d1 = d1  d2 = d2
  p1 = p1  p2 = p2  p3 = p3  p4 = p4
  r1 = r1  r2 = r2
  Devices = {d1, d2}
  Procs = {p1, p2}
  Requests = {r1}
  Configs = {"auto"}
  AutoConfig = "auto"
  Protocol <- HttpAndWapa
  Input <- OwnInput
  MaxConcurrent = 1
  HealthLimit = 2
  Deletable = {}
  Reserve = 0
  RetryCap = 0
  None = None
PROPERTIES TokenReturned StuckIsHealed 
CHECK_DEADLOCK FALSE
