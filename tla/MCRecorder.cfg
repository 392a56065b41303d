SPECIFICATION FairSpec
CONSTANTS
  s1 = s1
  s2 = s2
  c1 = c1
  Schedules = {s1, s2}
  Clips = {c1}
  MaxWindows = 2
  None = None
INVARIANTS TypeOK MarksAreTrue
PROPERTIES ImplementsArchive FirstWindowRecorded
