SPECIFICATION FairSpec
CONSTANTS
  s1 = s1
  s2 = s2
  a = a
  b = b
  Timers = {s1, s2}
  Tasks = {a, b}
  None = None
  Instants = {0, 1, 3, 6}
  MS = 2
  PERIOD = 1
  C_INT = 3
INVARIANTS
  TypeOK
  PollNeverPanics
  NoLostTimer
  NoOrphanAlarm
  ParkedInTime
PROPERTIES
  TimersServed
