SPECIFICATION Spec
CONSTANTS
  s1 = s1
  s2 = s2
  a = a
  b = b
  Timers = {s1}
  Tasks = {a}
  None = None
  Instants = {0, 1, 2, 3}
  MS = 2
  PERIOD = 1
  C_INT = 8
INVARIANTS
  TickNeverPanics
