SPECIFICATION Spec
CONSTANTS
  r1 = r1
  r2 = r2
  t1 = t1
  Runtimes = {r1}
  Tasks = {t1}
  None = None
  Main = Main
  MaxDepth = 1
  MaxGuards = 1
  MaxHolds = 1
INVARIANTS
  TasksCancelled
CHECK_DEADLOCK FALSE
