SPECIFICATION Spec
CONSTANTS
  r1 = r1
  r2 = r2
  t1 = t1
  Runtimes = {r1, r2}
  Tasks = {t1}
  None = None
  Main = Main
  MaxDepth = 2
  MaxGuards = 2
  MaxHolds = 1
SYMMETRY RuntimeSymmetry
INVARIANTS
  TypeOK
  ContextIsInnermost
  GuardPerCall
  OuterWakeKept
  NothingSurvives
CHECK_DEADLOCK FALSE
