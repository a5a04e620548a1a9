SPECIFICATION SchedulingSpec
CONSTANTS
  t1 = t1
  t2 = t2
  Tasks = {t1, t2}
  Main = Main
  None = None
  POLLS_PER_TICK = 2
PROPERTIES
  TaskProgress
  EventsHandedOver
