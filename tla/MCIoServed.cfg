SPECIFICATION IoSpec
CONSTANTS
  t1 = t1
  x1 = x1
  Tasks = {t1}
  Main = Main
  None = None
  POLLS_PER_TICK = 1
  Sockets = {x1}
  Calls <- Accept
  Backends = {"epoll"}
  MaxEvents = 1
PROPERTIES
  IoServed
CHECK_DEADLOCK FALSE
