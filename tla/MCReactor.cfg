SPECIFICATION FairSpec
CONSTANTS
  t1 = t1
  t2 = t2
  x1 = x1
  x2 = x2
  Tasks = {t1, t2}
  Sockets = {x1, x2}
  None = None
  Calls <- OneSocket
  Backends = {"epoll", "kqueue"}
  MaxEvents = 2
INVARIANTS
  TypeOK
  StoredMeansArmed
  NoLostReadiness
  ConnectedWhenReturned
PROPERTIES
  Retried
