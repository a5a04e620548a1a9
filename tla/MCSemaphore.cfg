SPECIFICATION FairSpec
CONSTANTS
  f1 = f1
  f2 = f2
  f3 = f3
  a = a
  b = b
  k1 = k1
  k2 = k2
  k3 = k3
  Futures = {f1, f2, f3}
  Tasks = {a, b}
  Keys = {k1, k2, k3}
  None = None
  MaxPermits = 2
  OverflowChecks = TRUE
INVARIANTS
  TypeOK
  AssertionHolds
  ListSound
  GrantSignalled
PROPERTIES
  ImplementsFifo
  EveryoneServed
