SPECIFICATION LockSpec
CONSTANTS
  f1 = f1
  f2 = f2
  f3 = f3
  f4 = f4
  Futures = {f1, f2, f3, f4}
  MaxPermits = 5
  Kinds = {"read", "write"}
INVARIANTS
  LockTypeOK
  GrantsCovered
  GrantedInOrder
  FirstServed
  BorrowNeverPanics
  GuardsReturn
