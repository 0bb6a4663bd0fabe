SPECIFICATION Spec
CONSTANTS
  Threads = {t1, t2}
  Delegates = {d1}
  MaxPosts = 1
  MaxSerial = 2
  MaxScopes = 1
  MaxDelegates = 1
INVARIANTS
  TransportIsLeftEmpty
