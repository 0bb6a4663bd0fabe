\* Every call of the API.  The spin mutex really may stop (two upgraders wait for
\* each other), hence CHECK_DEADLOCK FALSE.
SPECIFICATION LocksSpec
CONSTANTS
  Threads = {t1, t2, t3}
  Calls <- AllCalls
  BigThreads = {t1, t2, t3}
  NumStates = 3
INVARIANTS
  WordAccounts
  HoldersSeeWrites
  StateConsistent
PROPERTIES
  NoReaderOvertakes
  ImplementsRWLock
  WaitingWritersGetIn
  BigImplementsRWLock
  WritersGetIn
CHECK_DEADLOCK FALSE
