\* Two readers that upgrade wait for each other.
SPECIFICATION FairSpec
CONSTANTS
  Threads = {t1, t2}
  Calls = {"AcquireRead", "UpgradeToWriter", "Release"}
PROPERTY UpgradeReturns
CHECK_DEADLOCK FALSE
