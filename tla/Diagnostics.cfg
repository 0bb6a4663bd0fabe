SPECIFICATION Spec
CONSTANTS
  Threads = {t1, t2}
  Delegates = {d1}
  MaxPosts = 2
  MaxSerial = 3
  MaxScopes = 3
  MaxDelegates = 1
SYMMETRY ThreadSymmetry
INVARIANTS
  MarksFindTheirErrors
  CrashLogIsRight
  DiagnosticsAccount
