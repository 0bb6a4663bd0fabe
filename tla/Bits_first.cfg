\* A bit is set while the first one is not known.
SPECIFICATION BitSetsSpec
CONSTANTS
  WordBits = 2
  Sizes = {0, 3, 4}
INVARIANT FirstSetIsFirst
CHECK_DEADLOCK FALSE
