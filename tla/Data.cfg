SPECIFICATION DataSpec
CONSTANTS
  DataParts = {"bits", "dense", "small", "utf8", "text", "counted", "lz", "weak", "notice"}
  WordBits = 2
  Sizes = {0, 3, 4}
  Keys = {"a", "b", "c"}
  Data = {0, 1}
  Threshold = 2
  Maps = {"x", "y"}
  MaxRange = 2
  N = 2
  Values = {"a", "b"}
  Vectors = {"x", "y"}
  MaxElements = 3
  Bytes <- MCBytes
  MaxBytes = 3
  Samples <- MCSamples
  Subjects = {"order", "number", "words"}
  CharsOf <- MCCharsOf
  LengthOf <- MCLengthOf
  IntBits = 6
  Objects = {"o1", "o2", "o3"}
  Roots = {"x", "y"}
  RawHolders = {"r"}
  Nothing = Nothing
  ChunkMax = 5
  MaxChunks = 3
  CharBits = 3
  WordIntBits = 4
  SizeOfInt = 2
  Rooms = {0, 4, 5, 6, 7, 8, 11, 14, 15, 16, 17}
  RefThreads = {c1, c2}
  NoThread = NoThread
  Remnants = {r1, r2, r3}
  Null = Null
  MaxRefs = 2
  UsesPython = TRUE
  Quiet = TRUE
  Nobody = Nobody
  t1 = t1
  t2 = t2
  t3 = t3
  d1 = d1
  d2 = d2
  d3 = d3
  base = base
  derived = derived
  Threads <- TwoThreads
  Depth = 3
  Deliverers <- TwoDeliverers
  Lists <- TwoLists
  ListOf <- BothInBase
  Walks <- BaseWalk
  Ops <- SenderAndOwner
  HandlerOps <- NestedCalls
  Revocable <- OneDeliverer
  Expirable <- Second
INVARIANTS
  BitArraysAgree
  HashMapsAgree
  VectorsHold
  CountsHold
  CodesComeBack
  RemnantsConsistent
  ReferencesAccount
  CountersAccount
  NoDanglingDeliverer
  NoticeReachesEachOnce
CHECK_DEADLOCK FALSE
