SPECIFICATION FairSpec
CONSTANTS
  Nobody = Nobody
  t1 = t1
  t2 = t2
  t3 = t3
  d1 = d1
  d2 = d2
  d3 = d3
  base = base
  derived = derived
  Threads <- ThreeThreads
  Depth = 1
  Deliverers <- TwoDeliverers
  Lists <- TwoLists
  ListOf <- BaseAndDerived
  Walks <- DerivedWalk
  Ops <- SendersAndOwner
  HandlerOps <- NoCalls
  Revocable <- OneDeliverer
  Expirable <- NoDeliverer
INVARIANTS
  WaitedRevokeIsFinal
PROPERTY WaitingRevokeReturns
CHECK_DEADLOCK FALSE
