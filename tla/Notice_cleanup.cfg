SPECIFICATION Spec
CONSTANTS
  Nobody = Nobody
  t1 = t1
  t2 = t2
  t3 = t3
  d1 = d1
  d2 = d2
  d3 = d3
  base = base
  derived = derived
  Threads <- ThreeThreads
  Depth = 1
  Deliverers <- OneDeliverer
  Lists <- TwoLists
  ListOf <- OneInBase
  Walks <- BaseWalk
  Ops <- SendersAndRevoker
  HandlerOps <- NoCalls
  Revocable <- OneDeliverer
  Expirable <- OneDeliverer
INVARIANT RevokeSurvivesCleanup
CHECK_DEADLOCK FALSE
