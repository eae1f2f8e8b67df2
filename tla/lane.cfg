SPECIFICATION FairSpec
CONSTANTS
  a1 = a1
  a2 = a2
  g1 = g1
  g2 = g2
  b1 = b1
  b2 = b2
  m1 = m1
  u1 = u1
  d1 = d1
  None = None
  Requests = {a1, g1, g2, b1, m1, u1, d1}
  Kind <- MCKind
INVARIANTS
  TypeOK
  PreemptionIsRequested
  OnlyAnalysisIsAskedToYield
  AtMostOneQueuedOfEachPreemptingKind
  LaneHasOneOwner
PROPERTIES
  NoWorkForReplacedBuildStarts
  QueuedCheckIsNext
  QueuedCheckIsServed
