SPECIFICATION FairConnectSpec
CONSTANTS
  Publishers = {p1, p2}
  Readers = {r1, r2}
  Environments = {e1, e2}
  NoRevision = NoRevision
INVARIANTS InteractionReported PointerResolves PublishedOnce
PROPERTIES WaitsEnd
