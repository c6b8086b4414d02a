CONSTANTS
  NoSession = NoSession
  Sessions = {s1, s2}
  Limits = {1, 2}
  Faults = {"read", "write", "remove"}
SPECIFICATION FairSpec
INVARIANTS RecordKept
PROPERTIES AdmittedWithinOwnLimit CallsReturn StaleReclaimed
