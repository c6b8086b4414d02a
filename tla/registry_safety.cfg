CONSTANTS
  NoSession = NoSession
  Sessions = {s1, s2, s3}
  Limits = {1, 2, 3}
  Faults = {"remove"}
SYMMETRY Symmetric
SPECIFICATION Spec
INVARIANTS WithinEveryLimit
PROPERTIES ImplementsAdmission
