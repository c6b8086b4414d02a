CONSTANTS
  Free = Free
  Other = Other
  NoPort = NoPort
  NoPublication = NoPublication
  Publications = {p1, p2}
  Ports = {1, 2}
  Cleaners = {c1}
  Short = {c1}
  Clients = {k1}
SPECIFICATION Spec
INVARIANTS OwnerConclusivelyGone
