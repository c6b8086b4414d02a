SPECIFICATION Spec
CONSTANTS
  None = None
  Malformed = Malformed
  c1 = c1
  c2 = c2
  e1 = e1
  e2 = e2
  t1 = t1
  t2 = t2
  example = example
  work = work
  h = h
  p1 = p1
  p2 = p2
  m1 = m1
  m2 = m2
  Servers <- MCServers
  Machines <- MCMachines
  Commands <- MCCommandSet
  Helpers = {h}
  MaxFiles = 2
  MaxBytes = 3
  MaxEvents <- MCMaxEvents
  Names <- MCNames
  SignIns <- MCRebuiltSignIns
  ArgumentLists <- MCArgumentLists
  KubeAsks <- MCKubeAsks
  IdleKubeAsk <- MCIdleKubeAsk
SYMMETRY Symmetry
CHECK_DEADLOCK FALSE
INVARIANT OthersNeverOpen
