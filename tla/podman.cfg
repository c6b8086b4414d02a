SPECIFICATION FairSpec
CONSTANT Lease = 4
CHECK_DEADLOCK FALSE
INVARIANTS LeaseSparesTheLiving
PROPERTIES ServiceReclaimed
