CONSTANTS
  Nobody = Nobody
  Closer = Closer
  NoTarget = NoTarget
  Self = s1
  Sessions = {s1, s2}
  Limits = {2}
  Requests = {r1, r2}
  Targets = {t1, t2}
  MaxWithdrawals = 1
SPECIFICATION FairSpec
CHECK_DEADLOCK FALSE
INVARIANTS AccessWatched NothingOutlivesClose
PROPERTIES SwitchAcceptedOnce WithdrawalStands CloseCompletes
