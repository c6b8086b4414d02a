SPECIFICATION FairSpec
CONSTANTS
  Modes <- BothModes
  MaxSessions = 2
CHECK_DEADLOCK FALSE
INVARIANTS CommandKeepsTunnels SessionOutlivesChild CleanSlate SharingFollowsUser
PROPERTIES StopHeeded LossEnds
