SPECIFICATION FairSpec
CONSTANTS
  k1 = k1
  k2 = k2
  Keepers = {k1}
  PageSize = 2
  BindPageSize = 2
  TransientFailures = {"bind"}
  Running = {"claims", "deposits", "slots"}
  Restarts = 1
  MaxRound = 1
  MaxClaims = 1
  MaxSlots = 1
PROPERTIES
  CurrentRoundGetsBound
  
CHECK_DEADLOCK FALSE
