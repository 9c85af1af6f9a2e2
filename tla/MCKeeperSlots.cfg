SPECIFICATION Spec
CONSTANTS
  k1 = k1
  k2 = k2
  Keepers = {k1, k2}
  PageSize = 2
  BindPageSize = 2
  TransientFailures = {"claims", "deposits", "bind"}
  Running = {"claims", "deposits"}
  Restarts = 1
  MaxRound = 1
  MaxClaims = 1
  MaxSlots = 2
SYMMETRY KeeperSymmetry
INVARIANTS
  KeeperInv
CHECK_DEADLOCK FALSE
