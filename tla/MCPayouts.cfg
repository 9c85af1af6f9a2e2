SPECIFICATION Spec
CONSTANTS
  m1 = m1
  m2 = m2
  c1 = c1
  c2 = c2
  Miners = {m1, m2}
  Works = {1, 2}
  MaxRound = 1
  Amounts = {0, 3}
  Caps = {c1, c2}
  ShareDifficulties = {4}
  BundleFactor = 2
  ClaimWindow = 1
  CapHolderFollowsHashi = TRUE
  MaxSupply = 2
  MaxGift = 0
  MaxTime = 1
SYMMETRY PayoutsSymmetry
INVARIANTS
  PayoutsInv
  SatsConserved
  ClaimsAreCovered
  OnePayoutPerDeposit
  DepositsAreBacked
  RedemptionsAreCovered
PROPERTIES
  SettledIsFinal
CHECK_DEADLOCK FALSE
