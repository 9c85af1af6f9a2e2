SPECIFICATION BuyerSpec
CONSTANTS
  m1 = m1
  b1 = b1
  b2 = b2
  easy = easy
  block = block
  Miners = {m1}
  Nonces = {easy}
  HashDifficulty <- MCHashDifficulty
  Heights = {1}
  NetworkDifficulties = {1}
  Difficulties = {}
  MinDifficulty = 1
  MaxDifficulty = 2
  Window = 0
  MaxRound = 1
  MaxTemplates = 1
  MaxTime = 0
  MaxWork = 2
  Buyers = {b1, b2}
  Prices = {1, 3}
  Payments = {1}
  Expiries = {0}
  U64Max = 2
  MaxOrders = 1
  MaxDerived = 1
  MaxEpoch = 1
  MaxReceived = 2
SYMMETRY BuyerSymmetry
INVARIANTS
  BuyerInv
  
  OrdersPayAsPlaced
PROPERTIES
  ImplementsLedger
CHECK_DEADLOCK FALSE
