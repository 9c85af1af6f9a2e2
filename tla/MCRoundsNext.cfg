SPECIFICATION Spec
CONSTANTS
  m1 = m1
  m2 = m2
  easy = easy
  block = block
  Miners = {m1}
  Nonces = {block}
  HashDifficulty <- MCHashDifficulty
  Heights = {1, 2}
  NetworkDifficulties = {2}
  Difficulties = {}
  MinDifficulty = 1
  MaxDifficulty = 2
  Window = 1
  MaxRound = 2
  MaxTemplates = 2
  MaxTime = 2
  MaxWork = 4
INVARIANTS
  RoundsInv
  SharesMatchDedup
  SoldWorkWasDone
PROPERTIES
  RoundStatsRatchet
CHECK_DEADLOCK FALSE
