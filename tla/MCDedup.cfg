SPECIFICATION Spec
CONSTANTS
  m1 = m1
  m2 = m2
  easy = easy
  block = block
  Miners = {m1}
  Nonces = {easy, block}
  HashDifficulty <- MCHashDifficulty
  Heights = {1}
  NetworkDifficulties = {2}
  Difficulties = {}
  MinDifficulty = 1
  MaxDifficulty = 2
  Window = 1
  MaxRound = 1
  MaxTemplates = 2
  MaxTime = 1
  MaxWork = 3
INVARIANT NoHashCountsTwice
CHECK_DEADLOCK FALSE
