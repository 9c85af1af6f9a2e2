SPECIFICATION Spec
CONSTANTS
  m1 = m1
  m2 = m2
  easy = easy
  block = block
  Miners = {m1, m2}
  Nonces = {block}
  HashDifficulty <- MCHashDifficulty
  Heights = {1}
  NetworkDifficulties = {2}
  Difficulties = {2}
  MinDifficulty = 1
  MaxDifficulty = 2
  Window = 1
  MaxRound = 1
  MaxTemplates = 1
  MaxTime = 1
  MaxWork = 2
SYMMETRY MinerSymmetry
INVARIANTS
  OneWorkRecordPerMinerRound
  WorkConserved
  RoundsCloseInOrder
  RoundsHaveTheirBlock
PROPERTIES
  ClosedRoundsAreFrozen
  ImplementsLedger
CHECK_DEADLOCK FALSE
