SPECIFICATION Spec
CONSTANTS
  m1 = m1
  m2 = m2
  s1 = s1
  txA = txA
  txB = txB
  Miners = {m1}
  Shares = {s1}
  TxSets = {txA, txB}
  KeepJobs = 2
  MaxBlock = 1
  MaxJobs = 2
INVARIANTS
  SubmittedBlocksAreComplete
CHECK_DEADLOCK FALSE
