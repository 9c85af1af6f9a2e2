SPECIFICATION Spec
CONSTANTS
  miner = miner
  broker = broker
  hs = hs
  dusdc = dusdc
  Parties = {miner, broker}
  Tabs <- MCTabs
  WalletOf <- MCWalletOf
  Shares = {hs}
  Pay = dusdc
  PayDecimals = 2
  TypedSell <- MCTypedSell
  TypedPrice <- MCTypedPrice
  Holding <- MCHolding
  FaucetAmount = 10
  MaxEscrows = 1
  MaxMints = 1
  MaxWire = 2
  TargetBins = 3
  Permille = 100
  Certain = 10
  Oracles <- MCOracles
  Tick = 2
  MinStrike = 37
  Markets <- MCMarkets
  Rate = 1
  Bands <- MCBands
  DefaultBand <- MCDefault
  SuggestedBand <- MCSuggested
  Purse = 12
  Buffer = 115
  MaxTime = 2
  MaxManagers = 2
  MaxPlaced = 1
  LastRound = 2
  FundedPage = 1
  CreatedPage = 2
  HistoryPage = 2
  ClaimWindow = 1
  LastTime = 1
  Pairs = {usdc, sui}
  GasPairs = {sui}
  Wallets = {ann, bob}
  NoWallet = NoWallet
  Blank = Blank
  WalletHeld = 1
  SwapAmounts = {0, 1, 2}
  ScanDepth = 1
  MaxPanelJobs = 1
  MaxBms = 1
INVARIANTS
  
  HedgeInv
  
PROPERTIES
  EscrowsEndForTheirParties
  
CHECK_DEADLOCK FALSE
