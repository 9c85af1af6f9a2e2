SPECIFICATION Spec
CONSTANTS
  you = you
  maker = maker
  other = other
  usdc = usdc
  odd = odd
  Accounts = {you, maker}
  Admin = maker
  Prices = {1, 2}
  Expiries = {1}
  FeeBps = 1
  BpsDenom = 2
  QuoteSupply <- MCQuote
  ShareSupply <- MCShares
  MaxOrders = 2
  MaxAmount = 1
  MaxEpoch = 1
  You = you
  Amounts = {1}
  GasBuffer = 0
  MaxLegs = 2
  EventPage = 2
  MaxInflight = 2
  MaxLag = 1
  Buyer = you
  Other = other
  Coins = {usdc, odd}
  Listed = {usdc}
  Decimals <- MCDecimals
  FallbackDecimals = 2
  Typed <- MCTyped
  Placements <- MCPlacements
  Budgets = {1}
  Funds = 21
  PageSize = 1
  TemplatePages = 2
  FillPages = 1
  PerOrder = 1
  MaxPrivateOrders = 2
  MaxTemplates = 2
  MaxFills = 1
  MaxManages = 1
  SlotRounds = {1, 2, 3}
  Labels <- MCLabels
  SlotPage = 2
  ListingPrices = {2000, 4000}
  Listings = 2
  Sizes = {1, 2}
  Levels = 2
  SpreadBps = 150
  History = 1
  MaxTrades = 2
  MaxPoints = 3
  Maturity = 1
  Decay <- MCDecay
  EntryDiscount = 10
  MaxTicks = 5
CONSTRAINT FewInFlight
INVARIANTS
  MarketInv
  
  
PROPERTIES
  OrdersExecuteAsSigned
CHECK_DEADLOCK FALSE
