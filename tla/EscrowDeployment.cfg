SPECIFICATION DeploySpec
CONSTANTS
  client = client
  freelancer = freelancer
  none = none
  usdc = usdc
  unbound = unbound
  Address <- MCAddress
  NoArbiter = none
  NoToken = unbound
  Tokens <- MCTokens
  Terms <- Jobs
  I128_MAX = 50000
  MAX_SINGLE_AMOUNT_STROOPS = 3
  MAX_CONTRACT_ID = 3
  MAX_MILESTONES = 2
  MAX_BATCH_APPROVALS = 1
  MAX_BATCH_SETTLEMENT = 1
  MAX_ESCROW_TOTAL = 3
  DepositAmounts = {1, 2}
  SplitLegs = {}
  FeeRates = {5000, 10001}
  DEFAULT_SETTLEMENT_LIMIT = 3
  TotalCaps = {1}
  SettlementLimits = {0, 1}
  DefaultLimits <- MCDefaultLimits
  LimitRanges <- MCLimitRanges
  LimitValues = {0, 1}
INVARIANTS
  MoneyHasItsToken
PROPERTIES
  ContractsAreNeverReplaced
