SPECIFICATION DisputeSpec
CONSTANTS
  client = client
  freelancer = freelancer
  arbiter = arbiter
  Address <- MCAddress
  NoArbiter = none
  Terms <- MCTerms
  I128_MAX = 50000
  MAX_SINGLE_AMOUNT_STROOPS = 2
  MAX_CONTRACT_ID = 2
  MAX_MILESTONES = 2
  MAX_BATCH_APPROVALS = 1
  MAX_BATCH_SETTLEMENT = 1
  MAX_ESCROW_TOTAL = 3
  DepositAmounts = {1, 3}
  SplitLegs = {1, 2}
  FeeRates = {}
INVARIANTS
  DisputeTypeOK
  RaiserKept
  UpgradeStrandsNoDispute
PROPERTIES
  ImplementsEscrow
