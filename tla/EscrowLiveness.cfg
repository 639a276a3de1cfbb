SPECIFICATION FairSpec
CONSTANTS
  client = client
  freelancer = freelancer
  arbiter = arbiter
  Address <- MCAddress
  NoArbiter = none
  Terms <- OneStep
  I128_MAX = 50000
  MAX_SINGLE_AMOUNT_STROOPS = 3
  MAX_CONTRACT_ID = 3
  MAX_MILESTONES = 1
  MAX_BATCH_APPROVALS = 1
  MAX_BATCH_SETTLEMENT = 1
  MAX_ESCROW_TOTAL = 2
  DepositAmounts = {2}
  SplitLegs = {}
  FeeRates = {5000}
PROPERTIES
  MilestonesSettle
  DisputesEnd
