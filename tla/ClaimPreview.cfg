SPECIFICATION Spec
CONSTANTS
  client = client
  freelancer = freelancer
  arbiter = arbiter
  none = none
  Address <- MCAddress
  NoArbiter = none
  Terms <- WithoutArbiter
  I128_MAX = 50000
  MAX_SINGLE_AMOUNT_STROOPS = 3
  MAX_CONTRACT_ID = 2
  MAX_MILESTONES = 3
  MAX_BATCH_APPROVALS = 2
  MAX_BATCH_SETTLEMENT = 2
  MAX_ESCROW_TOTAL = 6
  DepositAmounts = {4}
  SplitLegs = {0, 1, 2}
  FeeRates = {0}
PROPERTY
  PreviewWritesNothing
