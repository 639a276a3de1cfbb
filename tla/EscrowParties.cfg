SPECIFICATION PartySpec
CONSTANTS
  client = client
  freelancer = freelancer
  arbiter = arbiter
  newcomer = newcomer
  none = none
  Address <- MCAddress
  NoArbiter = none
  Terms <- Jobs
  I128_MAX = 50000
  MAX_SINGLE_AMOUNT_STROOPS = 3
  MAX_CONTRACT_ID = 2
  MAX_MILESTONES = 2
  MAX_BATCH_APPROVALS = 2
  MAX_BATCH_SETTLEMENT = 1
  MAX_ESCROW_TOTAL = 2
  DepositAmounts = {1, 2}
  SplitLegs = {}
  FeeRates = {10001}
INVARIANTS
  PendingIsCurrent
  FreelancerApart
PROPERTIES
  ClientStaysWhenClosed
