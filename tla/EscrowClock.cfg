SPECIFICATION ClockSpec
CONSTANTS
  client = client
  freelancer = freelancer
  none = none
  Address <- MCAddress
  NoArbiter = none
  Terms <- Jobs
  I128_MAX = 50000
  MAX_SINGLE_AMOUNT_STROOPS = 3
  MAX_CONTRACT_ID = 2
  MAX_MILESTONES = 2
  MAX_BATCH_APPROVALS = 2
  MAX_BATCH_SETTLEMENT = 1
  MAX_ESCROW_TOTAL = 2
  DepositAmounts = {1, 2}
  SplitLegs = {}
  FeeRates = {0}
  PENDING_APPROVAL_TTL_LEDGERS = 4
  PENDING_APPROVAL_BUMP_THRESHOLD = 2
  MIN_TEMP_ENTRY_TTL = 1
INVARIANTS
  InactivityBound
PROPERTIES
  ImplementsEscrow
  IdleApprovalsExpire
