SPECIFICATION ScheduleSpec
CONSTANTS
  client = client
  freelancer = freelancer
  none = none
  undated = undated
  Address <- MCAddress
  NoArbiter = none
  NoDate = undated
  Terms <- TwoMilestones
  I128_MAX = 50000
  MAX_SINGLE_AMOUNT_STROOPS = 3
  MAX_CONTRACT_ID = 2
  MAX_MILESTONES = 3
  MAX_BATCH_APPROVALS = 1
  MAX_BATCH_SETTLEMENT = 1
  MAX_ESCROW_TOTAL = 3
  DepositAmounts = {1, 3}
  SplitLegs = {}
  FeeRates = {}
  DueDates = {1, 2, 3}
  MAX_TIME = 2
  MAX_EVIDENCE_BYTES = 1
  EvidenceLengths = {1, 2}
INVARIANTS
  NeighboursInOrder
PROPERTIES
  DisposedIsFrozen
