SPECIFICATION Spec
CONSTANTS
  client = client
  freelancer = freelancer
  arbiter = arbiter
  none = none
  Address <- MCAddress
  NoArbiter = none
  Terms <- OneContract
  I128_MAX = 50000
  MAX_SINGLE_AMOUNT_STROOPS = 3
  MAX_CONTRACT_ID = 2
  MAX_MILESTONES = 3
  MAX_BATCH_APPROVALS = 2
  MAX_BATCH_SETTLEMENT = 2
  MAX_ESCROW_TOTAL = 6
  DepositAmounts = {1, 2, 3, 4}
  SplitLegs = {0, 1, 2}
  FeeRates = {0, 5000, 10001}
INVARIANTS
  TypeOK
  BooksMatchMilestones
  FundedCoversMilestones
  StatusMatchesBooks
  ApprovalsFresh
  SummaryIsCurrent
  DisputeRecords
  PreviewIsHonest
  SummaryExplainsBalance
  Interchangeable
PROPERTIES
  TerminalIsFinal
  PauseStopsMoney
  ImplementsLifecycle
