SPECIFICATION Spec
CONSTANTS
  client = client
  freelancer = freelancer
  arbiter = arbiter
  none = none
  Address <- MCAddress
  NoArbiter = none
  Terms <- TwoContracts
  I128_MAX = 50000
  MAX_SINGLE_AMOUNT_STROOPS = 3
  MAX_CONTRACT_ID = 3
  MAX_MILESTONES = 2
  MAX_BATCH_APPROVALS = 2
  MAX_BATCH_SETTLEMENT = 2
  MAX_ESCROW_TOTAL = 4
  DepositAmounts = {1, 2, 3}
  SplitLegs = {0, 1, 2}
  FeeRates = {0, 5000}
INVARIANTS
  AccountingBound
  CustodyEquation
  Solvency
  ClientCanExit
  CreditsBacked
PROPERTIES
  CreditPerCompletion
