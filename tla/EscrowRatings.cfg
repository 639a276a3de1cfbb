SPECIFICATION RatingSpec
CONSTANTS
  client = client
  freelancer = freelancer
  arbiter = arbiter
  none = none
  Address <- MCAddress
  NoArbiter = none
  Terms <- Jobs
  I128_MAX = 50000
  MAX_SINGLE_AMOUNT_STROOPS = 1
  MAX_CONTRACT_ID = 3
  MAX_MILESTONES = 1
  MAX_BATCH_APPROVALS = 1
  MAX_BATCH_SETTLEMENT = 1
  MAX_ESCROW_TOTAL = 1
  DepositAmounts = {1}
  SplitLegs = {}
  FeeRates = {}
  MIN_RATING = 1
  MAX_RATING = 5
  MAX_COMMENT_BYTES = 2
  SCALE = 10000
  Ratings = {0, 2, 5}
  CommentLengths = {0, 2, 3}
INVARIANTS
  TotalsMatchRatings
  RatingsEarned
