SPECIFICATION Spec
CONSTANTS
  alice = alice
  bob = bob
  carol = carol
  nobody = nobody
  Address <- MCAddress
  NoAdmin = nobody
  ADMIN_ROTATION_MIN_DELAY_LEDGERS = 5
INVARIANTS
  SponsorInOffice
PROPERTIES
  FullNotice
  ProposalsSettle
