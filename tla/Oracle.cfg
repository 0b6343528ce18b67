\* Three keys, a clock that passes the delay by one, two positions.
SPECIFICATION OracleSpec
SYMMETRY KeySymmetry
CHECK_DEADLOCK FALSE
CONSTANTS
  Keys = {admin, k1, k2}
  Admin = admin
  s1 = s1  s2 = s2
  m1 = m1  m2 = m2
  pos1 = pos1  pos2 = pos2
  w1 = w1  w2 = w2
  None = None
  Signers = {s1, s2}
  InitialSigner = s1
  ProposalIds = {p1, p2}
  TIMELOCK_DELAY_SECS = 1
  MAX_MULTISIG_SIGNERS = 2
  MaxTime = 2
  Markets = {m1, m2}
  Positions = {pos1, pos2}
  MarketOf <- PositionMarket
  WindowOf <- PositionWindow
  StalenessOf <- PositionStaleness
  InCirculation <- Circulating
INVARIANTS
  QuorumReachable
  KeyWasAnnounced
  EndedInOrder
PROPERTIES
  SignerDelayed
  DecidedOnce
