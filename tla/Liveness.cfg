\* Keepers run the two permissionless backstops fairly; inline matches fail, and a pause is never lifted.
SPECIFICATION FairSpec
CHECK_DEADLOCK FALSE
CONSTANTS
  Traders = {t1, t2}
  PRICE_ONE = 4
  BPS_DENOM = 2
  Bucket = 2
  LeverageBps = 4
  TickFp = 1
  LiquidationBps = 0
  LiquidationBountyBps = 1
  CachedMaxFeeBps = 0
  TierBps = {1}
  InlineBps = {2}
  MAX_PRUNES_PER_POST = 1
  MAX_CONTRACTS = 2
  InlineMatchCanFail = TRUE
  Amounts = {4}
  Prices = {1, 3}
  Contracts = {1, 2}
  ReentryInputs = {FALSE}
  Marks = {}
  Nonces = {1}
  PauseInputs = {TRUE}
  StatusInputs = {}
  MaxVault = 8
  MaxId = 4
  MaxSlot = 1
INVARIANTS
  BalancesCover
PROPERTIES
  ExpiredLeave
  CrossedClears
