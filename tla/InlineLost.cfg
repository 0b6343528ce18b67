\* The match of a post fails and is swallowed.
SPECIFICATION Spec
SYMMETRY TraderSymmetry
CHECK_DEADLOCK FALSE
CONSTANTS
  Traders = {t1, t2}
  PRICE_ONE = 4
  BPS_DENOM = 2
  Bucket = 2
  LeverageBps = 4
  TickFp = 1
  LiquidationBps = 0
  LiquidationBountyBps = 1
  CachedMaxFeeBps = 0
  TierBps = {0, 1}
  InlineBps = {0, 1}
  MAX_PRUNES_PER_POST = 1
  MAX_CONTRACTS = 2
  InlineMatchCanFail = TRUE
  Amounts = {3}
  Prices = {1, 3}
  Contracts = {1, 2}
  ReentryInputs = {FALSE}
  Marks = {}
  Nonces = {}
  PauseInputs = {}
  StatusInputs = {}
  MaxVault = 9
  MaxId = 5
  MaxSlot = 1
PROPERTIES
  PostPreserved
