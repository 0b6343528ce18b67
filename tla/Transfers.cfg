\* Positions change hands, with a fee buffer on every intent, while the administrators pause.
SPECIFICATION Spec
SYMMETRY TraderSymmetry
CHECK_DEADLOCK FALSE
CONSTANTS
  Traders = {t1, t2, t3}
  PRICE_ONE = 4
  BPS_DENOM = 2
  Bucket = 2
  LeverageBps = 4
  TickFp = 1
  LiquidationBps = 0
  LiquidationBountyBps = 1
  CachedMaxFeeBps = 1
  TierBps = {0}
  InlineBps = {0}
  MAX_PRUNES_PER_POST = 4
  MAX_CONTRACTS = 2
  InlineMatchCanFail = FALSE
  Amounts = {3}
  Prices = {1, 3}
  Contracts = {1}
  ReentryInputs = {FALSE}
  Marks = {}
  Nonces = {}
  PauseInputs = {TRUE, FALSE}
  StatusInputs = {TRUE, FALSE}
  MaxVault = 12
  MaxId = 6
  MaxSlot = 0
INVARIANTS
  ReservedBacked
  SettlementOpen
PROPERTIES
  ImplementsCustody
