\* Positions end in every way, are claimed again and erased, and attestations are replayed.
SPECIFICATION Spec
SYMMETRY TraderSymmetry
CHECK_DEADLOCK FALSE
CONSTANTS
  Traders = {t1, t2, t3}
  PRICE_ONE = 4
  BPS_DENOM = 2
  Bucket = 2
  LeverageBps = 4
  TickFp = 1
  LiquidationBps = 0
  LiquidationBountyBps = 1
  CachedMaxFeeBps = 0
  TierBps = {0}
  InlineBps = {0}
  MAX_PRUNES_PER_POST = 4
  MAX_CONTRACTS = 2
  InlineMatchCanFail = FALSE
  Amounts = {2}
  Prices = {1, 3}
  Contracts = {1}
  ReentryInputs = {TRUE}
  Marks = {1, 2, 3}
  Nonces = {0, 1, 2}
  PauseInputs = {}
  StatusInputs = {}
  MaxVault = 4
  MaxId = 7
  MaxSlot = 0
INVARIANTS
  LockedBacked
PROPERTIES
  PositionLifecycle
  BoundedSettlement
  NonceConsumed
  ImplementsCustody
