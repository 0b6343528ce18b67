\* Two traders post, match, cancel and prune intents of up to two contracts.
SPECIFICATION Spec
SYMMETRY TraderSymmetry
CHECK_DEADLOCK FALSE
CONSTANTS
  Traders = {t1, t2}
  PRICE_ONE = 4
  BPS_DENOM = 2
  Bucket = 3
  LeverageBps = 4
  TickFp = 1
  LiquidationBps = 0
  LiquidationBountyBps = 1
  CachedMaxFeeBps = 1
  TierBps = {1}
  InlineBps = {3}
  MAX_PRUNES_PER_POST = 1
  MAX_CONTRACTS = 2
  InlineMatchCanFail = FALSE
  Amounts = {4, 9}
  Prices = {1, 3}
  Contracts = {1, 2}
  ReentryInputs = {FALSE}
  Marks = {}
  Nonces = {}
  PauseInputs = {}
  StatusInputs = {}
  MaxVault = 17
  MaxId = 4
  MaxSlot = 1
INVARIANTS
  TypeOK
  IdsUnique
  NodeBacking
  ReservedBacked
  LockedBacked
  Solvent
  FillWithinLimits
PROPERTIES
  ImplementsCustody
