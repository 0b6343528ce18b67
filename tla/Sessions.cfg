\* Two owners and a delegate, with caps that are used up exactly or missed by one.
SPECIFICATION DelegatedSpec
SYMMETRY TraderSymmetry
CHECK_DEADLOCK FALSE
CONSTANTS
  Traders = {t1, t2}
  PRICE_ONE = 4
  BPS_DENOM = 2
  Bucket = 2
  LeverageBps = 4
  TickFp = 1
  LiquidationBps = 0
  LiquidationBountyBps = 1
  CachedMaxFeeBps = 0
  TierBps = {1}
  InlineBps = {1, 2}
  MAX_PRUNES_PER_POST = 4
  MAX_CONTRACTS = 2
  InlineMatchCanFail = TRUE
  Amounts = {3}
  Prices = {2}
  Contracts = {1}
  ReentryInputs = {FALSE}
  Marks = {}
  Nonces = {}
  PauseInputs = {}
  StatusInputs = {}
  MaxVault = 6
  MaxId = 3
  MaxSlot = 1
  Delegates = {d1}
  NoSession = NoSession
  PerIntentInputs = {2}
  CapInputs = {3, 4}
  AllowInputs = {TRUE}
INVARIANTS
  SessionsValid
  ExposureCharged
PROPERTIES
  ImplementsExchange
  CountersKept
  DebitAccounted
