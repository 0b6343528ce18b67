\* Three slots for five mints, one of which has the wrong decimals.
SPECIFICATION Spec
CHECK_DEADLOCK FALSE
CONSTANTS
  usdc = usdc  usdt = usdt  pyusd = pyusd  dai = dai  coarse = coarse
  r1 = r1  r2 = r2  r3 = r3  r4 = r4  r5 = r5
  Mints = {usdc, usdt, pyusd, dai, coarse}
  Decimals <- MintDecimals
  WusdDecimals = 6
  Reserves = {r1, r2, r3, r4, r5}
  MintOf <- ReserveMint
  MAX_STABLECOIN_SLOTS = 3
  InitialLists <- BootstrapLists
  Amounts = {0, 1, 2}
  MaxSupply = 3
INVARIANTS
  SupplyBacked
PROPERTIES
  RemovalExact
