\* Epochs of two slots, seven slots: idle times of zero to three epochs.
SPECIFICATION Spec
SYMMETRY TraderSymmetry
VIEW Accounting
CHECK_DEADLOCK FALSE
CONSTANTS
  Traders = {t1, t2}
  Tables <- SampleTables
  Supplied <- OtherTables
  MaxTierBps = 4
  EpochSlots = 2
  Amounts = {1, 2}
  MaxSlot = 6
  MaxCredit = 4
INVARIANTS
  VolumeTracksWindow
PROPERTIES
  NeverAboveAnEarlierMax
