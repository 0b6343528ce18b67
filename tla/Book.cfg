\* Three slots and the sentinel, then an expansion by seven: two seats and eight intents.
SPECIFICATION Spec
CHECK_DEADLOCK FALSE
CONSTANTS
  Occupants <- Stored
  Vacant = Vacant
  InitialCapacity = 4
  Expansions = {7}
  MaxCapacity = 11
  PostInputs <- InTurn
  MaxSeq = 8
INVARIANTS
  RedBlack
  SeatsResolve
  Partition
PROPERTIES
  ImplementsStorage
  ImplementsPriceTime
