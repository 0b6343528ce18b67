\* Three slots and the sentinel, allocated beyond that after an expansion.
SPECIFICATION PoolSpec
SYMMETRY OccupantSymmetry
CHECK_DEADLOCK FALSE
CONSTANTS
  Occupants = {o1, o2, o3, o4, o5}
  Vacant = Vacant
  InitialCapacity = 4
  Expansions = {1, 2}
  MaxCapacity = 7
PROPERTIES
  NoDoubleUse
