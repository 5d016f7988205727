SPECIFICATION FairSpec
CONSTANTS
  Items = {a, b}
  Capacity = 4
  MaxPushes = 6
  NoItem = NoItem
INVARIANTS
  TypeOK
  NoSlotRace
PROPERTIES
  IsFifo
  EverythingPopped
CHECK_DEADLOCK FALSE
