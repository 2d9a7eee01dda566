\* The transfers, the modes and the card.  Error_Handler halts the device.
CONSTANT DiagLines = 2
SPECIFICATION UsersSpec
INVARIANTS
  SharedInPeace
  CacheEmptyBeforeMount
CHECK_DEADLOCK FALSE
