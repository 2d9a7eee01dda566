\* Four clients that keep the contract.  Error_Handler halts the device.
CONSTANTS
  Clients = {a, b, c, d}
  MaxVcc = 5
SPECIFICATION Spec
INVARIANTS
  OneOwner
  HaltsOnlyOnFault
  HeldIsUp
CHECK_DEADLOCK FALSE
