\* A frame of HOLD, clear, text and FLUSH; two failed writes drop the link (eight in the code).
CONSTANTS
  FramePkts = 4
  FailLimit = 2
  MaxEvents = 2
SPECIFICATION FairSpec
INVARIANTS
  TypeOK
  HoldIsBalanced
PROPERTIES
  HeldDisplayShown
  WedgedLinkDrops
