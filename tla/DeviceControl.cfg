\* Requests, answers, completions, fallback timer and resets.
CONSTANTS
  Modes = {"SLEEP", "ACTIVE", "USB"}
  Terminals = {"RESET"}
  RingLength = 2
  MaxWrites = 3
SPECIFICATION FairSpec
INVARIANTS
  TypeOK
  DeferralIsArmed
PROPERTIES
  HandedOverOnce
  EveryDeferralDecided
CHECK_DEADLOCK FALSE
