\* The link of glasses with a battery service.
CONSTANTS
  Kinds = {{"service", "rx", "ctrl", "ctrlCccd", "battery", "batteryLevel", "batteryCccd"}}
  MaxEvents = 1
  Sluggish = FALSE
SPECIFICATION FairSpec
INVARIANTS
  TypeOK
  NeverStranded
  SetupInOrder
PROPERTIES
  NoLinkOutsideActive
  JudgedSetupEnds
\* Out of ACTIVE, without a link, nothing needs to happen.
CHECK_DEADLOCK FALSE
