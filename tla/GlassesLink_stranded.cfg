\* A discovery completes although its watchdog has given the link up.
CONSTANTS
  Kinds = {{"service", "rx", "ctrl", "ctrlCccd"}}
  MaxEvents = 1
  Sluggish = TRUE
SPECIFICATION Spec
INVARIANT NeverStranded
CHECK_DEADLOCK FALSE
