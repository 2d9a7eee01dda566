\* Smaller, for liveness.
CONSTANTS
  Window = 1
  Counters = 2
  Frames = 1
  Entries = 2
  Faults = {"open", "seek", "read", "write", "close"}
  Operations = {"WRITE", "READ", "DIR"}
  Offsets = {0}
  Strides = {1}
  Others = {"PING", "MK_DIR", "BAD"}
  MaxOperations = 1
  MaxRetries = 1
  LinkLength = 2
  MaxMishaps = 1
SPECIFICATION FairSpec
PROPERTY TransferEnds
