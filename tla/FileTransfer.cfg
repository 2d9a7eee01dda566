\* One operation of the client with every transfer, every fault of FatFs and one
\* mishap.  The counters wrap at twice the window.
CONSTANTS
  Window = 2
  Counters = 4
  Frames = 2
  Entries = 2
  Faults = {"open", "seek", "read", "write", "close"}
  Operations = {"WRITE", "READ", "DIR"}
  Offsets = {0, 1}
  Strides = {1, 2}
  Others = {"PING", "MK_DIR", "BAD"}
  MaxOperations = 1
  MaxRetries = 1
  LinkLength = 2
  MaxMishaps = 1
SPECIFICATION Spec
INVARIANTS
  TypeOK
  FileIsWhatWasAcked
  AckedIsWritten
  ReceivedIsExact
