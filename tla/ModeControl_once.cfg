\* FS_Mode_Update not re-entered: refinement and liveness.
CONSTANTS
  QueueLength = 2
  MaxNesting = 1
  Requestable = {"SLEEP", "PAIRING", "RESET"}
  ActiveModes = {"ACTIVE", "START"}
SPECIFICATION FairSpec
INVARIANT TypeOK
PROPERTIES
  ServiceSpec
  RequestsSettled
