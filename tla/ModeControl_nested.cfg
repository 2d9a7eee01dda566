\* FS_Mode_Update re-entered from the waits of its own handlers.  The modes of
\* Active_Mode send no command: nothing can run inside them.
CONSTANTS
  QueueLength = 1
  MaxNesting = 2
  Requestable = {"SLEEP", "PAIRING", "RESET"}
  ActiveModes = {}
SPECIFICATION Spec
INVARIANTS
  NoStrandedRequest
  LiveModeIsTheMode
PROPERTY ResetOnlyAfterDeInit
