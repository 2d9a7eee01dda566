\* A batch of one row and a half; rings of two; two sessions, so that a task that is set
\* in the first runs in the second.
CONSTANTS
  Sensors = {"baro", "imu"}
  Capacity = 2
  EventCount = 1
  BatchLen = 3
  MaxSessions = 2
  MaxSamples = 3
  MaxLines = 2
  Faulty = TRUE
SPECIFICATION Spec
INVARIANTS
  TypeOK
  NeverHalts
  RingsKept
  EventsKept
  SensorFileIsExact
  NothingLeftUnsynced
CHECK_DEADLOCK FALSE
