\* Two sessions, up to two faults; the code's own times.
CONSTANTS
  MaxSessions = 2
  MaxLost = 2
  MaxLatency = 2
  PollInterval = 3
  MaxDuration = 10
SPECIFICATION Spec
INVARIANTS
  OneTokenPerSession
PROPERTIES
  GivesUpLate
CHECK_DEADLOCK FALSE
