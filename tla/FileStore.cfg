\* The three scenarios of MCFileStore.
CONSTANTS
  Loop = Loop  Creator = Creator
  r1 = r1  r2 = r2
  Readers = {r1, r2}
  Scenarios <- MCScenarios
SPECIFICATION Spec
INVARIANTS
  GetNotOlder
  NotFoundNeedsSave
  NeverLost
  EventRepairs
PROPERTIES
  ImplementsRecord
  RegressNeedsCrash
CHECK_DEADLOCK FALSE
