\* One remote; seconds and the bits of the multiplier are scaled down.
CONSTANTS
  Tasks = {loops, synchronisation}
  Sync = synchronisation
  Width = 3
  InitialDelay = 1
  MaxDelay = 3
  Lifetimes = {1, 3}
  Margin = 2
  Datasets = {d1, d2}
  MaxEditions = 2
  MaxPath = 1
  Normal = 3
  Escalated = 2
  MaxTroubles = 4
SPECIFICATION FairSpec
PROPERTIES
  PausesGrow
  RemoteFoundAgain
  NeverOlder
  CopiesCatchUp
CHECK_DEADLOCK FALSE
