\* Four records, two of which a poll may read.
CONSTANTS
  Records = {n1, n2, t1, t2}
  Stays = {t1, t2}
  Limit = 2
  Work = 1
  MaxCrashes = 2
SPECIFICATION FairSpec
PROPERTIES
  EveryRecordSettles
CHECK_DEADLOCK FALSE
