\* Every TCK script, one at a time, at most one fault.
CONSTANTS
  A = A  B = B
  NoPid = NoPid  NoAgr = NoAgr  Absent = Absent
  CPids = {"ACN0104", "ACN0201", "ACN0205", "ACN0206", "ACN0207",
           "ACNC0101", "ACNC0102", "ACNC0103", "ACNC0202", "ACNC0203"}
  PPids = {p1, p2}
  Connectors = {A, B}
  Targets = {"ACN0104", "ACN0201", "ACN0205", "ACN0206", "ACN0207",
             "ACNC0101", "ACNC0102", "ACNC0103", "ACNC0202", "ACNC0203"}
  Home <- OnTwoSides
  Provider <- AsksB
  Target <- ItsOwnName
  MaxMinted = 3
  MaxFaults = 1
SPECIFICATION TckFairSpec
INVARIANTS
  MutualWaitHasCause
  AgreementSharedOrWithdrawn
PROPERTIES
  PeerFixed
  ScriptsSettle
CHECK_DEADLOCK FALSE
