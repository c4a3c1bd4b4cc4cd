\* Every TCK script, an ordinary agreement and a forbidden one; up to two faults.
CONSTANTS
  A = A  B = B
  NoProc = NoProc  Absent = Absent
  CProcs = {c1}
  PProcs = {p1, p2, p3}
  Connectors = {A, B}
  Agreements = {"ATP0101", "ATP0102", "ATP0103", "ATP0104", "ATP0105", "ATP0301",
                "ATPC0201", "ATPC0202", "ATPC0203", "ATPC0204", "ATPC0205",
                "ordinary", "forbidden"}
  Script <- ItsOwnName
  Forbidden = {"forbidden"}
  Home <- OnTwoSides
  Provider <- AsksB
  MaxFaults = 2
SPECIFICATION TckFairSpec
INVARIANTS
  EndedIsClosed
  MutualWaitHasCause
PROPERTIES
  FinalForever
  ScriptsEnd
  EveryTransferStarts
CHECK_DEADLOCK FALSE
