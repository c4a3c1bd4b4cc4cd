\* Each connector is the consumer of one transfer and the provider of another.
CONSTANTS
  A = A  B = B
  CA = {c1}  CB = {c2}
  PA = {p1, p2, p3}  PB = {p4, p5, p6}
  NoProc = NoProc  Absent = Absent
  Agreements = {"agreed"}
  Script <- Ordinary
  Forbidden = {}
  CProcs <- BothConsumers
  PProcs <- BothProviders
  Connectors = {A, B}
  Home <- OnTwoSides
  Provider <- AsksTheOther
  MaxFaults = 2
SPECIFICATION Spec
SYMMETRY ProviderSymmetry
INVARIANTS
  ServedToHolder
  MutualWaitOfStarts
CHECK_DEADLOCK FALSE
