\* One negotiation, two faults.
CONSTANTS
  A = A  B = B
  CA = {c1}  PB = {p1, p2, p3}
  NoPid = NoPid  NoAgr = NoAgr  Absent = Absent
  CPids <- CA
  PPids <- PB
  Connectors = {A, B}
  Targets = {"dataset"}
  Home <- OnTwoSides
  Provider <- AsksB
  Target <- Ordinary
  MaxMinted = 3
  MaxFaults = 2
SPECIFICATION StoreSpec
SYMMETRY ProviderSymmetry
INVARIANTS
  BothItsOwn
  NeverFinalizedAlone
PROPERTIES
  RegressNeedsOlderFile
CHECK_DEADLOCK FALSE
