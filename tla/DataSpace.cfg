\* One negotiation, one transfer under its agreement, at most one fault.
CONSTANTS
  A = A  B = B
  Connectors = {A, B}
  Absent = Absent  NoPid = NoPid  NoAgr = NoAgr  NoProc = NoProc
  CPids = {c1}  PPids = {p1, p2}
  MaxMinted = 2
  Targets = {"dataset"}
  Target <- Ordinary
  Home <- NegotiationSides
  Provider <- NegotiatesWithB
  CProcs = {t1}
  PProcs = {q1, q2}
  Forbidden = {}
  TransferHome <- TransferSides
  TransferProvider <- TransfersFromB
  MaxFaults = 1
SPECIFICATION FairSpec
INVARIANTS
  ServedUnderContract
PROPERTIES
  ContractIsServed
CHECK_DEADLOCK FALSE
