\* Every pair of atoms.
CONSTANTS
  MemberStates = {"DE"}
  Union = "EU"
  NoConstraint = NoConstraint
  Missing = Missing
  Constraints <- MCConstraints
  Depth <- MCDepth
  None = None
  LastDate = 3
  Claims <- MCClaims
  Requirements <- OfAtoms
SPECIFICATION Spec
INVARIANTS
  AtomsNeverWidened
CHECK_DEADLOCK FALSE
