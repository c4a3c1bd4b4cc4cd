\* Every pair of constraints, and the lists, prohibitions and obligations of MCPolicy.
CONSTANTS
  MemberStates = {"DE"}
  Union = "EU"
  NoConstraint = NoConstraint
  Missing = Missing
  Constraints <- MCConstraints
  Depth <- MCDepth
  None = None
  LastDate = 3
  Claims <- MCClaims
  Requirements <- MCRequirements
SPECIFICATION Spec
INVARIANTS
  NeverWidened
  OwnPolicyAccepted
  ObligationsConfirmed
  MissingClaimsDoNotHelp
CHECK_DEADLOCK FALSE
