SPECIFICATION Spec
CONSTANTS
  NumSockets = 2
  Session = {s1, s2}
SYMMETRY Symmetry
INVARIANTS
  TypeOK
  NumthrdsAccounting
  FdInOnePlace
  PortLostOnlyByOverlap
  ExitLeaves
  PortKnownIfAlone
PROPERTY StatusCoversLive
CHECK_DEADLOCK FALSE
