SPECIFICATION Spec
CONSTANTS
  k1 = k1
  Client = {k1, k2}
  Name = {n1, n2}
  None = None
  NumPorts = 1
  Phrase <- SamePhrase
  Size <- UnitFiles
  Kept <- UnitFiles
  Undecodable = {}
INVARIANT RightOwner
CHECK_DEADLOCK FALSE
