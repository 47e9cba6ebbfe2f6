SPECIFICATION FairSpec
CONSTANTS
  k1 = k1
  Client = {k1, k2}
  Name = {n1}
  None = None
  NumPorts = 2
  Phrase <- SamePhrase
  Size <- TwoSizes
  Kept <- UnitFiles
  Undecodable = {}
PROPERTY FssReturns
PROPERTY C2EndsOrResends
CHECK_DEADLOCK FALSE
