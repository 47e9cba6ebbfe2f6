SPECIFICATION FairSpec
CONSTANTS
  k1 = k1
  Client = {k1}
  Name = {n1}
  None = None
  NumPorts = 1
  Phrase <- SamePhrase
  Size <- BigFiles
  Kept <- UnitFiles
  Undecodable = {}
PROPERTY SendFileReturns
CHECK_DEADLOCK FALSE
