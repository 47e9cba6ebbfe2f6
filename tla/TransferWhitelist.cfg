SPECIFICATION BothSpec
CONSTANTS
  k1 = k1
  Client = {k1, k2}
  Name = {n1, n2}
  None = None
  NumPorts = 2
  Phrase <- OwnPhrase
  Size <- TwoSizes
  Kept <- UnitFiles
  Undecodable = {k2}
  Run = {r1, r2, r3}
  Address = {"10.0.0.1", "10.0.0.12"}
  Within <- MCWithin
  NoFile = NoFile
  Pattern = {"p", "q"}
INVARIANT TypeOK
INVARIANT PhraseGuards
INVARIANT InStep
INVARIANT ConnectFinds
INVARIANT CutOnlyIfDisturbed
PROPERTY WriteOnce
PROPERTY EndsOnlyIfGiven
CHECK_DEADLOCK FALSE
