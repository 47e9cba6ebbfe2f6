SPECIFICATION WireSpec
CONSTANTS
  Files <- MCFiles
  MaxSize = 3
  Lens <- MCLens
  None = None
  Request <- MCRequest
  FtsPort = {16000, 17000}
  FssTcp = {1, 65535}
  PacketSize = 1450
  Session = {s1, s2}
  NoOne = NoOne
  NumPorts = 2
  HeadCounts <- MCHeadCounts
INVARIANTS
  TempIsRead
  WrittenOnce
  StoredIfAligned
  Arrives
  OverrunOnlyIfCut
  RoomEnough
  InTimeTaken
  RightUnlessShared
  ShowsWhole
PROPERTIES
  SendLoopEnds
  Logged
