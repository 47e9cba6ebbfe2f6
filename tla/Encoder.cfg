SPECIFICATION EncoderSpec
CONSTANTS
  Options <- MCOptions
  Lengths <- MCLengths
  Sizes <- MCSizes
  None = None
  Bytes <- MCBytes
  Alone = FALSE
  Error = Error
  Pad = Pad
  Strings <- MCStrings
  Session <- MCSession
  Operators = {"x", "y"}
  PatternsSent <- MCPatternsSent
  One = One
  Two = Two
INVARIANTS
  TypeOK
  Scheduled
  Complete
  NoEchoRefused
  ReadRight
  RightAlone
  AgreesWithPython
  EntryShown
  RoomEnough
PROPERTY Returns
