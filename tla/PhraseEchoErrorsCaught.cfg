SPECIFICATION EchoSpec
CONSTANTS
  Bytes <- MCBytes
  Alone = TRUE
  Error = Error
INVARIANT ErrorsCaught
