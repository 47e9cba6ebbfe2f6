SPECIFICATION ServedSpec
CONSTANTS
  NumSockets = 2
  Session = {s1}
PROPERTY ExitCloses
CHECK_DEADLOCK FALSE
