SPECIFICATION FairSpec
CONSTANTS
  NumSockets = 1
  Session = {s1, s2}
PROPERTY PortReturns
PROPERTY DatagramRead
PROPERTY WaitEnds
CHECK_DEADLOCK FALSE
