SPECIFICATION ListSpec
CONSTANTS
  Run = {r1, r2}
  Address = {"10.0.0.1", "10.0.0.2"}
  Within <- MCWithin
  NoFile = NoFile
  Pattern = {"p"}
INVARIANT AddsAsLine
