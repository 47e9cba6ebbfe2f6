SPECIFICATION Spec
CONSTANTS
  Files <- TextFiles
  MaxSize = 3
  Lens <- MCLens
INVARIANT SavesTheFile
