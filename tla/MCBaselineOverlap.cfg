CONSTANTS
  Runs = {r1, r2}
  Original = Original
  Nothing = Nothing
  Blank = Blank
  Pieces = 2
  Overlap = TRUE
SPECIFICATION Spec
INVARIANTS
  FileIsWhole
CHECK_DEADLOCK FALSE
