CONSTANTS
  Runs = {r1, r2, r3}
  Original = Original
  Nothing = Nothing
  Blank = Blank
  Pieces = 2
  Overlap = FALSE
SPECIFICATION Spec
INVARIANTS
  TypeOK
  FileIsWhole
  ReadsAreWhole
PROPERTIES
  ImplementsPromise
CHECK_DEADLOCK FALSE
