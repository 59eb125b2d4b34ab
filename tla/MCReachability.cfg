CONSTANTS
  a = a  b = b  c = c
  p = p  q = q  r = r
  s1 = s1  s2 = s2  s3 = s3
  Defs = {a, b, c}
  Names = {p, q, r}
  Sites = {s1, s2, s3}
  MaxPlain = 2
  Tables <- MCTables
  NotYet = NotYet
SPECIFICATION Spec
INVARIANTS
  TypeOK
  NoLiveUseReported
  DeadSubsystemsReported
  SurfaceNeverTestOnly
PROPERTIES
  ImplementsPromise
  Terminates
CHECK_DEADLOCK FALSE
