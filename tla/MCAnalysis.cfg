SPECIFICATION Spec
CONSTANTS
  P = P
  Q = Q
  pRs = pRs
  mRs = mRs
  qRs = qRs
  nRs = nRs
  shared = shared
  gRs = gRs
  oRs = oRs
  linkRs = linkRs
  dep = dep
  Packages = {P, Q}
  Files = {pRs, mRs, qRs, nRs, shared, gRs, oRs, linkRs}
  Deps = {dep}
  Workspaces <- MCWorkspaces
  Off = {}
INVARIANTS
  TypeOK
  ReportsFitWhatWasSeen
  CleanRunIsExact
CHECK_DEADLOCK FALSE
