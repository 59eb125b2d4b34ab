SPECIFICATION Spec
CONSTANTS
  Files <- MCFiles
  Collected <- MCCollected
  MayName <- MCMayName
  Constants <- MCConstants
  Owners <- MCOwners
  BareMeans <- MCBareMeans
INVARIANTS
  TypeOK
  MentionsAreExact
CHECK_DEADLOCK FALSE
