CONSTANTS
  Projects <- MCProjects
  Mentions <- MCMentions
  Consumers <- MCConsumers
  MaxAliasDepth = 3
  MaxFanoutDepth = 1
  None = None
SPECIFICATION Spec
INVARIANTS
  TypeOK
  NothingNamedIsMissed
  GlobsLeadWhereTheyName
  SurfaceCoversConsumers
  CertainAnswersHold
PROPERTIES
  RoundsEnd
