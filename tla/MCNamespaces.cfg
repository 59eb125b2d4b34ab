CONSTANTS
  Projects <- MCMerging
  Mentions <- MCMentions
  Consumers <- MCConsumers
  MaxAliasDepth = 3
  MaxFanoutDepth = 1
  None = None
SPECIFICATION Spec
INVARIANTS
  MergingOnlyHides
