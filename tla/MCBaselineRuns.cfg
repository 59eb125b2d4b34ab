CONSTANTS
  Kinds = {"unused_pub_item", "dead_file"}
  Paths <- MCPaths
  ItemNames = {"twin"}
  Modules = {"crate", "crate::m"}
  Lines = {1, 2}
  None = None
  PackageDirs <- MCPackageDirs
  Universe <- MCUniverse
  Outages <- MCOutages
  MaxFindings = 2
  Configured = FALSE
  Denied = {"unused_pub_item"}
SPECIFICATION Spec
INVARIANTS
  TypeOK
  AcceptedStaysQuiet
  PruneIsSettled
  LedgerIsExact
PROPERTIES
  RunsOnlyDrop
