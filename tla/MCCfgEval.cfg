CONSTANTS
  Names <- MCNames
  OSes <- MCOSes
  Listed <- MCListed
  Windows = "windows"
  FamilyOf <- MCFamilyOf
  Preds <- MCPreds
  Syntax <- MCSyntax
  Items <- MCItems
  Outside = Outside
  Packages <- MCPackages
  Unnarrowed = Unnarrowed
  Holds <- MCHolds
SPECIFICATION Spec
INVARIANTS
  TypeOK
  TruthIsSound
  LeftOutIsNeverBuilt
  ImpossibleGatesAreNamed
  TestOnlyIsConfined
  ClosureIsCargos
CHECK_DEADLOCK FALSE
