SPECIFICATION Spec
CONSTANTS
  core = core
  serde = serde
  derive = derive
  feature = feature
  Words = {core, serde, derive}
  Features = {feature}
  Sources <- MCSources
INVARIANTS
  TypeOK
  AttributionIsExact
  EditsLoseNothing
CHECK_DEADLOCK FALSE
