SPECIFICATION Spec
CONSTANTS
  TagNames = {"a"}
  Compound <- MCCompound
  ConceptNames = {"c", "d"}
  MaxDepth = 16
  MaxLines = 3
  MaxSpec = 6
  Routes <- MCRoutes
  Upgrades <- MCUpgrades
  Assets <- MCAssets
  Dotted <- MCDotted
  Targets <- MCTargets
  Scripts <- MCScripts
  Cors = TRUE
  Chunk = 3
  MaxHeader = 3
  MaxBody = 2
INVARIANT TagsSelectAsWritten ConceptsRunAsWritten TrendsTellTheHistory
INVARIANT ConfigurationSettles SpecReadAsWritten RequestsAnsweredAsSent
CHECK_DEADLOCK FALSE
