SPECIFICATION Spec
CONSTANTS
  Runs = {a, b, c}
  NoWork = NoWork
INVARIANTS
  TypeOK
  SchemaMatchesVersion
  VersionNotAhead
PROPERTIES
  UpgradeReachesHead
