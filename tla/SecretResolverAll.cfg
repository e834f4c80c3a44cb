CONSTANTS
  Configs <- MCConfigs
  Names = {"db", "api"}
  KeysOf <- MCKeysOf
  MaxChanges = 2
SPECIFICATION Spec
INVARIANTS TypeOK ResolvesAsDocumented FailsForCause
CHECK_DEADLOCK FALSE
