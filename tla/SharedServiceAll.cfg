CONSTANTS
  None = None
  Foreign = Foreign
  Specs = {specA, specB}
  SpecsA = {specA}
  SpecsB = {specB}
  db = db
  MaxUidA = 2
  MaxUidB = 1
  MaxGen = 1
  MaxFaults = 1
  MaxEvents = 3
  MaxVersion = 2
SPECIFICATION FairSpec
INVARIANTS EveryServiceAccountedFor NoneTakesTheOthersForItsOwn
PROPERTY SurvivorConverges
CHECK_DEADLOCK FALSE
