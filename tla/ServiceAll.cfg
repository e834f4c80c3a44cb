CONSTANTS
  s1 = s1
  s2 = s2
  s3 = s3
  db = db
  None = None
  Foreign = Foreign
  Specs = {s1, s2, s3}
  Locations = {db}
  LocationOf <- OneLocation
  BadOwners = {s3}
  ExternalOps = {"edit", "delete", "create", "rotate"}
  MaxUid = 2
  MaxGen = 2
  MaxFaults = 1
  MaxExternal = 1
SPECIFICATION FairSpec
INVARIANTS TypeOK FinalizerGuardsUpsert NeverForgotten EveryServiceAccountedFor
           DriftDetectionSound
PROPERTIES ReleaseAfterCleanup ImplementsCustody Converges DeletionCompletes
CHECK_DEADLOCK FALSE
