CONSTANTS
  s1 = s1
  s2 = s2
  s3 = s3
  f1 = f1
  f2 = f2
  None = None
  Foreign = Foreign
  Specs = {s1, s2, s3}
  Fqns = {f1, f2}
  FqnOf <- TwoFqns
  BadOwners = {s3}
  ByName = {TRUE, FALSE}
  ExternalOps = {"edit", "delete", "create"}
  MaxUid = 1
  MaxGen = 2
  MaxFaults = 1
  MaxExternal = 1
SPECIFICATION FairSpec
INVARIANTS TypeOK EveryTestCaseAccountedFor DriftDetectionSound
PROPERTIES ImplementsCustody Converges DeletionCompletes
CHECK_DEADLOCK FALSE
