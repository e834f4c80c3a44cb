CONSTANTS
  s1 = s1
  s2 = s2
  s3 = s3
  s4 = s4
  f1 = f1
  f2 = f2
  None = None
  Foreign = Foreign
  Specs = {s1, s2}
  Fqns = {f1}
  FqnOf <- OneFqn
  BadServices = {}
  BadOwners = {}
  ExternalOps = {"edit", "delete", "create"}
  MaxUid = 2
  MaxGen = 2
  MaxFaults = 2
  MaxExternal = 1
SPECIFICATION Spec
INVARIANTS TypeOK EveryPipelineAccountedFor DriftDetectionSound
PROPERTY ImplementsCustody
CHECK_DEADLOCK FALSE
