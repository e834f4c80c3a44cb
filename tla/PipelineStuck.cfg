CONSTANTS
  s1 = s1
  s2 = s2
  s3 = s3
  s4 = s4
  f1 = f1
  f2 = f2
  None = None
  Foreign = Foreign
  Specs = {s1}
  Fqns = {f1}
  FqnOf <- OneFqn
  BadServices = {}
  BadOwners = {}
  ExternalOps = {"delete"}
  MaxUid = 1
  MaxGen = 1
  MaxFaults = 1
  MaxExternal = 1
SPECIFICATION FairSpec
PROPERTY Converges
CHECK_DEADLOCK FALSE
