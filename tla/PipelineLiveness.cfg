CONSTANTS
  s1 = s1
  s2 = s2
  s3 = s3
  s4 = s4
  f1 = f1
  f2 = f2
  None = None
  Foreign = Foreign
  Specs = {s1, s2, s3, s4}
  Fqns = {f1, f2}
  FqnOf <- TwoFqns
  BadServices = {s2}
  BadOwners = {s3}
  ExternalOps = {}
  MaxUid = 1
  MaxGen = 3
  MaxFaults = 2
  MaxExternal = 0
SPECIFICATION FairSpec
INVARIANTS EveryPipelineAccountedFor NeverForgotten
PROPERTIES Converges DeletionCompletes
CHECK_DEADLOCK FALSE
