CONSTANTS
  s1 = s1
  s2 = s2
  s3 = s3
  db = db
  None = None
  Foreign = Foreign
  Specs = {s1}
  Locations = {db}
  LocationOf <- OneLocation
  BadOwners = {}
  ExternalOps = {}
  MaxUid = 1
  MaxGen = 1
  MaxFaults = 0
  MaxExternal = 0
SPECIFICATION Spec
INVARIANT NoOrphan
CHECK_DEADLOCK FALSE
