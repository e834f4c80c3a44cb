CONSTANTS
  s1 = s1
  s2 = s2
  s3 = s3
  a1 = a1
  a2 = a2
  t1 = t1
  t2 = t2
  None = None
  Specs = {s1, s3}
  Assets = {a1, a2}
  Ingested = {a1}
  Tags = {t1, t2}
  TagOf <- MCTagOf
  MatchOf <- MCMatchOf
  ExternalOps = {}
  MaxUid = 1
  MaxGen = 3
  MaxFaults = 1
  MaxExternal = 0
SPECIFICATION FairSpec
PROPERTY TagsStayApplied
CHECK_DEADLOCK FALSE
