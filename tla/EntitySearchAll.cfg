CONSTANTS
  e1 = e1
  e2 = e2
  e3 = e3
  e4 = e4
  e5 = e5
  all = all
  one = one
  Entities = {e1, e2, e3, e4, e5}
  Listings <- MCListings
  Patterns = {all, one}
  Matches <- MCMatches
  PageSize = 2
  MaxChanges = 3
SPECIFICATION FairSpec
INVARIANTS TypeOK MissesOnlyWhatShifted RepeatsOnlyWhatShifted OffsetWithinHits
PROPERTY SearchEnds
CHECK_DEADLOCK FALSE
