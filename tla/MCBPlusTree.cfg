SPECIFICATION Spec
CHECK_DEADLOCK FALSE
CONSTANTS
  MinKey = 0
  MaxKey = 7
  Keys = {1, 2, 3, 4, 5, 6}
  RIDs <- MCRids
  Searched = {2, 5}
  Ranges <- MCRanges
  leaf_max_size = 2
  internal_max_size = 3
  LeafCapacity = 8
  InternalCapacity = 8
  pool_size_ = 2
  MaxInserts = 6
  MaxFaults = 1
INVARIANTS
  SubtreesInRange
  InsertedIsFound
  ScanIsSearches
  OverfullOnlyAfterLeak
