SPECIFICATION Spec
CHECK_DEADLOCK FALSE
CONSTANTS
  MinKey = 0
  MaxKey = 7
  Keys = {1, 2, 3, 4, 5, 6}
  RIDs <- MCRids
  Searched = {2, 5}
  Ranges <- MCRanges
  leaf_max_size = 0
  internal_max_size = 0
  LeafCapacity = 2
  InternalCapacity = 3
  pool_size_ = 2
  MaxInserts = 6
  MaxFaults = 0
INVARIANT
  InternalPageFits
