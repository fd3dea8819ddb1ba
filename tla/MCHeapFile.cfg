SPECIFICATION FairSpec
CONSTANTS
  Tuple = {a, b}
  Other = o
  MaxPages = 3
  MaxTuplesPerPage = 2
INVARIANTS
  ChainIntact
  RidsAreStable
  PagesFillUp
  WalksSeeAll
PROPERTIES
  CallsReturn
