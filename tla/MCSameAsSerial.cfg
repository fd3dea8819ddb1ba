SPECIFICATION QuerySpec
CONSTANTS
  n_threads_ = 3
  PoolSizes = {2, 3}
  page_ids <- MCPageIds
  Rows <- MCRows
  JoinThreads = 3
  SortThreads = 3
  RightRows <- MCRightRows
  LeftKey <- MCLeftKey
  RightKey <- MCRightKey
  JoinKeys = {1, 2, 3}
  Ascending <- MCAscending
  SortValue <- MCSortValue
INVARIANT SameAsSerial
