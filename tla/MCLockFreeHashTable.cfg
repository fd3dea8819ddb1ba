SPECIFICATION FairSpec
CONSTANTS
  Threads = {t1, t2}
  Node = {n1, n2, n3}
  Null = Null
  k1 = k1
  k2 = k2
  k3 = k3
  Key = {k1, k2, k3}
  NoKey = NoKey
  bucket_count_ = 3
  Hash <- MCHash
INVARIANTS
  ChainsAreLists
  LookupFindsAll
  NodesHaveOneOwner
PROPERTIES
  PublishedNodesStay
  CallsReturn
