SPECIFICATION Spec
CONSTANTS
  Clients = {c1, c2}
  Value = {v0, v1}
  Zero = v0
  MaxPages = 3
  PAGE_SIZE = 2
  IntRange = 16
  pool_size_ = 2
  MaxFaults = 1
SYMMETRY Symmetry
INVARIANTS
  TableMatchesFrames
  FramesHaveOneOwner
  PinsAreHolders
  ReplacerOffersUnpinned
  NoLostWrite
PROPERTY DirtyUntilWritten
