SPECIFICATION FairSpec
CONSTANTS
  Handles = {h1, h2}
  Hubs = {}
  Addresses = {a1, a2}
  MaxDevices = 1
  QueueLen = 2
  NumInterfaces = 2
  ReuseHandles = FALSE
  NoHandle = NoHandle
  Free = Free
INVARIANTS HandlesAccounted ClaimedMeansAll TableFollowsBus
PROPERTIES OnlyGoneRemoved TableSpec AttachedIsExported GoneIsClosed
