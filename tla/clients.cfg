SPECIFICATION FairSpec
CONSTANTS
  Handles = {h1, h2}
  Addresses = {a1, a2}
  Slots = {1}
  Free = Free
  Conns = {c1, c2}
  c1 = c1
  c2 = c2
  a1 = a1
  a2 = a2
  v = v
  Asks <- TheAsks
  MaxFds = 2
  HttpPeer = HttpPeer
  Virtuals = {v}
  RxSize = 1
  NoDevice = NoDevice
INVARIANTS SocketsOwned UrbReachesImported
PROPERTIES LeftIsClosed BacklogServed
