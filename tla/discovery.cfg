SPECIFICATION FairSpec
CONSTANTS
  Names = {x}
  Unset = Unset
  Snapshots = {Idle, s1}
  Idle = Idle
  Torn = Torn
  MdnsMayFail = TRUE
INVARIANTS HostSettles BoardSettles SnapshotAgrees
PROPERTIES TracksDevices
