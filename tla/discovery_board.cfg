SPECIFICATION FairSpec
CONSTANTS
  Names = {x}
  Unset = Unset
  Snapshots = {Idle, s1}
  Idle = Idle
  Torn = Torn
  MdnsMayFail = FALSE
PROPERTIES BoardPickedUp
