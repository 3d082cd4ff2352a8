CONSTANTS
  Instances = {i1, i2}
  Home = i1
  Events = {e1, e2}
  Scheduled = {e1}
  Poison = {e1}
  DlqChannelSize = 1
  MaxAckPending = 1
  MaxFaults = 2
  None = None
SPECIFICATION FairSpec
CHECK_DEADLOCK FALSE
INVARIANTS
  AckedIsAccountedFor
  OncePerGroup
PROPERTIES
  Settled
