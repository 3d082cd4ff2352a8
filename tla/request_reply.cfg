CONSTANTS
  Requests = {r1, r2}
  Notices = {n1}
  Responders = {p1, p2}
  MaxRetries = 1
  None = None
SPECIFICATION FairSpec
INVARIANTS
  OwnReply
  DroppedWithoutReply
PROPERTIES
  RequestReturns
  InboxReleased
