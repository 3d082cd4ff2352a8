CONSTANTS
  s1 = s1  s2 = s2
  e1 = e1  e2 = e2  e3 = e3  e4 = e4  e5 = e5
  c1 = c1  c2 = c2
  NoEvent = NoEvent
  Subs = {s1}
  Events = {e1, e2}
  EarlySubs = {s1}
  Leavers = {s1}
  Panicking = {s1}
  Matches <- AllMatch
  HandlerChannelSize = 1
  MaxRetries = 1
  DlqChannelSize = 1
  DlqConsumed = TRUE
  Callers = {c1, c2}
  GracefulCallers = {c1}
  Tries = {}
  Delayed = {e2}
  Watched = {}
  Cascade <- NoCascade
  MaxQueueSize = 1
  DropOnFull = TRUE
  DispatchTimeout = TRUE
SPECIFICATION Spec
INVARIANTS
  TypeOK
  BusInv
  Accounted
