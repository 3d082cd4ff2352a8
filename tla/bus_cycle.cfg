CONSTANTS
  s1 = s1  s2 = s2
  e1 = e1  e2 = e2  e3 = e3  e4 = e4  e5 = e5
  c1 = c1  c2 = c2
  NoEvent = NoEvent
  Subs = {s1}
  Events = {e1, e2, e3, e4, e5}
  EarlySubs = {s1}
  Leavers = {}
  Panicking = {}
  Matches <- ResponseElsewhere
  HandlerChannelSize = 1
  MaxRetries = 0
  DlqChannelSize = 1
  DlqConsumed = TRUE
  Callers = {c1}
  GracefulCallers = {c1}
  Tries = {}
  Delayed = {}
  Watched = {}
  Cascade <- S1Responds
  MaxQueueSize = 1
  DropOnFull = FALSE
  DispatchTimeout = TRUE
SPECIFICATION InTurnSpec
PROPERTIES
  ShutdownReturns
  PublishReturns
  Delivered
