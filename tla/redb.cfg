CONSTANTS
  e1 = e1  e2 = e2
  s1 = s1  s2 = s2
  k1 = k1  NoKey = NoKey
  Events = {e1, e2}
  Subs = {s1, s2}
  Groups <- AtOnce
  Accepts <- AllAccept
  Metadata <- AllKinds
  Tries = {}
  Flaky = {e1}
  WaitForPersistence = TRUE
  DropOnFull = TRUE
  DispatchTimeout = TRUE
  MaxQueueSize = 1
  BatchSize = 2
  MaxBoots = 2
  MaxExtras = 1
SPECIFICATION Spec
INVARIANTS
  TypeOK
  Durable
  OncePerKey
  ScheduledOnTime
  NothingLeftBehind
SYMMETRY SubsSymmetric
