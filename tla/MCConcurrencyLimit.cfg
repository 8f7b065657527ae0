CONSTANTS
  None = None
  c1 = c1
  c2 = c2
  Permits = {p1, p2, p3}
  Callers = {c1, c2}
  Configs <- Limits
SPECIFICATION FairSpec
INVARIANTS
  TypeOK
  PermitAccounting
  ConcurrencyBound
  NoLostWakeup
PROPERTIES
  ReleaseNeverSkipped
  ImplementsPool
  ListenerServed
CHECK_DEADLOCK FALSE
