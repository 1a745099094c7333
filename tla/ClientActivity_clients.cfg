SPECIFICATION Spec
CONSTANTS
  c1 = c1
  c2 = c2
  c3 = c3
  i1 = i1
  i2 = i2
  v1 = v1
  v2 = v2
  None = None
  Threads = {t1, t2}
  Clients = {c1, c2, c3}
  InstanceOf <- Instances
  KindOf <- MixedKinds
  InvocationOf <- Invocations
  LegacyInvocations = {w1}
  SessionIds = {s1, s2}
  LeaseTypes = {}
  LeaseIds = {l1}
  Requests = {r1}
  MaxSessions = 1
  SessionTimeout = 1
  LeaseTTL = 2
  MaxTerminal = 1
  AuditCapacity = 3
  MaxClock = 3
  MaxStall = 1
  MaxRecords = 2
SYMMETRY Symmetry
INVARIANT InstanceIndexExact
INVARIANT RequestCountExact
PROPERTY ExpiredWasSilent
INVARIANT TypeOK
INVARIANT BackedIsRunning
PROPERTY UnbackedIsFinished
