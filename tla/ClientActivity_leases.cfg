SPECIFICATION Spec
CONSTANTS
  c1 = c1
  c2 = c2
  c3 = c3
  i1 = i1
  i2 = i2
  v1 = v1
  v2 = v2
  None = None
  Threads = {t1, t2}
  Clients = {c1, c2}
  InstanceOf <- Instances
  KindOf <- Mcp
  InvocationOf <- Invocations
  LegacyInvocations = {}
  SessionIds = {s1, s2}
  LeaseTypes = {pie}
  LeaseIds = {l1, l2, l3}
  Requests = {}
  MaxSessions = 2
  SessionTimeout = 1
  LeaseTTL = 1
  MaxTerminal = 1
  AuditCapacity = 3
  MaxClock = 2
  MaxStall = 1
  MaxRecords = 0
SYMMETRY Symmetry
INVARIANT ApprovalSpentOnce
PROPERTY TakeoverWasAnnounced
INVARIANT LeaseOwnerIsLive
