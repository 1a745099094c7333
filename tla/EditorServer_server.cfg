SPECIFICATION FairServerSpec
CONSTANTS
  r1 = r1
  capture = capture
  simcache = simcache
  play = play
  a1 = a1
  b1 = b1
  p1 = p1
  h1 = h1
  h2 = h2
  h3 = h3
  NoId = NoId
  None = None
  RequestIds = {r1}
  Payloads = {a1, b1, p1}
  ToolOf <- PayloadTools
  AsyncTools = {capture, simcache}
  Protected = {play}
  Uses <- Mixed
  Outcomes = {"ok"}
  MaxRecords = 1
  Retention = 1
  MaxRun = 0
  MaxClock = 0
  Https = {h1, h2, h3}
  Unlucky = {h1}
INVARIANT ServerTypeOK
INVARIANT AnsweredOnce
INVARIANT DeferredIsActive
INVARIANT MarkerNamesExecuting
PROPERTY StopLeavesNoOperation
PROPERTY EveryRequestAnswered
