SPECIFICATION Spec
CONSTANTS
  r1 = r1
  r2 = r2
  r3 = r3
  capture = capture
  simcache = simcache
  edit = edit
  play = play
  a1 = a1
  a2 = a2
  b1 = b1
  s1 = s1
  s2 = s2
  p1 = p1
  NoId = NoId
  RequestIds = {r1, r2, r3}
  Payloads = {a1, a2, b1, s1, s2, p1}
  ToolOf <- PayloadTools
  AsyncTools = {capture, simcache}
  Protected = {play}
  Uses <- KindsApart
  Outcomes = {"ok"}
  MaxRecords = 2
  Retention = 1
  MaxRun = 1
  MaxClock = 2
INVARIANT TypeOK
PROPERTY KeptForRetention
PROPERTY ServesOnce
