SPECIFICATION Spec
CONSTANTS
  a1 = a1
  a2 = a2
  q1 = q1
  q2 = q2
  AssetSet <- TwoAssets
  Missing = {a2}
  Workflow <- Plans
  Requests = {q1, q2}
  Saving = {q2}
  Unseen = {1}
  Absent = Absent
  MaxJournalScan = 2
  MaxRuns = 2
  MaxCrashes = 1
  MaxEdits = 1
CHECK_DEADLOCK FALSE
INVARIANT TypeOK
INVARIANT OneRunPerRequest
PROPERTY CompletedIsOnce
PROPERTY RollbackIsExact
PROPERTY OthersEditsStay
