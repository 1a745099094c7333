SPECIFICATION Spec
CONSTANTS
  a1 = a1
  a2 = a2
  q1 = q1
  q2 = q2
  AssetSet <- TwoAssets
  Missing = {a2}
  Workflow <- Plans
  Requests = {q1}
  Saving = {}
  Unseen = {}
  Absent = Absent
  MaxJournalScan = 2
  MaxRuns = 1
  MaxCrashes = 1
  MaxEdits = 0
CHECK_DEADLOCK FALSE
INVARIANT InterruptedRunRecovers
