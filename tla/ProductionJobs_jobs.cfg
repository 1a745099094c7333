SPECIFICATION FairSpec
CONSTANTS
  q1 = q1
  q2 = q2
  None = None
  Uses <- Mixed
  Fragile = {1}
  MaxJobs = 3
  MaxRestarts = 1
INVARIANT TypeOK
INVARIANT OneHeavyJob
INVARIANT ProcessesBelongToJobs
INVARIANT RecordingIsOwned
PROPERTY OutcomesStay
INVARIANT OneJobPerRequest
PROPERTY JobsEnd
