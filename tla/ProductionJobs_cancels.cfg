SPECIFICATION Spec
CONSTANTS
  q1 = q1
  q2 = q2
  None = None
  Uses <- Traces
  Fragile = {}
  MaxJobs = 3
  MaxRestarts = 1
PROPERTY CancelStopsItsOwnTrace
