SPECIFICATION FairSpec
CONSTANTS
  MaxRetainedAsyncJobs = 1
  MaxGeneration = 4
  MaxWaits = 3
  MaxRefusals = 1
INVARIANT TypeOK
INVARIANT ActiveSessionIsTheWorld
INVARIANT NothingOutlivesItsSession
PROPERTY ReadyIsOwnWorld
PROPERTY WorldHasThePromisedGeneration
PROPERTY PromisedWorldBegins
