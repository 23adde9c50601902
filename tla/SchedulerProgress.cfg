SPECIFICATION FairSpec
CONSTANTS
  Jobs = {j1}
  Schedulers = {s1}
  Workers = {w1}
  Clients = {}
  Requests = {}
  Faults = {"generation", "publish", "mismatch", "worker_crash"}
  MaxRequests = 0
  MaxCrashes = 1
  MaxAttempts = 1
  PublishAttempts = 2
  MaxPosts = 2
  MaxQueued = 1
PROPERTIES
  DueJobsSettle
  PreparationEnds
  FailedPostIsHealed
  RecordsItsPosts
