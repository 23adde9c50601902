SPECIFICATION Spec
CONSTANTS
  Jobs = {j1}
  Schedulers = {s1}
  Workers = {w1}
  Clients = {c1}
  Requests <- Editing
  Faults = {"generation", "publish", "slow"}
  MaxRequests = 2
  MaxCrashes = 0
  MaxAttempts = 0
  PublishAttempts = 2
  MaxPosts = 2
  MaxQueued = 1
INVARIANTS
  TypeOK
  AtMostOnePost
  EveryPostIsKnown
  PostedHasPost
  PostingHasOwner
PROPERTIES
  PublishesOnce
