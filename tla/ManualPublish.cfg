SPECIFICATION Spec
CONSTANTS
  Jobs = {j1}
  Schedulers = {s1}
  Workers = {}
  Clients = {c1}
  Requests = {"publish"}
  Faults = {}
  MaxRequests = 1
  MaxCrashes = 0
  MaxAttempts = 0
  PublishAttempts = 2
  MaxPosts = 2
  MaxQueued = 1
INVARIANTS
  AtMostOnePost
