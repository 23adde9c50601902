SPECIFICATION Spec
CONSTANTS
  Jobs = {j1}
  Schedulers = {s1}
  Workers = {w1}
  Clients = {c1}
  Requests = {"post_now", "publish"}
  Faults = {"publish", "quota", "lost_reply", "store", "worker_crash", "scheduler_crash"}
  MaxRequests = 1
  MaxCrashes = 1
  MaxAttempts = 0
  PublishAttempts = 2
  MaxPosts = 2
  MaxQueued = 1
INVARIANTS
  PostedHasPost
PROPERTIES
  PublishesBody
