SPECIFICATION Spec
CONSTANTS
  Tabs = {t1}
  Users = {u1}
  UserOf <- OneAccount
  MaxJobs = 1
  MaxClock = 5
  Faults = {"generation"}
INVARIANT
  FailureIsReported
