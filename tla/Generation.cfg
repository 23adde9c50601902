SPECIFICATION Spec
CONSTANTS
  Tabs = {t1, t2}
  Users = {u1}
  UserOf <- OneAccount
  MaxJobs = 2
  MaxClock = 2
  Faults = {"generation", "store", "reply", "crash", "expiry"}
INVARIANTS
  TypeOK
  ShownIsAsked
  OneRunAtATime
  PublishedIsNotDemoted
PROPERTIES
  TextsAreSavedInOrder
SYMMETRY Symmetric
