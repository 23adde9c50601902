SPECIFICATION FairSpec
CONSTANTS
  Orders = {o1, o2}
  Users = {u1}
  Buyer <- OneBuyer
  NoOrder = NoOrder
  Clients = {}
  Hooks = {h1}
  Sweepers = {s1}
  Reminders = 2
  Faults = {"declined"}
INVARIANTS
  PaidIsGranted
  RemindedOnce
PROPERTIES
  CapturedIsGranted
  DueRemindersSettle
