SPECIFICATION FairSpec
CONSTANTS
  Orders = {o1}
  Users = {u1}
  Buyer <- OneBuyer
  NoOrder = NoOrder
  Clients = {c1}
  Hooks = {h1}
  Sweepers = {s1}
  Reminders = 1
  Faults = {"lost"}
PROPERTIES
  PromptlyCapturedIsGranted
