SPECIFICATION Spec
CONSTANTS
  Orders = {o1}
  Users = {u1}
  Buyer <- OneBuyer
  NoOrder = NoOrder
  Clients = {c1}
  Hooks = {h1, h2}
  Sweepers = {s1}
  Reminders = 1
  Faults = {"declined", "mismatched", "garbled", "unreachable", "interrupted", "lost"}
INVARIANTS
  TypeOK
  OnlyCapturedIsGranted
  PaidIsGranted
