SPECIFICATION Spec
CONSTANTS
  Callers = {c1, c2, c3}
  Processes = {p1}
  p1 = p1
  ProcessOf <- InOneProcess
  Nobody = Nobody
  Fields <- MCFields
  Values <- MCValues
  State <- state
  state = state
  wp = wp
  scheduled = scheduled
  ready = ready
  Posting = posting
  posted = posted
  none = none
  id = id
  NoRow = NoRow
  Calls <- MCCalls
  Faults = {"refused", "reply", "stop"}
SYMMETRY Callers3
INVARIANTS
  TypeOK
  ClaimHolds
PROPERTIES
  OnlyNamedFieldsChange
  TakesEffectAtOnce
