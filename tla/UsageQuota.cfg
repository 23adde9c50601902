SPECIFICATION Spec
CONSTANTS
  r1 = r1
  r2 = r2
  prep = prep
  server = server
  publish = publish
  payment = payment
  Runs = {r1, r2, prep}
  Serial = {r1, r2}
  Requests = {publish}
  Payments = {payment}
  Processes = {server}
  ProcessOf <- MCProcessOf
  Plans = {"beta", "pro"}
  DayLimit <- MCDayLimit
  MonthLimit <- MCMonthLimit
  TokenLimit <- MCTokenLimit
  Estimate = 1
  DaysOfMonth = 2
  MaxDay = 3
  Faults = {"generation", "store", "crash"}
INVARIANTS
  TypeOK
  BooksBalance
  NotOverdrawn
  BudgetHolds
  PlanIsKept
SYMMETRY MCSymmetry
CHECK_DEADLOCK FALSE
