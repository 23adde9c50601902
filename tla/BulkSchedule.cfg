SPECIFICATION Spec
CONSTANTS
  MonthLengths <- FromNovember
  FirstWeekday = 7
  Counts = {1, 2, 3, 5}
  PickDays = {1, 2, 4, 7}
  Preferred = {9, 20}
  StartDays = {0, 20, 29, 92}
  Opening <- Wednesday
  MaxWait = 1
INVARIANTS
  TypeOK
  ApartAndAfterStart
  WeeklyOnPostingDays
  EveryPeriod
  WeeklyQuota
  MonthlyPlan
