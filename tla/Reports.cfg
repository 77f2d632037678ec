CONSTANTS
  None = None
  Absent = Absent
  Cases <- MCCases
  Arrivals <- MCArrivals
  MaxIngests = 1
  DayLength = 12
  DayBoundary = 2
  WorkdaysPerWeek = 5
  DailyMinimum = 4
  DailyTarget = 6
  Freshness = 2
  AFKGrace = 2
  AutoEnd = 4
  LockApps <- MCLockApps
  Statuses <- MCStatuses
  WorkApp = "Code.exe"
  Second = 2
SPECIFICATION Spec
CHECK_DEADLOCK FALSE
INVARIANTS TimelineIsExact PastIsSettled WorkHasFreshEvidence TotalsAddUp EstimateIsReached WeekIsOneTimeline
