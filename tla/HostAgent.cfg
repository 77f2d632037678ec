CONSTANTS
  MaxChanges = 5
  None = None
  Lookback = 2
  MaxDelay = 1
  WeekStarts = {0, 3}
  MaxNow = 6
SPECIFICATION AgentSpec
INVARIANTS MonitorTypeOK SettledStateIsTrue TypeOK NoHole
PROPERTIES NotificationsPrevail LockIsLifted CatchesUp
