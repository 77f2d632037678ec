CONSTANTS
  None = None
  Sessions <- MCSessions
  Foregrounds <- MCForegrounds
  IdleReadings <- MCIdleReadings
  MaxGap = 2
  MaxNow = 6
  MaxSamples = 3
SPECIFICATION Spec
CHECK_DEADLOCK FALSE
INVARIANTS StoredTimeWasObserved IntervalsAreSound
