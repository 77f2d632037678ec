CONSTANTS
  Mode = "shadow"
  NativeSources = {"native_session"}
  Freshness = 0
  Tolerance = 0
  NoDiagnostics = NoDiagnostics
  MaxNow = 2
SPECIFICATION FairSpec
INVARIANTS HealthyMeansObserved
PROPERTIES ComparedEventsAreRecent SourcesRecover
