CONSTANTS
  MaxNow = 3
  QueueSize = 2
  Retries = 1
  StaleFor = 1
  Absent = Absent
SPECIFICATION FairSpec
INVARIANTS QueueIsFaithful EvidenceIsHonest
PROPERTIES QueueDrains ImplementsRun
