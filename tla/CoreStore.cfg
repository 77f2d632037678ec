CONSTANTS
  h1 = h1
  h2 = h2
  NoAcquisition = NoAcquisition
  Nobody = Nobody
  NoFile = NoFile
  Torn = Torn
  ExtendStreams <- MCExtendStreams
  ReplaceStreams <- MCReplaceStreams
  Keys <- MCKeys
  Data <- MCData
  Sources <- MCSources
  Batches <- MCBatches
  Retention <- MCRetention
  Handlers <- MCHandlers
SPECIFICATION FairSpec
INVARIANTS TypeOK Converges AckedIsDurable
PROPERTIES DurableFactsSurvive LastObservationKept ImplementsLog RequestsAnswered
