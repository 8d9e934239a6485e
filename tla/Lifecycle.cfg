SPECIFICATION FairSpec
CONSTANTS
  iTick = iTick
  wait = wait
  trigger = trigger
  pTick = pTick
  pStartup = pStartup
  client = client
  Drainer = Drainer
  NoOne = NoOne
  NaN = NaN
  IngestionTick <- Nobody
  IngestionStartup <- Nobody
  Waiting <- Nobody
  Async <- MCAsync
  ProcessingTick <- MCProcessingTick
  ProcessingStartup <- MCProcessingStartup
  Web <- MCWeb
  PostLimit = 1
  MaxBatch = 1
  MaxRuns = 3
  MaxFaults = 1
  BookTimeout = 2
  Budget = 6
INVARIANTS
  TypeOK
  ExitClosesRows
  DrainFitsBudget
PROPERTIES
  BothKeepTheirSlot
  SignalEndsProcess
CHECK_DEADLOCK FALSE
