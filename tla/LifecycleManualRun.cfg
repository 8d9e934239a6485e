SPECIFICATION Spec
CONSTANTS
  iTick = iTick
  wait = wait
  trigger = trigger
  pTick = pTick
  pStartup = pStartup
  client = client
  Drainer = Drainer
  NoOne = NoOne
  NaN = NaN
  IngestionTick <- MCIngestionTick
  IngestionStartup <- Nobody
  Waiting <- Nobody
  Async <- MCAsync
  ProcessingTick <- MCProcessingTick
  ProcessingStartup <- Nobody
  Web <- MCWeb
  PostLimit = 1
  MaxBatch = 1
  MaxRuns = 3
  MaxFaults = 0
  BookTimeout = 2
  Budget = 6
INVARIANT ExitClosesManualRuns
CHECK_DEADLOCK FALSE
