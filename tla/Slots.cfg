SPECIFICATION SlotsSpec
CONSTANTS
  tick = tick
  startup = startup
  wait = wait
  trigger = trigger
  one = one
  two = two
  Drainer = Drainer
  NoOne = NoOne
  NaN = NaN
  Job <- MCJob
  Web <- MCWeb
  Limits <- MCLimits
  PostLimit = 2
  MaxBatch = 2
  MaxRuns = 2
  MaxFaults = 1
INVARIANTS
  OnlyFaultsLeaveRows
  AcceptedRunIsSound
PROPERTIES
  BothImplementRunSlot
  SlotsComeFree
