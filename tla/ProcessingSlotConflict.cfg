SPECIFICATION Spec
CONSTANTS
  tick = tick
  one = one
  two = two
  NoOne = NoOne
  NaN = NaN
  Job <- MCJob
  Web <- MCWeb
  Limits <- FewLimits
  PostLimit = 2
  MaxBatch = 2
  MaxRuns = 2
  MaxFaults = 0
INVARIANT ConflictNamesTheRun
