SPECIFICATION Spec
CONSTANTS
  sa = sa
  sb = sb
  sc = sc
  p1 = p1
  p2 = p2
  p3 = p3
  Source <- TwoSources
  Post <- ThreePosts
  Media <- MediaOfTwo
  Answers <- GoodAnswers
  WorkerConcurrency = 1
  MaxRetries = 1
  AutoDeactivateThreshold = 2
  MaxFaults = 1
INVARIANT SuccessMeansComplete
