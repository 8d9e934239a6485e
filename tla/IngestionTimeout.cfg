SPECIFICATION FairSpec
CONSTANTS
  sa = sa
  sb = sb
  sc = sc
  p1 = p1
  p2 = p2
  p3 = p3
  Source <- TwoSources
  Post <- ThreePosts
  Media <- MediaOfTwo
  Answers <- TimeoutAnswers
  WorkerConcurrency = 2
  MaxRetries = 1
  AutoDeactivateThreshold = 2
  MaxFaults = 0
PROPERTY TimedOutSourceRetired
