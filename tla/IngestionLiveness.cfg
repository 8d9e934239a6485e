SPECIFICATION FairSpec
CONSTANTS
  sa = sa
  sb = sb
  sc = sc
  p1 = p1
  p2 = p2
  p3 = p3
  Source <- ThreeSources
  Post <- ThreePosts
  Media <- MediaOfThree
  Answers <- LimitedAnswers
  WorkerConcurrency = 1
  MaxRetries = 1
  AutoDeactivateThreshold = 2
  MaxFaults = 1
PROPERTIES
  RotationUnderAborts
  DeadSourceRetired
  HealthyLands
