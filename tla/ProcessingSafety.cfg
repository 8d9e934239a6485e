SPECIFICATION FairSpec
CONSTANTS
  here = here
  there = there
  talk = talk
  v1 = v1
  v2 = v2
  NoRow = NoRow
  NoCaption = NoCaption
  NoEvent = NoEvent
  NoVenue = NoVenue
  NoPost = NoPost
  Garbage = Garbage
  Post <- TwoPosts
  Caption <- MovingCaptions
  Yields <- MovingYields
  VenueName <- Venues
  Limits = {2}
  MaxEdits = 3
  MaxFaults = 1
INVARIANTS
  TypeOK
  OnlyRacesGoStale
  VenueFollowsCaption
  PaidAgainOnlyForFaults
  PolledBatchIsRecorded
  CompletedRunAddsUp
PROPERTIES
  StampFollowsEvent
  ReviewKept
  RunEnds
  ReadablePostsDrain
