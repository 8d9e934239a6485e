SPECIFICATION Spec
CONSTANTS
  here = here
  there = there
  talk = talk
  v1 = v1
  v2 = v2
  NoRow = NoRow
  NoCaption = NoCaption
  NoEvent = NoEvent
  NoVenue = NoVenue
  NoPost = NoPost
  Garbage = Garbage
  Post <- TwoPosts
  Caption <- CancelledCaptions
  Yields <- CancelledYields
  VenueName <- Venues
  Limits = {2}
  MaxEdits = 2
  MaxFaults = 0
INVARIANT NonEventHasNoRow
