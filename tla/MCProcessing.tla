---------------------------- MODULE MCProcessing ----------------------------
(***************************************************************************)
(* Small instances of Processing for TLC: captions announcing an event at  *)
(* one of two venues, and a caption that is no event.                      *)
(***************************************************************************)
EXTENDS Processing, TLC

CONSTANTS here, there, talk, v1, v2

At(v, sure) == [isEvent |-> TRUE, high |-> sure, venue |-> v]
NotAnEvent == [isEvent |-> FALSE, high |-> TRUE, venue |-> NoVenue]

TwoPosts == {1, 2}
Venues == {v1, v2}

(* The event moves from one venue to another, or its line cannot be read.  *)
MovingCaptions == {here, there}
MovingYields == (here :> {At(v1, TRUE), Garbage}) @@ (there :> {At(v2, FALSE)})

(* An event, a caption that announces nothing.                             *)
CancelledCaptions == {here, talk}
CancelledYields == (here :> {At(v1, TRUE)}) @@ (talk :> {NotAnEvent})
=============================================================================
