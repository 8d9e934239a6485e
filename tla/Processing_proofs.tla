-------------------------- MODULE Processing_proofs --------------------------
(***************************************************************************)
(* Proofs about Processing, for every set of posts and captions, every     *)
(* answer the model may give for them, and every number of edits, crashes, *)
(* cancellations and failed calls.                                         *)
(***************************************************************************)
EXTENDS Processing, FiniteSetTheorems, TLAPS

USE PostAssumption, YieldsAssumption, BoundsAssumption, NullAssumption

-----------------------------------------------------------------------------
(* The inductive invariant.                                                *)

Resolving == {"venue", "geocode", "createvenue", "setvenue"}

(* The posts a run holds are those whose result is not applied yet.        *)
HeldIsLeft == \A p \in Post : p \in left <=> snap[p] # NoCaption

(* The result being applied belongs to a post of the batch, and is what    *)
(* the model made of the caption that was submitted.                       *)
InHand ==
  pc \in Resolving \cup {"upsert", "stamp"} =>
    /\ cur \in left
    /\ x \in Readable(snap[cur])
    /\ pc # "stamp" => x.isEvent
    /\ pc \in Resolving => x.venue \in VenueName

(* Past the upsert, the event read from the submitted caption is stored.   *)
EventStored ==
  pc \in Resolving \/ (pc = "stamp" /\ x.isEvent) =>
    event[cur] # NoEvent /\ event[cur].from = snap[cur]

TypeInv == TypeOK /\ HeldIsLeft /\ InHand /\ EventStored

(* A held post is pending, and raced once its caption is not the one read. *)
HeldIsPending ==
  \A p \in left : ~processed[p] /\ (caption[p] # snap[p] => p \in raced)

FreshInv == OnlyRacesGoStale /\ HeldIsPending

(* Until the batch is submitted nothing is counted; from there on, every   *)
(* submitted post has succeeded, has failed, or waits for its result.      *)
Tally ==
  /\ pc \in {"idle", "create", "list", "submit"} => counters = NoCounters
  /\ pc \notin {"idle", "create", "list", "submit", "fail"} =>
       counters.submitted = counters.succeeded + counters.failed + Cardinality(left)
  /\ pc = "complete" => left = {}

(* A name that was paid for once more than there were faults has its row,  *)
(* or is about to get it.                                                  *)
Owed(v) == venues[v] # "absent" \/ (pc = "createvenue" /\ x.venue = v /\ ~ctxDone)
Paid(v) == spent[v] <= 1 + faults /\ (~Owed(v) => spent[v] <= faults)
PaidInv ==
  /\ pc = "geocode" => venues[x.venue] = "absent"
  /\ \A v \in VenueName : Paid(v)

(* Without faults, only the event being resolved may lack its venue.       *)
Settled(p) ==
  \A v \in VenueName : (\A r \in Readable(event[p].from) : r.venue = v) => event[p].venue = v
OnlyCurrentUnsettled ==
  faults = 0 =>
    /\ ~ctxDone
    /\ \A p \in Post : event[p] # NoEvent => Settled(p) \/ (pc \in Resolving /\ p = cur)

-----------------------------------------------------------------------------
(* What the helpers of the actions do.                                     *)

(* A batch holds pending posts that have a caption.                        *)
LEMMA OldestArePending ==
  ASSUME NEW n \in Nat, NEW p \in OldestFirst(n)
  PROVE  p \in Post /\ ~processed[p] /\ caption[p] \in Caption
  BY DEF OldestFirst, Unprocessed

(* What a run's return leaves behind.                                      *)
LEMMA RunReturnsType ==
  ASSUME RunReturns
  PROVE  /\ pc' = "idle" /\ ctxDone' \in BOOLEAN /\ limit' \in Nat
         /\ snap' \in [Post -> Caption \cup {NoCaption}]
         /\ left' \in SUBSET Post
         /\ cur' \in Post \cup {NoPost}
         /\ x' \in Extraction /\ pin' \in BOOLEAN
         /\ counters' \in Counter
         /\ HeldIsLeft' /\ InHand' /\ EventStored'
<1>1. NothingExtracted \in Extraction
  BY DEF NothingExtracted, Extraction
<1>2. NoCounters \in Counter
  BY DEF NoCounters, Counter
<1>3. HeldIsLeft' /\ InHand' /\ EventStored'
  BY DEF RunReturns, HeldIsLeft, InHand, EventStored, Resolving
<1> QED
  BY <1>1, <1>2, <1>3 DEF RunReturns

(* Applying a result takes its post out of the run.                        *)
LEMMA AppliedType ==
  ASSUME TypeOK, HeldIsLeft, NEW p \in Post, Applied(p)
  PROVE  /\ pc' = "apply" /\ ctxDone' \in BOOLEAN /\ limit' \in Nat
         /\ snap' \in [Post -> Caption \cup {NoCaption}]
         /\ left' \in SUBSET Post
         /\ cur' \in Post \cup {NoPost}
         /\ x' \in Extraction /\ pin' \in BOOLEAN
         /\ HeldIsLeft' /\ InHand' /\ EventStored'
<1>1. NothingExtracted \in Extraction
  BY DEF NothingExtracted, Extraction
<1>2. HeldIsLeft'
  BY DEF Applied, HeldIsLeft, TypeOK
<1>3. InHand' /\ EventStored'
  BY DEF Applied, InHand, EventStored, Resolving
<1> QED
  BY <1>1, <1>2, <1>3 DEF Applied, TypeOK

(* A counted result leaves well typed counters.                            *)
LEMMA CountType ==
  ASSUME TypeOK, NEW p
  PROVE  /\ Succeeds(p) => counters' \in Counter
         /\ Fails(p) => counters' \in Counter
         /\ CountGeocoded => counters' \in Counter
<1>1. counters \in Counter
  BY DEF TypeOK
<1>2. Succeeds(p) => counters' \in Counter
  BY <1>1 DEF Succeeds, Counter
<1>3. Fails(p) => counters' \in Counter
  BY <1>1 DEF Fails, Counter
<1>4. CountGeocoded => counters' \in Counter
  BY <1>1 DEF CountGeocoded, Counter
<1> QED
  BY <1>2, <1>3, <1>4

(* The rows a run writes are well typed.                                   *)
LEMMA RowType ==
  ASSUME TypeOK
  PROVE  SubmittedRow \in Row /\ BatchRow \in Row /\ Closed \in Row
<1>1. SubmittedRow \in Row
  BY DEF SubmittedRow, Row, NoCounters, Counter
<1>2. BatchRow \in Row
  <2>1. row \in Row /\ counters.submitted \in Nat
    BY DEF TypeOK, Counter
  <2> QED
    BY <2>1 DEF BatchRow, Row, Counter
<1>3. Closed \in Row
  BY DEF TypeOK, Closed, Row
<1> QED
  BY <1>1, <1>2, <1>3

(* What event.Upsert stores: the submitted caption's event, with the       *)
(* review status the row had.                                              *)
LEMMA UpsertedType ==
  ASSUME TypeOK, cur \in Post, snap[cur] \in Caption
  PROVE  /\ Upserted \in Event /\ Upserted # NoEvent
         /\ Upserted.from = snap[cur]
         /\ event[cur] # NoEvent => Upserted.review = event[cur].review
<1>1. x \in Extraction /\ event[cur] \in Event \cup {NoEvent}
  BY DEF TypeOK
<1>2. FreshEvent \in Event /\ FreshEvent.from = snap[cur]
  BY <1>1 DEF FreshEvent, Event, Extraction, InitialReview
<1>3. CASE event[cur] = NoEvent
  BY <1>2, <1>3 DEF Upserted
<1>4. CASE event[cur] # NoEvent
  <2>1. Upserted = [event[cur] EXCEPT !.from = snap[cur], !.high = x.high]
    BY <1>4 DEF Upserted
  <2>2. Upserted \in Event /\ Upserted.from = snap[cur]
        /\ Upserted.review = event[cur].review
    BY <1>1, <1>4, <2>1 DEF Event, Extraction
  <2> QED
    BY <2>2
<1> QED
  BY <1>3, <1>4

(* Naming a venue in an event changes nothing else of it.                  *)
LEMMA VenueSetType ==
  ASSUME TypeOK, cur \in Post, event[cur] # NoEvent
  PROVE  LET e == [event[cur] EXCEPT !.venue = x.venue]
         IN  /\ e \in Event /\ e # NoEvent
             /\ e.from = event[cur].from /\ e.review = event[cur].review
             /\ e.venue = x.venue
<1>1. x.venue \in VenueName \cup {NoVenue} /\ event[cur] \in Event
  BY DEF TypeOK, Extraction
<1> QED
  BY <1>1 DEF Event

(* The result in hand is one the model gives for the submitted caption.    *)
LEMMA CurrentResult ==
  ASSUME TypeOK, HeldIsLeft, InHand, pc \in Resolving \cup {"upsert", "stamp"}
  PROVE  /\ cur \in Post /\ cur \in left /\ snap[cur] \in Caption
         /\ x \in Extraction /\ x \in Readable(snap[cur])
<1>1. cur \in left /\ x \in Readable(snap[cur])
  BY DEF InHand
<1> QED
  BY <1>1 DEF HeldIsLeft, TypeOK

-----------------------------------------------------------------------------
(* Type correctness, and what the run holds at each stage.                 *)
LEMMA TypeInit == Init => TypeInv
<1> SUFFICES ASSUME Init PROVE TypeInv
  OBVIOUS
<1>1. NoCounters \in Counter /\ NothingExtracted \in Extraction
  BY DEF NoCounters, Counter, NothingExtracted, Extraction
<1>2. row \in Row
  BY <1>1 DEF Init, Row
<1>3. HeldIsLeft /\ InHand /\ EventStored
  BY DEF Init, HeldIsLeft, InHand, EventStored, Resolving
<1>4. /\ caption \in [Post -> Caption \cup {NoRow, NoCaption}]
      /\ processed \in [Post -> BOOLEAN] /\ event \in [Post -> Event \cup {NoEvent}]
      /\ venues \in [VenueName -> {"absent", "nopin", "pinned"}]
      /\ snap \in [Post -> Caption \cup {NoCaption}] /\ spent \in [VenueName -> Nat]
  BY DEF Init
<1>5. /\ pc \in {"idle", "create", "list", "submit", "setbatch", "poll", "fetch", "apply",
                "upsert", "venue", "geocode", "createvenue", "setvenue", "stamp",
                "complete", "fail"}
      /\ limit \in Nat /\ left \in SUBSET Post
      /\ cur \in Post \cup {NoPost} /\ x \in Extraction
      /\ counters \in Counter /\ raced \in SUBSET Post
      /\ edits \in 0..MaxEdits /\ faults \in 0..MaxFaults
  BY <1>1 DEF Init
<1>6. ctxDone \in BOOLEAN /\ pin \in BOOLEAN
  BY DEF Init
<1> QED
  BY <1>2, <1>3, <1>4, <1>5, <1>6 DEF TypeInv, TypeOK

(* Only the upsert and the end of a result touch the result in hand; a     *)
(* step that stays away from the stages of a result cannot break it.       *)
LEMMA NothingInHand ==
  ASSUME pc' \notin Resolving \cup {"upsert", "stamp"}
  PROVE  InHand' /\ EventStored'
  BY DEF InHand, EventStored, Resolving

LEMMA TypeOutside ==
  TypeInv /\ (Start \/ Outside \/ Cancel \/ Crash) => TypeInv'
<1> SUFFICES ASSUME TypeInv, Start \/ Outside \/ Cancel \/ Crash PROVE TypeInv'
  OBVIOUS
<1> USE DEF TypeInv
<1>1. CASE Start
  <2>1. HeldIsLeft'
    BY <1>1 DEF Start, HeldIsLeft
  <2>2. InHand' /\ EventStored'
    BY <1>1, NothingInHand DEF Start, Resolving
  <2> QED
    BY <1>1, <2>1, <2>2 DEF Start, TypeOK, db, item, history
<1>2. CASE \E p \in Post, c \in Caption \cup {NoCaption} : UpsertPost(p, c)
  <2>1. PICK p \in Post, c \in Caption \cup {NoCaption} : UpsertPost(p, c)
    BY <1>2
  <2>2. HeldIsLeft' /\ InHand' /\ EventStored'
    BY <2>1 DEF UpsertPost, run, item, HeldIsLeft, InHand, EventStored, Readable
  <2> QED
    BY <2>1, <2>2 DEF UpsertPost, ClearsStamp, TypeOK, run, item
<1>3. CASE \E p \in Post : Review(p)
  <2>1. PICK p \in Post : Review(p)
    BY <1>3
  <2>2. PICK verdict \in {"approved", "rejected"} :
          event' = [event EXCEPT ![p].review = verdict]
    BY <2>1 DEF Review
  <2>3. event[p] \in Event
    BY <2>1 DEF Review, TypeOK
  <2>4. [event[p] EXCEPT !.review = verdict] \in Event
    BY <2>3 DEF Event
  <2>5. event' \in [Post -> Event \cup {NoEvent}]
    BY <2>2, <2>4 DEF TypeOK
  <2>6. \A q \in Post : event[q] # NoEvent =>
          event'[q] # NoEvent /\ event'[q].from = event[q].from
    BY <2>2, <2>3, <2>4 DEF TypeOK, Event
  <2>7. HeldIsLeft' /\ InHand'
    BY <2>1 DEF Review, run, item, HeldIsLeft, InHand, Readable
  <2>8. EventStored'
    <3> SUFFICES ASSUME pc \in Resolving \/ (pc = "stamp" /\ x.isEvent)
                 PROVE  event'[cur] # NoEvent /\ event'[cur].from = snap[cur]
      BY <2>1 DEF EventStored, Review, run, item
    <3> QED
      BY <2>6, CurrentResult DEF EventStored
  <2> QED
    BY <2>1, <2>5, <2>7, <2>8 DEF Review, TypeOK, run, item, history
<1>4. CASE Cancel
  BY <1>4 DEF Cancel, Fault, TypeOK, db, item, history, HeldIsLeft, InHand, EventStored,
              Readable
<1>5. CASE Crash
  BY <1>5, RunReturnsType DEF Crash, Fault, TypeOK, db, history
<1> QED
  BY <1>1, <1>2, <1>3, <1>4, <1>5 DEF Outside

(* Every step of a run but those of applyResults.                          *)
LEMMA TypeRun == TypeInv /\ RunStep => TypeInv'
<1> SUFFICES ASSUME TypeInv, RunStep PROVE TypeInv'
  OBVIOUS
<1> USE DEF TypeInv
<1>0. Fault \/ CallFails => faults' \in 0..MaxFaults
  BY DEF TypeOK, Fault, CallFails
<1>1. CASE CreateRun
  BY <1>1, RowType, NothingInHand
  DEF CreateRun, Continue, TypeOK, db, run, item, history, HeldIsLeft, Resolving
<1>2. CASE CreateRunFails
  BY <1>0, <1>2, RowType, RunReturnsType DEF CreateRunFails, TypeOK, db, history
<1>3. CASE ListUnprocessed
  <2>1. \A p \in OldestFirst(limit) : p \in Post /\ caption[p] \in Caption
    BY OldestArePending DEF TypeOK
  <2>2. snap' \in [Post -> Caption \cup {NoCaption}] /\ left' \in SUBSET Post
        /\ raced' \in SUBSET Post
    BY <1>3, <2>1 DEF ListUnprocessed, TypeOK
  <2>3. HeldIsLeft'
    BY <1>3, <2>1 DEF ListUnprocessed, HeldIsLeft
  <2> QED
    BY <1>3, <2>2, <2>3, NothingInHand
    DEF ListUnprocessed, TypeOK, db, item, Resolving
<1>4. CASE Submit
  <2>1. Cardinality(left) \in Nat
    BY FS_Subset, FS_CardinalityType DEF TypeOK
  <2>2. counters' \in Counter
    BY <1>4, <2>1 DEF Submit, TypeOK, Counter
  <2> QED
    BY <1>4, <2>2, NothingInHand
    DEF Submit, Continue, TypeOK, db, run, item, history, HeldIsLeft, Resolving
<1>5. CASE SetBatch
  BY <1>5, RowType, NothingInHand
  DEF SetBatch, Continue, TypeOK, db, run, item, history, HeldIsLeft, Resolving
<1>6. CASE SetBatchFails
  BY <1>0, <1>6, RowType, NothingInHand
  DEF SetBatchFails, Continue, TypeOK, db, run, item, history, HeldIsLeft, Resolving
<1>7. CASE PollEnded
  BY <1>7, NothingInHand
  DEF PollEnded, Continue, TypeOK, db, run, item, history, HeldIsLeft, Resolving
<1>8. CASE FetchResults
  BY <1>8, NothingInHand
  DEF FetchResults, Continue, TypeOK, db, run, item, history, HeldIsLeft, Resolving
<1>9. CASE GiveUp
  BY <1>0, <1>9, NothingInHand
  DEF GiveUp, Continue, TypeOK, db, run, item, history, HeldIsLeft, Resolving
<1>10. CASE FinishRun
  BY <1>10, RowType, RunReturnsType DEF FinishRun, TypeOK, db, history
<1>11. CASE FinishFails
  BY <1>0, <1>11, RowType, RunReturnsType DEF FinishFails, TypeOK, db, history
<1> QED
  BY <1>1, <1>2, <1>3, <1>4, <1>5, <1>6, <1>7, <1>8, <1>9, <1>10, <1>11 DEF RunStep, RunCall

(* Every step of applyResults.                                             *)
LEMMA TypeApply == TypeInv /\ ApplyStep => TypeInv'
<1> SUFFICES ASSUME TypeInv, ApplyStep PROVE TypeInv'
  OBVIOUS
<1> USE DEF TypeInv
<1>0. Fault \/ CallFails => faults' \in 0..MaxFaults
  BY DEF TypeOK, Fault, CallFails
<1>1. CASE \E p \in Post : NextResult(p)
  <2>1. PICK p \in Post : NextResult(p)
    BY <1>1
  <2>2. PICK r \in Yields[snap[p]] \ {Garbage} :
          x' = r /\ pc' = IF r.isEvent THEN "upsert" ELSE "stamp"
    BY <2>1 DEF NextResult
  <2>3. p \in left /\ snap[p] \in Caption /\ cur' = p /\ snap' = snap /\ left' = left
    BY <2>1 DEF NextResult, HeldIsLeft, TypeOK, run
  <2>4. r \in Extraction
    BY <2>2, <2>3
  <2>5. HeldIsLeft' /\ InHand'
    BY <2>2, <2>3 DEF HeldIsLeft, InHand, Readable, Resolving
  <2>6. EventStored'
    BY <2>2, <2>4 DEF EventStored, Resolving, Extraction
  <2> QED
    BY <2>1, <2>2, <2>3, <2>4, <2>5, <2>6 DEF NextResult, TypeOK, db, run, history
<1>2. CASE \E p \in Post : BadResult(p)
  <2>1. PICK p \in Post : BadResult(p)
    BY <1>2
  <2>2. Applied(p) /\ counters' \in Counter
    BY <2>1, CountType DEF BadResult, Fails
  <2> QED
    BY <2>1, <2>2, AppliedType DEF BadResult, TypeOK, db, history
<1>3. CASE AllApplied
  BY <1>3, NothingInHand
  DEF AllApplied, Continue, TypeOK, db, run, item, history, HeldIsLeft, Resolving
<1>4. CASE UpsertEvent
  <2>1. /\ cur \in Post /\ cur \in left /\ snap[cur] \in Caption
        /\ x \in Extraction /\ x \in Readable(snap[cur]) /\ x.isEvent
    BY <1>4, CurrentResult DEF UpsertEvent, InHand
  <2>2. event' \in [Post -> Event \cup {NoEvent}]
        /\ event'[cur] # NoEvent /\ event'[cur].from = snap[cur]
    BY <1>4, <2>1, UpsertedType DEF UpsertEvent, TypeOK
  <2>3. pc' \in {"stamp", "venue"} /\ (pc' = "venue" => x.venue \in VenueName)
    BY <1>4, <2>1 DEF UpsertEvent, Continue, Extraction
  <2>4. HeldIsLeft' /\ InHand' /\ EventStored'
    BY <1>4, <2>1, <2>2, <2>3
    DEF UpsertEvent, Continue, run, item, HeldIsLeft, InHand, EventStored, Readable, Resolving
  <2> QED
    BY <1>4, <2>2, <2>3, <2>4 DEF UpsertEvent, Continue, TypeOK, run, item, history
<1>5. CASE UpsertEventFails
  <2>1. cur \in Post /\ snap[cur] \in Caption
    BY <1>5, CurrentResult DEF UpsertEventFails
  <2>2. event' \in [Post -> Event \cup {NoEvent}]
    BY <1>5, <2>1, UpsertedType DEF UpsertEventFails, TypeOK
  <2>3. Applied(cur) /\ counters' \in Counter
    BY <1>5, CountType DEF UpsertEventFails, Fails
  <2> QED
    BY <1>0, <1>5, <2>1, <2>2, <2>3, AppliedType DEF UpsertEventFails, TypeOK, history
<1>6. ASSUME pc \in Resolving, pc' \in Resolving \cup {"stamp"}, UNCHANGED <<run, cur, x>>,
             event'[cur] # NoEvent, event'[cur].from = event[cur].from
      PROVE  HeldIsLeft' /\ InHand' /\ EventStored'
  BY <1>6 DEF run, HeldIsLeft, InHand, EventStored, Readable, Resolving
<1>7. CASE FindVenue
  <2>1. HeldIsLeft' /\ InHand' /\ EventStored'
    BY <1>6, <1>7 DEF FindVenue, Continue, EventStored, Resolving, db, item
  <2> QED
    BY <1>7, <2>1 DEF FindVenue, Continue, TypeOK, db, run, item, history
<1>8. CASE Geocode
  <2>1. HeldIsLeft' /\ InHand' /\ EventStored'
    BY <1>6, <1>8 DEF Geocode, Continue, EventStored, Resolving, db
  <2>2. pin' \in BOOLEAN /\ spent' \in [VenueName -> Nat]
    BY <1>8 DEF Geocode, TypeOK
  <2> QED
    BY <1>8, <2>1, <2>2 DEF Geocode, Continue, TypeOK, db, run
<1>9. Created(x.venue) \in [VenueName -> {"absent", "nopin", "pinned"}]
  BY DEF Created, TypeOK
<1>10. CASE CreateVenue
  <2>1. HeldIsLeft' /\ InHand' /\ EventStored'
    BY <1>6, <1>10 DEF CreateVenue, Continue, EventStored, Resolving, item
  <2> QED
    BY <1>9, <1>10, <2>1 DEF CreateVenue, Continue, TypeOK, run, item, history
<1>11. CASE VenueFails
  <2>1. HeldIsLeft' /\ InHand' /\ EventStored'
    BY <1>6, <1>11 DEF VenueFails, Continue, EventStored, Resolving, item
  <2>2. venues' \in [VenueName -> {"absent", "nopin", "pinned"}]
    BY <1>9, <1>11 DEF VenueFails, TypeOK
  <2> QED
    BY <1>0, <1>11, <2>1, <2>2 DEF VenueFails, Continue, TypeOK, run, item, history
<1>12. ASSUME pc = "setvenue", event' \in {event, [event EXCEPT ![cur].venue = x.venue]}
       PROVE  /\ event' \in [Post -> Event \cup {NoEvent}]
              /\ event'[cur] # NoEvent /\ event'[cur].from = event[cur].from
  <2>1. cur \in Post /\ event[cur] # NoEvent
    BY <1>12, CurrentResult DEF EventStored, Resolving
  <2> DEFINE e == [event[cur] EXCEPT !.venue = x.venue]
  <2>2. e \in Event /\ e # NoEvent /\ e.from = event[cur].from
    BY <2>1, VenueSetType
  <2>3. event' = event \/ event' = [event EXCEPT ![cur] = e]
    BY <1>12, <2>1 DEF TypeOK
  <2> HIDE DEF e
  <2>4. event' \in [Post -> Event \cup {NoEvent}]
    BY <2>2, <2>3 DEF TypeOK
  <2>5. event'[cur] = event[cur] \/ event'[cur] = e
    BY <2>1, <2>3 DEF TypeOK
  <2> QED
    BY <2>1, <2>2, <2>4, <2>5
<1>13. CASE SetVenue
  <2>1. event' \in {event, [event EXCEPT ![cur].venue = x.venue]} /\ pc = "setvenue"
    BY <1>13 DEF SetVenue
  <2>2. HeldIsLeft' /\ InHand' /\ EventStored'
    BY <1>6, <1>12, <1>13, <2>1 DEF SetVenue, Continue, Resolving, item
  <2> QED
    BY <1>12, <1>13, <2>1, <2>2, CountType
    DEF SetVenue, Continue, TypeOK, run, item, history
<1>14. CASE SetVenueFails
  <2>1. event' \in {event, [event EXCEPT ![cur].venue = x.venue]} /\ pc = "setvenue"
    BY <1>14 DEF SetVenueFails
  <2>2. HeldIsLeft' /\ InHand' /\ EventStored'
    BY <1>6, <1>12, <1>14, <2>1 DEF SetVenueFails, Continue, Resolving, item
  <2> QED
    BY <1>0, <1>12, <1>14, <2>1, <2>2, CountType
    DEF SetVenueFails, Continue, TypeOK, run, item, history
<1>15. CASE MarkProcessed
  <2>1. cur \in Post /\ Applied(cur) /\ counters' \in Counter
    BY <1>15, CurrentResult, CountType DEF MarkProcessed, Succeeds
  <2> QED
    BY <1>15, <2>1, AppliedType DEF MarkProcessed, TypeOK, history
<1>16. CASE MarkProcessedFails
  <2>1. cur \in Post /\ Applied(cur) /\ counters' \in Counter
    BY <1>16, CurrentResult, CountType DEF MarkProcessedFails, Fails
  <2> QED
    BY <1>0, <1>16, <2>1, AppliedType DEF MarkProcessedFails, TypeOK, history
<1> QED
  BY <1>1, <1>2, <1>3, <1>4, <1>5, <1>7, <1>8, <1>10, <1>11, <1>13, <1>14, <1>15, <1>16
  DEF ApplyStep

LEMMA TypeStep == TypeInv /\ [Next]_vars => TypeInv'
<1>1. ASSUME TypeInv, UNCHANGED vars PROVE TypeInv'
  BY <1>1 DEF vars, db, run, item, history, TypeInv, TypeOK, HeldIsLeft, InHand,
              EventStored, Readable
<1> QED
  BY <1>1, TypeOutside, TypeRun, TypeApply DEF Next

LEMMA TypeInvariant == Spec => []TypeInv
  BY TypeInit, TypeStep, PTL DEF Spec

(* The tables, the run and its counters keep their types, whatever is      *)
(* edited, reviewed, cancelled or fails, and whatever the model answers:   *)
(* an event row is never half written, and a batch holds only captions.    *)
THEOREM TypeCorrect == Spec => []TypeOK
  BY TypeInvariant, PTL DEF TypeInv

-----------------------------------------------------------------------------
(* What a step does to a post.                                             *)

(* The steps that leave the columns of a post alone: the run only hands    *)
(* posts back.                                                             *)
HandsBack ==
  /\ UNCHANGED <<caption, processed, raced>>
  /\ left' \subseteq left
  /\ \A p \in left' : snap'[p] = snap[p]

LEMMA RunHandsBack ==
  ASSUME TypeOK, UNCHANGED <<caption, processed, raced>>
  PROVE  /\ UNCHANGED <<left, snap>> => HandsBack
         /\ RunReturns => HandsBack
         /\ \A p \in Post : Applied(p) => HandsBack
<1>1. UNCHANGED <<left, snap>> => HandsBack
  BY DEF HandsBack
<1>2. RunReturns => HandsBack
  BY DEF HandsBack, RunReturns
<1>3. ASSUME NEW p \in Post, Applied(p) PROVE HandsBack
  BY <1>3 DEF HandsBack, Applied, TypeOK
<1> QED
  BY <1>1, <1>2, <1>3

(* All steps but an upsert, the listing and the stamp are of that kind.    *)
LEMMA QuietStep ==
  ASSUME TypeInv, [Next]_vars,
         ~ListUnprocessed, ~MarkProcessed, ~MarkProcessedFails,
         ~\E p \in Post, c \in Caption \cup {NoCaption} : UpsertPost(p, c)
  PROVE  HandsBack
<1>0. TypeOK
  BY DEF TypeInv
<1>1. CASE UNCHANGED vars
  BY <1>0, <1>1, RunHandsBack DEF vars, db, run, history
<1>2. CASE Start \/ Cancel
  BY <1>0, <1>2, RunHandsBack DEF Start, Cancel, db, history
<1>3. CASE \E p \in Post : Review(p)
  BY <1>0, <1>3, RunHandsBack DEF Review, run, history
<1>4. CASE Crash \/ CreateRunFails \/ FinishRun \/ FinishFails
  BY <1>0, <1>4, RunHandsBack DEF Crash, CreateRunFails, FinishRun, FinishFails, db, history
<1>5. CASE CreateRun \/ Submit \/ SetBatch \/ SetBatchFails \/ PollEnded \/ FetchResults
           \/ GiveUp \/ AllApplied
  BY <1>0, <1>5, RunHandsBack
  DEF CreateRun, Submit, SetBatch, SetBatchFails, PollEnded, FetchResults, GiveUp,
      AllApplied, Continue, db, run, history
<1>6. CASE \E p \in Post : NextResult(p) \/ BadResult(p)
  BY <1>0, <1>6, RunHandsBack DEF NextResult, BadResult, Fails, db, run, history
<1>7. CASE UpsertEventFails
  <2>1. cur \in Post /\ Applied(cur)
    BY <1>7, CurrentResult DEF UpsertEventFails, Fails, TypeInv
  <2> QED
    BY <1>0, <1>7, <2>1, RunHandsBack DEF UpsertEventFails, history
<1>8. CASE UpsertEvent \/ FindVenue \/ Geocode \/ CreateVenue \/ VenueFails
           \/ SetVenue \/ SetVenueFails
  BY <1>0, <1>8, RunHandsBack
  DEF UpsertEvent, FindVenue, Geocode, CreateVenue, VenueFails, SetVenue, SetVenueFails,
      Continue, db, run, history
<1> QED
  BY <1>1, <1>2, <1>3, <1>4, <1>5, <1>6, <1>7, <1>8 DEF Next, RunStep, RunCall, ApplyStep, Outside

(* A post is stamped only as the result in hand, by the last step of that  *)
(* result.  A changed caption takes its stamp away, and marks the post as  *)
(* raced when a run holds it; only a run that reads it anew clears that.   *)
LEMMA PostStep ==
  ASSUME TypeInv, [Next]_vars, NEW p \in Post
  PROVE  /\ processed'[p] =>
              /\ processed[p] \/ (pc = "stamp" /\ p = cur)
              /\ caption'[p] = caption[p]
              /\ p \in raced => p \in raced'
         /\ p \in left' =>
              \/ /\ p \in left /\ snap'[p] = snap[p]
                 /\ processed'[p] => processed[p]
                 /\ caption'[p] = caption[p] \/ p \in raced'
                 /\ p \in raced => p \in raced'
              \/ ~processed'[p] /\ caption'[p] = snap'[p]
<1>0. TypeOK /\ HeldIsLeft
  BY DEF TypeInv
<1>1. CASE \E q \in Post, c \in Caption \cup {NoCaption} : UpsertPost(q, c)
  <2>1. PICK q \in Post, c \in Caption \cup {NoCaption} : UpsertPost(q, c)
    BY <1>1
  <2>2. left' = left /\ snap' = snap
    BY <2>1 DEF UpsertPost, run
  <2>3. CASE p = q
    <3>1. ~processed'[p]
      BY <1>0, <2>1, <2>3 DEF UpsertPost, ClearsStamp, TypeOK
    <3>2. p \in left => p \in raced'
      BY <1>0, <2>1, <2>3 DEF UpsertPost, HeldIsLeft, Held, TypeOK
    <3> QED
      BY <2>2, <3>1, <3>2
  <2>4. CASE p # q
    <3>1. processed'[p] = processed[p] /\ caption'[p] = caption[p]
          /\ (p \in raced => p \in raced')
      BY <1>0, <2>1, <2>4 DEF UpsertPost, ClearsStamp, TypeOK
    <3> QED
      BY <2>2, <3>1
  <2> QED
    BY <2>3, <2>4
<1>2. CASE ListUnprocessed
  <2>1. caption' = caption /\ processed' = processed /\ raced' = raced \ OldestFirst(limit)
        /\ left' = OldestFirst(limit)
        /\ snap' = [q \in Post |-> IF q \in OldestFirst(limit) THEN caption[q] ELSE NoCaption]
    BY <1>2 DEF ListUnprocessed, db
  <2>2. p \in OldestFirst(limit) => ~processed[p]
    BY <1>0, OldestArePending DEF TypeOK
  <2> QED
    BY <2>1, <2>2
<1>3. CASE MarkProcessed \/ MarkProcessedFails
  <2>1. cur \in Post /\ Applied(cur) /\ pc = "stamp"
    BY <1>3, CurrentResult DEF MarkProcessed, MarkProcessedFails, Succeeds, Fails, TypeInv
  <2>2. caption' = caption /\ raced' = raced
        /\ processed' \in {processed, [processed EXCEPT ![cur] = TRUE]}
    BY <1>3 DEF MarkProcessed, MarkProcessedFails, history
  <2>3. left' = left \ {cur} /\ (p # cur => snap'[p] = snap[p])
    BY <1>0, <2>1 DEF Applied, TypeOK
  <2>4. p # cur => processed'[p] = processed[p]
    BY <1>0, <2>1, <2>2 DEF TypeOK
  <2> QED
    BY <2>1, <2>2, <2>3, <2>4
<1>4. CASE HandsBack
  BY <1>4 DEF HandsBack
<1> QED
  BY <1>1, <1>2, <1>3, <1>4, QuietStep

(* What a step does to the event row of a post.                            *)
LEMMA EventStep ==
  ASSUME TypeInv, [Next]_vars, NEW p \in Post
  PROVE  \/ event'[p] = event[p]
         \/ pc = "upsert" /\ p = cur /\ event'[p] = Upserted
         \/ pc = "setvenue" /\ p = cur /\ event'[p] = [event[p] EXCEPT !.venue = x.venue]
         \/ /\ Review(p)
            /\ event[p] # NoEvent /\ event'[p] # NoEvent
            /\ event'[p].from = event[p].from /\ event'[p].venue = event[p].venue
<1>0. TypeOK
  BY DEF TypeInv
<1>1. CASE \E q \in Post : Review(q)
  <2>1. PICK q \in Post : Review(q)
    BY <1>1
  <2>2. PICK verdict \in {"approved", "rejected"} :
          event' = [event EXCEPT ![q].review = verdict]
    BY <2>1 DEF Review
  <2>3. CASE p # q
    BY <1>0, <2>2, <2>3 DEF TypeOK
  <2>4. CASE p = q
    <3>1. event[p] \in Event /\ event[p] # NoEvent
      BY <1>0, <2>1, <2>4 DEF Review, TypeOK
    <3>2. event'[p] = [event[p] EXCEPT !.review = verdict]
      BY <1>0, <2>2, <2>4 DEF TypeOK
    <3>3. event'[p] \in Event /\ event'[p].from = event[p].from
          /\ event'[p].venue = event[p].venue
      BY <3>1, <3>2 DEF Event
    <3> QED
      BY <2>1, <2>4, <3>1, <3>3
  <2> QED
    BY <2>3, <2>4
<1>2. CASE UpsertEvent \/ UpsertEventFails
  <2>1. pc = "upsert" /\ cur \in Post
        /\ event' \in {event, [event EXCEPT ![cur] = Upserted]}
    BY <1>2, CurrentResult DEF UpsertEvent, UpsertEventFails, TypeInv
  <2> QED
    BY <1>0, <2>1 DEF TypeOK
<1>3. CASE SetVenue \/ SetVenueFails
  <2>1. pc = "setvenue" /\ cur \in Post
        /\ event' \in {event, [event EXCEPT ![cur].venue = x.venue]}
    BY <1>3, CurrentResult DEF SetVenue, SetVenueFails, TypeInv, Resolving
  <2> QED
    BY <1>0, <2>1 DEF TypeOK
<1>4. ASSUME ~\E q \in Post : Review(q),
             ~UpsertEvent, ~UpsertEventFails, ~SetVenue, ~SetVenueFails
      PROVE  event' = event
  <2>1. CASE UNCHANGED vars \/ Start \/ Cancel \/ Crash \/ RunStep
    BY <2>1
    DEF vars, db, Start, Cancel, Crash, RunStep, RunCall, CreateRun, CreateRunFails,
        ListUnprocessed, Submit, SetBatch, SetBatchFails, PollEnded, FetchResults, GiveUp, FinishRun,
        FinishFails
  <2>2. CASE ApplyStep
    BY <1>4, <2>2
    DEF db, ApplyStep, NextResult, BadResult, AllApplied, FindVenue, Geocode, CreateVenue,
        VenueFails, MarkProcessed, MarkProcessedFails
  <2>3. CASE Outside
    BY <1>4, <2>3 DEF Outside, UpsertPost
  <2> QED
    BY <2>1, <2>2, <2>3 DEF Next
<1> QED
  BY <1>1, <1>2, <1>3, <1>4

(* What an event row says once it is past the upsert stays what the upsert *)
(* read, whoever writes to it next.                                        *)
LEMMA EventKept ==
  ASSUME TypeInv, [Next]_vars, NEW p \in Post, event[p] # NoEvent
  PROVE  /\ event'[p] # NoEvent
         /\ event'[p].review # event[p].review => Review(p)
         /\ event'[p].from = event[p].from \/ (pc = "upsert" /\ p = cur)
<1>1. CASE event'[p] = event[p]
  BY <1>1
<1>2. CASE pc = "upsert" /\ p = cur /\ event'[p] = Upserted
  BY <1>2, CurrentResult, UpsertedType DEF TypeInv
<1>3. CASE pc = "setvenue" /\ p = cur /\ event'[p] = [event[p] EXCEPT !.venue = x.venue]
  BY <1>3, VenueSetType DEF TypeInv
<1> QED
  BY <1>1, <1>2, <1>3, EventStep

-----------------------------------------------------------------------------
(* An admin's verdict survives every run.                                  *)

(* No step of a run changes the review status of an event that exists: not *)
(* the upsert of a reprocessed post, not the venue written afterwards, not *)
(* a failed call that was committed all the same.                          *)
THEOREM VerdictSurvives == Spec => ReviewKept
<1>1. ASSUME TypeInv, [Next]_vars
      PROVE  [\A p \in Post : event[p] # NoEvent /\ event'[p].review # event[p].review =>
                Review(p)]_vars
  BY <1>1, EventKept
<1> QED
  BY <1>1, TypeInvariant, PTL DEF Spec, ReviewKept

-----------------------------------------------------------------------------
(* The stamp comes last, and only a race makes it lie.                     *)

(* A post goes from pending to processed only when the event the model     *)
(* read from the submitted caption is in its row already.                  *)
THEOREM StampComesLast == Spec => StampFollowsEvent
<1>1. ASSUME TypeInv, [Next]_vars
      PROVE  [\A p \in Post : ~processed[p] /\ processed'[p] /\ x.isEvent =>
                event[p] # NoEvent /\ event[p].from = snap[p]]_vars
  <2> SUFFICES ASSUME NEW p \in Post, ~processed[p], processed'[p], x.isEvent
               PROVE  event[p] # NoEvent /\ event[p].from = snap[p]
    OBVIOUS
  <2>1. pc = "stamp" /\ p = cur
    BY <1>1, PostStep
  <2> QED
    BY <1>1, <2>1 DEF TypeInv, EventStored
<1> QED
  BY <1>1, TypeInvariant, PTL DEF Spec, StampFollowsEvent

LEMMA FreshInit == Init => FreshInv
  BY DEF Init, FreshInv, OnlyRacesGoStale, HeldIsPending

LEMMA FreshStep == TypeInv /\ FreshInv /\ [Next]_vars => FreshInv'
<1> SUFFICES ASSUME TypeInv, FreshInv, [Next]_vars PROVE FreshInv'
  OBVIOUS
<1>1. HeldIsPending'
  <2>1. left' \subseteq Post
    BY TypeStep DEF TypeInv, TypeOK
  <2> SUFFICES ASSUME NEW p \in left'
               PROVE  ~processed'[p] /\ (caption'[p] # snap'[p] => p \in raced')
    BY DEF HeldIsPending
  <2> QED
    BY <2>1, PostStep DEF FreshInv, HeldIsPending
<1>2. OnlyRacesGoStale'
  <2> SUFFICES ASSUME NEW p \in Post,
                      processed'[p], caption'[p] \in Caption, p \notin raced',
                      EventCaption(caption'[p])
               PROVE  event'[p] # NoEvent /\ event'[p].from = caption'[p]
    BY DEF OnlyRacesGoStale, EventCaption, Readable
  <2>1. /\ caption'[p] = caption[p] /\ p \notin raced
        /\ processed[p] \/ (pc = "stamp" /\ p = cur)
    BY PostStep
  <2>2. event[p] # NoEvent /\ event[p].from = caption[p]
    <3>1. CASE processed[p]
      BY <2>1, <3>1 DEF FreshInv, OnlyRacesGoStale
    <3>2. CASE pc = "stamp" /\ p = cur
      <4>1. cur \in left /\ x \in Readable(snap[cur])
        BY <3>2 DEF TypeInv, InHand
      <4>2. caption[p] = snap[p]
        BY <2>1, <3>2, <4>1 DEF FreshInv, HeldIsPending
      <4>3. x.isEvent
        BY <2>1, <3>2, <4>1, <4>2 DEF EventCaption
      <4> QED
        BY <3>2, <4>2, <4>3 DEF TypeInv, EventStored
    <3> QED
      BY <2>1, <3>1, <3>2
  <2>3. event'[p] # NoEvent
        /\ (event'[p].from = event[p].from \/ (pc = "upsert" /\ p = cur))
    BY <2>2, EventKept
  <2>4. ASSUME pc = "upsert", p = cur PROVE event'[p].from = event[p].from
    <3>1. cur \in left
      BY <2>4 DEF TypeInv, InHand
    <3>2. ~processed[p]
      BY <2>4, <3>1 DEF FreshInv, HeldIsPending
    <3> QED
      BY <2>1, <2>4, <3>2
  <2> QED
    BY <2>1, <2>2, <2>3, <2>4
<1> QED
  BY <1>1, <1>2 DEF FreshInv

(* A processed post whose caption announces an event shows that event,     *)
(* unless its caption changed under the run that stamped it: across        *)
(* crashes, repeated edits and calls that failed but were committed, the   *)
(* window between the listing and the stamp is the only one.               *)
THEOREM StaleOnlyByRace == Spec => []OnlyRacesGoStale
<1>1. Spec => []FreshInv
  BY FreshInit, FreshStep, TypeInvariant, PTL DEF Spec
<1> QED
  BY <1>1, PTL DEF FreshInv

-----------------------------------------------------------------------------
(* The run's row.                                                          *)

LEMMA RecordedInit == Init => PolledBatchIsRecorded
  BY DEF Init, PolledBatchIsRecorded

LEMMA RecordedStep ==
  TypeInv /\ PolledBatchIsRecorded /\ [Next]_vars => PolledBatchIsRecorded'
<1> SUFFICES ASSUME TypeInv, PolledBatchIsRecorded, [Next]_vars
             PROVE  PolledBatchIsRecorded'
  OBVIOUS
<1> USE DEF PolledBatchIsRecorded
<1>1. CASE UNCHANGED vars \/ Cancel \/ Outside
  BY <1>1 DEF vars, Cancel, Outside, UpsertPost, Review
<1>2. CASE Start \/ Crash
  BY <1>2 DEF Start, Crash, RunReturns
<1>3. CASE CreateRun \/ CreateRunFails \/ ListUnprocessed \/ Submit \/ SetBatchFails \/ GiveUp
           \/ FinishRun \/ FinishFails
  BY <1>3 DEF CreateRun, CreateRunFails, ListUnprocessed, Submit, SetBatchFails, GiveUp,
              FinishRun, FinishFails, RunReturns, Continue
<1>4. CASE SetBatch
  <2>1. row' = BatchRow /\ BatchRow.batch = TRUE
    BY <1>4 DEF SetBatch, BatchRow, TypeInv, TypeOK, Row
  <2> QED
    BY <2>1
<1>5. CASE PollEnded \/ FetchResults
  BY <1>5 DEF PollEnded, FetchResults, Continue
<1>6. CASE ApplyStep
  BY <1>6 DEF ApplyStep, NextResult, BadResult, AllApplied, UpsertEvent, UpsertEventFails,
              FindVenue, Geocode, CreateVenue, VenueFails, SetVenue, SetVenueFails,
              MarkProcessed, MarkProcessedFails, Continue, Applied, Succeeds, Fails
<1> QED
  BY <1>1, <1>2, <1>3, <1>4, <1>5, <1>6 DEF Next, RunStep, RunCall

(* No run polls a batch, or applies its results, whose id is not in the    *)
(* run's row.                                                              *)
THEOREM BatchIsRecorded == Spec => []PolledBatchIsRecorded
  BY RecordedInit, RecordedStep, TypeInvariant, PTL DEF Spec

-----------------------------------------------------------------------------
(* What a completed run adds up to.                                        *)
TallyInv == CompletedRunAddsUp /\ Tally

LEMMA TallyInit == Init => TallyInv
  BY DEF Init, TallyInv, CompletedRunAddsUp, Tally, NoCounters

(* A result that is counted leaves the batch it was counted for.           *)
LEMMA ResultCounted ==
  ASSUME TypeInv, Tally, NEW p \in left, Succeeds(p) \/ Fails(p),
         pc \in Resolving \cup {"upsert", "stamp", "apply"}
  PROVE  Tally'
<1>1. IsFiniteSet(left)
  BY FS_Subset DEF TypeInv, TypeOK
<1>2. Cardinality(left') = Cardinality(left) - 1 /\ Cardinality(left) \in Nat
  <2>1. left' = left \ {p}
    BY DEF Succeeds, Fails, Applied
  <2> QED
    BY <1>1, <2>1, FS_RemoveElement, FS_CardinalityType
<1>3. counters \in Counter
  BY DEF TypeInv, TypeOK
<1>4. counters.submitted = counters.succeeded + counters.failed + Cardinality(left)
  BY DEF Tally, Resolving
<1>5. counters'.submitted = counters'.succeeded + counters'.failed + Cardinality(left')
  BY <1>2, <1>3, <1>4 DEF Succeeds, Fails, Counter
<1>6. pc' = "apply"
  BY DEF Succeeds, Fails, Applied
<1> QED
  BY <1>5, <1>6 DEF Tally

LEMMA TallyStep == TypeInv /\ TallyInv /\ [Next]_vars => TallyInv'
<1> SUFFICES ASSUME TypeInv, TallyInv, [Next]_vars PROVE TallyInv'
  OBVIOUS
<1>0. TypeOK /\ Tally /\ CompletedRunAddsUp /\ counters \in Counter /\ row \in Row
  BY DEF TypeInv, TypeOK, TallyInv
<1>1. IsFiniteSet(left) /\ Cardinality(left) \in Nat
  BY <1>0, FS_Subset, FS_CardinalityType DEF TypeOK
(* The row is written by the run's own steps only.                         *)
<1>2. ASSUME row' = row PROVE CompletedRunAddsUp'
  BY <1>0, <1>2 DEF CompletedRunAddsUp
<1>3. ASSUME UNCHANGED <<pc, left, counters>> PROVE Tally'
  BY <1>0, <1>3 DEF Tally
<1>4. ASSUME RunReturns PROVE Tally'
  BY <1>4 DEF RunReturns, Tally
<1>5. ASSUME row' \in {row, SubmittedRow, BatchRow} PROVE CompletedRunAddsUp'
  <2>1. SubmittedRow.status # "completed" /\ BatchRow.status # "completed"
    BY <1>0 DEF SubmittedRow, BatchRow, Row
  <2> QED
    BY <1>2, <1>5, <2>1 DEF CompletedRunAddsUp
<1>6. ASSUME pc \in {"complete", "fail"}, row' = Closed PROVE CompletedRunAddsUp'
  <2>1. Closed.status = (IF pc = "complete" THEN "completed" ELSE "failed")
        /\ Closed.count = counters
    BY <1>0 DEF Closed, Row
  <2>2. CASE pc = "fail"
    BY <1>6, <2>1, <2>2 DEF CompletedRunAddsUp
  <2>3. CASE pc = "complete"
    <3>1. Cardinality(left) = 0
      BY <1>0, <2>3, FS_EmptySet DEF Tally
    <3>2. counters.submitted = counters.succeeded + counters.failed
      BY <1>0, <2>3, <3>1 DEF Tally, Counter
    <3> QED
      BY <1>6, <2>1, <3>2 DEF CompletedRunAddsUp
  <2> QED
    BY <1>6, <2>2, <2>3
<1>7. CASE UNCHANGED vars \/ Outside \/ Cancel
  BY <1>2, <1>3, <1>7
  DEF vars, run, Outside, UpsertPost, Review, Cancel, TallyInv
<1>8. CASE Start
  <2>1. Tally'
    BY <1>0, <1>8 DEF Start, Tally
  <2> QED
    BY <1>2, <1>8, <2>1 DEF Start, TallyInv
<1>9. CASE Crash
  BY <1>2, <1>4, <1>9 DEF Crash, TallyInv
<1>10. CASE CreateRun
  <2>1. Tally'
    BY <1>0, <1>10 DEF CreateRun, Continue, Tally
  <2> QED
    BY <1>5, <1>10, <2>1 DEF CreateRun, TallyInv
<1>11. CASE CreateRunFails
  BY <1>4, <1>5, <1>11 DEF CreateRunFails, TallyInv
<1>12. CASE ListUnprocessed
  <2>1. counters' = counters /\ counters = NoCounters /\ row' = row
    BY <1>0, <1>12 DEF ListUnprocessed, Tally
  <2>2. CASE pc' = "submit"
    BY <1>2, <2>1, <2>2 DEF Tally, TallyInv
  <2>3. CASE pc' = "complete"
    <3>1. Unprocessed = {}
      BY <1>12, <2>3 DEF ListUnprocessed
    <3>2. left' = {}
      BY <1>12, <3>1 DEF ListUnprocessed, OldestFirst
    <3>3. Cardinality(left') = 0
      BY <3>2, FS_EmptySet
    <3>4. Tally'
      BY <2>1, <2>3, <3>2, <3>3 DEF Tally, NoCounters
    <3> QED
      BY <1>2, <2>1, <3>4 DEF TallyInv
  <2> QED
    BY <1>12, <2>2, <2>3 DEF ListUnprocessed
<1>13. CASE Submit
  <2>1. counters = NoCounters /\ left' = left /\ pc' = "setbatch" /\ row' = row
        /\ counters' = [counters EXCEPT !.submitted = Cardinality(left)]
    BY <1>0, <1>13 DEF Submit, Continue, run, Tally
  <2>2. Tally'
    BY <1>1, <2>1 DEF NoCounters, Tally
  <2> QED
    BY <1>2, <2>1, <2>2 DEF TallyInv
<1>14. CASE SetBatch \/ SetBatchFails
  <2>1. Tally'
    BY <1>0, <1>14 DEF SetBatch, SetBatchFails, Continue, run, Tally
  <2> QED
    BY <1>5, <1>14, <2>1 DEF SetBatch, SetBatchFails, TallyInv
<1>15. CASE PollEnded \/ FetchResults \/ GiveUp \/ AllApplied
  <2>1. Tally'
    BY <1>0, <1>15 DEF PollEnded, FetchResults, GiveUp, AllApplied, Continue, run, Tally
  <2> QED
    BY <1>2, <1>15, <2>1 DEF PollEnded, FetchResults, GiveUp, AllApplied, TallyInv
<1>16. CASE FinishRun \/ FinishFails
  BY <1>2, <1>4, <1>6, <1>16 DEF FinishRun, FinishFails, TallyInv
<1>17. CASE \E p \in Post : NextResult(p)
  <2>1. pc = "apply" /\ pc' \in {"upsert", "stamp"} /\ row' = row
        /\ left' = left /\ counters' = counters
    BY <1>17 DEF NextResult, run
  <2>2. Tally'
    BY <1>0, <2>1 DEF Tally
  <2> QED
    BY <1>2, <2>1, <2>2 DEF TallyInv
<1>18. CASE \E p \in Post : BadResult(p)
  BY <1>0, <1>2, <1>18, ResultCounted DEF BadResult, TallyInv
<1>19. CASE UpsertEventFails \/ MarkProcessed \/ MarkProcessedFails
  <2>1. cur \in left /\ (Succeeds(cur) \/ Fails(cur)) /\ row' = row
        /\ pc \in {"upsert", "stamp"}
    BY <1>19, CurrentResult
    DEF UpsertEventFails, MarkProcessed, MarkProcessedFails, TypeInv
  <2> QED
    BY <1>0, <1>2, <2>1, ResultCounted DEF TallyInv
<1>20. ASSUME pc \in Resolving \cup {"upsert"}, pc' \in Resolving \cup {"stamp"},
              left' = left, counters' = counters \/ CountGeocoded
       PROVE  Tally'
  <2>1. counters'.submitted = counters.submitted /\ counters'.succeeded = counters.succeeded
        /\ counters'.failed = counters.failed
    BY <1>0, <1>20 DEF CountGeocoded, Counter
  <2> QED
    BY <1>0, <1>20, <2>1 DEF Tally, Resolving
<1>21. CASE UpsertEvent \/ FindVenue \/ Geocode \/ CreateVenue \/ VenueFails
  <2>1. pc \in Resolving \cup {"upsert"} /\ pc' \in Resolving \cup {"stamp"}
    BY <1>21 DEF UpsertEvent, FindVenue, Geocode, CreateVenue, VenueFails, Continue, Resolving
  <2>2. left' = left /\ counters' = counters /\ row' = row
    BY <1>21 DEF UpsertEvent, FindVenue, Geocode, CreateVenue, VenueFails, Continue, run
  <2> QED
    BY <1>2, <1>20, <2>1, <2>2 DEF TallyInv
<1>22. CASE SetVenue \/ SetVenueFails
  <2>1. pc \in Resolving \cup {"upsert"} /\ pc' \in Resolving \cup {"stamp"}
    BY <1>22 DEF SetVenue, SetVenueFails, Continue, Resolving
  <2>2. left' = left /\ CountGeocoded /\ row' = row
    BY <1>22 DEF SetVenue, SetVenueFails, Continue, run
  <2> QED
    BY <1>2, <1>20, <2>1, <2>2 DEF TallyInv
<1> QED
  BY <1>7, <1>8, <1>9, <1>10, <1>11, <1>12, <1>13, <1>14, <1>15, <1>16, <1>17, <1>18,
     <1>19, <1>21, <1>22 DEF Next, RunStep, RunCall, ApplyStep

(* Whatever goes wrong between the listing and the close, and however many *)
(* of its results are bad, a run that closes as completed has counted      *)
(* every post it submitted exactly once.                                   *)
THEOREM CompletedRunsAddUp == Spec => []CompletedRunAddsUp
<1>1. Spec => []TallyInv
  BY TallyInit, TallyStep, TypeInvariant, PTL DEF Spec
<1> QED
  BY <1>1, PTL DEF TallyInv

-----------------------------------------------------------------------------
(* Behaviours without faults.                                              *)

(* As long as nothing has failed, the run's context is alive and none of   *)
(* the failing steps has been taken.                                       *)
LEMMA NoFaultStep ==
  ASSUME TypeInv, [Next]_vars, faults = 0 => ~ctxDone, faults' = 0
  PROVE  /\ faults = 0 /\ ~ctxDone /\ ~ctxDone'
         /\ ~Cancel /\ ~Crash /\ ~CreateRunFails /\ ~SetBatchFails /\ ~FinishFails
         /\ ~UpsertEventFails /\ ~VenueFails /\ ~SetVenueFails /\ ~MarkProcessedFails
<1>1. faults \in Nat
  BY DEF TypeInv, TypeOK
<1>2. ~Fault
  BY <1>1 DEF Fault
<1>3. faults = 0
  <2>1. faults' = faults \/ Fault
    BY DEF Next, vars, history, Start, RunStep, RunCall, CreateRun, CreateRunFails, ListUnprocessed,
           Submit, SetBatch, SetBatchFails, PollEnded, FetchResults, GiveUp, FinishRun,
           FinishFails, ApplyStep, NextResult, BadResult, AllApplied, UpsertEvent,
           UpsertEventFails, FindVenue, Geocode, CreateVenue, VenueFails, SetVenue,
           SetVenueFails, MarkProcessed, MarkProcessedFails, Outside, UpsertPost, Review,
           Cancel, Crash, CallFails
  <2> QED
    BY <1>2, <2>1
<1>4. ~ctxDone
  BY <1>3
<1>5. ~CallFails
  BY <1>2, <1>4 DEF CallFails
<1>6. ~Cancel /\ ~Crash /\ ~CreateRunFails /\ ~SetBatchFails /\ ~FinishFails
      /\ ~UpsertEventFails /\ ~VenueFails /\ ~SetVenueFails /\ ~MarkProcessedFails
  BY <1>2, <1>5 DEF Cancel, Crash, CreateRunFails, SetBatchFails, FinishFails,
                    UpsertEventFails, VenueFails, SetVenueFails, MarkProcessedFails
<1>7. ctxDone' = ctxDone \/ ctxDone' = FALSE
  BY <1>6 DEF Next, vars, run, Start, RunStep, RunCall, CreateRun, ListUnprocessed,
         Submit, SetBatch, GiveUp, PollEnded, FetchResults, FinishRun, RunReturns,
         ApplyStep, NextResult, BadResult, AllApplied, UpsertEvent,
         FindVenue, Geocode, CreateVenue, SetVenue,
         MarkProcessed, Outside, UpsertPost, Review, Applied, Succeeds, Fails, Continue
<1> QED
  BY <1>3, <1>4, <1>6, <1>7

LEMMA PaidInit == Init => PaidInv
  BY DEF Init, PaidInv, Paid, Owed

(* A step that pays nothing keeps what is owed, unless it gives a row up;  *)
(* and it only gives one up for a fault.                                   *)
LEMMA NothingPaid ==
  ASSUME TypeInv, NEW v \in VenueName, Paid(v), spent' = spent,
         faults' \in {faults, faults + 1}, venues[v] # "absent" => venues'[v] # "absent",
         faults' = faults + 1 \/ pc # "createvenue" \/ ctxDone
  PROVE  Paid(v)'
<1>1. spent[v] \in Nat /\ faults \in Nat
  BY DEF TypeInv, TypeOK
<1>2. CASE faults' = faults + 1
  BY <1>1, <1>2 DEF Paid
<1>3. CASE faults' = faults /\ (pc # "createvenue" \/ ctxDone)
  <2>1. ~Owed(v)' => ~Owed(v)
    BY <1>3 DEF Owed
  <2> QED
    BY <1>1, <1>3, <2>1 DEF Paid
<1> QED
  BY <1>2, <1>3

LEMMA PaidStep == TypeInv /\ PaidInv /\ [Next]_vars => PaidInv'
<1> SUFFICES ASSUME TypeInv, PaidInv, [Next]_vars
             PROVE  PaidInv'
  OBVIOUS
<1>1. faults \in Nat /\ (Fault => faults' = faults + 1)
  BY DEF TypeInv, TypeOK, Fault
(* Only four steps move on a venue name.                                   *)
<1>4. CASE FindVenue
  <2>1. pc = "venue" /\ spent' = spent /\ venues' = venues /\ x' = x /\ faults' = faults
        /\ pc' = IF Cached(x.venue) THEN "setvenue" ELSE "geocode"
    BY <1>4 DEF FindVenue, Continue, db, item, history
  <2>2. \A v \in VenueName : Paid(v)'
    BY <2>1, NothingPaid DEF PaidInv
  <2> QED
    BY <2>1, <2>2 DEF Cached, PaidInv
<1>5. CASE Geocode
  <2>1. pc = "geocode" /\ pc' = "createvenue" /\ venues' = venues /\ x' = x
        /\ faults' = faults /\ ctxDone' = ctxDone
        /\ (\/ ctxDone /\ spent' = spent
            \/ ~ctxDone /\ spent' = [spent EXCEPT ![x.venue] = @ + 1])
    BY <1>5 DEF Geocode, Continue, db, run
  <2>2. x.venue \in VenueName /\ spent \in [VenueName -> Nat]
    BY <2>1 DEF TypeInv, TypeOK, InHand, Resolving
  <2>3. ASSUME NEW v \in VenueName PROVE Paid(v)'
    <3>1. CASE ctxDone
      BY <2>1, <2>3, <3>1, NothingPaid DEF PaidInv
    <3>2. CASE ~ctxDone /\ v # x.venue
      <4>1. spent'[v] = spent[v] /\ (~Owed(v)' => ~Owed(v))
        BY <2>1, <2>2, <3>2 DEF Owed
      <4> QED
        BY <2>1, <4>1 DEF PaidInv, Paid
    <3>3. CASE ~ctxDone /\ v = x.venue
      <4>1. spent'[v] = spent[v] + 1 /\ Owed(v)' /\ ~Owed(v)
        BY <2>1, <2>2, <3>3 DEF Owed, PaidInv
      <4>2. spent[v] <= faults
        BY <4>1 DEF PaidInv, Paid
      <4>3. spent'[v] <= 1 + faults'
        BY <1>1, <2>1, <2>2, <4>1, <4>2
      <4> QED
        BY <4>1, <4>3 DEF Paid
    <3> QED
      BY <3>1, <3>2, <3>3
  <2> QED
    BY <2>1, <2>3 DEF PaidInv
<1>6. CASE CreateVenue
  <2>1. pc = "createvenue" /\ pc' = "setvenue" /\ spent' = spent /\ x' = x
        /\ faults' = faults /\ venues' = Created(x.venue)
    BY <1>6 DEF CreateVenue, Continue, item, history
  <2>2. x.venue \in VenueName
    BY <2>1 DEF TypeInv, InHand, Resolving
  <2>3. ASSUME NEW v \in VenueName PROVE Paid(v)'
    <3>1. venues'[x.venue] # "absent" /\ (v # x.venue => venues'[v] = venues[v])
      BY <2>1, <2>2 DEF Created, TypeInv, TypeOK
    <3>2. ~Owed(v)' => ~Owed(v)
      BY <2>1, <3>1 DEF Owed
    <3> QED
      BY <2>1, <3>2 DEF PaidInv, Paid
  <2> QED
    BY <2>1, <2>3 DEF PaidInv
<1>7. CASE VenueFails
  <2>1. spent' = spent /\ pc' = "stamp" /\ CallFails /\ pc \in {"venue", "createvenue"}
        /\ (venues' = venues \/ (pc = "createvenue" /\ venues' = Created(x.venue)))
    BY <1>7 DEF VenueFails, Continue, history
  <2>2. \A v \in VenueName : venues[v] # "absent" => venues'[v] # "absent"
    BY <2>1 DEF Created, TypeInv, TypeOK, InHand, Resolving
  <2>3. faults' = faults + 1 \/ (ctxDone /\ faults' = faults)
    BY <1>1, <2>1 DEF CallFails
  <2> QED
    BY <2>1, <2>2, <2>3, NothingPaid DEF PaidInv
<1>8. CASE UNCHANGED vars \/ Outside
  <2>1. UNCHANGED <<spent, venues, pc, x, ctxDone, faults>>
    BY <1>8 DEF vars, db, run, item, history, Outside, UpsertPost, Review
  <2> QED
    BY <2>1 DEF PaidInv, Paid, Owed
(* The others leave names alone; the ones in mid-insert are faults.        *)
<1>9. ASSUME UNCHANGED <<spent, venues>>, faults' \in {faults, faults + 1},
             faults' = faults + 1 \/ pc # "createvenue", pc' # "geocode"
      PROVE  PaidInv'
  BY <1>9, NothingPaid DEF PaidInv
<1>10. CASE Start
  BY <1>9, <1>10 DEF Start, db, history
<1>11. CASE Cancel
  <2>1. UNCHANGED <<spent, venues, pc, x>> /\ faults' = faults + 1
    BY <1>1, <1>11 DEF Cancel, db, item, history
  <2> QED
    BY <2>1, NothingPaid DEF PaidInv
<1>12. CASE Crash
  BY <1>1, <1>9, <1>12 DEF Crash, RunReturns, db, history
<1>13. CASE RunStep
  <2>1. UNCHANGED <<spent, venues>> /\ (faults' = faults \/ Fault)
    BY <1>13
    DEF RunStep, RunCall, CreateRun, CreateRunFails, ListUnprocessed, Submit, SetBatch,
        SetBatchFails, PollEnded, FetchResults, GiveUp, FinishRun, FinishFails, CallFails,
        db, history
  <2>2. pc # "createvenue" /\ pc' # "geocode"
    BY <1>13
    DEF RunStep, RunCall, CreateRun, CreateRunFails, ListUnprocessed, Submit, SetBatch,
        SetBatchFails, PollEnded, FetchResults, GiveUp, FinishRun, FinishFails, Continue,
        RunReturns
  <2> QED
    BY <1>1, <1>9, <2>1, <2>2
<1>14. CASE \/ \E p \in Post : NextResult(p) \/ BadResult(p)
            \/ AllApplied \/ UpsertEvent \/ UpsertEventFails \/ SetVenue \/ SetVenueFails
            \/ MarkProcessed \/ MarkProcessedFails
  <2>1. UNCHANGED <<spent, venues>> /\ (faults' = faults \/ Fault)
    BY <1>14
    DEF NextResult, BadResult, AllApplied, UpsertEvent, UpsertEventFails, SetVenue,
        SetVenueFails, MarkProcessed, MarkProcessedFails, CallFails, db, history
  <2>2. pc # "createvenue" /\ pc' # "geocode"
    BY <1>14
    DEF NextResult, BadResult, AllApplied, UpsertEvent, UpsertEventFails, SetVenue,
        SetVenueFails, MarkProcessed, MarkProcessedFails, Continue, Fails, Succeeds, Applied
  <2> QED
    BY <1>1, <1>9, <2>1, <2>2
<1> QED
  BY <1>4, <1>5, <1>6, <1>7, <1>8, <1>10, <1>11, <1>12, <1>13, <1>14 DEF Next, ApplyStep

(* However many posts name a venue, and however often they are             *)
(* reprocessed, its name is sent to the geocoder once, and once more at    *)
(* most for every fault: a lost insert is not paid for over and over.      *)
THEOREM VenueIsPaidAgainOnlyForFaults == Spec => []PaidAgainOnlyForFaults
<1>1. Spec => []PaidInv
  BY PaidInit, PaidStep, TypeInvariant, PTL DEF Spec
<1>2. PaidInv => PaidAgainOnlyForFaults
  BY DEF PaidInv, Paid, PaidAgainOnlyForFaults
<1> QED
  BY <1>1, <1>2, PTL

LEMMA SettledInit == Init => OnlyCurrentUnsettled
  BY DEF Init, OnlyCurrentUnsettled

LEMMA SettledStep ==
  TypeInv /\ OnlyCurrentUnsettled /\ [Next]_vars => OnlyCurrentUnsettled'
<1> SUFFICES ASSUME TypeInv, OnlyCurrentUnsettled, [Next]_vars, faults' = 0
             PROVE  /\ ~ctxDone'
                    /\ \A p \in Post : event'[p] # NoEvent =>
                         Settled(p)' \/ (pc' \in Resolving /\ p = cur')
  BY DEF OnlyCurrentUnsettled
<1>1. /\ faults = 0 /\ ~ctxDone'
      /\ ~Cancel /\ ~Crash /\ ~CreateRunFails /\ ~SetBatchFails /\ ~FinishFails
      /\ ~UpsertEventFails /\ ~VenueFails /\ ~SetVenueFails /\ ~MarkProcessedFails
  BY NoFaultStep DEF OnlyCurrentUnsettled
<1>2. \A p \in Post : event[p] # NoEvent => Settled(p) \/ (pc \in Resolving /\ p = cur)
  BY <1>1 DEF OnlyCurrentUnsettled
<1> SUFFICES ASSUME NEW p \in Post, event'[p] # NoEvent
             PROVE  Settled(p)' \/ (pc' \in Resolving /\ p = cur')
  BY <1>1
<1>3. ASSUME event'[p] = event[p], Settled(p) PROVE Settled(p)'
  BY <1>3 DEF Settled, Readable
(* The upsert leaves the event unsettled, or it names no venue at all.     *)
<1>4. CASE UpsertEvent
  <2>1. /\ cur \in Post /\ snap[cur] \in Caption /\ x \in Readable(snap[cur])
        /\ Upserted.from = snap[cur]
    BY <1>4, CurrentResult, UpsertedType DEF UpsertEvent, TypeInv
  <2>2. event' = [event EXCEPT ![cur] = Upserted] /\ cur' = cur /\ pc = "upsert"
        /\ pc' = IF x.venue = NoVenue THEN "stamp" ELSE "venue"
    BY <1>4 DEF UpsertEvent, Continue, item
  <2>3. CASE p # cur
    BY <1>2, <1>3, <2>1, <2>2, <2>3 DEF Resolving, TypeInv, TypeOK
  <2>4. CASE p = cur /\ x.venue = NoVenue
    <3>1. event'[p].from = snap[cur]
      BY <2>1, <2>2, <2>4 DEF TypeInv, TypeOK
    <3> QED
      BY <2>1, <2>4, <3>1 DEF Settled
  <2>5. CASE p = cur /\ x.venue # NoVenue
    BY <2>2, <2>5 DEF Resolving
  <2> QED
    BY <2>3, <2>4, <2>5
(* The venue written is the one the caption's answer names.                *)
<1>5. CASE SetVenue
  <2>1. /\ cur \in Post /\ x \in Readable(snap[cur])
        /\ event[cur] # NoEvent /\ event[cur].from = snap[cur] /\ pc = "setvenue"
    BY <1>5, CurrentResult DEF SetVenue, TypeInv, EventStored, Resolving
  <2>2. event' = [event EXCEPT ![cur].venue = x.venue]
    BY <1>5 DEF SetVenue
  <2>3. CASE p # cur
    BY <1>2, <1>3, <2>1, <2>2, <2>3 DEF TypeInv, TypeOK
  <2>4. CASE p = cur
    <3>1. event'[p] = [event[cur] EXCEPT !.venue = x.venue]
      BY <2>1, <2>2, <2>4 DEF TypeInv, TypeOK
    <3>2. event'[p].from = snap[cur] /\ event'[p].venue = x.venue
      BY <2>1, <3>1, VenueSetType DEF TypeInv
    <3> QED
      BY <2>1, <3>2 DEF Settled
  <2> QED
    BY <2>3, <2>4
<1>6. CASE \E q \in Post : Review(q)
  <2>1. pc' = pc /\ cur' = cur
    BY <1>6 DEF Review, item
  <2>2. event[p] # NoEvent /\ event'[p].from = event[p].from
        /\ event'[p].venue = event[p].venue
    <3>1. PICK q \in Post : Review(q)
      BY <1>6
    <3>2. PICK verdict \in {"approved", "rejected"} :
            event' = [event EXCEPT ![q].review = verdict]
      BY <3>1 DEF Review
    <3>3. event[q] \in Event
      BY <3>1 DEF Review, TypeInv, TypeOK
    <3>4. CASE p = q
      BY <3>1, <3>2, <3>3, <3>4 DEF Review, TypeInv, TypeOK, Event
    <3>5. CASE p # q
      BY <3>2, <3>5 DEF TypeInv, TypeOK
    <3> QED
      BY <3>4, <3>5
  <2>3. Settled(p) => Settled(p)'
    BY <2>2 DEF Settled, Readable
  <2> QED
    BY <1>2, <2>1, <2>2, <2>3
<1>7. ASSUME event' = event, (pc' \in Resolving /\ cur' = cur) \/ pc \notin Resolving
      PROVE  Settled(p)' \/ (pc' \in Resolving /\ p = cur')
  BY <1>2, <1>3, <1>7
<1>8. CASE UNCHANGED vars \/ \E q \in Post, c \in Caption \cup {NoCaption} : UpsertPost(q, c)
  <2>1. event' = event /\ pc' = pc /\ cur' = cur
    BY <1>8 DEF vars, db, item, UpsertPost
  <2> QED
    BY <1>7, <2>1
<1>9. CASE Start \/ RunStep
  <2>1. event' = event
    BY <1>1, <1>9
    DEF Start, RunStep, RunCall, CreateRun, ListUnprocessed, Submit, SetBatch, GiveUp, PollEnded,
        FetchResults, FinishRun, db
  <2>2. pc \notin Resolving
    BY <1>1, <1>9
    DEF Start, RunStep, RunCall, CreateRun, ListUnprocessed, Submit, SetBatch, GiveUp, PollEnded,
        FetchResults, FinishRun, Resolving
  <2> QED
    BY <1>7, <2>1, <2>2
<1>10. CASE (\E q \in Post : NextResult(q) \/ BadResult(q)) \/ AllApplied \/ MarkProcessed
  <2>1. event' = event /\ pc \notin Resolving
    BY <1>10 DEF NextResult, BadResult, AllApplied, MarkProcessed, db, Resolving
  <2> QED
    BY <1>7, <2>1
<1>11. CASE FindVenue \/ Geocode \/ CreateVenue
  <2>1. event' = event /\ pc' \in Resolving /\ cur' = cur
    BY <1>11 DEF FindVenue, Geocode, CreateVenue, Continue, db, item, Resolving
  <2> QED
    BY <1>7, <2>1
<1> QED
  BY <1>1, <1>4, <1>5, <1>6, <1>8, <1>9, <1>10, <1>11 DEF Next, ApplyStep, Outside

(* Without faults, the venue of a processed event is the one its caption   *)
(* names, also after an edit that moved the event elsewhere.               *)
THEOREM VenueIsTheCaptions == Spec => []VenueFollowsCaption
<1>1. Spec => []OnlyCurrentUnsettled
  BY SettledInit, SettledStep, TypeInvariant, PTL DEF Spec
<1>2. Spec => []FreshInv
  BY FreshInit, FreshStep, TypeInvariant, PTL DEF Spec
<1>3. TypeInv /\ FreshInv /\ OnlyCurrentUnsettled => VenueFollowsCaption
  <2> SUFFICES ASSUME TypeInv, FreshInv, OnlyCurrentUnsettled, faults = 0,
                      NEW p \in Post, processed[p], event[p] # NoEvent
               PROVE  Settled(p)
    BY DEF VenueFollowsCaption, Settled
  <2>1. ~(pc \in Resolving /\ p = cur)
    BY DEF TypeInv, InHand, FreshInv, HeldIsPending
  <2> QED
    BY <2>1 DEF OnlyCurrentUnsettled
<1> QED
  BY <1>1, <1>2, <1>3, TypeInvariant, PTL

=============================================================================
