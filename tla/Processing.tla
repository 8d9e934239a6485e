----------------------------- MODULE Processing -----------------------------
(***************************************************************************)
(* The life of a post: ingestion upserts its caption into ig_raw_posts, a  *)
(* processing run reads the pending captions, sends them to Claude as one  *)
(* batch, waits for the batch, and applies every result: the event row,    *)
(* its venue, and last the processed_at stamp.                             *)
(*                                                                         *)
(* internal/services/processing runs one pass at a time in a process (its  *)
(* `running` flag), while ingestion upserts whenever its own schedule says *)
(* and an admin reviews events by hand: all three write the same tables.   *)
(***************************************************************************)
EXTENDS Integers, FiniteSets

CONSTANTS
  Post,        \* ig_raw_posts ids, numbered in the order of posted_at
  Caption,     \* caption texts; caption_hash tells any two of them apart
  Yields,      \* Yields[c]: what decodeEntry may make of the answer for c
  VenueName,   \* normalised venue names
  Limits,      \* the limits a run may be started with
  MaxEdits,    \* bound on upserts that change a caption
  MaxFaults,   \* bound on crashes, cancellations, timeouts, failed calls
  NoRow, NoCaption, NoEvent, NoVenue, NoPost, Garbage

Extraction == [isEvent : BOOLEAN, high : BOOLEAN, venue : VenueName \cup {NoVenue}]
Event == [from : Caption, high : BOOLEAN, venue : VenueName \cup {NoVenue},
          review : {"auto_published", "pending", "approved", "rejected"}]

ASSUME PostAssumption == Post \subseteq Nat /\ IsFiniteSet(Post)
ASSUME YieldsAssumption == Yields \in [Caption -> SUBSET (Extraction \cup {Garbage})]
ASSUME BoundsAssumption ==
  Limits \subseteq Nat \ {0} /\ MaxEdits \in Nat /\ MaxFaults \in Nat
ASSUME NullAssumption ==
  /\ NoRow \notin Caption /\ NoCaption \notin Caption /\ NoRow # NoCaption
  /\ NoVenue \notin VenueName /\ NoPost \notin Post
  /\ Garbage \notin Extraction /\ NoEvent \notin Event

VARIABLES
  (* The database. *)
  caption,    \* the caption column of each post, NoRow before the first upsert
  processed,  \* processed_at IS NOT NULL
  event,      \* the events row of each post
  venues,     \* the venues rows: absent, without coordinates, with coordinates
  row,        \* the newest row of processing_runs
  (* The run in progress. *)
  pc, ctxDone,
  limit,      \* the limit the run was started with
  snap,       \* the captions ListUnprocessed returned
  left,       \* submitted posts whose result is not applied yet
  cur, x,     \* the result being applied: its post and what it says
  pin,        \* geocoding gave coordinates for the venue being created
  counters,
  (* History. *)
  raced,      \* posts whose caption changed after the run had read it
  spent,      \* geocode calls made for each venue name
  edits, faults

db == <<caption, processed, event, venues>>
run == <<ctxDone, limit, snap, left>>
item == <<cur, x, pin>>
history == <<raced, spent, edits>>
vars == <<db, row, pc, run, item, counters, history, faults>>

NoCounters == [submitted |-> 0, succeeded |-> 0, failed |-> 0, geocoded |-> 0]
Counter == [submitted : Nat, succeeded : Nat, failed : Nat, geocoded : Nat]
Row == [status : {"none", "submitted", "polling", "completed", "failed"},
        batch : BOOLEAN, count : Counter]
NothingExtracted == [isEvent |-> FALSE, high |-> FALSE, venue |-> NoVenue]

TypeOK ==
  /\ caption \in [Post -> Caption \cup {NoRow, NoCaption}]
  /\ processed \in [Post -> BOOLEAN]
  /\ event \in [Post -> Event \cup {NoEvent}]
  /\ venues \in [VenueName -> {"absent", "nopin", "pinned"}]
  /\ row \in Row
  /\ pc \in {"idle", "create", "list", "submit", "setbatch", "poll", "fetch", "apply",
             "upsert", "venue", "geocode", "createvenue", "setvenue", "stamp",
             "complete", "fail"}
  /\ ctxDone \in BOOLEAN
  /\ limit \in Nat
  /\ snap \in [Post -> Caption \cup {NoCaption}]
  /\ left \in SUBSET Post
  /\ cur \in Post \cup {NoPost}
  /\ x \in Extraction
  /\ pin \in BOOLEAN
  /\ counters \in Counter
  /\ raced \in SUBSET Post
  /\ spent \in [VenueName -> Nat]
  /\ edits \in 0..MaxEdits
  /\ faults \in 0..MaxFaults

Init ==
  /\ caption = [p \in Post |-> NoRow]
  /\ processed = [p \in Post |-> FALSE]
  /\ event = [p \in Post |-> NoEvent]
  /\ venues = [v \in VenueName |-> "absent"]
  /\ row = [status |-> "none", batch |-> FALSE, count |-> NoCounters]
  /\ pc = "idle"
  /\ ctxDone = FALSE
  /\ limit = 0
  /\ snap = [p \in Post |-> NoCaption]
  /\ left = {}
  /\ cur = NoPost /\ x = NothingExtracted /\ pin = FALSE
  /\ counters = NoCounters
  /\ raced = {}
  /\ spent = [v \in VenueName |-> 0]
  /\ edits = 0
  /\ faults = 0

-----------------------------------------------------------------------------
(* Helpers.                                                                *)

Fault == faults < MaxFaults /\ faults' = faults + 1

(* A call on the run's context fails because that context is done, or by   *)
(* itself.  A failed write may have been committed all the same.           *)
CallFails == (ctxDone /\ UNCHANGED faults) \/ Fault

(* The posts a run holds: listed, and not done with.                       *)
Held == {p \in Post : snap[p] # NoCaption}

(* The WHERE, ORDER BY and LIMIT of ListUnprocessed.                       *)
UnprocessedAnyCaption == {p \in Post : ~processed[p]}
Unprocessed == {p \in Post : ~processed[p] /\ caption[p] \in Caption}
OldestFirstShort(n) == {p \in Unprocessed : Cardinality({q \in Unprocessed : q < p}) < n - 1}
OldestFirst(n) == {p \in Unprocessed : Cardinality({q \in Unprocessed : q < p}) < n}

Continue(next) == pc' = next /\ UNCHANGED run

-----------------------------------------------------------------------------
(* Ingestion and the admin.                                                *)

(* igrawpost.Upsert: the caption is always refreshed, and processed_at is  *)
(* cleared exactly when its hash moved.  An upsert that changes nothing    *)
(* leaves the row as it is (last_seen_at aside).                           *)
KeepsStamp(p, c) == UNCHANGED processed
ClearsStamp(p, c) == processed' = [processed EXCEPT ![p] = FALSE]

UpsertPost(p, c) ==
  /\ caption[p] # c
  /\ edits < MaxEdits /\ edits' = edits + 1
  /\ caption' = [caption EXCEPT ![p] = c]
  /\ ClearsStamp(p, c)
  /\ raced' = IF p \in Held THEN raced \cup {p} ELSE raced \ {p}
  /\ UNCHANGED <<event, venues, row, pc, run, item, counters, spent, faults>>

(* An admin approves or rejects an event in the database.                  *)
Review(p) ==
  /\ event[p] # NoEvent
  /\ event[p].review \in {"auto_published", "pending"}
  /\ \E verdict \in {"approved", "rejected"} :
       event' = [event EXCEPT ![p].review = verdict]
  /\ UNCHANGED <<caption, processed, venues, row, pc, run, item, counters, history, faults>>

-----------------------------------------------------------------------------
(* run and runWithID.                                                      *)

Start ==
  /\ pc = "idle"
  /\ pc' = "create"
  /\ limit' \in Limits
  /\ UNCHANGED <<db, row, ctxDone, snap, left, item, counters, history, faults>>

(* The run returns, or dies with its process.                              *)
RunReturns ==
  /\ pc' = "idle"
  /\ ctxDone' = FALSE
  /\ limit' = 0
  /\ snap' = [p \in Post |-> NoCaption]
  /\ left' = {}
  /\ cur' = NoPost /\ x' = NothingExtracted /\ pin' = FALSE
  /\ counters' = NoCounters

SubmittedRow == [status |-> "submitted", batch |-> FALSE, count |-> NoCounters]

CreateRun ==
  /\ pc = "create" /\ ~ctxDone
  /\ row' = SubmittedRow
  /\ Continue("list")
  /\ UNCHANGED <<db, item, counters, history, faults>>

CreateRunFails ==
  /\ pc = "create"
  /\ CallFails
  /\ row' \in {row, SubmittedRow}
  /\ RunReturns
  /\ UNCHANGED <<db, history>>

(* Nothing pending is a completed run, without a batch.                    *)
ListUnprocessed ==
  /\ pc = "list" /\ ~ctxDone
  /\ snap' = [p \in Post |-> IF p \in OldestFirst(limit) THEN caption[p] ELSE NoCaption]
  /\ left' = OldestFirst(limit)
  /\ pc' = IF Unprocessed = {} THEN "complete" ELSE "submit"
  /\ raced' = raced \ OldestFirst(limit)
  /\ UNCHANGED <<db, row, ctxDone, limit, item, counters, spent, edits, faults>>

Submit ==
  /\ pc = "submit" /\ ~ctxDone
  /\ counters' = [counters EXCEPT !.submitted = Cardinality(left)]
  /\ Continue("setbatch")
  /\ UNCHANGED <<db, row, item, history, faults>>

(* Only finding the id recorded in its row makes a batch recoverable.      *)
BatchRow == [row EXCEPT !.status = "polling", !.batch = TRUE,
                        !.count.submitted = counters.submitted]

SetBatch ==
  /\ pc = "setbatch" /\ ~ctxDone
  /\ row' = BatchRow
  /\ Continue("poll")
  /\ UNCHANGED <<db, item, counters, history, faults>>

SetBatchIgnoresError ==
  /\ pc = "setbatch"
  /\ CallFails
  /\ row' \in {row, BatchRow}
  /\ Continue("poll")
  /\ UNCHANGED <<db, item, counters, history>>

SetBatchFails ==
  /\ pc = "setbatch"
  /\ CallFails
  /\ row' \in {row, BatchRow}
  /\ Continue("fail")
  /\ UNCHANGED <<db, item, counters, history>>

(* A poll that fails or finds the batch still running changes nothing; the *)
(* poll that finds it ended is the last one.  It need never come.          *)
PollEnded ==
  /\ pc = "poll" /\ ~ctxDone
  /\ Continue("fetch")
  /\ UNCHANGED <<db, row, item, counters, history, faults>>

FetchResults ==
  /\ pc = "fetch" /\ ~ctxDone
  /\ Continue("apply")
  /\ UNCHANGED <<db, row, item, counters, history, faults>>

(* Listing, submitting or fetching fails, or the poll is cancelled or runs *)
(* past its deadline, which is no fault: the run closes as failed.         *)
GiveUpWithoutDeadline ==
  /\ pc \in {"list", "submit", "poll", "fetch"}
  /\ CallFails
  /\ Continue("fail")
  /\ UNCHANGED <<db, row, item, counters, history>>

GiveUp ==
  /\ pc \in {"list", "submit", "poll", "fetch"}
  /\ CallFails \/ (pc = "poll" /\ UNCHANGED faults)
  /\ Continue("fail")
  /\ UNCHANGED <<db, row, item, counters, history>>

Closed ==
  [row EXCEPT !.status = IF pc = "complete" THEN "completed" ELSE "failed",
              !.count = counters]

(* finishRun, on a detached context.                                       *)
FinishRun ==
  /\ pc \in {"complete", "fail"}
  /\ row' = Closed
  /\ RunReturns
  /\ UNCHANGED <<db, history, faults>>

FinishFails ==
  /\ pc \in {"complete", "fail"}
  /\ Fault
  /\ row' \in {row, Closed}
  /\ RunReturns
  /\ UNCHANGED <<db, history>>

-----------------------------------------------------------------------------
(* applyResults, one result after the other in the order they come.        *)

(* The result of p is applied: the run is done with the post.              *)
Applied(p) ==
  /\ pc' = "apply"
  /\ left' = left \ {p}
  /\ snap' = [snap EXCEPT ![p] = NoCaption]
  /\ cur' = NoPost /\ x' = NothingExtracted /\ pin' = FALSE
  /\ UNCHANGED <<ctxDone, limit>>

Succeeds(p) == Applied(p) /\ counters' = [counters EXCEPT !.succeeded = @ + 1]
Fails(p) == Applied(p) /\ counters' = [counters EXCEPT !.failed = @ + 1]

(* The next result says what the model extracted from the caption that was *)
(* submitted.  A non-event gets no row and no venue, only its stamp.       *)
NextResult(p) ==
  /\ pc = "apply"
  /\ p \in left
  /\ \E r \in Yields[snap[p]] \ {Garbage} :
       x' = r /\ pc' = IF r.isEvent THEN "upsert" ELSE "stamp"
  /\ cur' = p
  /\ UNCHANGED <<db, row, run, pin, counters, history, faults>>

(* The item errored, was not JSON, or has no result line at all.           *)
BadResultNotCounted(p) ==
  /\ pc = "apply"
  /\ p \in left
  /\ Garbage \in Yields[snap[p]]
  /\ Applied(p)
  /\ UNCHANGED <<db, row, counters, history, faults>>

BadResult(p) ==
  /\ pc = "apply"
  /\ p \in left
  /\ Garbage \in Yields[snap[p]]
  /\ Fails(p)
  /\ UNCHANGED <<db, row, history, faults>>

AllApplied ==
  /\ pc = "apply" /\ left = {}
  /\ Continue("complete")
  /\ UNCHANGED <<db, row, item, counters, history, faults>>

(* event.Upsert: review_status is set on insert only, venue_id never.      *)
InitialReview == IF x.isEvent /\ x.high THEN "auto_published" ELSE "pending"

FreshEvent == [from |-> snap[cur], high |-> x.high, venue |-> NoVenue,
               review |-> InitialReview]

UpsertedReviewReset ==
  IF event[cur] = NoEvent
    THEN FreshEvent
    ELSE [FreshEvent EXCEPT !.venue = event[cur].venue]

Upserted ==
  IF event[cur] = NoEvent
    THEN FreshEvent
    ELSE [event[cur] EXCEPT !.from = snap[cur], !.high = x.high]

UpsertEvent ==
  /\ pc = "upsert" /\ ~ctxDone
  /\ event' = [event EXCEPT ![cur] = Upserted]
  /\ Continue(IF x.venue = NoVenue THEN "stamp" ELSE "venue")
  /\ UNCHANGED <<caption, processed, venues, row, item, counters, history, faults>>

(* The error is returned before anything else: the post stays pending.     *)
UpsertErrorIsLogged ==
  /\ pc = "upsert"
  /\ CallFails
  /\ Continue("stamp")
  /\ UNCHANGED <<db, row, item, counters, history>>

UpsertEventFails ==
  /\ pc = "upsert"
  /\ CallFails
  /\ event' \in {event, [event EXCEPT ![cur] = Upserted]}
  /\ Fails(cur)
  /\ UNCHANGED <<caption, processed, venues, row, history>>

(* resolveVenue: the table is the cache that saves geocode calls.          *)
NeverCached(v) == FALSE
Cached(v) == venues[v] # "absent"

FindVenue ==
  /\ pc = "venue" /\ ~ctxDone
  /\ Continue(IF Cached(x.venue) THEN "setvenue" ELSE "geocode")
  /\ UNCHANGED <<db, row, item, counters, history, faults>>

(* Geocoding may find coordinates, find nothing, or fail: the venue is     *)
(* created either way.  A dead context fails before any call is sent.      *)
Geocode ==
  /\ pc = "geocode"
  /\ \/ ctxDone /\ UNCHANGED <<pin, spent>>
     \/ /\ ~ctxDone
        /\ pin' \in BOOLEAN
        /\ spent' = [spent EXCEPT ![x.venue] = @ + 1]
  /\ Continue("createvenue")
  /\ UNCHANGED <<db, row, cur, x, counters, raced, edits, faults>>

Created(v) ==
  IF venues[v] = "absent"
    THEN [venues EXCEPT ![v] = IF pin THEN "pinned" ELSE "nopin"]
    ELSE venues

CreateVenue ==
  /\ pc = "createvenue" /\ ~ctxDone
  /\ venues' = Created(x.venue)
  /\ Continue("setvenue")
  /\ UNCHANGED <<caption, processed, event, row, item, counters, history, faults>>

(* SetVenue, and the geocoded counter, whether or not SetVenue went well.  *)
CountGeocoded ==
  counters' = IF pin THEN [counters EXCEPT !.geocoded = @ + 1] ELSE counters

SetVenueOnce ==
  /\ pc = "setvenue" /\ ~ctxDone
  /\ event' = [event EXCEPT ![cur].venue = IF @ = NoVenue THEN x.venue ELSE @]
  /\ CountGeocoded
  /\ Continue("stamp")
  /\ UNCHANGED <<caption, processed, venues, row, item, history, faults>>

SetVenue ==
  /\ pc = "setvenue" /\ ~ctxDone
  /\ event' = [event EXCEPT ![cur].venue = x.venue]
  /\ CountGeocoded
  /\ Continue("stamp")
  /\ UNCHANGED <<caption, processed, venues, row, item, history, faults>>

SetVenueFails ==
  /\ pc = "setvenue"
  /\ CallFails
  /\ event' \in {event, [event EXCEPT ![cur].venue = x.venue]}
  /\ CountGeocoded
  /\ Continue("stamp")
  /\ UNCHANGED <<caption, processed, venues, row, item, history>>

(* Any failure to find or create the venue is a warning: the event stands  *)
(* without it and the post is stamped.                                     *)
VenueFails ==
  /\ pc \in {"venue", "createvenue"}
  /\ CallFails
  /\ venues' \in {venues} \cup (IF pc = "createvenue" THEN {Created(x.venue)} ELSE {})
  /\ Continue("stamp")
  /\ UNCHANGED <<caption, processed, event, row, item, counters, history>>

(* MarkProcessed stamps the post by its id alone.                          *)
MarkProcessed ==
  /\ pc = "stamp" /\ ~ctxDone
  /\ processed' = [processed EXCEPT ![cur] = TRUE]
  /\ Succeeds(cur)
  /\ UNCHANGED <<caption, event, venues, row, history, faults>>

MarkProcessedFails ==
  /\ pc = "stamp"
  /\ CallFails
  /\ processed' \in {processed, [processed EXCEPT ![cur] = TRUE]}
  /\ Fails(cur)
  /\ UNCHANGED <<caption, event, venues, row, history>>

-----------------------------------------------------------------------------
(* The environment.                                                        *)

Cancel ==
  /\ pc # "idle" /\ ~ctxDone
  /\ Fault
  /\ ctxDone' = TRUE
  /\ UNCHANGED <<db, row, pc, limit, snap, left, item, counters, history>>

Crash ==
  /\ pc # "idle"
  /\ Fault
  /\ RunReturns
  /\ UNCHANGED <<db, row, history>>

-----------------------------------------------------------------------------
RunCall ==
  \/ CreateRun \/ CreateRunFails
  \/ ListUnprocessed \/ Submit \/ SetBatch \/ SetBatchFails
  \/ FetchResults \/ GiveUp
  \/ FinishRun \/ FinishFails

RunStep == RunCall \/ PollEnded

ApplyStep ==
  \/ \E p \in Post : NextResult(p) \/ BadResult(p)
  \/ AllApplied
  \/ UpsertEvent \/ UpsertEventFails
  \/ FindVenue \/ Geocode \/ CreateVenue \/ VenueFails
  \/ SetVenue \/ SetVenueFails
  \/ MarkProcessed \/ MarkProcessedFails

Outside ==
  \/ \E p \in Post, c \in Caption \cup {NoCaption} : UpsertPost(p, c)
  \/ \E p \in Post : Review(p)

Next == Start \/ RunStep \/ ApplyStep \/ Outside \/ Cancel \/ Crash

Spec == Init /\ [][Next]_vars

(* The cron keeps ticking, every call of a run ends, and the deadline of a *)
(* poll comes.  Nothing is assumed of ingestion, of the admin, of faults,  *)
(* or of the batch, which need not end.                                    *)
Fairness == WF_vars(Start) /\ WF_vars(RunCall) /\ WF_vars(ApplyStep)

FairSpec == Spec /\ Fairness

-----------------------------------------------------------------------------
(* Safety.                                                                 *)

(* The captions whose every readable answer is an event, or is none.       *)
Readable(c) == Yields[c] \ {Garbage}
EventCaption(c) == Readable(c) # {} /\ \A r \in Readable(c) : r.isEvent
NonEventCaption(c) == Readable(c) # {} /\ \A r \in Readable(c) : ~r.isEvent

(* processed_at is stamped last: whatever fails on the way, a post is only *)
(* ever stamped when the event read from the submitted caption is stored.  *)
StampFollowsEvent ==
  [][\A p \in Post : ~processed[p] /\ processed'[p] /\ x.isEvent =>
       event[p] # NoEvent /\ event[p].from = snap[p]]_vars

(* A processed post whose caption announces an event has an event row read *)
(* from that very caption, unless the caption changed between a run's read *)
(* and its stamp: that race is the only way an edit is lost, across        *)
(* crashes, timeouts, resubmitted batches and repeated edits.              *)
OnlyRacesGoStale ==
  \A p \in Post :
    processed[p] /\ caption[p] \in Caption /\ p \notin raced =>
      (EventCaption(caption[p]) => event[p] # NoEvent /\ event[p].from = caption[p])

(* Without faults, the venue of a processed event is the one its caption   *)
(* names, also after an edit that moved the event elsewhere.               *)
VenueFollowsCaption ==
  faults = 0 =>
    \A p \in Post : processed[p] /\ event[p] # NoEvent =>
      \A v \in VenueName :
        (\A r \in Readable(event[p].from) : r.venue = v) => event[p].venue = v

(* A venue costs one geocode call however many posts name it and however   *)
(* often their batches are repeated; each fault between a call and its     *)
(* insert (venue.go:47, 94) costs one more at most, also when the run goes *)
(* on to the next post that names the venue.                               *)
PaidAgainOnlyForFaults == \A v \in VenueName : spent[v] <= 1 + faults

(* A run never waits on, or applies, a batch whose id is not in its row.   *)
PolledBatchIsRecorded ==
  pc \notin {"idle", "create", "list", "submit", "setbatch", "complete", "fail"} =>
    row.batch

(* A completed run accounts for every post it submitted, on every error    *)
(* path of applyResults, also when shutdown cuts it short halfway.         *)
CompletedRunAddsUp ==
  row.status = "completed" =>
    row.count.submitted = row.count.succeeded + row.count.failed

(* A run, and so any reprocessing, never changes the review status of an   *)
(* event that exists: only an admin does.                                  *)
ReviewKept ==
  [][\A p \in Post : event[p] # NoEvent /\ event'[p].review # event[p].review =>
       Review(p)]_vars

-----------------------------------------------------------------------------
(* Liveness.                                                               *)

(* Every run ends, also one whose context died or whose batch never ends.  *)
RunEnds == pc # "idle" ~> pc = "idle"

(* Posts the model can read are all processed in the end, as long as the   *)
(* posts it cannot read do not fill a whole batch, for those stay pending  *)
(* and sit at the head of the queue for ever, and as long as not every     *)
(* batch outlasts the deadline of its poll.                                *)
Poisoned == {p \in Post : caption[p] \in Caption /\ Garbage \in Yields[caption[p]]}
BatchesEnd == []<>(pc = "poll") => []<>(pc = "fetch")
ReadablePostsDrain ==
  (\A n \in Limits : <>[](Cardinality(Poisoned) < n)) /\ BatchesEnd =>
    \A p \in Post :
      <>[](caption[p] \in Caption /\ Garbage \notin Yields[caption[p]] /\ Readable(caption[p]) # {}
             => processed[p])

-----------------------------------------------------------------------------
(* What the documentation says, without the excuses.                       *)

(* README.md:301: clearing processed_at on a changed caption "queues the   *)
(* post for reprocessing", so a post that reads as processed shows its     *)
(* current caption.                                                        *)
EditIsReprocessed ==
  \A p \in Post : processed[p] /\ caption[p] \in Caption =>
    (EventCaption(caption[p]) => event[p] # NoEvent /\ event[p].from = caption[p])

(* processing.service.go:373: "A non-event earns no row at all".           *)
NonEventHasNoRow ==
  \A p \in Post : processed[p] /\ caption[p] \in Caption /\ p \notin raced =>
    (NonEventCaption(caption[p]) => event[p] = NoEvent)

=============================================================================
