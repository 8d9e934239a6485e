# A verification model of the Naidee ingestion service

The service ingests Instagram posts of a whitelist of accounts into Postgres and
turns their captions into events with a batch language model. Two schedulers and
two admin endpoints start runs, a worker pool fetches accounts concurrently, and
three writers (ingestion, processing, an admin) share the tables. This directory
models those runs in TLA+, with the slots they compete for, the boot and the
shutdown around them, and the decoders in front of them; checks all of it with TLC
on small instances; and proves all of its safety properties, and the refinements,
with TLAPS for every instance.

    tlc -config IngestionSafety.cfg MCIngestion.tla     # any of the runs below
    tlapm Ingestion_proofs.tla                          # any *_proofs module, and RunSlot

## 1. Inventory

Paths are relative to `src/`; `PROJECT.json` has the lines of every definition.

| Part | State it keeps | Operations | Where the difficulty is |
|---|---|---|---|
| Ingestion run, `internal/services/ingestion` | run mutex, semaphore, `runCtx`, `fatalErr`, `runCounters` | `Run`, `TriggerAsync`, `WaitIdle`, `run`, `processSources`, `processSource`, `discoverWithRetry`, `handleSourceError`, `finishRun` | workers cancel one another; every error path must count once and charge the right source; cancellation and timeouts look alike |
| Instagram provider, `internal/providers/instagram` | none | `DiscoverMedia`, `VerifyToken`, `classify` | the kind of an error decides over a source, a run or a retry |
| `ig_sources`, `ingestion_runs` repositories | active flag, failure streak, last sync; run rows | `ListActive`, `MarkSynced`, `MarkFailed`, `Deactivate`, `Create`, `Finish` | single statements, several of them per decision; a write can fail after it committed |
| `ig_raw_posts` repository | captions, hashes, `processed_at` | `Upsert`, `ListUnprocessed`, `MarkProcessed` | written by ingestion and processing at once; idempotency |
| Processing run, `internal/services/processing` | running flag, `currentRunID`, `inFlight`, counters | `Run`, `TriggerAsync`, `WaitIdle`, `runWithID`, `pollUntilEnded`, `applyResults`, `applyResult`, `resolveVenue`, `finishRun` | hours between reading a caption and stamping it; partial failures in the middle of a batch |
| `events`, `venues`, `processing_runs` repositories | events, venues as a geocoding cache, run rows | upserts, `SetVenue`, `FindByNormalizedName`, `SetBatch`, `Finish` | what an upsert keeps on conflict |
| Claude provider, `internal/providers/claude` | none | `Submit`, `Poll`, `FetchResults`, `decodeEntry` | unordered, missing and unparsable results |
| Geocoder, `internal/providers/geocode` | time of the last slot | `Geocode`, `waitForSlot` | a rate limit over time; calls that cost |
| Schedulers, `internal/cron` | the robfig scheduler | `Run`, `Stop` | ticks during a run, at startup and at shutdown |
| Admin endpoints, `internal/controllers` | none | `Trigger`, `TriggerRun`, `GetRun` | a second trigger, a trigger during shutdown |
| Lifecycle, `cmd/ingestion-service` | application context | boot, drain | one 30 s budget for everything; starts on a context that is already dead |
| Configuration, `internal/config` | none after the boot | `Load`, `parse`, `validate` | what a fallback hides; what is refused too late |
| Alerts, routes, health, logging | none that a property is about | | |

How they interact: a scheduler or endpoint calls a service; the service holds its
run slot and calls providers and repositories; the two services never call each
other and meet only in `ig_raw_posts`, where ingestion clears `processed_at` and
processing sets it. Shutdown cancels the application context, which every run
gets, and waits.

What makes each part correct: a source is charged, counted and retired exactly
for what its own calls answered; a run closes with a status and counters that add
up; an aborted run hurts no bystander and does not starve the end of the list;
posts are landed once; a processed post has the event of the caption it shows; a
review is never undone; a venue is paid for once; every run ends. The list of
things that can go wrong, with lines, is `hazards` in `PROJECT.json`.

## 2. Modules

| Module | Content |
|---|---|
| `Ingestion` | the ingestion run, its workers and the tables they write; properties and mutated forms |
| `MCIngestion` | accounts, posts and answers of the TLC instances |
| `Ingestion_proofs` | inductive invariants and theorems about `Ingestion` |
| `Processing` | the life of a post: upserts, reviews, processing runs; properties and mutated forms |
| `MCProcessing` | captions, what can be read from them, and venues of the TLC instances |
| `Processing_proofs` | inductive invariants and theorems about `Processing` |
| `RunSlot` | abstract: what both services promise of a run slot, whoever asks; with its own proofs |
| `IngestionSlot` | the mutex, the three kinds of caller and `WaitIdle`; implements `RunSlot` |
| `ProcessingSlot` | the flag, the run id, the wait group, the limit and the answers; implements `RunSlot` |
| `IngestionSlot_proofs`, `ProcessingSlot_proofs` | one pass at a time, rows left open, answers, and that each slot implements `RunSlot` |
| `Lifecycle` | composes both slots: boot, schedulers, server, signal, drain, and time |
| `Nominatim` | the geocoder's rate limit in discrete time |
| `GraphAnswers` | what the Instagram provider makes of the API's answers |
| `Extraction` | from a result line to the row in `events`: `decodeEntry` and the upsert |
| `Configuration` | environment, `parse`, `validate`, and what the boot finds later |
| `MCSlots` | both slots in one TLC run, over `MCProcessingSlot`, which has the callers and limits |
| `MCLifecycle` | the calls of the TLC instances of `Lifecycle` |
| `MCEdges` | `Nominatim`, `GraphAnswers`, `Extraction`, `Configuration` in one TLC run, with their inputs |
| `Lifecycle_proofs` | the shutdown closes what it waits for and fits its budget; the slots stay slots in the composition |
| `Slots_proofs`, `Edges_proofs` | the theorems about `MCSlots` and `MCEdges`; the second has those of its four parts |

`RunSlot` stands above `IngestionSlot` and `ProcessingSlot`, which stand beside
`Ingestion` and `Processing`: the slot modules have the competition for the slot and
the row in full and the pass as a few stages, the other two have one pass at a time
in full. That one pass at a time is right is what the slot modules show; that the
pass ends, which their fairness assumes, is `RunEnds` of the other two.

`MCSlots` and `MCEdges` put modules that share no state side by side: a variable
(`slot`, `edge`), chosen in the initial state, says which of them moves in a
behaviour while the others rest. Their states add up instead of multiplying, and
the properties of each are those of its module, renamed. Where parts do share state
they are composed in earnest, in `Lifecycle`. `IngestionSlot`, `GraphAnswers`,
`Extraction` and `Configuration` name their assumptions on constants as definitions,
and the module that instantiates them asserts each as a named `ASSUME`, which TLC
evaluates and the proofs cite.

A mutated form is an operator next to the definition it mutates (`SlotsReleasedEarly`
next to `Slots`). It is a bug the property named for it in `PROJECT.json` must
catch; no specification uses it.

### Ingestion

State. `active`, `failures`, `older`, `landed`, `row` are the database: the active
flag and the streak of `ig_sources`, the order `last_synced_at` induces (as a
relation, since only the order is read, by `ListActive`), the media ids in
`ig_raw_posts`, the newest `ingestion_runs` row. `pc`, `ctxDone`, `listed`,
`pending`, `fatalErr`, `counters`, `alerts` are the locals of `run` and
`processSources`; `phase`, `attempt`, `todo`, `fresh` those of each worker.
`before` is a history variable, `faults` counts faults.

| Action | Code |
|---|---|
| `Start` | `Run`/`TriggerAsync` get the mutex |
| `Create`, `CreateFails`, `ListActive`, `ListFails` | the two calls that open `run` |
| `LoopHead`, `Spawn` | the loop of `processSources`: the check of `runCtx`, then the blocking send on the semaphore, which does not watch the context |
| `Begin`, `Skip` | the second look at `runCtx` inside the goroutine |
| `FetchMedia`, `FetchTransient`, `Retry`, `FetchFatal`, `FetchPermanent` | `DiscoverMedia` and `discoverWithRetry` |
| `Upsert`, `UpsertCutShort`, `UpsertFails` | the upsert loop of `processSource` |
| `MarkSynced`, `MarkSyncedFails` | the end of `processSource`: the write and `addSuccess` |
| `CutShort` | the abort branch of `handleSourceError` |
| `AlertFatal`, `Abort` | `alertFatal`, then `fatalOnce`/`cancel()` in the goroutine |
| `MarkFailed`, `MarkFailedFails`, `Deactivate`, `DeactivateFails` | the rest of `handleSourceError` |
| `FinishRun`, `FinishFails` | `wg.Wait`, `resolveStatus`, `finishRun` |
| `Cancel`, `Crash` | shutdown or the 15 minutes of `?wait=true`; the death of the process |

A call that leaves the process is the unit of interleaving: between two of them a
worker touches only its locals, or the counters under their mutex. A database
write that reports an error may have committed; both outcomes are in the model.
`"timeout"` is a transient answer of its own because `APIError.Unwrap` lets it
satisfy `errors.Is(err, context.DeadlineExceeded)`, which `handleSourceError`
tests before it looks at the kind.

### Processing

State. `caption`, `processed`, `event`, `venues`, `row` are the database. An event
remembers in `from` the caption it was read from, which stands for all its
extracted columns. `snap` and `left` are what `ListUnprocessed` returned and what
is not applied yet; `cur`, `x`, `pin` are the locals of `applyResult` and
`resolveVenue`. `raced` (posts whose caption changed while a run held them) and
`spent` (geocode calls) are history variables.

`UpsertPost` is ingestion's upsert as processing sees it, at any moment; `Review`
is an admin's, outside the repository, and the one external definition.
`CreateRun` to `FinishRun` follow `run` and `runWithID` call by call; `NextResult`
to `MarkProcessed` follow `applyResults` and `applyResult`, one database or
geocoder call per step, with a failing twin for each. Results come in any order
and any of them may be unreadable or missing (`Garbage` in `Yields`). A poll that
fails or finds the batch running changes nothing and is a stutter; the deadline that
ends the polling is a step of `GiveUp` of its own and costs no fault. It is also the
only thing that must end it: a batch may run for ever, so `PollEnded` is not fair, and
a run without the deadline would not end (`GiveUpWithoutDeadline`).

### RunSlot, IngestionSlot, ProcessingSlot

`RunSlot` says it without mutex or flag: `Grant` and `Refuse` by whether somebody
has the slot, `Open` and `Close` by the holder only, `Release` never with an open
row, and `Abandon` (a write whose answer or effect was lost) and `Crash` paid for
out of the faults. The refinement of each service is `ImplementsRunSlot`.

| | `IngestionSlot` | `ProcessingSlot` |
|---|---|---|
| slot | `mutex` = `Service.running`, a `sync.Mutex` | `running`, an `atomic.Bool`; the model adds whose swap won |
| callers | `Job` (ticks, startup run), `Waiting` (`?wait=true`), `Async` | `Job`, `Web` |
| `holder <-` | `mutex`, the drain being one more caller | `running` |
| `row <-` | the row of the holder's run | computed from `rows` and the holder's `run` |
| `lost <-` | `lost` | rows `submitted` that no run will close (`Orphans`) |
| entry | `TryLock`, `TryLockFails`, `Reject` | `RunSwap`/`RunSkipped`, `TriggerSwap`/`TriggerLoses` and `Conflict`, `Reject` |
| behind it | `Create*`, `ListActive`/`ListFails`, `Bookkeep`/`Bookkept`, `PoolDone`, `FinishRun`/`FinishFails`, `Unlock` | `RunAdd`, `Create*`, `Abort`, `StoreRunID`, `Launch`, `Body`, `FinishRun`/`FinishFails`, `Done`, `Lower` |
| shutdown | `WaitIdle`, `DrainLock`, `DrainUnlock`: the goroutine takes the mutex | `WaitIdle`, `Idle`: the wait group |

In `ProcessingSlot` every atomic operation is a step of its own, since requests read
them without a lock: `Conflict` loads the id some time after `TriggerLoses` lost the
swap, and `Accept` is the handler answering while the goroutine it started runs.
`past` is a history variable: the ids that were over when the swap was lost. Under a
dead context a statement fails at no cost; under a live one it takes a fault. The
detached writes (`Bookkeep`, `FinishRun`) do not look at the context.

### Lifecycle

`Lifecycle` instantiates both slot modules over one `ctxDone` and one `faults`.
`main` is the program counter of `main()`: `Boot` (token, two schedulers), `Drain`,
`StopIngestion`, `StopProcessing`, `WaitIngestion`, `WaitProcessing`, `Shutdown`,
`Exit`, each of the waits also left when the budget has `Expired`. Its guards on
the callers are what the slots alone lack: a scheduler ticks between its `Run` and
its `Stop`; a startup run comes once and `Stop` does not wait for it; handlers run
until `Server.Shutdown`. `Signal` is also what the server does when it dies on its own
(`stop()`, `main.go:72`).

Time counts from the signal in units of five seconds: a detached write may take two
(10 s), the budget is six (30 s). `Tick` happens only when nothing but detached
writes is under way, and not past the timeout of one of them, since under a dead
context every other call returns at once.

### Nominatim

A caller is a goroutine in `Geocode`. `Lock` takes the mutex and computes the wait
under it, `Wake` and `GiveUp` are the two arms of the `select`, `Grant` writes
`lastCall` and unlocks; `Send` is the request, later. Time is discrete and passes
between any two steps; instants are ages capped at the interval, so nothing bounds
the length of a behaviour.

### GraphAnswers, Extraction, Configuration

Three decoders whose inputs come from outside. `GraphAnswers` has a world (token,
account, platform) that gives the HTTP answers the tables of `errors.go` and the
README describe, and is external; `VerifyToken` and `DiscoverMedia` decode them with
`decodeGraphError`, `classify` and the rules for an answer without the block asked
for. The properties compare the kind of the outcome with the trouble that caused it.
`path` is what the configuration puts into a URL. A request that cannot be built
(`~Builds`) is called permanent before any call is made, as `do` has it, and that is the
one case in which the kind names no culprit. A call without an answer is `ctx` or
transient, an answer that breaks off always transient (`NoAnswer`).
`Extraction` applies result lines to one post: a text is a sequence of tokens (fence,
language tag, line break, object, prose), a field a member of the classes the helpers
tell apart; a row that is there keeps its review status, whatever the new line says.
`Configuration` has an operator who edits the environment between starts;
`Read` is the `env*` helpers, `validate` the set of variables named in the refusal,
and `StartIngestion`/`StartProcessing` what the boot finds only after that.

## 3. Runs

| Run | Checks | Instance |
|---|---|---|
| `ingestion_safety` | types, `AlertsBounded`, `HealthyNeverPenalised`, `DeactivatedForCause`, `StreakIsActedOn`, `CountedOnce`, `NewPostsWereNew`, `FinishedRunIsHonest`, `RunEnds` | 3 accounts, 2 workers, 1 retry, threshold 2, 2 faults |
| `ingestion_liveness` | `RotationUnderAborts`, `DeadSourceRetired`, `HealthyLands` | 3 accounts under rate limits, 1 worker, 1 retry, 1 fault |
| `processing_safety` | types, `OnlyRacesGoStale`, `VenueFollowsCaption`, `PaidAgainOnlyForFaults`, `PolledBatchIsRecorded`, `CompletedRunAddsUp`, `StampFollowsEvent`, `ReviewKept`, `RunEnds`, `ReadablePostsDrain` | 2 posts, captions that move between 2 venues, limit 2, 3 edits, 1 fault |
| `slots` | `BothImplementRunSlot`, `OnlyFaultsLeaveRows`, `AcceptedRunIsSound`, `SlotsComeFree` (for callers and for the drain) | ingestion: a tick, a startup run, a blocking and a background trigger, the drain; processing: a tick, 2 clients, 2 rows, limits -1, 0, 3 and text with a cap of 2; 1 fault each |
| `lifecycle` | types, `ExitClosesRows`, `DrainFitsBudget`, `BothKeepTheirSlot`, `SignalEndsProcess` | a background trigger of ingestion; a tick, a startup run and a trigger of processing; 1 lost write |
| `edges` | types, `GrantsSpaced`, `Served`, `KindNamesTheCulprit`, `BadNodesCostThemselves`, `PublishedForCause`, `FencesChangeNothing`, `RowIsClean`, `ServesOnSoundConfig` | 2 geocoding callers, interval 3; every world and answers of up to 3 nodes, 2 unlisted codes; every text of up to 2 tokens, the fenced ones, and prose before, on and after the fence line, dates, lists and prices varied in turn; every check's boundary values, up to 3 variables changed |
| `ingestion_timeout` | violated: `TimedOutSourceRetired` | an account that only times out |
| `ingestion_cancelled` | violated: `SuccessMeansComplete` | 2 good accounts, one cancellation |
| `processing_lost_edit` | violated: `EditIsReprocessed` | an edit while a run holds the post |
| `processing_non_event` | violated: `NonEventHasNoRow` | an event edited into a non-event |
| `processing_slot_conflict` | violated: `ConflictNamesTheRun` | a trigger that loses before the winner stored its id |
| `lifecycle_manual_run` | violated: `ExitClosesManualRuns` | a signal between a trigger's row and its count |

What the passing runs show: with two workers, whatever the interleaving, abort or
lost write, only what a source's own calls answered is held against it
(`ingestion_safety`); the aborted tail of the list still gets its turn
(`ingestion_liveness`); an event goes stale only by the one race that is reported
below (`processing_safety`); both ways of guarding a run are the same slot
(`slots`); a shutdown loses no row but those of lost writes and of manual
processing runs, and never runs into its own budget, and while all this goes on the
two slots stay what they are alone (`lifecycle`); and what comes in from outside is taken for what it is (`edges`).

The last six state what the documentation or a comment says, without the excuse
the code needs; TLC's counterexamples show where the code departs from it. Each is
in `findings` of `PROJECT.json` with the quoted line.

Bounds, all of them constants. *Accounts:* three with two workers leave one waiting
for a slot while two interfere, the smallest case in which an abort finds workers
fetching, waiting and not started. *Retries:* 1 has a first and a last attempt, the
two cases the loop tells apart. *Threshold:* 2 has a streak below, at and, after a
lost deactivation, above it. *Faults:* crashes, cancellations and lost writes share
one budget over a whole behaviour; two let a lost deactivation meet a crash or a
lost sync. The number of runs is not bounded. *Posts:* two, one of them at times
unreadable, are what a limit of two has room for: one place for the post that blocks
and one for the post that must get through; *edits* count only upserts that change a
caption, three let a caption go away, come back and change once more. *Slots:*
callers return as often as they like; one of each kind and a second of one suffice
for a holder, a loser and a newcomer. *Rows:* two let a 409 name the run before.
`Lifecycle` bounds each caller to one call per process life and does not crash: what
a crash leaves is in the slot modules. Its passing run has one caller of each kind a
shutdown treats in its own way: background work behind a mutex, a tick that a stop
waits for, a startup run that it does not, a request whose handler the server waits
for; the ingestion tick is in the run of the manual trigger. The budget is six
units, three detached writes in a row; two runs with two such writes each, drained
one after the other, would not fit. *Interval:* three units have a wait of none,
part and all of it. *Changed variables:* three let a check that relates two
variables meet a third problem.

Fairness, in `FairSpec` only. `Start`: the cron keeps ticking. The run's steps and
each worker's: goroutines are scheduled, and every call ends, because the HTTP
client has a timeout and bookkeeping has its own 10 s context. Weak fairness is
enough there: each stays enabled until it happens. Nothing is assumed of ingestion
or the admin in `Processing`, of faults, of which answer a call gets, or of a batch
ever ending: what must come is the poll's deadline. `ReadablePostsDrain` and
the three properties of `ingestion_liveness` carry their own assumptions (fewer
unreadable posts than the limit, and not every batch outlasts its deadline,
`BatchesEnd`; for an account to be retired or landed, that not
every run meets a fatal error: `FatalKeepsComing`), without which they do not hold.
Strong fairness is assumed in three places, each for a step that others can disable
again and again: a goroutine that waits for a `sync.Mutex` is served although others
take it in between (Go's mutex hands itself over to a waiter after a millisecond:
`DrainLock`, `Lock` of `Nominatim`); a `WaitGroup` releases its waiters once it has
reached zero (`Idle`); and the pool of a run ends although its workers alternate
with their bookkeeping (`PoolDone`, which is `RunEnds` of `Ingestion`). Arrivals,
cancellations and faults are never fair; in `Lifecycle` the boot goes on and, with a
dead context, fails.

## 4. Proofs

Every theorem below holds for all values of the constants that satisfy the named
assumptions of its module. They are typing (finite sets, limits in `Nat`, a positive
worker count, threshold, interval and batch size), markers that are not values
(`NoOne`, `NoRow`, `NaN`), kinds of callers that do not overlap, and nothing about
how many there are. The one assumption with content is `PostLimit \in 1..MaxBatch`,
which `Configuration` checks of the code (`ServesOnSoundConfig`). Two theorems about
the shutdown have one more hypothesis in their statement, `2 * BookTimeout < Budget`:
the code has twice 10 s (`bookkeepingTimeout`) and 30 s (`shutdownCtx`).

| Module | Theorem | States |
|---|---|---|
| `Ingestion_proofs` | `TypeSafe`, `HealthySafe`, `CauseSafe`, `StreakSafe`, `CountSafe`, `AlertSafe`, `HonestSafe`, `NewSafe` | `TypeOK`, `HealthyNeverPenalised`, `DeactivatedForCause`, `StreakIsActedOn`, `CountedOnce`, `AlertsBounded`, `FinishedRunIsHonest`, `NewPostsWereNew` |
| `Processing_proofs` | `TypeCorrect`, `VerdictSurvives`, `StampComesLast`, `StaleOnlyByRace`, `BatchIsRecorded`, `CompletedRunsAddUp`, `VenueIsPaidAgainOnlyForFaults`, `VenueIsTheCaptions` | `TypeOK`, `ReviewKept`, `StampFollowsEvent`, `OnlyRacesGoStale`, `PolledBatchIsRecorded`, `CompletedRunAddsUp`, `PaidAgainOnlyForFaults`, `VenueFollowsCaption` |
| `RunSlot` | `RowsAreLostToFaults`, `OneIsLetIn` | `LostToFaults`, `OneHolder` |
| `IngestionSlot_proofs` | `NeverTwoPasses`, `MutexIsOneSlot`, `OnlyFaultsLeaveARow` | one pass behind the mutex, none while the drain has it; `ImplementsRunSlot`; `StuckRowsAreFaults` |
| `ProcessingSlot_proofs` | `NeverTwoPasses`, `AcceptedRunIsReal`, `FlagIsOneSlot`, `OnlyFaultsLeaveARow` | one pass behind the flag, counted in the wait group; `AcceptedRunIsSound`; `ImplementsRunSlot`; `StuckRowsAreFaults` |
| `Slots_proofs` | `OnlyFaultsLeaveOpenRows`, `SlotsImplementRunSlot` | `OnlyFaultsLeaveRows` and `BothImplementRunSlot`, as the run `slots` checks them |
| `Lifecycle_proofs` | `TypeCorrect`, `DrainIsInTime`, `ExitIsClean`, `BothSlotsAreKept` | `TypeOK`, `DrainFitsBudget`, `ExitClosesRows`, `BothKeepTheirSlot` |
| `Edges_proofs` | `EdgesTyped`, `GrantsAreSpaced`, `BlameIsRight`, `BadNodesCostNoMore`, `BootIsSound`, `PublishedOnlyForCause`, `RowsAreClean`, `FencesMeanNothing` | `EdgeTypes`, `GrantsSpaced`, `KindNamesTheCulprit`, `BadNodesCostThemselves`, `ServesOnSoundConfig`, `PublishedForCause`, `RowIsClean`, `FencesChangeNothing` |
| | `ListIsClean` | a list of any length is kept without repeats and empty words, and loses nothing else |

### Ingestion

`TypeOK` alone is not inductive: `Retry` adds one to `attempt`, so
`RetryBound` says that a backoff is only entered with retries left. `RunShape` ties
the run's variables together (outside the pool nothing is listed, counted or
running; a listed source is pending or has a worker; a worker at work has an active
source) and is proved once. Lemmas `WorkerEffect` and `SourceEffect` reduce the
nineteen worker actions to what the invariants can see: a worker moves, counts,
skips, alerts or aborts; its row is kept, reset, charged or retired. `RunFrame` and
`RunQuiet` do the same for the run's own steps. Each safety property then has an
inductive invariant of its own over these effects:

- `HealthyInv`: a healthy source is never in a phase that leads to a charge.
- `CauseInv`: the reason of a deactivation is there before the write.
- `CountInv`: counted plus uncounted workers equal the sources taken from the list,
  as long as the context lives.
- `AlertInv`: before the cancel, every alert is a worker that still holds its slot;
  after it, alerts raised plus workers that may still raise one fit the pool. The
  bound would fail if a worker gave its slot back before it cancelled.
- `LandInv`: what is gone from a landing worker's todo is in the table, and so is the
  whole answer of a source whose worker returned in a live run without failures. It
  fails as soon as a worker may return from the middle of its upserts uncounted.
- `NewInv`: the new posts counted so far, and those that workers have inserted but not
  counted, are together no more than what the run has added to the table; no post is
  new to two workers.

### Processing

`TypeOK` needs to know what the run has in hand: `HeldIsLeft` (held posts are those
not applied), `InHand` (the current result is one the model made of the submitted
caption) and `EventStored` (past the upsert, the event from that caption is stored).
`EventStored` is `StampFollowsEvent` one step early. The others rest on these:

- `HeldIsPending`: a held post is not processed, and is in `raced` once its caption
  is no longer the one read. Needed because the stamp of `OnlyRacesGoStale` falls
  long after the edit that makes it stale.
- `Tally`: from the submission on, submitted = succeeded + failed + not yet applied.
- `PaidInv`: a name paid for once more than there were faults has its row, or is about
  to get it under a live context (`Owed`). A lost insert or a cancellation takes that
  away, and brings the fault that allows the next payment (`NothingPaid`).
- `OnlyCurrentUnsettled`: without faults, only the event being resolved may lack the
  venue its caption names. It also says that the context then lives, as no venue is
  skipped under a live one.

### Slots

In `IngestionSlot` the invariant is `Owner` (the mutex is held by the one call in a
slot stage, or by the drain) and `RowOfHolder`. In `ProcessingSlot` the flag is not
enough, since the row is found by its id: `OwnRow` (no two calls have the same id and
the row of a call about to close is open), `Serial` (ids are handed out in order, so
that `NextId` is new), `CountedIn` (who is in the wait group) and `Answered` (a 202
names the caller's own run). With them each concrete step is one abstract step
or a stutter. `Orphans` needs most care: a row becomes nobody's exactly when its write
is lost, by a fault, which is where `Abandon` is charged. `StuckRowsAreFaults` then
follows from `RunSlot`'s `RowsAreLostToFaults` through the refinement, not from the
service's own invariant: what the abstract slot promises, both services keep.

`Slots_proofs` shows that a behaviour of the composition is one of each slot (`slot`
selects who moves) and carries the theorems over.

### Lifecycle

Both slot invariants hold in the composition, since a step of one side only adds
faults or a dead context to the other; `SameIngestion` and `SameProcessing` identify
the instances of the slot modules with those of their proof modules, and
`IngestionEffect` and `ProcessingEffect` reduce the steps of a call to the stage it
moves to. On top of them, in `LifeInv`:

- `Asked`: how far `main` is says which drains were asked for.
- `Quiet`: a drain that found its service idle finds it so for ever, as nothing opens a
  row under a dead context. For processing this is where `CountedIn` is needed: the
  wait group at zero must mean that no scheduled run is about to close a row.
- `InTime`: once time passes, only detached writes are under way, each with its
  deadline: one timeout for processing, two for ingestion.
- `TimeWaitsForWrites`: whatever `main` waits for is such a write or due at once, so
  that time never passes 2 * `BookTimeout`, which is `DrainFitsBudget`.

`ExitClosesRows` then needs `Waited`: each wait was left because its drain was idle and
not because the budget had run out. With a budget of only two timeouts it could be
left either way, so the hypothesis is what the ordering in `main()` rests on.

`BothSlotsAreKept` is the refinement of the composition: each service, among the other
and under the signal, implements `RunSlot`. A step of a service is a step of its slot
module, whose step theorem applies (`RefinesStep`). What is new is the step of the other
one: it leaves this slot alone but may spend one of the shared faults, and that is
`RunSlot`'s `Fail`, a fault without effect (`IngestionUndisturbed`,
`ProcessingUndisturbed`). A step of `main` is a stutter of both slots.

### Edges

`EachByItself` does the same for the four parts of `MCEdges`. `GrantsSpaced` rests on
`Paced`: who sleeps has at least the rest of the interval on its timer, and who is
awake has slept all of it; nobody else resets the clock as the sleeper has the mutex.
`KindNamesTheCulprit` is a case split over the tables of codes and statuses, with the
count of nodes unbounded, for every request that could be built. `ConfigInv` says that
every stage past the refusal has a configuration that `validate` found nothing wrong with, and its lemmas follow each
check of `validate` to the fact it stands for, over every value that can be set.
`ReviewInv` ties the review status to the event it belongs to, so that
`PublishedForCause` can be read off the one step that inserts a row.

`RowIsClean`, `BadNodesCostThemselves`, `FencesChangeNothing` and `EdgeTypes` are about
loops over lists and texts of any length. The library's induction takes an operator as
a parameter and cannot be used, so the induction is over a set: `NatByStep` says that a
set of naturals with 0 in it and, with each, the next, is all of them, and follows from
the well-foundedness of `<`. The sets are "the lengths up to which the loop does what it
should":

- `FoldRuns`: a fold over a list is the last of a series of intermediate results, each
  made from the one before by the loop's body (`Runs`). `FirstOfEach` and `Kept` are such
  folds; `ListIsClean` (by way of `Cleaned`, the invariant of the loop of
  `validateCategories` and `cleanTags`) and `BadNodesCostNoMore` are inductions over the
  series.
- `RowsAreClean` then needs of the rest of a row only that each column is made by its
  helper (`CleanRow`), whether it is inserted or updates an older one.
- `FencesMeanNothing` never looks at a token of its own choice: a text that
  `stripCodeFence` has worked on is a stretch of the original, moved by an offset the
  proof can name (`Part`), and so is what `IsJson` looks for.
- `EdgesTyped` puts the type invariants of the four parts together.

### What proving changed

Proving found one property that said something false. `FencesChangeNothing` used to
say that prose anywhere beside an object makes the answer unreadable, and TLC agreed on
the texts it was given. There is no proof, since `stripCodeFence` (`claude.go:242-245`)
drops the whole rest of the opening fence line, prose included, and the object below is
read: a text of five tokens shows it. The property now excludes that line and no other,
and the run has such texts.

Elsewhere proving made the models say what they had left implicit, without a change
in what they allow: overlapping arms of a `CASE` in `GraphAnswers`, which TLA+ leaves
undefined, are guarded apart; `Configuration` says in its assumption that counts and
durations are integers and which variable has which type; `Extraction` has ids and tags
as sets; `Processing` that `NoEvent` is not an event; `Lifecycle` that its callers are
of one kind each, which its slots assume.

### Only model-checked

- Liveness (`RunEnds`, `RotationUnderAborts`, `DeadSourceRetired`, `HealthyLands`,
  `ReadablePostsDrain`, `SlotsComeFree`, `Served`, `SignalEndsProcess`):
  fairness and ENABLED are beyond the prover.
- The six violated statements: a counterexample is their proof.

## 5. What the models show of the code

Beyond the properties that hold, six statements of the documentation do not; a run
shows each:

- a source that always times out is never charged and never retired;
- a run cancelled before it reached all sources closes as a success;
- an edit that lands while a batch is out is stamped with the old event;
- a post edited from an event into a non-event keeps its event row;
- a 409 of the processing trigger may name the previous run, or 0;
- a manual processing run in the gap before `inFlight.Add` is not waited for by the
  shutdown and keeps its row on `submitted`.

Two more are the exceptions that two properties carry, without which TLC finds them
violated:

- an `IG_USER_ID` no URL can hold passes the configuration and the token check; every
  account is then called permanently broken (`~Builds` in `KindNamesTheCulprit`), which
  retires the whitelist in one run;
- an event that was published at high confidence stays on the calendar when it is
  extracted again at low confidence or with an unreadable start date
  (`PublishedForCause` speaks of rows that become published).

The models also have, without a property that forbids it: a caption that is emptied
leaves its event in place; a trigger during the drain is refused as if a run were in
progress; a blocking trigger whose list of sources fails is answered 500 although its
run row is closed as failed; a geocoding caller that is late with its request is
followed by the next one sooner than the interval; an unreadable end date costs no
confidence; numbers, flags and durations that do not parse become their fallback in
silence; a processing schedule that does not parse ends a boot that has already
started an ingestion run, whose row stays open; a `MarkSynced` that is lost leaves the old streak of a source that answered,
and its next failure may retire it; posts inserted before
an upsert that fails are counted nowhere; and a geocode whose insert is lost is paid
for once more, one payment per fault (`PaidAgainOnlyForFaults`).

## 6. Not modelled

- Health endpoint, logging, error wrapping: one read or none, no state, and nothing
  in the service acts on them.
- `GetRun` and `igsource.GetByUsername`: plain reads. That the id of a 202 can be read
  at once is `AcceptedRunIsSound`.
- The webhook's HTTP call: a lost alert is logged and changes nothing; that an alert
  is raised, and how often, is in `Ingestion`.
- Routing and the key comparison: whether a request passes is a choice (`Reject`).
- The wording of prompts, alerts and summaries; which columns a row has beyond those
  a property reads; the schema and its migrations, which another repository owns.
- Two replicas: the code excludes them by a comment (`processing.service.go:41`).

## 7. Plan

All parts of the plan are modelled; every invariant and every refinement a run checks
is proved, and only liveness rests on TLC. What could still be added:

1. The steps that liveness rests on, as action properties: that no step disables a
   weakly fair one but by taking it.
2. Re-activation of a source by hand, which keeps its old streak
   (`igsource.repository.go:129`), as an environment step of `Ingestion`.

An abstract queue of posts above `Processing` was considered and left out: pending,
processed, and stale only by a race is what `StampFollowsEvent` and `OnlyRacesGoStale`
already say of its own state.
