----------------------------- MODULE Ingestion -----------------------------
(***************************************************************************)
(* One ingestion pass after another, as internal/services/ingestion runs   *)
(* them against the database: run() opens an ingestion_runs row, lists the *)
(* active sources, drives a bounded pool of workers over them, and closes  *)
(* the row.  A worker fetches one account with retries, lands its posts    *)
(* one by one, and writes the bookkeeping of the source.                   *)
(*                                                                         *)
(* Runs never overlap (the mutex of Service.Run and Service.TriggerAsync), *)
(* so there is one set of run variables.  A database call is one step: it  *)
(* commits, or it fails and may have committed all the same.               *)
(***************************************************************************)
EXTENDS Naturals, FiniteSets

CONSTANTS
  Source,                   \* rows of ig_sources
  Post,                     \* Instagram media ids
  Media,                    \* Media[s]: the posts a good answer for s carries
  Answers,                  \* Answers[s]: how a call for s may end
  WorkerConcurrency,        \* cfg.IngestionCron.WorkerConcurrency
  MaxRetries,               \* maxRetries
  AutoDeactivateThreshold,  \* autoDeactivateThreshold
  MaxFaults                 \* bound on crashes, cancellations, lost DB writes

(* The ways a call can end: posts; a permanent, fatal or transient          *)
(* APIError; a transient APIError that wraps the http client's own timeout. *)
(* "dberror" is not an answer: it lets an upsert of s's posts fail.         *)
AnswerKind == {"media", "permanent", "fatal", "transient", "timeout", "dberror"}

ASSUME SourceAssumption == IsFiniteSet(Source)
ASSUME MediaAssumption == Media \in [Source -> SUBSET Post] /\ IsFiniteSet(Post)
ASSUME AnswersAssumption == Answers \in [Source -> SUBSET AnswerKind]
ASSUME LimitsAssumption ==
  /\ WorkerConcurrency \in Nat \ {0}
  /\ MaxRetries \in Nat
  /\ AutoDeactivateThreshold \in Nat \ {0}
  /\ MaxFaults \in Nat

VARIABLES
  (* The database. *)
  active,     \* sources with is_active = true
  failures,   \* consecutive_failures of each source
  older,      \* <<a, b>>: last_synced_at of a sorts strictly before b's
  landed,     \* posts with a row in ig_raw_posts
  row,        \* the newest row of ingestion_runs
  (* The run in progress. *)
  pc,         \* where run() and processSources() are
  ctxDone,    \* the caller's context is cancelled or past its deadline
  listed,     \* what ListActive returned
  pending,    \* listed sources the loop has not reached yet
  fatalErr,   \* a fatal error is recorded and the pool cancelled
  counters,   \* runCounters
  alerts,     \* calls of alertFatal in this run
  before,     \* history: the posts landed when the run started
  (* The workers. *)
  phase, attempt, todo, fresh,
  faults      \* faults spent so far

dbVars == <<active, failures, older, landed>>
runVars == <<pc, ctxDone, listed, pending, before>>
poolVars == <<fatalErr, counters, alerts>>
workerVars == <<phase, attempt, todo, fresh>>
vars == <<dbVars, row, runVars, poolVars, workerVars, faults>>

NoCounters == [ok |-> 0, failed |-> 0, new |-> 0, updated |-> 0]

Phase == {"none", "ready", "calling", "backoff", "landing", "marking",
          "deactivating", "alerting", "aborting", "done"}

Counter == [ok : Nat, failed : Nat, new : Nat, updated : Nat]
Row == [status : {"none", "running", "success", "partial", "failed"},
        total : Nat, count : Counter]

TypeOK ==
  /\ active \in SUBSET Source
  /\ failures \in [Source -> Nat]
  /\ older \in SUBSET (Source \X Source)
  /\ landed \in SUBSET Post
  /\ row \in Row
  /\ pc \in {"idle", "create", "list", "loop", "acquire", "wait", "listfailed"}
  /\ ctxDone \in BOOLEAN
  /\ listed \in SUBSET Source
  /\ pending \in SUBSET Source
  /\ fatalErr \in BOOLEAN
  /\ counters \in Counter
  /\ alerts \in Nat
  /\ before \in SUBSET Post
  /\ phase \in [Source -> Phase]
  /\ attempt \in [Source -> 0..(MaxRetries + 1)]
  /\ todo \in [Source -> SUBSET Post]
  /\ fresh \in [Source -> SUBSET Post]
  /\ faults \in 0..MaxFaults

Init ==
  /\ active = Source
  /\ failures = [s \in Source |-> 0]
  /\ older = {}
  /\ landed = {}
  /\ row = [status |-> "none", total |-> 0, count |-> NoCounters]
  /\ pc = "idle"
  /\ ctxDone = FALSE
  /\ listed = {}
  /\ pending = {}
  /\ fatalErr = FALSE
  /\ counters = NoCounters
  /\ alerts = 0
  /\ before = {}
  /\ phase = [s \in Source |-> "none"]
  /\ attempt = [s \in Source |-> 0]
  /\ todo = [s \in Source |-> {}]
  /\ fresh = [s \in Source |-> {}]
  /\ faults = 0

-----------------------------------------------------------------------------
(* Helpers.                                                                *)

(* runCtx is derived from the caller's context and cancelled by cancel().  *)
RunCtxDone == ctxDone \/ fatalErr

(* Workers holding a slot of the semaphore.  A slot is taken before the    *)
(* goroutine starts and given back after a fatal error cancelled the pool. *)
SlotsReleasedEarly == {s \in Source : phase[s] \notin {"none", "done", "alerting", "aborting"}}
SlotsNeverFreed == {s \in Source : phase[s] # "none"}
Slots == {s \in Source : phase[s] \notin {"none", "done"}}

(* ListActive sorts by last_synced_at NULLS FIRST; ties are unordered.     *)
NextAnyOrder(s) == s \in pending
NextInOrder(s) == s \in pending /\ \A t \in pending : <<t, s>> \notin older

(* The `xmax = 0` of the upsert.                                           *)
AlwaysInserted(p) == TRUE
Inserted(p) == p \notin landed

Fault == faults < MaxFaults /\ faults' = faults + 1

(* The worker returns: its locals are gone and its slot is free.           *)
Return(s) ==
  /\ phase' = [phase EXCEPT ![s] = "done"]
  /\ attempt' = [attempt EXCEPT ![s] = 0]
  /\ todo' = [todo EXCEPT ![s] = {}]
  /\ fresh' = [fresh EXCEPT ![s] = {}]

Goto(s, ph) ==
  /\ phase' = [phase EXCEPT ![s] = ph]
  /\ UNCHANGED <<attempt, todo, fresh>>

(* counters.addFailure and counters.addSuccess.                            *)
AddFailure == counters' = [counters EXCEPT !.failed = @ + 1]
AddSuccess(n, u) ==
  counters' = [ok |-> counters.ok + 1, failed |-> counters.failed,
               new |-> counters.new + n, updated |-> counters.updated + u]

ResolveStatus(total, failed, fatal) ==
  CASE fatal -> "failed"
    [] ~fatal /\ (total = 0 \/ failed = 0) -> "success"
    [] ~fatal /\ total # 0 /\ failed # 0 /\ failed = total -> "failed"
    [] OTHER -> "partial"

-----------------------------------------------------------------------------
(* run(): the row, the list, the loop, the close.                          *)

(* Run or TriggerAsync takes the slot: a cron tick, the startup run, or a  *)
(* manual trigger.                                                         *)
Start ==
  /\ pc = "idle"
  /\ pc' = "create"
  /\ before' = landed
  /\ UNCHANGED <<dbVars, row, ctxDone, listed, pending, poolVars, workerVars, faults>>

(* The run returns, or dies with its process: its locals are gone and the  *)
(* slot is free.                                                           *)
RunReturns ==
  /\ pc' = "idle"
  /\ ctxDone' = FALSE
  /\ listed' = {} /\ pending' = {} /\ before' = {}
  /\ fatalErr' = FALSE /\ counters' = NoCounters /\ alerts' = 0
  /\ phase' = [s \in Source |-> "none"]
  /\ attempt' = [s \in Source |-> 0]
  /\ todo' = [s \in Source |-> {}]
  /\ fresh' = [s \in Source |-> {}]

RunningRow == [status |-> "running", total |-> 0, count |-> NoCounters]

Create ==
  /\ pc = "create" /\ ~ctxDone
  /\ row' = RunningRow
  /\ pc' = "list"
  /\ UNCHANGED <<dbVars, ctxDone, listed, pending, before, poolVars, workerVars, faults>>

(* The insert may have committed although the caller saw an error: the     *)
(* run is given up and nobody closes that row.                             *)
CreateFails ==
  /\ pc = "create"
  /\ (ctxDone /\ UNCHANGED faults) \/ Fault
  /\ row' \in {row, RunningRow}
  /\ RunReturns
  /\ UNCHANGED dbVars

ListActive ==
  /\ pc = "list" /\ ~ctxDone
  /\ listed' = active /\ pending' = active
  /\ pc' = IF active = {} THEN "wait" ELSE "loop"
  /\ UNCHANGED <<dbVars, row, ctxDone, before, poolVars, workerVars, faults>>

ListFails ==
  /\ pc = "list"
  /\ (ctxDone /\ UNCHANGED faults) \/ Fault
  /\ pc' = "listfailed"
  /\ UNCHANGED <<dbVars, row, ctxDone, listed, pending, before, poolVars, workerVars>>

(* The head of the loop: a dead runCtx skips every source not yet started, *)
(* otherwise the loop goes on to wait for a slot.                          *)
LoopHead ==
  /\ pc = "loop"
  /\ pc' = IF RunCtxDone THEN "wait" ELSE "acquire"
  /\ UNCHANGED <<dbVars, row, ctxDone, listed, pending, before, poolVars, workerVars, faults>>

Spawn(s) ==
  /\ pc = "acquire"
  /\ NextInOrder(s)
  /\ Cardinality(Slots) < WorkerConcurrency
  /\ Goto(s, "ready")
  /\ pending' = pending \ {s}
  /\ pc' = IF pending' = {} THEN "wait" ELSE "loop"
  /\ UNCHANGED <<dbVars, row, ctxDone, listed, before, poolVars, faults>>

(* wg.Wait returns, and finishRun closes the row on a detached context.    *)
Closed ==
  [status |-> IF pc = "listfailed" THEN "failed"
              ELSE ResolveStatus(Cardinality(listed), counters.failed, fatalErr),
   total |-> Cardinality(listed),
   count |-> counters]

WaitDone == pc = "listfailed" \/ (pc = "wait" /\ Slots = {})

FinishRun ==
  /\ WaitDone
  /\ row' = Closed
  /\ RunReturns
  /\ UNCHANGED <<dbVars, faults>>

(* A failed close is only logged.                                          *)
FinishFails ==
  /\ WaitDone
  /\ Fault
  /\ row' \in {row, Closed}
  /\ RunReturns
  /\ UNCHANGED dbVars

-----------------------------------------------------------------------------
(* One worker: the goroutine of processSources, processSource,             *)
(* discoverWithRetry and handleSourceError for source s.                   *)

(* The worker looks at runCtx again once it has its slot.  A worker that   *)
(* finds it dead returns without counting the source.                      *)
Begin(s) ==
  /\ phase[s] = "ready"
  /\ ~RunCtxDone
  /\ phase' = [phase EXCEPT ![s] = "calling"]
  /\ attempt' = [attempt EXCEPT ![s] = 1]
  /\ UNCHANGED <<dbVars, row, runVars, poolVars, todo, fresh, faults>>

Skip(s) ==
  /\ phase[s] = "ready"
  /\ RunCtxDone
  /\ Return(s)
  /\ UNCHANGED <<dbVars, row, runVars, poolVars, faults>>

FetchMedia(s) ==
  /\ phase[s] = "calling"
  /\ "media" \in Answers[s]
  /\ phase' = [phase EXCEPT ![s] = "landing"]
  /\ todo' = [todo EXCEPT ![s] = Media[s]]
  /\ UNCHANGED <<dbVars, row, runVars, poolVars, attempt, fresh, faults>>

(* A transient answer earns a backoff while retries are left.  After the   *)
(* last attempt a plain transient error is charged to the source; one that *)
(* wraps the client's timeout also satisfies Is(DeadlineExceeded), so the  *)
(* abort branch of handleSourceError takes it: counted, never charged.     *)
Charged(kind) == kind = "transient"
RetriesLeftOffByOne(s) == attempt[s] <= MaxRetries + 1
RetriesLeft(s) == attempt[s] <= MaxRetries

FetchTransient(s) ==
  \E kind \in Answers[s] \cap {"transient", "timeout"} :
    /\ phase[s] = "calling"
    /\ IF RetriesLeft(s)
         THEN Goto(s, "backoff") /\ UNCHANGED counters
         ELSE IF Charged(kind)
           THEN Goto(s, "marking") /\ UNCHANGED counters
           ELSE Return(s) /\ AddFailure
    /\ UNCHANGED <<dbVars, row, runVars, fatalErr, alerts, faults>>

Retry(s) ==
  /\ phase[s] = "backoff"
  /\ ~RunCtxDone
  /\ phase' = [phase EXCEPT ![s] = "calling"]
  /\ attempt' = [attempt EXCEPT ![s] = @ + 1]
  /\ UNCHANGED <<dbVars, row, runVars, poolVars, todo, fresh, faults>>

(* The abort branch: a call, a backoff or an upsert cut short by a dead    *)
(* runCtx.  The source counts as failed, its streak is left alone.         *)
CutShortIsCharged(s) ==
  /\ phase[s] \in {"calling", "backoff"}
  /\ RunCtxDone
  /\ Goto(s, "marking")
  /\ UNCHANGED <<dbVars, row, runVars, poolVars, faults>>

CutShort(s) ==
  /\ phase[s] \in {"calling", "backoff"}
  /\ RunCtxDone
  /\ Return(s)
  /\ AddFailure
  /\ UNCHANGED <<dbVars, row, runVars, fatalErr, alerts, faults>>

(* A fatal answer counts the source, pages a human, and only then cancels  *)
(* the pool; the worker keeps its slot throughout.                         *)
FatalIsPermanent(s) ==
  /\ phase[s] = "calling"
  /\ "fatal" \in Answers[s]
  /\ Goto(s, "deactivating")
  /\ UNCHANGED <<dbVars, row, runVars, poolVars, faults>>

FetchFatal(s) ==
  /\ phase[s] = "calling"
  /\ "fatal" \in Answers[s]
  /\ Goto(s, "alerting")
  /\ AddFailure
  /\ UNCHANGED <<dbVars, row, runVars, fatalErr, alerts, faults>>

AlertFatal(s) ==
  /\ phase[s] = "alerting"
  /\ Goto(s, "aborting")
  /\ alerts' = alerts + 1
  /\ UNCHANGED <<dbVars, row, runVars, fatalErr, counters, faults>>

Abort(s) ==
  /\ phase[s] = "aborting"
  /\ Return(s)
  /\ fatalErr' = TRUE
  /\ UNCHANGED <<dbVars, row, runVars, counters, alerts, faults>>

FetchPermanent(s) ==
  /\ phase[s] = "calling"
  /\ "permanent" \in Answers[s]
  /\ Goto(s, "deactivating")
  /\ UNCHANGED <<dbVars, row, runVars, poolVars, faults>>

(* Upsert runs on runCtx, one post after the other.                        *)
Upsert(s, p) ==
  /\ phase[s] = "landing"
  /\ p \in todo[s]
  /\ ~RunCtxDone
  /\ todo' = [todo EXCEPT ![s] = @ \ {p}]
  /\ fresh' = [fresh EXCEPT ![s] = IF Inserted(p) THEN @ \cup {p} ELSE @]
  /\ landed' = landed \cup {p}
  /\ UNCHANGED <<active, failures, older, row, runVars, poolVars, phase, attempt, faults>>

UpsertCutShort(s, p) ==
  /\ phase[s] = "landing"
  /\ p \in todo[s]
  /\ RunCtxDone
  /\ landed' \in {landed, landed \cup {p}}
  /\ Return(s)
  /\ AddFailure
  /\ UNCHANGED <<active, failures, older, row, runVars, fatalErr, alerts, faults>>

(* A database error is charged to the source like a transient one.         *)
UpsertFails(s, p) ==
  /\ phase[s] = "landing"
  /\ p \in todo[s]
  /\ "dberror" \in Answers[s]
  /\ landed' \in {landed, landed \cup {p}}
  /\ Goto(s, "marking")
  /\ UNCHANGED <<active, failures, older, row, runVars, poolVars, faults>>

(* Everything landed: MarkSynced on a detached context, then addSuccess.   *)
(* posts_updated are the posts of the answer that were not inserted.       *)
LandedInPart(s) == phase[s] = "landing"

Landed(s) ==
  /\ phase[s] = "landing"
  /\ todo[s] = {}

Synced(s) ==
  /\ failures' = [failures EXCEPT ![s] = 0]
  /\ older' = {e \in older : e[1] # s} \cup ((Source \ {s}) \X {s})

CountSuccess(s) ==
  /\ AddSuccess(Cardinality(fresh[s]), Cardinality(Media[s] \ fresh[s]))
  /\ Return(s)
  /\ UNCHANGED <<active, landed, row, runVars, fatalErr, alerts>>

MarkSynced(s) ==
  /\ Landed(s)
  /\ Synced(s)
  /\ CountSuccess(s)
  /\ UNCHANGED faults

(* A failed MarkSynced is only logged; the source still counts as ok.      *)
MarkSyncedFails(s) ==
  /\ Landed(s)
  /\ Fault
  /\ Synced(s) \/ UNCHANGED <<failures, older>>
  /\ CountSuccess(s)

(* MarkFailed returns the new streak, on which the worker decides.         *)
OverThreshold(n) == n > AutoDeactivateThreshold
Deactivates(n) == n >= AutoDeactivateThreshold

MarkFailedForgets(s) ==
  /\ phase[s] = "marking"
  /\ failures' = [failures EXCEPT ![s] = 1]
  /\ IF Deactivates(1)
       THEN Goto(s, "deactivating") /\ UNCHANGED counters
       ELSE Return(s) /\ AddFailure
  /\ UNCHANGED <<active, older, landed, row, runVars, fatalErr, alerts, faults>>

MarkFailed(s) ==
  /\ phase[s] = "marking"
  /\ failures' = [failures EXCEPT ![s] = @ + 1]
  /\ IF Deactivates(failures[s] + 1)
       THEN Goto(s, "deactivating") /\ UNCHANGED counters
       ELSE Return(s) /\ AddFailure
  /\ UNCHANGED <<active, older, landed, row, runVars, fatalErr, alerts, faults>>

MarkFailedNotCounted(s) ==
  /\ phase[s] = "marking"
  /\ Fault
  /\ Return(s)
  /\ UNCHANGED <<dbVars, row, runVars, poolVars>>

MarkFailedFails(s) ==
  /\ phase[s] = "marking"
  /\ Fault
  /\ failures' \in {failures, [failures EXCEPT ![s] = @ + 1]}
  /\ Return(s)
  /\ AddFailure
  /\ UNCHANGED <<active, older, landed, row, runVars, fatalErr, alerts>>

Deactivate(s) ==
  /\ phase[s] = "deactivating"
  /\ active' = active \ {s}
  /\ Return(s)
  /\ AddFailure
  /\ UNCHANGED <<failures, older, landed, row, runVars, fatalErr, alerts, faults>>

DeactivateFails(s) ==
  /\ phase[s] = "deactivating"
  /\ Fault
  /\ active' \in {active, active \ {s}}
  /\ Return(s)
  /\ AddFailure
  /\ UNCHANGED <<failures, older, landed, row, runVars, fatalErr, alerts>>

-----------------------------------------------------------------------------
(* The environment.                                                        *)

(* The caller's context ends: a shutdown signal or the 15 minutes a        *)
(* synchronous trigger gets.                                               *)
Cancel ==
  /\ pc # "idle" /\ ~ctxDone
  /\ Fault
  /\ ctxDone' = TRUE
  /\ UNCHANGED <<dbVars, row, pc, listed, pending, before, poolVars, workerVars>>

(* The process dies and restarts: only the database survives.              *)
Crash ==
  /\ pc # "idle"
  /\ Fault
  /\ RunReturns
  /\ UNCHANGED <<dbVars, row>>

-----------------------------------------------------------------------------
RunStep ==
  \/ Create \/ CreateFails
  \/ ListActive \/ ListFails
  \/ LoopHead
  \/ \E s \in Source : Spawn(s)
  \/ FinishRun \/ FinishFails

WorkerStep(s) ==
  \/ Begin(s) \/ Skip(s)
  \/ FetchMedia(s) \/ FetchTransient(s) \/ FetchFatal(s) \/ FetchPermanent(s)
  \/ Retry(s) \/ CutShort(s)
  \/ AlertFatal(s) \/ Abort(s)
  \/ \E p \in Post : Upsert(s, p) \/ UpsertCutShort(s, p) \/ UpsertFails(s, p)
  \/ MarkSynced(s) \/ MarkSyncedFails(s)
  \/ MarkFailed(s) \/ MarkFailedFails(s)
  \/ Deactivate(s) \/ DeactivateFails(s)

Next ==
  \/ Start
  \/ RunStep
  \/ \E s \in Source : WorkerStep(s)
  \/ Cancel
  \/ Crash

Spec == Init /\ [][Next]_vars

(* The cron keeps ticking, goroutines are scheduled, and every call ends:  *)
(* the http client and the bookkeeping contexts have timeouts.             *)
Fairness ==
  /\ WF_vars(Start)
  /\ WF_vars(RunStep)
  /\ \A s \in Source : WF_vars(WorkerStep(s))

FairSpec == Spec /\ Fairness

-----------------------------------------------------------------------------
(* Safety.                                                                 *)

(* However many workers meet the same expired token at once, a run raises  *)
(* at most one alert per slot: alertFatal runs before cancel(), but a      *)
(* worker keeps its slot until it has cancelled the pool.                  *)
AlertsBounded == alerts <= WorkerConcurrency

(* A source whose own calls only ever bring posts or an error of our token *)
(* keeps a clean record, whatever its siblings, crashes, cancellations and *)
(* lost writes do: being cut short is no fault of the source.              *)
Healthy(s) == Answers[s] \subseteq {"media", "fatal"}
HealthyNeverPenalised ==
  \A s \in Source : Healthy(s) => s \in active /\ failures[s] = 0

(* A source leaves the rotation only because Instagram called it permanent *)
(* or because its recorded streak reached the threshold.                   *)
DeactivatedForCause ==
  \A s \in Source \ active :
    "permanent" \in Answers[s] \/ failures[s] >= AutoDeactivateThreshold

(* A source whose streak reached the threshold is out of rotation, or its  *)
(* worker is about to take it out, or a deactivation was lost to a fault.  *)
StreakIsActedOn ==
  faults = 0 =>
    \A s \in active :
      failures[s] >= AutoDeactivateThreshold => phase[s] = "deactivating"

(* No source is counted twice, and a run that was not cut short counts     *)
(* every listed source, on every error path of its worker.                 *)
CountedOnce ==
  /\ counters.ok + counters.failed <= Cardinality(listed \ pending)
  /\ pc = "wait" /\ Slots = {} /\ ~RunCtxDone =>
       counters.ok + counters.failed = Cardinality(listed)

(* posts_new never counts a post that was already in the table when the    *)
(* run started, nor one post twice: a second pass over the same media      *)
(* reports none.                                                           *)
NewPostsWereNew == counters.new <= Cardinality(landed \ before)

(* A run that closes as `success` without having been cut short has landed *)
(* every post of every source it listed, whatever failed on the way.       *)
FinishedRunIsHonest ==
  [][row'.status = "success" /\ row # row' /\ ~ctxDone =>
       \A s \in listed : Media[s] \subseteq landed]_vars

(* README.md:150: the status field of a finished run "says how it went".   *)
(* Read without the excuse of a cancelled context: `success` means that    *)
(* every listed source was ingested.                                       *)
SuccessMeansComplete == row.status = "success" => row.count.ok = row.total

-----------------------------------------------------------------------------
(* Liveness.                                                               *)

(* Every run ends, whatever its calls answer: no worker waits for a slot   *)
(* that is never given back.                                               *)
RunEnds == pc # "idle" ~> pc = "idle"

(* A fatal error that comes back for ever keeps aborting the runs.         *)
FatalKeepsComing == []<><<\E s \in Source : FetchFatal(s)>>_vars

(* A source that can only fail leaves the rotation in the end, even when   *)
(* some of its deactivations are lost, unless a fatal error keeps aborting *)
(* the runs.                                                               *)
Dead(s) == Answers[s] \subseteq {"transient", "permanent"}
DeadSourceRetired ==
  FatalKeepsComing \/ \A s \in Source : Dead(s) => <>[](s \notin active)

(* A source whose own calls bring posts gets them all into the table, next *)
(* to siblings that fail and in spite of a crash or a cancelled run, and   *)
(* also after any number of aborted runs once the token works again.       *)
HealthyLands ==
  FatalKeepsComing
    \/ \A s \in Source : Healthy(s) => <>(Media[s] \subseteq landed)

(* With one worker, runs aborted over and over by a fatal error still      *)
(* rotate: if any source keeps being synced, every healthy one is, because *)
(* a source not reached stays older than those that were.                  *)
RotationUnderAborts ==
  (\E s \in Source : []<><<MarkSynced(s)>>_vars) =>
    \A s \in Source : Healthy(s) => []<><<MarkSynced(s)>>_vars

(* README.md:196 counts timeouts as transient and README.md:205 promises   *)
(* that a source failing 5 runs in a row is auto-deactivated.              *)
TimedOutSourceRetired ==
  \A s \in Source : Answers[s] = {"timeout"} => <>(s \notin active)

=============================================================================
