--------------------------- MODULE ProcessingSlot --------------------------
(***************************************************************************)
(* Who may run a processing pass, and what callers are told about it.      *)
(* Ticks and startup runs (Job) call Service.Run; requests (Web) go        *)
(* through TriggerRun and TriggerAsync.  They compete for an atomic flag;  *)
(* the id of the run, the wait group the shutdown looks at and the row in  *)
(* processing_runs are written one after the other behind it, while other  *)
(* requests read them.  The pass itself, which the module Processing has   *)
(* in detail, is the single stage body.                                    *)
(***************************************************************************)
EXTENDS Integers, FiniteSets

CONSTANTS
  Job,          \* cron ticks and startup runs
  Web,          \* clients of the trigger endpoint
  NoOne,        \* the flag is down
  Limits,       \* what ?limit= may hold: numbers, and NaN for other text
  NaN,
  PostLimit,    \* cfg.LLM.PostLimit
  MaxBatch,     \* config.MaxBatchRequests
  MaxRuns,      \* bound on the rows of processing_runs
  MaxFaults     \* bound on crashes, failed and lost writes

Caller == Job \cup Web

ASSUME KindsAssumption == Job \cap Web = {} /\ NoOne \notin Caller
ASSUME LimitsAssumption ==
  /\ Limits \subseteq Int \cup {NaN} /\ NaN \notin Int
  /\ MaxBatch \in Nat \ {0}
  /\ PostLimit \in 1..MaxBatch
ASSUME BoundsAssumption == MaxRuns \in Nat /\ MaxFaults \in Nat

VARIABLES
  running,       \* Service.running: the caller whose swap won
  currentRunID,  \* Service.currentRunID
  inFlight,      \* Service.inFlight: the runs counted in
  stage,         \* where each call is
  run,           \* the id of the row each run has opened, 0 for none
  limit,         \* the limit each run was started with
  rows,          \* processing_runs: id -> submitted or closed
  answer,        \* what an HTTP caller was told: code and run id
  past,          \* history: the ids that were over when a swap was lost
  drain,         \* WaitIdle
  ctxDone,       \* the application context is cancelled
  faults         \* faults spent so far

memory == <<running, currentRunID, inFlight>>
calls == <<stage, run, limit, answer, past>>
vars == <<memory, calls, rows, drain, ctxDone, faults>>

Id == 1..MaxRuns
Held == {"add", "create", "opening", "storing", "launching", "aborting",
         "body", "finish", "finished", "lowering"}
Stage == Held \cup {"outside", "gone", "conflict", "refused", "rejected"}
Answer == [code : {0, 202, 400, 401, 409, 500}, run : Id \cup {0}]
Silent == [code |-> 0, run |-> 0]

TypeOK ==
  /\ running \in Caller \cup {NoOne}
  /\ currentRunID \in Id \cup {0}
  /\ inFlight \in SUBSET {c \in Caller : stage[c] \in Held}
  /\ stage \in [Caller -> Stage]
  /\ run \in [Caller -> Id \cup {0}]
  /\ limit \in [Caller -> Int]
  /\ rows \in [Id -> {"none", "submitted", "closed"}]
  /\ answer \in [Web -> Answer]
  /\ past \in [Web -> SUBSET (Id \cup {0})]
  /\ drain \in {"no", "waiting", "idle"}
  /\ ctxDone \in BOOLEAN
  /\ faults \in 0..MaxFaults

Init ==
  /\ running = NoOne
  /\ currentRunID = 0
  /\ inFlight = {}
  /\ stage = [c \in Caller |-> "outside"]
  /\ run = [c \in Caller |-> 0]
  /\ limit = [c \in Caller |-> 0]
  /\ rows = [i \in Id |-> "none"]
  /\ answer = [c \in Web |-> Silent]
  /\ past = [c \in Web |-> {}]
  /\ drain = "no"
  /\ ctxDone = FALSE
  /\ faults = 0

-----------------------------------------------------------------------------
Goto(c, s) == stage' = [stage EXCEPT ![c] = s]

Tell(c, code, id) == answer' = [answer EXCEPT ![c] = [code |-> code, run |-> id]]

Fault == faults < MaxFaults /\ faults' = faults + 1

CallFails == (ctxDone /\ UNCHANGED faults) \/ Fault

(* The serial of the table.                                                *)
NextId == CHOOSE i \in Id : rows[i] = "none" /\ \A j \in 1..(i - 1) : rows[j] # "none"
RoomForARun == \E i \in Id : rows[i] = "none"

(* Rows nobody will close: the insert's answer was lost, the closing write *)
(* failed, or the process died.                                            *)
Open == {i \in Id : rows[i] = "submitted"}
Closing == {"storing", "launching", "body", "finish"}
Orphans == {i \in Open : \A c \in Caller : run[c] = i => stage[c] \notin Closing}

-----------------------------------------------------------------------------
(* Service.Run: the cron and the startup run.                              *)

RunSwap(c) ==
  /\ c \in Job
  /\ stage[c] = "outside"
  /\ running = NoOne /\ RoomForARun
  /\ running' = c
  /\ Goto(c, "add")
  /\ limit' = [limit EXCEPT ![c] = PostLimit]
  /\ UNCHANGED <<currentRunID, inFlight, run, answer, past, rows, drain, ctxDone, faults>>

(* A run in progress: the tick is skipped.                                 *)
RunSkipped(c) ==
  /\ c \in Job
  /\ stage[c] = "outside"
  /\ running # NoOne
  /\ Goto(c, "refused")
  /\ UNCHANGED <<memory, run, limit, answer, past, rows, drain, ctxDone, faults>>

RunAdd(c) ==
  /\ stage[c] = "add"
  /\ inFlight' = inFlight \cup {c}
  /\ Goto(c, "create")
  /\ UNCHANGED <<running, currentRunID, run, limit, answer, past, rows, drain, ctxDone, faults>>

-----------------------------------------------------------------------------
(* TriggerAsync.  0 or nothing means the configured limit.                 *)

Effective(l) == IF l = 0 THEN PostLimit ELSE l
Invalid(l) == IF l = NaN THEN TRUE ELSE l < 0 \/ l > MaxBatch

(* A wrong or missing x-api-key, or a limit that parseLimit or the head of *)
(* TriggerAsync refuses: nothing is done.                                  *)
Reject(c) ==
  /\ c \in Web
  /\ stage[c] = "outside"
  /\ Goto(c, "rejected")
  /\ \/ Tell(c, 401, 0)
     \/ (\E l \in Limits : Invalid(l)) /\ Tell(c, 400, 0)
  /\ UNCHANGED <<memory, run, limit, past, rows, drain, ctxDone, faults>>

TriggerSwap(c) ==
  /\ c \in Web
  /\ stage[c] = "outside"
  /\ running = NoOne /\ RoomForARun
  /\ \E l \in Limits : ~Invalid(l) /\ limit' = [limit EXCEPT ![c] = Effective(l)]
  /\ running' = c
  /\ Goto(c, "opening")
  /\ UNCHANGED <<currentRunID, inFlight, run, answer, past, rows, drain, ctxDone, faults>>

TriggerLoses(c) ==
  /\ c \in Web
  /\ stage[c] = "outside"
  /\ running # NoOne
  /\ \E l \in Limits : ~Invalid(l)
  /\ Goto(c, "conflict")
  /\ past' = [past EXCEPT ![c] = {0} \cup {i \in Id : rows[i] = "closed"} \cup Orphans]
  /\ UNCHANGED <<memory, run, limit, answer, rows, drain, ctxDone, faults>>

(* The loser names whatever id is stored at this moment.                   *)
Conflict(c) ==
  /\ stage[c] = "conflict"
  /\ Goto(c, "refused")
  /\ Tell(c, 409, currentRunID)
  /\ UNCHANGED <<memory, run, limit, past, rows, drain, ctxDone, faults>>

-----------------------------------------------------------------------------
(* The row: Create in run() (create) and in TriggerAsync (opening).        *)

Create(c) ==
  /\ stage[c] \in {"create", "opening"}
  /\ ~ctxDone
  /\ rows' = [rows EXCEPT ![NextId] = "submitted"]
  /\ run' = [run EXCEPT ![c] = NextId]
  /\ Goto(c, "storing")
  /\ UNCHANGED <<memory, limit, answer, past, drain, ctxDone, faults>>

(* Without a row a run returns through its deferred epilogue; a trigger,   *)
(* not counted in yet, lowers the flag itself.                             *)
NotOpened(c) == Goto(c, IF c \in Job THEN "finished" ELSE "aborting")

CreateFails(c) ==
  /\ stage[c] \in {"create", "opening"}
  /\ CallFails
  /\ NotOpened(c)
  /\ UNCHANGED <<memory, run, limit, answer, past, rows, drain, ctxDone>>

(* The insert committed and its answer was lost.                           *)
CreateLost(c) ==
  /\ stage[c] \in {"create", "opening"}
  /\ Fault
  /\ rows' = [rows EXCEPT ![NextId] = "submitted"]
  /\ NotOpened(c)
  /\ UNCHANGED <<memory, run, limit, answer, past, drain, ctxDone>>

FlagStaysUp(c) ==
  /\ stage[c] = "aborting"
  /\ Goto(c, "gone")
  /\ Tell(c, 500, 0)
  /\ UNCHANGED <<memory, run, limit, past, rows, drain, ctxDone, faults>>

Abort(c) ==
  /\ stage[c] = "aborting"
  /\ running' = NoOne
  /\ Goto(c, "gone")
  /\ Tell(c, 500, 0)
  /\ UNCHANGED <<currentRunID, inFlight, run, limit, past, rows, drain, ctxDone, faults>>

(* The scheduled run goes on; the trigger still has its goroutine to count *)
(* in and to start.                                                        *)
StoreRunID(c) ==
  /\ stage[c] = "storing"
  /\ currentRunID' = run[c]
  /\ Goto(c, IF c \in Job THEN "body" ELSE "launching")
  /\ UNCHANGED <<running, inFlight, run, limit, answer, past, rows, drain, ctxDone, faults>>

Launch(c) ==
  /\ stage[c] = "launching"
  /\ inFlight' = inFlight \cup {c}
  /\ Goto(c, "body")
  /\ UNCHANGED <<running, currentRunID, run, limit, answer, past, rows, drain, ctxDone, faults>>

AcceptAtOnce(c) ==
  /\ c \in Web
  /\ stage[c] \in Held
  /\ answer[c] = Silent
  /\ Tell(c, 202, currentRunID)
  /\ UNCHANGED <<memory, stage, run, limit, past, rows, drain, ctxDone, faults>>

(* The handler is its own thread from here on.                             *)
Accept(c) ==
  /\ c \in Web
  /\ stage[c] \in {"body", "finish", "finished", "lowering", "gone"}
  /\ answer[c] = Silent
  /\ Tell(c, 202, run[c])
  /\ UNCHANGED <<memory, stage, run, limit, past, rows, drain, ctxDone, faults>>

-----------------------------------------------------------------------------
(* runWithID and the deferred epilogue: Done first, then the flag.         *)

Body(c) ==
  /\ stage[c] = "body"
  /\ Goto(c, "finish")
  /\ UNCHANGED <<memory, run, limit, answer, past, rows, drain, ctxDone, faults>>

FinishRun(c) ==
  /\ stage[c] = "finish"
  /\ rows' = [rows EXCEPT ![run[c]] = "closed"]
  /\ Goto(c, "finished")
  /\ UNCHANGED <<memory, run, limit, answer, past, drain, ctxDone, faults>>

FinishFails(c) ==
  /\ stage[c] = "finish"
  /\ Fault
  /\ Goto(c, "finished")
  /\ UNCHANGED <<memory, run, limit, answer, past, rows, drain, ctxDone>>

DoneForgotten(c) ==
  /\ stage[c] = "finished"
  /\ Goto(c, "lowering")
  /\ UNCHANGED <<memory, run, limit, answer, past, rows, drain, ctxDone, faults>>

Done(c) ==
  /\ stage[c] = "finished"
  /\ inFlight' = inFlight \ {c}
  /\ Goto(c, "lowering")
  /\ UNCHANGED <<running, currentRunID, run, limit, answer, past, rows, drain, ctxDone, faults>>

Lower(c) ==
  /\ stage[c] = "lowering"
  /\ running' = NoOne
  /\ Goto(c, "gone")
  /\ UNCHANGED <<currentRunID, inFlight, run, limit, answer, past, rows, drain, ctxDone, faults>>

(* The next tick, or the next request of a client that has its answer.     *)
Return(c) ==
  /\ stage[c] \in {"gone", "refused", "rejected"}
  /\ c \in Web => answer[c] # Silent
  /\ Goto(c, "outside")
  /\ run' = [run EXCEPT ![c] = 0]
  /\ limit' = [limit EXCEPT ![c] = 0]
  /\ answer' = IF c \in Web THEN [answer EXCEPT ![c] = Silent] ELSE answer
  /\ past' = IF c \in Web THEN [past EXCEPT ![c] = {}] ELSE past
  /\ UNCHANGED <<memory, rows, drain, ctxDone, faults>>

-----------------------------------------------------------------------------
Cancel ==
  /\ ~ctxDone
  /\ ctxDone' = TRUE
  /\ UNCHANGED <<memory, calls, rows, drain, faults>>

WaitIdle ==
  /\ ctxDone
  /\ drain = "no"
  /\ drain' = "waiting"
  /\ UNCHANGED <<memory, calls, rows, ctxDone, faults>>

Idle ==
  /\ drain = "waiting"
  /\ inFlight = {}
  /\ drain' = "idle"
  /\ UNCHANGED <<memory, calls, rows, ctxDone, faults>>

Crash ==
  /\ Fault
  /\ running' = NoOne
  /\ currentRunID' = 0
  /\ inFlight' = {}
  /\ stage' = [c \in Caller |-> "outside"]
  /\ run' = [c \in Caller |-> 0]
  /\ limit' = [c \in Caller |-> 0]
  /\ answer' = [c \in Web |-> Silent]
  /\ past' = [c \in Web |-> {}]
  /\ drain' = "no"
  /\ ctxDone' = FALSE
  /\ UNCHANGED rows

CallStep(c) ==
  \/ RunAdd(c) \/ Conflict(c)
  \/ Create(c) \/ CreateFails(c) \/ CreateLost(c)
  \/ Abort(c) \/ StoreRunID(c) \/ Launch(c)
  \/ Body(c) \/ FinishRun(c) \/ FinishFails(c) \/ Done(c) \/ Lower(c)

Arrive(c) ==
  RunSwap(c) \/ RunSkipped(c) \/ Reject(c) \/ TriggerSwap(c) \/ TriggerLoses(c)

Next ==
  \/ \E c \in Caller : Arrive(c) \/ CallStep(c) \/ Accept(c) \/ Return(c)
  \/ Cancel \/ WaitIdle \/ Idle \/ Crash

Spec == Init /\ [][Next]_vars

(* Goroutines are scheduled; that the body ends is Processing!RunEnds.  A  *)
(* wait group releases its waiters as soon as it reaches zero, whatever is *)
(* counted in afterwards.                                                  *)
Fairness ==
  /\ \A c \in Caller : WF_vars(CallStep(c)) /\ WF_vars(Accept(c))
  /\ SF_vars(Idle)

FairSpec == Spec /\ Fairness

-----------------------------------------------------------------------------
(* The slot of module RunSlot.                                             *)
RowOf(i) ==
  IF i = 0 THEN "none"
  ELSE IF i \in Orphans THEN "abandoned"
  ELSE IF rows[i] = "submitted" THEN "open" ELSE "closed"
CallFate(s) ==
  CASE s \in Held -> "granted"
    [] s = "gone" -> "over"
    [] s \in {"conflict", "refused"} -> "refused"
    [] OTHER -> "outside"

SlotRow == IF running = NoOne THEN "none" ELSE RowOf(run[running])
Fate == [c \in Caller |-> CallFate(stage[c])]
Lost == Cardinality(Orphans)

Slot == INSTANCE RunSlot WITH
  holder <- running, row <- SlotRow, lost <- Lost, fate <- Fate

(* The flag is the one slot of module RunSlot for ticks, startup runs and  *)
(* triggers alike: never two runs, never a call turned away from a free    *)
(* slot, and never given back with an open row, except for a fault.        *)
ImplementsRunSlot == Slot!Spec

(* A row stuck on `submitted` or `polling` is the mark of a crash or of a  *)
(* lost write: no error path and no lost race leaves one.                  *)
StuckRowsAreFaults == Lost <= faults

(* A 202 is kept: its id is that of the caller's own run, whose row exists *)
(* when the answer does, so that the first poll can meet neither a 404 nor *)
(* another's run; and whatever text, number or nothing the caller sent as  *)
(* the limit, the run has one that a batch can hold.                       *)
AcceptedRunIsSound ==
  \A c \in Web : answer[c].code = 202 =>
    /\ answer[c].run = run[c]
    /\ run[c] # 0
    /\ rows[run[c]] # "none"
    /\ \A d \in Caller \ {c} : run[d] # run[c]
    /\ limit[c] \in 1..MaxBatch

(* The flag comes down again, on every path.                               *)
SlotComesFree == Slot!SlotComesFree

(* The drain sees the group idle, although ticks may go on counting in.    *)
DrainEnds == (drain = "waiting") ~> (drain # "waiting")

(* What a 409 says (README.md:161, processing.service.go:45): it names the *)
(* run in the way, so not none, and not one over before the call.          *)
ConflictNamesTheRun ==
  \A c \in Web : answer[c].code = 409 => answer[c].run \notin past[c]
=============================================================================
