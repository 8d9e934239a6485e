----------------------------- MODULE Lifecycle -----------------------------
(***************************************************************************)
(* The life of the process: main() boots, starts two schedulers and the    *)
(* HTTP server, and on a signal drains them one after the other within one *)
(* budget.  It composes IngestionSlot and ProcessingSlot, which share the  *)
(* application context and the faults, and adds what both lack: who may    *)
(* still call when, and time.                                              *)
(*                                                                         *)
(* Time is counted from the signal on, in units of which BookTimeout make  *)
(* the ten seconds of a detached write.  Under a dead context every other  *)
(* call returns at once, so time passes only while nothing but detached    *)
(* writes are under way, and never past the timeout of one of them.        *)
(***************************************************************************)
EXTENDS Integers, FiniteSets

CONSTANTS
  IngestionTick, IngestionStartup, Waiting, Async,   \* callers of ingestion
  ProcessingTick, ProcessingStartup, Web,            \* callers of processing
  Drainer, NoOne, NaN,
  PostLimit, MaxBatch, MaxRuns, MaxFaults,
  BookTimeout,      \* bookkeepingTimeout of both services
  Budget            \* main: the timeout of shutdownCtx

ASSUME TimeAssumption == BookTimeout \in Nat \ {0} /\ Budget \in Nat

VARIABLES
  main,        \* where main() is
  clock,       \* time since the signal
  iDue, pDue,  \* when the detached write of either run times out
  ctxDone, faults,
  iMutex, iStage, iRow, iLost, iAnswer, iDrain,
  pRunning, pCurrentRunID, pInFlight, pStage, pRun, pLimit, pRows, pAnswer,
  pPast, pDrain

I == INSTANCE IngestionSlot WITH
  Job <- IngestionTick \cup IngestionStartup,
  mutex <- iMutex, stage <- iStage, row <- iRow, lost <- iLost,
  answer <- iAnswer, drain <- iDrain

P == INSTANCE ProcessingSlot WITH
  Job <- ProcessingTick \cup ProcessingStartup,
  Limits <- {0},
  running <- pRunning, currentRunID <- pCurrentRunID, inFlight <- pInFlight,
  stage <- pStage, run <- pRun, limit <- pLimit, rows <- pRows,
  answer <- pAnswer, past <- pPast, drain <- pDrain

(* The callers are who they are, on either side.                          *)
ASSUME CallersAssumption ==
  /\ I!KindsAssumption
  /\ Web \cap (ProcessingTick \cup ProcessingStartup) = {}
  /\ NoOne \notin Web \cup ProcessingTick \cup ProcessingStartup
ASSUME LimitAssumption == NaN \notin Int /\ MaxBatch \in Nat \ {0} /\ PostLimit \in 1..MaxBatch
ASSUME BoundsAssumption == MaxRuns \in Nat /\ MaxFaults \in Nat

iVars == <<iMutex, iStage, iRow, iLost, iAnswer, iDrain>>
pVars == <<pRunning, pCurrentRunID, pInFlight, pStage, pRun, pLimit, pRows,
           pAnswer, pPast, pDrain>>
vars == <<main, clock, iDue, pDue, ctxDone, faults, iVars, pVars>>

Booting == {"verify", "ingestionCron", "processingCron"}
Draining == {"stopIngestion", "stopProcessing", "waitIngestion",
             "waitProcessing", "shutdown", "closing"}

TypeOK ==
  /\ I!TypeOK /\ P!TypeOK
  /\ main \in Booting \cup {"serving"} \cup Draining \cup {"exited", "failed"}
  /\ clock \in 0..Budget
  /\ {iDue, pDue} \subseteq 0..(Budget + BookTimeout)

Init ==
  /\ I!Init /\ P!Init
  /\ main = "verify"
  /\ clock = 0
  /\ iDue = 0
  /\ pDue = 0

Alive == main \notin {"exited", "failed"}

-----------------------------------------------------------------------------
(* Who may call.                                                           *)

(* A scheduler fires between its Start and its Stop.                       *)
IngestionTicks == main \in {"processingCron", "serving"}
ProcessingTicks == main \in {"serving", "stopIngestion"}

(* The goroutine of RUN_ON_STARTUP runs once, at its own pace.             *)
Started(boot) == Alive /\ main \notin boot

(* The server listens until Server.Shutdown.                               *)
Listening == main \in {"serving"} \cup (Draining \ {"shutdown", "closing"})

MayCallIngestion(c) ==
  \/ c \in IngestionTick /\ IngestionTicks
  \/ c \in IngestionStartup /\ Started({"verify", "ingestionCron"})
  \/ c \in Waiting \cup Async /\ Listening

MayCallProcessing(c) ==
  \/ c \in ProcessingTick /\ ProcessingTicks
  \/ c \in ProcessingStartup /\ Started(Booting)
  \/ c \in Web /\ Listening

-----------------------------------------------------------------------------
(* The steps of the two slots.                                             *)

Detached(stage) == {c \in DOMAIN stage : stage[c] \in {"book", "finish"}}

(* A worker's bookkeeping and finishRun each get one timeout.              *)
TwoTimeouts(stage, next, due) ==
  IF \E c \in Detached(next) : stage[c] # next[c]
  THEN clock + 2 * BookTimeout ELSE due
NewDue(stage, next, due) ==
  IF \E c \in Detached(next) : stage[c] # next[c]
  THEN clock + BookTimeout ELSE due

IngestionStep(A) ==
  /\ Alive
  /\ A
  /\ iDue' = NewDue(iStage, iStage', iDue)
  /\ UNCHANGED <<main, clock, pDue, pVars>>

ProcessingStep(A) ==
  /\ Alive
  /\ A
  /\ pDue' = NewDue(pStage, pStage', pDue)
  /\ UNCHANGED <<main, clock, iDue, iVars>>

IngestionCall(c) ==
  MayCallIngestion(c) /\ IngestionStep(I!TryLock(c) \/ I!TryLockFails(c))
ProcessingCall(c) ==
  /\ MayCallProcessing(c)
  /\ ProcessingStep(P!RunSwap(c) \/ P!RunSkipped(c) \/ P!TriggerSwap(c) \/ P!TriggerLoses(c))

-----------------------------------------------------------------------------
(* main().                                                                 *)

Goto(next) == main' = next /\ UNCHANGED <<clock, iDue, pDue>>
Still == UNCHANGED <<ctxDone, faults, iVars, pVars>>

(* VerifyToken, IngestionCron.Run, ProcessingCron.Run; a dead token or a   *)
(* schedule that does not parse ends the process at once.                  *)
Boot ==
  /\ \/ main = "verify" /\ ~ctxDone /\ Goto("ingestionCron")
     \/ main = "ingestionCron" /\ Goto("processingCron")
     \/ main = "processingCron" /\ Goto("serving")
  /\ Still

VerifyFails == main = "verify" /\ Goto("failed") /\ Still

SchedulerFails == main \in {"ingestionCron", "processingCron"} /\ Goto("failed") /\ Still

Signal ==
  /\ Alive
  /\ ~ctxDone
  /\ ctxDone' = TRUE
  /\ UNCHANGED <<main, clock, iDue, pDue, faults, iVars, pVars>>

ServeInForeground ==
  main = "serving" /\ ctxDone /\ ~Listening /\ Goto("stopIngestion") /\ Still

Drain == main = "serving" /\ ctxDone /\ Goto("stopIngestion") /\ Still

Expired == clock >= Budget

(* A scheduler's Stop waits for the ticks under way, not for a startup run.*)
AtRest(stage, c) == stage[c] \in {"outside", "gone", "refused"}

StopIngestion ==
  /\ main = "stopIngestion"
  /\ Expired \/ \A c \in IngestionTick : AtRest(iStage, c)
  /\ Goto("stopProcessing")
  /\ Still

(* WaitIdle is called on the way into each of the two waits.               *)
StopWithoutWaiting ==
  /\ main = "stopProcessing"
  /\ Expired \/ \A c \in ProcessingTick : AtRest(pStage, c)
  /\ P!WaitIdle
  /\ Goto("waitProcessing")
  /\ UNCHANGED <<iVars>>

StopProcessing ==
  /\ main = "stopProcessing"
  /\ Expired \/ \A c \in ProcessingTick : AtRest(pStage, c)
  /\ I!WaitIdle
  /\ Goto("waitIngestion")
  /\ UNCHANGED pVars

WaitIngestion ==
  /\ main = "waitIngestion"
  /\ Expired \/ iDrain = "idle"
  /\ P!WaitIdle
  /\ Goto("waitProcessing")
  /\ UNCHANGED iVars

WaitProcessing ==
  /\ main = "waitProcessing"
  /\ Expired \/ pDrain = "idle"
  /\ Goto("shutdown")
  /\ Still

(* Server.Shutdown waits for the handlers, not for what they started.      *)
HandlersDone ==
  /\ \A c \in Waiting : AtRest(iStage, c)
  /\ \A c \in Web : pStage[c] = "outside" \/ pAnswer[c] # P!Silent

Shutdown ==
  /\ main = "shutdown"
  /\ Expired \/ HandlersDone
  /\ Goto("closing")
  /\ Still

(* The pool is closed and main returns, whoever still runs.                *)
Exit == main = "closing" /\ Goto("exited") /\ Still

DrainStep ==
  \/ Drain \/ StopIngestion \/ StopProcessing
  \/ WaitIngestion \/ WaitProcessing \/ Shutdown \/ Exit

-----------------------------------------------------------------------------
(* Time.                                                                   *)

MainMayGo ==
  CASE main = "serving" -> TRUE
    [] main = "stopIngestion" -> Expired \/ \A c \in IngestionTick : AtRest(iStage, c)
    [] main = "stopProcessing" -> Expired \/ \A c \in ProcessingTick : AtRest(pStage, c)
    [] main = "waitIngestion" -> Expired \/ iDrain = "idle"
    [] main = "waitProcessing" -> Expired \/ pDrain = "idle"
    [] main = "shutdown" -> Expired \/ HandlersDone
    [] OTHER -> TRUE

Urgent ==
  \/ MainMayGo
  \/ \E c \in I!Caller : iStage[c] \in {"create", "list", "run", "unlock"}
  \/ iDrain = "holding" \/ (iDrain = "waiting" /\ iMutex = NoOne)
  \/ \E c \in P!Caller : pStage[c] \in (P!Held \ {"finish"}) \cup {"conflict"}
  \/ \E c \in Web : pStage[c] \in {"finish", "gone"} /\ pAnswer[c] = P!Silent
  \/ pDrain = "waiting" /\ pInFlight = {}

Tick ==
  /\ main \in Draining
  /\ ~Urgent
  /\ Detached(iStage) # {} => clock < iDue
  /\ Detached(pStage) # {} => clock < pDue
  /\ clock < Budget
  /\ clock' = clock + 1
  /\ UNCHANGED <<main, iDue, pDue, ctxDone, faults, iVars, pVars>>

Next ==
  \/ \E c \in I!Caller : IngestionCall(c) \/ IngestionStep(I!CallStep(c))
  \/ \E c \in P!Caller :
       ProcessingCall(c) \/ ProcessingStep(P!CallStep(c)) \/ ProcessingStep(P!Accept(c))
  \/ IngestionStep(I!DrainLock) \/ IngestionStep(I!DrainUnlock)
  \/ ProcessingStep(P!Idle)
  \/ Boot \/ VerifyFails \/ SchedulerFails \/ Signal \/ DrainStep \/ Tick

Spec == Init /\ [][Next]_vars

(* main and the goroutines are scheduled, time passes, and both drains are *)
(* served as in their own modules.                                         *)
Fairness ==
  /\ WF_vars(Boot) /\ WF_vars(ctxDone /\ VerifyFails) /\ WF_vars(DrainStep) /\ WF_vars(Tick)
  /\ \A c \in I!Caller : WF_vars(IngestionStep(I!CallStep(c))) /\ SF_vars(IngestionStep(I!PoolDone(c)))
  /\ \A c \in P!Caller : WF_vars(ProcessingStep(P!CallStep(c))) /\ WF_vars(ProcessingStep(P!Accept(c)))
  /\ SF_vars(IngestionStep(I!DrainLock)) /\ WF_vars(IngestionStep(I!DrainUnlock))
  /\ SF_vars(ProcessingStep(P!Idle))

FairSpec == Spec /\ Fairness

-----------------------------------------------------------------------------
(* However the signal falls between ticks, startup runs and triggers, a    *)
(* regular exit leaves no ingestion run on `running` but for a lost write, *)
(* and no processing run open that the schedule or the boot started: the   *)
(* stops, the waits and the end of the pool come in the right order.       *)
ExitClosesRows ==
  main = "exited" =>
    /\ iLost <= faults /\ iRow # "open"
    /\ \A c \in ProcessingTick \cup ProcessingStartup : pStage[c] \notin P!Closing

(* The drain is over before its budget is: no wait is ever cut short,      *)
(* because both runs drain side by side, each within two detached writes.  *)
DrainFitsBudget == clock < Budget

(* Next to one another, under shared faults, a signal at any moment and the*)
(* drain, both services keep the promise of one slot (module RunSlot): no  *)
(* run is let in next to another, and none gives the slot back with its    *)
(* row open, but for a fault.                                              *)
BothKeepTheirSlot == I!ImplementsRunSlot /\ P!ImplementsRunSlot

(* A signal ends the process.                                              *)
SignalEndsProcess == ctxDone ~> ~Alive

(* main.go:84 and processing.service.go:48: a manual run is waited for, so *)
(* its row does not stay open.                                             *)
ExitClosesManualRuns ==
  main = "exited" => \A c \in Web : pStage[c] \notin P!Closing
=============================================================================
