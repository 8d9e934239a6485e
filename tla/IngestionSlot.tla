--------------------------- MODULE IngestionSlot ---------------------------
(***************************************************************************)
(* Who may run an ingestion pass: ticks and startup runs (Job), blocking   *)
(* triggers (Waiting, ?wait=true) and background triggers (Async) compete  *)
(* for the mutex of ingestion.Service, and the drain of the shutdown takes *)
(* the same mutex to learn that it is free.  The pass itself, which the    *)
(* module Ingestion has in detail, is the three stages list, run and book; *)
(* this module is about the slot, the row and the answers around it.       *)
(***************************************************************************)
EXTENDS Naturals, FiniteSets

CONSTANTS
  Job,         \* cron ticks and startup runs: nobody reads their answer
  Waiting,     \* POST .../ingestion/trigger?wait=true
  Async,       \* POST .../ingestion/trigger
  Drainer,     \* the goroutine of WaitIdle
  NoOne,       \* the mutex is free
  MaxFaults    \* bound on crashes, failed and lost writes

Caller == Job \cup Waiting \cup Async
Client == Waiting \cup Async

(* Stated as an ASSUME by the module that composes this one.               *)
KindsAssumption ==
  /\ Job \cap Waiting = {} /\ Job \cap Async = {} /\ Waiting \cap Async = {}
  /\ {Drainer, NoOne} \cap Caller = {} /\ Drainer # NoOne
FaultAssumption == MaxFaults \in Nat

VARIABLES
  mutex,       \* Service.running: who holds it
  stage,       \* where each call is
  row,         \* the row of the holder's run in ingestion_runs
  lost,        \* rows that stay on `running`
  answer,      \* what an HTTP caller is, or will be, told
  drain,       \* WaitIdle
  ctxDone,     \* the application context is cancelled
  faults       \* faults spent so far

vars == <<mutex, stage, row, lost, answer, drain, ctxDone, faults>>

(* outside -> create -> list -> run <-> book, -> finish -> unlock -> gone   *)
Stage == {"outside", "create", "list", "run", "book", "finish", "unlock",
          "gone", "refused", "rejected"}
InSlot == {"create", "list", "run", "book", "finish", "unlock"}

TypeOK ==
  /\ mutex \in Caller \cup {NoOne, Drainer}
  /\ stage \in [Caller -> Stage]
  /\ row \in {"none", "open", "closed", "abandoned"}
  /\ lost \in 0..MaxFaults
  /\ answer \in [Client -> {0, 200, 202, 401, 409, 500}]
  /\ drain \in {"no", "waiting", "holding", "idle"}
  /\ ctxDone \in BOOLEAN
  /\ faults \in 0..MaxFaults

Init ==
  /\ mutex = NoOne
  /\ stage = [c \in Caller |-> "outside"]
  /\ row = "none"
  /\ lost = 0
  /\ answer = [c \in Client |-> 0]
  /\ drain = "no"
  /\ ctxDone = FALSE
  /\ faults = 0

-----------------------------------------------------------------------------
Goto(c, s) == stage' = [stage EXCEPT ![c] = s]

(* A job has nobody to answer to.                                          *)
Respond(c, code) ==
  answer' = IF c \in Job THEN answer ELSE [answer EXCEPT ![c] = code]

Fault == faults < MaxFaults /\ faults' = faults + 1

(* A statement under the caller's context fails for nothing once the       *)
(* context is done, and by a fault before.                                 *)
CallFails == (ctxDone /\ UNCHANGED faults) \/ Fault

(* Service.Run and Service.TriggerAsync: TryLock.  The background trigger  *)
(* is answered as soon as it has the mutex; its goroutine holds it on.     *)
TryLock(c) ==
  /\ stage[c] = "outside"
  /\ mutex = NoOne
  /\ mutex' = c
  /\ Goto(c, "create")
  /\ row' = "none"
  /\ Respond(c, IF c \in Async THEN 202 ELSE 0)
  /\ UNCHANGED <<lost, drain, ctxDone, faults>>

TryLockFails(c) ==
  /\ stage[c] = "outside"
  /\ mutex # NoOne
  /\ Goto(c, "refused")
  /\ Respond(c, 409)
  /\ UNCHANGED <<mutex, row, lost, drain, ctxDone, faults>>

(* A wrong or missing x-api-key.                                           *)
Reject(c) ==
  /\ c \in Client
  /\ stage[c] = "outside"
  /\ Goto(c, "rejected")
  /\ Respond(c, 401)
  /\ UNCHANGED <<mutex, row, lost, drain, ctxDone, faults>>

(* run(): the row is opened under the caller's context.                    *)
Create(c) ==
  /\ stage[c] = "create"
  /\ ~ctxDone
  /\ Goto(c, "list")
  /\ row' = "open"
  /\ UNCHANGED <<mutex, lost, answer, drain, ctxDone, faults>>

(* Without a row there is nothing to close: run() returns.                 *)
CreateFails(c) ==
  /\ stage[c] = "create"
  /\ CallFails
  /\ Goto(c, "unlock")
  /\ IF c \in Waiting THEN Respond(c, 500) ELSE UNCHANGED answer
  /\ UNCHANGED <<mutex, row, lost, drain, ctxDone>>

(* The insert committed, and its answer was lost: an orphan.               *)
CreateLost(c) ==
  /\ stage[c] = "create"
  /\ Fault
  /\ Goto(c, "unlock")
  /\ lost' = lost + 1
  /\ IF c \in Waiting THEN Respond(c, 500) ELSE UNCHANGED answer
  /\ UNCHANGED <<mutex, row, drain, ctxDone>>

ListActive(c) ==
  /\ stage[c] = "list"
  /\ ~ctxDone
  /\ Goto(c, "run")
  /\ UNCHANGED <<mutex, row, lost, answer, drain, ctxDone, faults>>

(* The failed run is closed, yet run() returns no summary.                 *)
ListFails(c) ==
  /\ stage[c] = "list"
  /\ CallFails
  /\ Goto(c, "finish")
  /\ IF c \in Waiting THEN Respond(c, 500) ELSE UNCHANGED answer
  /\ UNCHANGED <<mutex, row, lost, drain, ctxDone>>

(* Some worker writes its bookkeeping under a detached context.            *)
Bookkeep(c) ==
  /\ stage[c] = "run"
  /\ Goto(c, "book")
  /\ UNCHANGED <<mutex, row, lost, answer, drain, ctxDone, faults>>

(* The last of these writes returns.  Under a dead context every worker    *)
(* has stopped by then, and so has the loop.                               *)
Bookkept(c) ==
  /\ stage[c] = "book"
  /\ Goto(c, IF ctxDone THEN "finish" ELSE "run")
  /\ UNCHANGED <<mutex, row, lost, answer, drain, ctxDone, faults>>

(* wg.Wait() returns: no worker is left, whatever ended the pool.          *)
PoolDone(c) ==
  /\ stage[c] = "run"
  /\ Goto(c, "finish")
  /\ UNCHANGED <<mutex, row, lost, answer, drain, ctxDone, faults>>

(* finishRun, detached from the context.                                   *)
FinishRun(c) ==
  /\ stage[c] = "finish"
  /\ Goto(c, "unlock")
  /\ row' = "closed"
  /\ UNCHANGED <<mutex, lost, answer, drain, ctxDone, faults>>

FinishUnderRunContext(c) ==
  /\ stage[c] = "finish"
  /\ CallFails
  /\ Goto(c, "unlock")
  /\ row' = "abandoned"
  /\ lost' = lost + 1
  /\ UNCHANGED <<mutex, answer, drain, ctxDone>>

FinishFails(c) ==
  /\ stage[c] = "finish"
  /\ Fault
  /\ Goto(c, "unlock")
  /\ row' = "abandoned"
  /\ lost' = lost + 1
  /\ UNCHANGED <<mutex, answer, drain, ctxDone>>

UnlockForgotten(c) ==
  /\ stage[c] = "unlock"
  /\ Goto(c, "gone")
  /\ UNCHANGED <<mutex, row, lost, answer, drain, ctxDone, faults>>

(* The deferred Unlock; a row still open now stays so.  A blocking caller  *)
(* then writes its answer.                                                 *)
Unlock(c) ==
  /\ stage[c] = "unlock"
  /\ mutex' = NoOne
  /\ Goto(c, "gone")
  /\ lost' = IF row = "open" THEN lost + 1 ELSE lost
  /\ row' = "none"
  /\ IF c \in Waiting /\ answer[c] = 0 THEN Respond(c, 200) ELSE UNCHANGED answer
  /\ UNCHANGED <<drain, ctxDone, faults>>

(* The next tick, or the next request of the same client.                  *)
Return(c) ==
  /\ stage[c] \in {"gone", "refused", "rejected"}
  /\ Goto(c, "outside")
  /\ Respond(c, 0)
  /\ UNCHANGED <<mutex, row, lost, drain, ctxDone, faults>>

-----------------------------------------------------------------------------
(* The signal; and WaitIdle, whose goroutine locks and unlocks the mutex.  *)
Cancel ==
  /\ ~ctxDone
  /\ ctxDone' = TRUE
  /\ UNCHANGED <<mutex, stage, row, lost, answer, drain, faults>>

WaitIdle ==
  /\ ctxDone
  /\ drain = "no"
  /\ drain' = "waiting"
  /\ UNCHANGED <<mutex, stage, row, lost, answer, ctxDone, faults>>

DrainIgnoresRun ==
  /\ drain = "waiting"
  /\ mutex' = Drainer
  /\ row' = "none"
  /\ drain' = "holding"
  /\ UNCHANGED <<stage, lost, answer, ctxDone, faults>>

DrainLock ==
  /\ drain = "waiting"
  /\ mutex = NoOne
  /\ mutex' = Drainer
  /\ row' = "none"
  /\ drain' = "holding"
  /\ UNCHANGED <<stage, lost, answer, ctxDone, faults>>

DrainUnlock ==
  /\ drain = "holding"
  /\ mutex' = NoOne
  /\ drain' = "idle"
  /\ UNCHANGED <<stage, row, lost, answer, ctxDone, faults>>

(* The process dies; its successor starts with what the table holds.       *)
Crash ==
  /\ Fault
  /\ mutex' = NoOne
  /\ stage' = [c \in Caller |-> "outside"]
  /\ lost' = IF row = "open" THEN lost + 1 ELSE lost
  /\ row' = "none"
  /\ answer' = [c \in Client |-> 0]
  /\ drain' = "no"
  /\ ctxDone' = FALSE

CallStep(c) ==
  \/ Create(c) \/ CreateFails(c) \/ CreateLost(c)
  \/ ListActive(c) \/ ListFails(c)
  \/ Bookkeep(c) \/ Bookkept(c) \/ PoolDone(c)
  \/ FinishRun(c) \/ FinishFails(c) \/ Unlock(c)

Arrive(c) == TryLock(c) \/ TryLockFails(c) \/ Reject(c)

Next ==
  \/ \E c \in Caller : Arrive(c) \/ CallStep(c) \/ Return(c)
  \/ Cancel \/ WaitIdle \/ DrainLock \/ DrainUnlock \/ Crash

Spec == Init /\ [][Next]_vars

(* A call's goroutine is scheduled; the pool ends (module Ingestion:       *)
(* RunEnds).  A waiter of a sync.Mutex is served although TryLock may take *)
(* it in between: after a millisecond the mutex refuses newcomers.         *)
Fairness ==
  /\ \A c \in Caller : WF_vars(CallStep(c)) /\ SF_vars(PoolDone(c))
  /\ SF_vars(DrainLock) /\ WF_vars(DrainUnlock)

FairSpec == Spec /\ Fairness

-----------------------------------------------------------------------------
(* The slot of module RunSlot, the drain being one more caller.            *)
CallFate(s) ==
  CASE s \in InSlot -> "granted"
    [] s = "gone" -> "over"
    [] s = "refused" -> "refused"
    [] OTHER -> "outside"
DrainFate(d) ==
  CASE d = "holding" -> "granted"
    [] d = "idle" -> "over"
    [] OTHER -> "outside"
Fate == [c \in Caller \cup {Drainer} |->
           IF c = Drainer THEN DrainFate(drain) ELSE CallFate(stage[c])]

Slot == INSTANCE RunSlot WITH
  Caller <- Caller \cup {Drainer}, holder <- mutex, fate <- Fate

(* Ticks, startup runs, both kinds of trigger and the drain together keep  *)
(* the promise of one slot: nobody is let in next to a run, nobody turned  *)
(* away from a free slot, and the slot is given back with its row closed   *)
(* except for a fault, on every path of run().                             *)
ImplementsRunSlot == Slot!Spec

(* A row stuck on `running` is the mark of a crash or of a lost write, and *)
(* of nothing else: no error path of run() and no shutdown leaves one.     *)
StuckRowsAreFaults == lost <= faults

(* The slot is always given back.                                          *)
SlotComesFree == Slot!SlotComesFree

(* The drain gets its turn among callers that keep coming.                 *)
DrainEnds == (drain = "waiting") ~> (drain # "waiting")
=============================================================================
