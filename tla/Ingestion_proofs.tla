-------------------------- MODULE Ingestion_proofs --------------------------
(***************************************************************************)
(* Proofs about Ingestion, for every set of sources, every answer they may *)
(* give, every pool size, retry limit, threshold and number of faults.     *)
(***************************************************************************)
EXTENDS Ingestion, FiniteSetTheorems, TLAPS

USE SourceAssumption, MediaAssumption, AnswersAssumption, LimitsAssumption

-----------------------------------------------------------------------------
(* What the helpers of the actions do to the types.                        *)

(* A worker's locals stay well typed when it returns.                      *)
LEMMA ReturnType ==
  ASSUME TypeOK, NEW s \in Source, Return(s)
  PROVE  /\ phase' \in [Source -> Phase]
         /\ attempt' \in [Source -> 0..(MaxRetries + 1)]
         /\ todo' \in [Source -> SUBSET Post]
         /\ fresh' \in [Source -> SUBSET Post]
  BY DEF TypeOK, Return, Phase

(* A worker's locals stay well typed when it moves to another phase.       *)
LEMMA GotoType ==
  ASSUME TypeOK, NEW s \in Source, NEW ph \in Phase, Goto(s, ph)
  PROVE  /\ phase' \in [Source -> Phase]
         /\ attempt' \in [Source -> 0..(MaxRetries + 1)]
         /\ todo' \in [Source -> SUBSET Post]
         /\ fresh' \in [Source -> SUBSET Post]
  BY DEF TypeOK, Goto

LEMMA CounterType ==
  ASSUME TypeOK
  PROVE  /\ AddFailure => counters' \in Counter
         /\ \A n, u \in Nat : AddSuccess(n, u) => counters' \in Counter
<1>1. AddFailure => counters' \in Counter
  BY DEF TypeOK, AddFailure, Counter
<1>2. ASSUME NEW n \in Nat, NEW u \in Nat, AddSuccess(n, u)
      PROVE  counters' \in Counter
  BY <1>2 DEF TypeOK, AddSuccess, Counter
<1> QED
  BY <1>1, <1>2

LEMMA RunReturnsType ==
  ASSUME RunReturns
  PROVE  /\ pc' = "idle" /\ ctxDone' \in BOOLEAN
         /\ listed' \in SUBSET Source /\ pending' \in SUBSET Source
         /\ before' \in SUBSET Post /\ fatalErr' \in BOOLEAN
         /\ counters' \in Counter /\ alerts' \in Nat
         /\ phase' \in [Source -> Phase]
         /\ attempt' \in [Source -> 0..(MaxRetries + 1)]
         /\ todo' \in [Source -> SUBSET Post]
         /\ fresh' \in [Source -> SUBSET Post]
<1>1. NoCounters \in Counter
  BY DEF NoCounters, Counter
<1>2. "none" \in Phase
  BY DEF Phase
<1>3. 0 \in 0..(MaxRetries + 1)
  OBVIOUS
<1> QED
  BY <1>1, <1>2, <1>3 DEF RunReturns

LEMMA ClosedType ==
  ASSUME TypeOK
  PROVE  Closed \in Row /\ RunningRow \in Row
<1>1. Cardinality(listed) \in Nat
  BY FS_Subset, FS_CardinalityType DEF TypeOK
<1>2. ResolveStatus(Cardinality(listed), counters.failed, fatalErr)
        \in {"success", "partial", "failed"}
  BY DEF ResolveStatus
<1> QED
  BY <1>1, <1>2 DEF TypeOK, Closed, RunningRow, Row, Counter, NoCounters

LEMMA FaultType == ASSUME TypeOK, Fault PROVE faults' \in 0..MaxFaults
  BY DEF TypeOK, Fault

-----------------------------------------------------------------------------
(* Type correctness.  A backoff is only entered with retries left, so the  *)
(* attempt that follows it is in range.                                    *)
RetryBound == \A s \in Source : phase[s] = "backoff" => attempt[s] <= MaxRetries
TypeInv == TypeOK /\ RetryBound

LEMMA TypeInit == Init => TypeInv
<1> SUFFICES ASSUME Init PROVE TypeInv
  OBVIOUS
<1>1. NoCounters \in Counter
  BY DEF NoCounters, Counter
<1>2. row \in Row
  BY <1>1 DEF Init, Row
<1>3. /\ phase \in [Source -> Phase]
      /\ attempt \in [Source -> 0..(MaxRetries + 1)]
      /\ todo \in [Source -> SUBSET Post]
      /\ fresh \in [Source -> SUBSET Post]
  BY DEF Init, Phase
<1>4. RetryBound
  BY DEF Init, RetryBound
<1>5. /\ active \in SUBSET Source /\ older \in SUBSET (Source \X Source)
      /\ landed \in SUBSET Post /\ before \in SUBSET Post
      /\ listed \in SUBSET Source /\ pending \in SUBSET Source
  BY DEF Init
<1>6. /\ failures \in [Source -> Nat]
      /\ pc \in {"idle", "create", "list", "loop", "acquire", "wait", "listfailed"}
      /\ counters \in Counter /\ alerts \in Nat /\ faults \in 0..MaxFaults
  BY <1>1 DEF Init
<1>7. ctxDone \in BOOLEAN /\ fatalErr \in BOOLEAN
  BY DEF Init
<1> QED
  BY <1>2, <1>3, <1>4, <1>5, <1>6, <1>7 DEF TypeInv, TypeOK

LEMMA TypeRun == TypeInv /\ (Start \/ RunStep \/ Cancel \/ Crash) => TypeInv'
<1> SUFFICES ASSUME TypeInv, Start \/ RunStep \/ Cancel \/ Crash PROVE TypeInv'
  OBVIOUS
<1> USE DEF TypeInv
<1>0. TypeOK /\ Closed \in Row /\ RunningRow \in Row
  BY ClosedType
<1>1. CASE Start
  BY <1>1 DEF Start, TypeOK, RetryBound, dbVars, poolVars, workerVars
<1>2. CASE Create
  BY <1>0, <1>2 DEF Create, TypeOK, RetryBound, dbVars, poolVars, workerVars
<1>3. CASE CreateFails
  BY <1>0, <1>3, RunReturnsType, FaultType
  DEF CreateFails, TypeOK, RetryBound, dbVars, RunReturns
<1>4. CASE ListActive
  BY <1>4 DEF ListActive, TypeOK, RetryBound, dbVars, poolVars, workerVars
<1>5. CASE ListFails
  BY <1>5, FaultType DEF ListFails, TypeOK, RetryBound, dbVars, poolVars, workerVars
<1>6. CASE LoopHead
  BY <1>6 DEF LoopHead, TypeOK, RetryBound, dbVars, poolVars, workerVars
<1>7. CASE \E s \in Source : Spawn(s)
  <2>1. PICK s \in Source : Spawn(s)
    BY <1>7
  <2>2. Goto(s, "ready") /\ "ready" \in Phase
    BY <2>1 DEF Spawn, Phase
  <2>3. RetryBound'
    BY <2>1 DEF Spawn, Goto, RetryBound, TypeOK
  <2> QED
    BY <2>1, <2>2, <2>3, GotoType DEF Spawn, TypeOK, dbVars, poolVars
<1>8. CASE FinishRun
  BY <1>0, <1>8, RunReturnsType DEF FinishRun, TypeOK, RetryBound, dbVars, RunReturns
<1>9. CASE FinishFails
  BY <1>0, <1>9, RunReturnsType, FaultType
  DEF FinishFails, TypeOK, RetryBound, dbVars, RunReturns
<1>10. CASE Cancel
  BY <1>10, FaultType DEF Cancel, TypeOK, RetryBound, dbVars, poolVars, workerVars
<1>11. CASE Crash
  BY <1>11, RunReturnsType, FaultType DEF Crash, TypeOK, RetryBound, dbVars, RunReturns
<1> QED
  BY <1>1, <1>2, <1>3, <1>4, <1>5, <1>6, <1>7, <1>8, <1>9, <1>10, <1>11 DEF RunStep

(* The parts of the state no worker step touches are typed as before.      *)
LEMMA TypeWorker ==
  ASSUME TypeInv, NEW s \in Source, WorkerStep(s)
  PROVE  TypeInv'
<1> USE DEF TypeInv
<1>0. TypeOK /\ Phase = Phase'
  OBVIOUS
<1>1. CASE Begin(s)
  BY <1>1 DEF Begin, TypeOK, RetryBound, Phase, dbVars, runVars, poolVars
<1>2. CASE Skip(s)
  <2>1. RetryBound'
    BY <1>2 DEF Skip, Return, TypeOK, RetryBound
  <2> QED
    BY <1>2, <2>1, ReturnType DEF Skip, TypeOK, dbVars, runVars, poolVars
<1>3. CASE FetchMedia(s)
  BY <1>3 DEF FetchMedia, TypeOK, RetryBound, Phase, dbVars, runVars, poolVars
<1>4. CASE FetchTransient(s)
  <2>1. /\ UNCHANGED <<dbVars, row, runVars, fatalErr, alerts, faults>>
        /\ \/ RetriesLeft(s) /\ Goto(s, "backoff") /\ UNCHANGED counters
           \/ Goto(s, "marking") /\ UNCHANGED counters
           \/ Return(s) /\ AddFailure
    BY <1>4 DEF FetchTransient
  <2>2. "backoff" \in Phase /\ "marking" \in Phase
    BY DEF Phase
  <2>3. RetryBound'
    BY <2>1 DEF Goto, Return, TypeOK, RetryBound, RetriesLeft
  <2>4. counters' \in Counter
    BY <2>1, CounterType DEF TypeOK
  <2>5. /\ phase' \in [Source -> Phase]
        /\ attempt' \in [Source -> 0..(MaxRetries + 1)]
        /\ todo' \in [Source -> SUBSET Post]
        /\ fresh' \in [Source -> SUBSET Post]
    BY <2>1, <2>2, ReturnType, GotoType
  <2> QED
    BY <2>1, <2>3, <2>4, <2>5 DEF TypeOK, dbVars, runVars
<1>5. CASE FetchFatal(s)
  <2>1. RetryBound'
    BY <1>5 DEF FetchFatal, Goto, TypeOK, RetryBound
  <2>2. "alerting" \in Phase
    BY DEF Phase
  <2> QED
    BY <1>5, <2>1, <2>2, GotoType, CounterType DEF FetchFatal, TypeOK, dbVars, runVars
<1>6. CASE FetchPermanent(s)
  <2>1. RetryBound'
    BY <1>6 DEF FetchPermanent, Goto, TypeOK, RetryBound
  <2>2. "deactivating" \in Phase
    BY DEF Phase
  <2> QED
    BY <1>6, <2>1, <2>2, GotoType DEF FetchPermanent, TypeOK, dbVars, runVars, poolVars
<1>7. CASE Retry(s)
  BY <1>7 DEF Retry, TypeOK, RetryBound, Phase, dbVars, runVars, poolVars
<1>8. CASE CutShort(s)
  <2>1. RetryBound'
    BY <1>8 DEF CutShort, Return, TypeOK, RetryBound
  <2> QED
    BY <1>8, <2>1, ReturnType, CounterType DEF CutShort, TypeOK, dbVars, runVars
<1>9. CASE AlertFatal(s)
  <2>1. RetryBound'
    BY <1>9 DEF AlertFatal, Goto, TypeOK, RetryBound
  <2>2. "aborting" \in Phase
    BY DEF Phase
  <2> QED
    BY <1>9, <2>1, <2>2, GotoType DEF AlertFatal, TypeOK, dbVars, runVars
<1>10. CASE Abort(s)
  <2>1. RetryBound'
    BY <1>10 DEF Abort, Return, TypeOK, RetryBound
  <2>2. fatalErr' \in BOOLEAN
    BY <1>10 DEF Abort
  <2> QED
    BY <1>10, <2>1, <2>2, ReturnType DEF Abort, TypeOK, dbVars, runVars
<1>11. ASSUME NEW p \in Post, Upsert(s, p)
       PROVE  TypeInv'
  BY <1>11 DEF Upsert, TypeOK, RetryBound, Phase, runVars, poolVars
<1>12. ASSUME NEW p \in Post, UpsertCutShort(s, p)
       PROVE  TypeInv'
  <2>1. RetryBound'
    BY <1>12 DEF UpsertCutShort, Return, TypeOK, RetryBound
  <2>2. landed' \in SUBSET Post
    BY <1>12 DEF UpsertCutShort, TypeOK
  <2> QED
    BY <1>12, <2>1, <2>2, ReturnType, CounterType DEF UpsertCutShort, TypeOK, runVars
<1>13. ASSUME NEW p \in Post, UpsertFails(s, p)
       PROVE  TypeInv'
  <2>1. RetryBound'
    BY <1>13 DEF UpsertFails, Goto, TypeOK, RetryBound
  <2>2. landed' \in SUBSET Post
    BY <1>13 DEF UpsertFails, TypeOK
  <2>3. "marking" \in Phase
    BY DEF Phase
  <2> QED
    BY <1>13, <2>1, <2>2, <2>3, GotoType DEF UpsertFails, TypeOK, runVars, poolVars
<1>14. ASSUME CountSuccess(s)
       PROVE  /\ RetryBound' /\ counters' \in Counter
              /\ phase' \in [Source -> Phase]
              /\ attempt' \in [Source -> 0..(MaxRetries + 1)]
              /\ todo' \in [Source -> SUBSET Post]
              /\ fresh' \in [Source -> SUBSET Post]
              /\ UNCHANGED <<active, landed, row, runVars, fatalErr, alerts>>
  <2>1. RetryBound'
    BY <1>14 DEF CountSuccess, Return, TypeOK, RetryBound
  <2>2. fresh[s] \subseteq Post /\ Media[s] \ fresh[s] \subseteq Post
    BY DEF TypeOK
  <2>3. Cardinality(fresh[s]) \in Nat /\ Cardinality(Media[s] \ fresh[s]) \in Nat
    BY <2>2, FS_Subset, FS_CardinalityType
  <2> QED
    BY <1>14, <2>1, <2>3, ReturnType, CounterType DEF CountSuccess
<1>15. ASSUME Synced(s)
       PROVE  failures' \in [Source -> Nat] /\ older' \in SUBSET (Source \X Source)
  BY <1>15 DEF Synced, TypeOK
<1>16. CASE MarkSynced(s)
  BY <1>14, <1>15, <1>16 DEF MarkSynced, TypeOK, runVars
<1>17. CASE MarkSyncedFails(s)
  <2>1. failures' \in [Source -> Nat] /\ older' \in SUBSET (Source \X Source)
    BY <1>15, <1>17 DEF MarkSyncedFails, TypeOK
  <2> QED
    BY <1>14, <1>17, <2>1, FaultType DEF MarkSyncedFails, TypeOK, runVars
<1>18. CASE MarkFailed(s)
  <2>1. /\ UNCHANGED <<active, older, landed, row, runVars, fatalErr, alerts, faults>>
        /\ failures' = [failures EXCEPT ![s] = @ + 1]
        /\ \/ Goto(s, "deactivating") /\ UNCHANGED counters
           \/ Return(s) /\ AddFailure
    BY <1>18 DEF MarkFailed
  <2>2. "deactivating" \in Phase
    BY DEF Phase
  <2>3. RetryBound'
    BY <2>1 DEF Goto, Return, TypeOK, RetryBound
  <2>4. counters' \in Counter
    BY <2>1, CounterType DEF TypeOK
  <2>5. failures' \in [Source -> Nat]
    BY <2>1 DEF TypeOK
  <2>6. /\ phase' \in [Source -> Phase]
        /\ attempt' \in [Source -> 0..(MaxRetries + 1)]
        /\ todo' \in [Source -> SUBSET Post]
        /\ fresh' \in [Source -> SUBSET Post]
    BY <2>1, <2>2, ReturnType, GotoType
  <2> QED
    BY <2>1, <2>3, <2>4, <2>5, <2>6 DEF TypeOK, runVars
<1>19. CASE MarkFailedFails(s)
  <2>1. RetryBound'
    BY <1>19 DEF MarkFailedFails, Return, TypeOK, RetryBound
  <2>2. failures' \in [Source -> Nat]
    BY <1>19 DEF MarkFailedFails, TypeOK
  <2> QED
    BY <1>19, <2>1, <2>2, ReturnType, CounterType, FaultType
    DEF MarkFailedFails, TypeOK, runVars
<1>20. CASE Deactivate(s)
  <2>1. RetryBound'
    BY <1>20 DEF Deactivate, Return, TypeOK, RetryBound
  <2> QED
    BY <1>20, <2>1, ReturnType, CounterType DEF Deactivate, TypeOK, runVars
<1>21. CASE DeactivateFails(s)
  <2>1. RetryBound'
    BY <1>21 DEF DeactivateFails, Return, TypeOK, RetryBound
  <2>2. active' \in SUBSET Source
    BY <1>21 DEF DeactivateFails, TypeOK
  <2> QED
    BY <1>21, <2>1, <2>2, ReturnType, CounterType, FaultType
    DEF DeactivateFails, TypeOK, runVars
<1> QED
  BY <1>1, <1>2, <1>3, <1>4, <1>5, <1>6, <1>7, <1>8, <1>9, <1>10, <1>11, <1>12, <1>13,
     <1>16, <1>17, <1>18, <1>19, <1>20, <1>21 DEF WorkerStep

LEMMA TypeStep == TypeInv /\ [Next]_vars => TypeInv'
<1> SUFFICES ASSUME TypeInv, [Next]_vars PROVE TypeInv'
  OBVIOUS
<1>1. CASE Start \/ RunStep \/ Cancel \/ Crash
  BY <1>1, TypeRun
<1>2. ASSUME NEW s \in Source, WorkerStep(s) PROVE TypeInv'
  BY <1>2, TypeWorker
<1>3. CASE UNCHANGED vars
  BY <1>3 DEF vars, dbVars, runVars, poolVars, workerVars, TypeInv, TypeOK, RetryBound
<1> QED
  BY <1>1, <1>2, <1>3 DEF Next

(* Every variable keeps its type, and no source is tried more than         *)
(* MaxRetries + 1 times in a run: the loop bound of discoverWithRetry.     *)
THEOREM TypeCorrect == Spec => []TypeInv
<1>1. Init => TypeInv
  BY TypeInit
<1>2. TypeInv /\ [Next]_vars => TypeInv'
  BY TypeStep
<1> QED
  BY <1>1, <1>2, PTL DEF Spec

(* The same for the type invariant the runs check.                         *)
THEOREM TypeSafe == Spec => []TypeOK
  BY TypeCorrect, PTL DEF TypeInv

-----------------------------------------------------------------------------
(* The inductive invariants behind the safety properties.                  *)

InPool == {"loop", "acquire", "wait"}

(* Outside the pool nothing is listed, pending, counted, alerted or run.   *)
(* Inside it, a source is pending or has a worker, never both, and a       *)
(* worker that has not returned works on a source that is still active:    *)
(* nobody else deactivates it.                                             *)
RunShape ==
  /\ pc \notin InPool =>
       /\ listed = {} /\ pending = {} /\ counters = NoCounters
       /\ alerts = 0 /\ ~fatalErr
       /\ \A s \in Source : phase[s] = "none"
  /\ pc = "wait" => pending = {} \/ RunCtxDone
  /\ \A s \in pending : s \in listed /\ s \in active /\ phase[s] = "none"
  /\ \A s \in Source : phase[s] # "none" => s \in listed
  /\ \A s \in Source : phase[s] \notin {"none", "done"} => s \in active

(* A healthy source never reaches the states that write failures or active.*)
HealthyInv ==
  \A s \in Source : Healthy(s) =>
    /\ s \in active /\ failures[s] = 0
    /\ phase[s] \notin {"backoff", "marking", "deactivating"}

(* The cause of a deactivation is there before the write, and no sync      *)
(* clears the streak of a source that is out of rotation.                  *)
Cause(s) == "permanent" \in Answers[s] \/ failures[s] >= AutoDeactivateThreshold
CauseInv ==
  \A s \in Source : s \notin active \/ phase[s] = "deactivating" => Cause(s)

(* The workers that have not counted their source yet, those that may      *)
(* still raise an alert once the pool is cancelled, and those that have    *)
(* alerted but not cancelled.                                              *)
OpenPhase == {"ready", "calling", "backoff", "landing", "marking", "deactivating"}
HotPhase == {"calling", "backoff", "landing", "marking", "deactivating", "alerting"}
Open == {s \in Source : phase[s] \in OpenPhase}
Hot == {s \in Source : phase[s] \in HotPhase}
Aborting == {s \in Source : phase[s] = "aborting"}

Counted == counters.ok + counters.failed
Taken == listed \ pending
CountInv ==
  /\ Counted + Cardinality(Open) <= Cardinality(Taken)
  /\ ~RunCtxDone => Counted + Cardinality(Open) = Cardinality(Taken)

(* Before the cancel, every alert is one worker that still holds its slot; *)
(* after it, no worker starts a call, so the alerts to come are bounded by *)
(* the workers still busy.                                                 *)
AlertInv ==
  /\ Cardinality(Slots) <= WorkerConcurrency
  /\ ~fatalErr => alerts <= Cardinality(Aborting)
  /\ fatalErr => alerts + Cardinality(Hot) <= WorkerConcurrency

-----------------------------------------------------------------------------
(* What one worker step does to the phases and the counters: it moves on,  *)
(* counts its source, skips it, alerts, or aborts the run.                 *)
Moves(s) ==
  /\ phase[s] \in OpenPhase /\ phase'[s] \in OpenPhase \ {"ready"}
  /\ phase[s] = "ready" => ~RunCtxDone
  /\ UNCHANGED <<counters, alerts, fatalErr>>
Counts(s) ==
  /\ phase[s] \in OpenPhase \ {"ready"} /\ phase'[s] \in {"done", "alerting"}
  /\ counters'.ok + counters'.failed = counters.ok + counters.failed + 1
  /\ UNCHANGED <<alerts, fatalErr>>
Skips(s) ==
  /\ phase[s] = "ready" /\ phase'[s] = "done" /\ RunCtxDone
  /\ UNCHANGED <<counters, alerts, fatalErr>>
Alerts(s) ==
  /\ phase[s] = "alerting" /\ phase'[s] = "aborting" /\ alerts' = alerts + 1
  /\ UNCHANGED <<counters, fatalErr>>
Aborts(s) ==
  /\ phase[s] = "aborting" /\ phase'[s] = "done" /\ fatalErr'
  /\ UNCHANGED <<counters, alerts>>

LEMMA PhaseEffect ==
  ASSUME TypeInv, NEW s \in Source
  PROVE  /\ Return(s) => phase'[s] = "done" /\ \A t \in Source \ {s} : phase'[t] = phase[t]
         /\ \A ph \in Phase : Goto(s, ph) =>
              phase'[s] = ph /\ \A t \in Source \ {s} : phase'[t] = phase[t]
  BY DEF TypeInv, TypeOK, Return, Goto

LEMMA CountEffect ==
  ASSUME TypeInv
  PROVE  /\ AddFailure =>
              counters'.ok + counters'.failed = counters.ok + counters.failed + 1
         /\ \A n, u \in Nat : AddSuccess(n, u) =>
              counters'.ok + counters'.failed = counters.ok + counters.failed + 1
<1>1. AddFailure => counters'.ok + counters'.failed = counters.ok + counters.failed + 1
  BY DEF TypeInv, TypeOK, AddFailure, Counter
<1>2. ASSUME NEW n \in Nat, NEW u \in Nat, AddSuccess(n, u)
      PROVE  counters'.ok + counters'.failed = counters.ok + counters.failed + 1
  BY <1>2 DEF TypeInv, TypeOK, AddSuccess, Counter
<1> QED
  BY <1>1, <1>2

LEMMA WorkerEffect ==
  ASSUME TypeInv, NEW s \in Source, WorkerStep(s)
  PROVE  /\ UNCHANGED <<row, runVars>>
         /\ \A t \in Source \ {s} : phase'[t] = phase[t]
         /\ Moves(s) \/ Counts(s) \/ Skips(s) \/ Alerts(s) \/ Aborts(s)
<1> DEFINE Effect ==
      /\ UNCHANGED <<row, runVars>>
      /\ \A t \in Source \ {s} : phase'[t] = phase[t]
      /\ Moves(s) \/ Counts(s) \/ Skips(s) \/ Alerts(s) \/ Aborts(s)
<1>0. /\ {"marking", "backoff", "deactivating", "alerting", "aborting"} \subseteq Phase
      /\ phase \in [Source -> Phase]
  BY DEF Phase, TypeInv, TypeOK
<1>1. CASE Begin(s)
  BY <1>0, <1>1 DEF Begin, Moves, OpenPhase, poolVars
<1>2. CASE Skip(s)
  BY <1>2, PhaseEffect DEF Skip, Skips, poolVars
<1>3. CASE FetchMedia(s)
  BY <1>0, <1>3 DEF FetchMedia, Moves, OpenPhase, poolVars
<1>4. CASE FetchTransient(s)
  <2>1. /\ UNCHANGED <<row, runVars, fatalErr, alerts>>
        /\ phase[s] = "calling"
        /\ \/ Goto(s, "backoff") /\ UNCHANGED counters
           \/ Goto(s, "marking") /\ UNCHANGED counters
           \/ Return(s) /\ AddFailure
    BY <1>4 DEF FetchTransient
  <2> QED
    BY <1>0, <2>1, PhaseEffect, CountEffect DEF Moves, Counts, OpenPhase
<1>5. CASE FetchFatal(s)
  BY <1>0, <1>5, PhaseEffect, CountEffect DEF FetchFatal, Counts, OpenPhase
<1>6. CASE FetchPermanent(s)
  BY <1>0, <1>6, PhaseEffect DEF FetchPermanent, Moves, OpenPhase, poolVars
<1>7. CASE Retry(s)
  BY <1>0, <1>7 DEF Retry, Moves, OpenPhase, poolVars
<1>8. CASE CutShort(s)
  BY <1>8, PhaseEffect, CountEffect DEF CutShort, Counts, OpenPhase
<1>9. CASE AlertFatal(s)
  BY <1>0, <1>9, PhaseEffect DEF AlertFatal, Alerts
<1>10. CASE Abort(s)
  BY <1>10, PhaseEffect DEF Abort, Aborts
<1>11. ASSUME NEW p \in Post, Upsert(s, p) PROVE Effect
  BY <1>11 DEF Upsert, Moves, OpenPhase, poolVars
<1>12. ASSUME NEW p \in Post, UpsertCutShort(s, p) PROVE Effect
  BY <1>12, PhaseEffect, CountEffect DEF UpsertCutShort, Counts, OpenPhase
<1>13. ASSUME NEW p \in Post, UpsertFails(s, p) PROVE Effect
  BY <1>0, <1>13, PhaseEffect DEF UpsertFails, Moves, OpenPhase, poolVars
<1>14. ASSUME Landed(s), CountSuccess(s) PROVE Effect
  <2>1. fresh[s] \subseteq Post /\ Media[s] \ fresh[s] \subseteq Post
    BY DEF TypeInv, TypeOK
  <2>2. Cardinality(fresh[s]) \in Nat /\ Cardinality(Media[s] \ fresh[s]) \in Nat
    BY <2>1, FS_Subset, FS_CardinalityType
  <2> QED
    BY <1>14, <2>2, PhaseEffect, CountEffect DEF Landed, CountSuccess, Counts, OpenPhase
<1>15. CASE MarkSynced(s) \/ MarkSyncedFails(s)
  BY <1>14, <1>15 DEF MarkSynced, MarkSyncedFails
<1>16. CASE MarkFailed(s)
  <2>1. /\ UNCHANGED <<row, runVars, fatalErr, alerts>>
        /\ phase[s] = "marking"
        /\ \/ Goto(s, "deactivating") /\ UNCHANGED counters
           \/ Return(s) /\ AddFailure
    BY <1>16 DEF MarkFailed
  <2> QED
    BY <1>0, <2>1, PhaseEffect, CountEffect DEF Moves, Counts, OpenPhase
<1>17. CASE MarkFailedFails(s)
  BY <1>17, PhaseEffect, CountEffect DEF MarkFailedFails, Counts, OpenPhase
<1>18. CASE Deactivate(s)
  BY <1>18, PhaseEffect, CountEffect DEF Deactivate, Counts, OpenPhase
<1>19. CASE DeactivateFails(s)
  BY <1>19, PhaseEffect, CountEffect DEF DeactivateFails, Counts, OpenPhase
<1> QED
  BY <1>1, <1>2, <1>3, <1>4, <1>5, <1>6, <1>7, <1>8, <1>9, <1>10, <1>11, <1>12, <1>13,
     <1>15, <1>16, <1>17, <1>18, <1>19 DEF WorkerStep

(* What one worker step does to its ig_sources row.                        *)
Keeps(s) == active' = active /\ failures' = failures
Resets(s) ==
  /\ phase[s] = "landing" /\ phase'[s] = "done"
  /\ active' = active /\ failures' = [failures EXCEPT ![s] = 0]
Charges(s) ==
  /\ phase[s] = "marking" /\ phase'[s] \in {"deactivating", "done"}
  /\ active' = active /\ failures' = [failures EXCEPT ![s] = @ + 1]
  /\ phase'[s] = "deactivating" => failures'[s] >= AutoDeactivateThreshold
  /\ faults' = 0 /\ failures'[s] >= AutoDeactivateThreshold => phase'[s] = "deactivating"
Retires(s) ==
  /\ phase[s] = "deactivating" /\ phase'[s] = "done"
  /\ active' = active \ {s} /\ failures' = failures

LEMMA SourceEffect ==
  ASSUME TypeInv, NEW s \in Source, WorkerStep(s)
  PROVE  /\ Keeps(s) \/ Resets(s) \/ Charges(s) \/ Retires(s)
         /\ Keeps(s) /\ phase'[s] = "deactivating" =>
              "permanent" \in Answers[s]
         /\ phase'[s] \in {"backoff", "marking", "deactivating"}
              /\ phase[s] \notin {"backoff", "marking", "deactivating"} => ~Healthy(s)
         /\ faults' = 0 /\ phase[s] = "deactivating" => Retires(s)
         /\ faults' = 0 => faults = 0
<1> DEFINE Troubled == {"backoff", "marking", "deactivating"}
           Effect ==
             /\ Keeps(s) \/ Resets(s) \/ Charges(s) \/ Retires(s)
             /\ Keeps(s) /\ phase'[s] = "deactivating" =>
                  "permanent" \in Answers[s]
             /\ phase'[s] \in Troubled /\ phase[s] \notin Troubled => ~Healthy(s)
             /\ faults' = 0 /\ phase[s] = "deactivating" => Retires(s)
             /\ faults' = 0 => faults = 0
<1>0. /\ {"marking", "backoff", "deactivating", "alerting", "aborting"} \subseteq Phase
      /\ phase \in [Source -> Phase] /\ failures \in [Source -> Nat]
      /\ faults \in Nat /\ (Fault => faults' # 0)
  BY DEF Phase, TypeInv, TypeOK, Fault
<1>1. CASE Begin(s)
  BY <1>0, <1>1 DEF Begin, Keeps, dbVars
<1>2. CASE Skip(s)
  BY <1>2, PhaseEffect DEF Skip, Keeps, dbVars
<1>3. CASE FetchMedia(s)
  BY <1>0, <1>3 DEF FetchMedia, Keeps, dbVars
<1>4. CASE FetchTransient(s)
  <2>1. /\ UNCHANGED <<dbVars, faults>> /\ phase[s] = "calling" /\ ~Healthy(s)
        /\ Goto(s, "backoff") \/ Goto(s, "marking") \/ Return(s)
    BY <1>4 DEF FetchTransient, Healthy
  <2> QED
    BY <1>0, <2>1, PhaseEffect DEF Keeps, dbVars
<1>5. CASE FetchFatal(s)
  BY <1>0, <1>5, PhaseEffect DEF FetchFatal, Keeps, dbVars
<1>6. CASE FetchPermanent(s)
  BY <1>0, <1>6, PhaseEffect DEF FetchPermanent, Keeps, dbVars, Healthy
<1>7. CASE Retry(s)
  BY <1>0, <1>7 DEF Retry, Keeps, dbVars
<1>8. CASE CutShort(s)
  BY <1>8, PhaseEffect DEF CutShort, Keeps, dbVars
<1>9. CASE AlertFatal(s)
  BY <1>0, <1>9, PhaseEffect DEF AlertFatal, Keeps, dbVars
<1>10. CASE Abort(s)
  BY <1>10, PhaseEffect DEF Abort, Keeps, dbVars
<1>11. ASSUME NEW p \in Post, Upsert(s, p) PROVE Effect
  BY <1>11 DEF Upsert, Keeps
<1>12. ASSUME NEW p \in Post, UpsertCutShort(s, p) PROVE Effect
  BY <1>12, PhaseEffect DEF UpsertCutShort, Keeps
<1>13. ASSUME NEW p \in Post, UpsertFails(s, p) PROVE Effect
  BY <1>0, <1>13, PhaseEffect DEF UpsertFails, Keeps, Healthy
<1>14. CASE MarkSynced(s)
  BY <1>14, PhaseEffect DEF MarkSynced, Landed, Synced, CountSuccess, Resets
<1>15. CASE MarkSyncedFails(s)
  BY <1>0, <1>15, PhaseEffect
  DEF MarkSyncedFails, Landed, Synced, CountSuccess, Resets, Keeps
<1>16. CASE MarkFailed(s)
  <2>1. /\ active' = active /\ failures' = [failures EXCEPT ![s] = @ + 1]
        /\ failures'[s] = failures[s] + 1
        /\ phase[s] = "marking" /\ UNCHANGED faults
        /\ \/ Goto(s, "deactivating") /\ failures'[s] >= AutoDeactivateThreshold
           \/ Return(s) /\ ~(failures'[s] >= AutoDeactivateThreshold)
    BY <1>0, <1>16 DEF MarkFailed, Deactivates
  <2>2. Charges(s)
    BY <1>0, <2>1, PhaseEffect DEF Charges
  <2>3. failures' # failures
    BY <1>0, <2>1
  <2> QED
    BY <1>0, <2>1, <2>2, <2>3 DEF Keeps
<1>17. CASE MarkFailedFails(s)
  BY <1>0, <1>17, PhaseEffect DEF MarkFailedFails, Charges, Keeps
<1>18. CASE Deactivate(s)
  BY <1>18, PhaseEffect DEF Deactivate, Retires
<1>19. CASE DeactivateFails(s)
  BY <1>0, <1>19, PhaseEffect DEF DeactivateFails, Retires, Keeps
<1> QED
  BY <1>1, <1>2, <1>3, <1>4, <1>5, <1>6, <1>7, <1>8, <1>9, <1>10, <1>11, <1>12, <1>13,
     <1>14, <1>15, <1>16, <1>17, <1>18, <1>19 DEF WorkerStep

-----------------------------------------------------------------------------
(* The shape of a run.                                                     *)
LEMMA ShapeStep == TypeInv /\ RunShape /\ [Next]_vars => RunShape'
<1> SUFFICES ASSUME TypeInv, RunShape, [Next]_vars PROVE RunShape'
  OBVIOUS
<1> USE DEF InPool
<1>0. ASSUME RunReturns PROVE RunShape'
  BY <1>0 DEF RunReturns, RunShape
<1>1. CASE Start
  BY <1>1 DEF Start, RunShape, RunCtxDone, dbVars, poolVars, workerVars
<1>2. CASE Create
  BY <1>2 DEF Create, RunShape, RunCtxDone, dbVars, poolVars, workerVars
<1>3. CASE CreateFails \/ FinishRun \/ FinishFails \/ Crash
  BY <1>0, <1>3 DEF CreateFails, FinishRun, FinishFails, Crash
<1>4. CASE ListActive
  BY <1>4
  DEF ListActive, RunShape, RunCtxDone, TypeInv, TypeOK, dbVars, poolVars, workerVars
<1>5. CASE ListFails
  BY <1>5 DEF ListFails, RunShape, RunCtxDone, dbVars, poolVars, workerVars
<1>6. CASE LoopHead
  BY <1>6 DEF LoopHead, RunShape, RunCtxDone, dbVars, poolVars, workerVars
<1>7. ASSUME NEW s \in Source, Spawn(s) PROVE RunShape'
  <2>1. /\ pc = "acquire" /\ pc' \in {"wait", "loop"} /\ (pc' = "wait" => pending' = {})
        /\ s \in pending /\ pending' = pending \ {s}
        /\ phase'[s] = "ready" /\ \A t \in Source \ {s} : phase'[t] = phase[t]
        /\ UNCHANGED <<active, listed>>
    BY <1>7 DEF Spawn, NextInOrder, Goto, TypeInv, TypeOK, dbVars
  <2> QED
    BY <2>1 DEF RunShape, TypeInv, TypeOK
<1>8. ASSUME NEW s \in Source, WorkerStep(s) PROVE RunShape'
  <2>1. /\ phase[s] \notin {"none", "done"} /\ phase'[s] # "none"
        /\ \A t \in Source \ {s} : phase'[t] = phase[t]
        /\ UNCHANGED <<pc, ctxDone, listed, pending>> /\ (fatalErr => fatalErr')
    BY <1>8, WorkerEffect
    DEF Moves, Counts, Skips, Alerts, Aborts, OpenPhase, runVars
  <2>2. active' = active \/ (active' = active \ {s} /\ phase'[s] = "done")
    BY <1>8, SourceEffect DEF Keeps, Resets, Charges, Retires
  <2>3. pc \in InPool
    BY <2>1 DEF RunShape
  <2> QED
    BY <2>1, <2>2, <2>3 DEF RunShape, RunCtxDone, TypeInv, TypeOK
<1>9. CASE Cancel
  BY <1>9 DEF Cancel, RunShape, RunCtxDone, dbVars, poolVars, workerVars
<1>10. CASE UNCHANGED vars
  BY <1>10 DEF vars, dbVars, runVars, poolVars, workerVars, RunShape, RunCtxDone
<1> QED
  BY <1>1, <1>2, <1>3, <1>4, <1>5, <1>6, <1>7, <1>8, <1>9, <1>10 DEF Next, RunStep

LEMMA ShapeInvariant == Spec => [](TypeInv /\ RunShape)
<1>1. Init => RunShape
  BY DEF Init, RunShape, InPool
<1> QED
  BY <1>1, TypeInit, TypeStep, ShapeStep, PTL DEF Spec

(* A step of the run itself writes no ig_sources row.  It moves no worker, *)
(* spawns one, or drops them all; it drops none that is about to write     *)
(* unless it is a crash.                                                   *)
LEMMA RunFrame ==
  ASSUME TypeInv, RunShape, Start \/ RunStep \/ Cancel \/ Crash \/ UNCHANGED vars
  PROVE  /\ UNCHANGED <<active, failures>>
         /\ \A t \in Source : phase'[t] \in {phase[t], "none", "ready"}
         /\ \A t \in Source : phase[t] = "deactivating" /\ faults' = 0 =>
              phase'[t] = "deactivating"
         /\ faults' = 0 => faults = 0
<1> DEFINE Frame ==
      /\ UNCHANGED <<active, failures>>
      /\ \A t \in Source : phase'[t] \in {phase[t], "none", "ready"}
      /\ \A t \in Source : phase[t] = "deactivating" /\ faults' = 0 =>
           phase'[t] = "deactivating"
      /\ faults' = 0 => faults = 0
<1>0. phase \in [Source -> Phase] /\ faults \in Nat /\ (Fault => faults' # 0)
  BY DEF TypeInv, TypeOK, Fault
<1>1. CASE UNCHANGED <<dbVars, phase>> /\ (UNCHANGED faults \/ Fault)
  BY <1>0, <1>1 DEF dbVars
<1>2. CASE Start \/ Create \/ ListActive \/ ListFails \/ LoopHead \/ Cancel \/ UNCHANGED vars
  BY <1>1, <1>2
  DEF Start, Create, ListActive, ListFails, LoopHead, Cancel, workerVars, vars
<1>3. CASE CreateFails
  BY <1>0, <1>3 DEF CreateFails, RunReturns, RunShape, InPool, dbVars
<1>4. ASSUME NEW s \in Source, Spawn(s) PROVE Frame
  <2>1. /\ phase[s] = "none" /\ phase'[s] = "ready"
        /\ \A t \in Source \ {s} : phase'[t] = phase[t]
    BY <1>0, <1>4 DEF Spawn, NextInOrder, Goto, RunShape
  <2> QED
    BY <1>4, <2>1 DEF Spawn, dbVars
<1>5. CASE FinishRun \/ FinishFails
  <2>1. \A t \in Source : phase[t] \in {"none", "done"}
    BY <1>5 DEF FinishRun, FinishFails, WaitDone, Slots, RunShape, InPool
  <2> QED
    BY <1>0, <1>5, <2>1 DEF FinishRun, FinishFails, RunReturns, dbVars
<1>6. CASE Crash
  BY <1>0, <1>6 DEF Crash, RunReturns, dbVars
<1> QED
  BY <1>2, <1>3, <1>4, <1>5, <1>6 DEF RunStep

-----------------------------------------------------------------------------
(* The record of a source.                                                 *)

LEMMA HealthyStep == TypeInv /\ RunShape /\ HealthyInv /\ [Next]_vars => HealthyInv'
<1> SUFFICES ASSUME TypeInv, RunShape, HealthyInv, [Next]_vars,
                    NEW t \in Source, Healthy(t)
             PROVE  /\ t \in active' /\ failures'[t] = 0
                    /\ phase'[t] \notin {"backoff", "marking", "deactivating"}
  BY DEF HealthyInv, Healthy
<1>0. /\ t \in active /\ failures[t] = 0
      /\ phase[t] \notin {"backoff", "marking", "deactivating"}
  BY DEF HealthyInv
<1>1. CASE Start \/ RunStep \/ Cancel \/ Crash \/ UNCHANGED vars
  BY <1>0, <1>1, RunFrame
<1>2. ASSUME NEW s \in Source, WorkerStep(s), s # t
      PROVE  /\ t \in active' /\ failures'[t] = 0
             /\ phase'[t] \notin {"backoff", "marking", "deactivating"}
  <2>1. phase'[t] = phase[t]
    BY <1>2, WorkerEffect
  <2>2. failures'[t] = failures[t] /\ (t \in active => t \in active')
    BY <1>2, SourceEffect DEF Keeps, Resets, Charges, Retires, TypeInv, TypeOK
  <2> QED
    BY <1>0, <2>1, <2>2
<1>3. CASE WorkerStep(t)
  <2>1. phase'[t] \notin {"backoff", "marking", "deactivating"}
    BY <1>0, <1>3, SourceEffect
  <2>2. Keeps(t) \/ Resets(t)
    BY <1>0, <1>3, SourceEffect DEF Charges, Retires
  <2> QED
    BY <1>0, <2>1, <2>2 DEF Keeps, Resets, TypeInv, TypeOK
<1> QED
  BY <1>1, <1>2, <1>3 DEF Next

(* An account whose calls bring posts or a token error keeps its place and *)
(* a streak of zero, whatever happens to its siblings and to the database. *)
THEOREM HealthySafe == Spec => []HealthyNeverPenalised
<1>1. Init => HealthyInv
  BY DEF Init, HealthyInv
<1>2. HealthyInv => HealthyNeverPenalised
  BY DEF HealthyInv, HealthyNeverPenalised
<1> QED
  BY <1>1, <1>2, ShapeInvariant, HealthyStep, PTL DEF Spec

(* A worker step writes only the row of its own source.                    *)
LEMMA SiblingsKept ==
  ASSUME TypeInv, NEW s \in Source, WorkerStep(s), NEW t \in Source \ {s}
  PROVE  phase'[t] = phase[t] /\ failures'[t] = failures[t] /\ (t \in active' <=> t \in active)
  BY WorkerEffect, SourceEffect DEF Keeps, Resets, Charges, Retires, TypeInv, TypeOK

LEMMA CauseStep == TypeInv /\ RunShape /\ CauseInv /\ [Next]_vars => CauseInv'
<1> SUFFICES ASSUME TypeInv, RunShape, CauseInv, [Next]_vars, NEW t \in Source,
                    t \notin active' \/ phase'[t] = "deactivating"
             PROVE  "permanent" \in Answers[t] \/ failures'[t] >= AutoDeactivateThreshold
  BY DEF CauseInv, Cause
<1>0. t \notin active \/ phase[t] = "deactivating" =>
        "permanent" \in Answers[t] \/ failures[t] >= AutoDeactivateThreshold
  BY DEF CauseInv, Cause
<1>1. CASE Start \/ RunStep \/ Cancel \/ Crash \/ UNCHANGED vars
  BY <1>0, <1>1, RunFrame
<1>2. ASSUME NEW s \in Source, WorkerStep(s), s # t
      PROVE  "permanent" \in Answers[t] \/ failures'[t] >= AutoDeactivateThreshold
  BY <1>0, <1>2, SiblingsKept
<1>3. CASE WorkerStep(t)
  <2>1. t \in active
    BY <1>3, WorkerEffect
    DEF Moves, Counts, Skips, Alerts, Aborts, OpenPhase, RunShape
  <2>2. CASE Keeps(t)
    BY <1>3, <2>1, <2>2, SourceEffect DEF Keeps
  <2>3. CASE Resets(t)
    BY <2>1, <2>3 DEF Resets
  <2>4. CASE Charges(t)
    BY <2>1, <2>4 DEF Charges
  <2>5. CASE Retires(t)
    BY <1>0, <2>5 DEF Retires
  <2> QED
    BY <1>3, <2>2, <2>3, <2>4, <2>5, SourceEffect
<1> QED
  BY <1>1, <1>2, <1>3 DEF Next

(* A source leaves the rotation only because a call for it can be answered *)
(* with a permanent error, or with its streak at the threshold; no crash,  *)
(* lost write or later sync leaves it out without that reason on record.   *)
THEOREM CauseSafe == Spec => []DeactivatedForCause
<1>1. Init => CauseInv
  BY DEF Init, CauseInv
<1>2. CauseInv => DeactivatedForCause
  BY DEF CauseInv, Cause, DeactivatedForCause
<1> QED
  BY <1>1, <1>2, ShapeInvariant, CauseStep, PTL DEF Spec

LEMMA StreakStep ==
  TypeInv /\ RunShape /\ StreakIsActedOn /\ [Next]_vars => StreakIsActedOn'
<1> SUFFICES ASSUME TypeInv, RunShape, StreakIsActedOn, [Next]_vars, faults' = 0,
                    NEW t \in active', failures'[t] >= AutoDeactivateThreshold
             PROVE  phase'[t] = "deactivating"
  BY DEF StreakIsActedOn
<1>1. CASE Start \/ RunStep \/ Cancel \/ Crash \/ UNCHANGED vars
  BY <1>1, RunFrame DEF StreakIsActedOn, TypeInv, TypeOK
<1>2. ASSUME NEW s \in Source, WorkerStep(s), s # t PROVE phase'[t] = "deactivating"
  <2>1. faults = 0 /\ t \in Source
    BY <1>2, SourceEffect, TypeWorker DEF TypeInv, TypeOK
  <2> QED
    BY <1>2, <2>1, SiblingsKept DEF StreakIsActedOn
<1>3. ASSUME t \in Source, WorkerStep(t) PROVE phase'[t] = "deactivating"
  <2>1. faults = 0 /\ (phase[t] = "deactivating" => Retires(t))
    BY <1>3, SourceEffect
  <2>2. ~Retires(t)
    BY DEF Retires
  <2>3. CASE Keeps(t)
    BY <2>1, <2>2, <2>3 DEF Keeps, StreakIsActedOn
  <2>4. CASE Resets(t)
    BY <1>3, <2>4 DEF Resets, TypeInv, TypeOK
  <2>5. CASE Charges(t)
    BY <2>5 DEF Charges
  <2> QED
    BY <1>3, <2>2, <2>3, <2>4, <2>5, SourceEffect
<1>4. t \in Source
  BY TypeStep DEF TypeInv, TypeOK
<1> QED
  BY <1>1, <1>2, <1>3, <1>4 DEF Next

(* Without faults, a streak at the threshold is always acted on: the       *)
(* source is out, or its worker is at the deactivation.                    *)
THEOREM StreakSafe == Spec => []StreakIsActedOn
<1>1. Init => StreakIsActedOn
  BY DEF Init, StreakIsActedOn
<1> QED
  BY <1>1, ShapeInvariant, StreakStep, PTL DEF Spec

-----------------------------------------------------------------------------
(* Counting.                                                               *)

(* The sets the invariants count are finite, and the run's own steps clear *)
(* them together with the counters or leave them as they are.              *)
LEMMA PoolFinite ==
  ASSUME TypeOK
  PROVE  /\ IsFiniteSet(Open) /\ IsFiniteSet(Hot) /\ IsFiniteSet(Aborting)
         /\ IsFiniteSet(Slots) /\ IsFiniteSet(Taken)
  BY FS_Subset DEF Open, Hot, Aborting, Slots, Taken, TypeOK

LEMMA PoolSizes ==
  ASSUME TypeOK
  PROVE  /\ Cardinality(Open) \in Nat /\ Cardinality(Hot) \in Nat
         /\ Cardinality(Aborting) \in Nat /\ Cardinality(Slots) \in Nat
         /\ Cardinality(Taken) \in Nat /\ Counted \in Nat
<1>1. Counted \in Nat
  BY DEF Counted, TypeOK, Counter
<1> QED
  BY <1>1, PoolFinite, FS_CardinalityType

(* Outside Spawn, a step of the run ends it, or changes neither workers    *)
(* nor counters, and not the listed sources either once they are listed.   *)
LEMMA RunQuiet ==
  ASSUME TypeInv, RunShape,
         \/ Start \/ Create \/ CreateFails \/ ListActive \/ ListFails \/ LoopHead
         \/ FinishRun \/ FinishFails \/ Cancel \/ Crash \/ UNCHANGED vars
  PROVE  \/ RunReturns
         \/ /\ UNCHANGED <<phase, counters, alerts, fatalErr>> /\ (RunCtxDone => RunCtxDone')
            /\ \/ UNCHANGED <<listed, pending>>
               \/ pc = "list" /\ listed' = pending'
  BY DEF Start, Create, CreateFails, ListActive, ListFails, LoopHead, FinishRun,
         FinishFails, Cancel, Crash, vars, dbVars, runVars, poolVars, workerVars, RunCtxDone

LEMMA NoneListed ==
  ASSUME TypeInv, RunShape, pc = "list"
  PROVE  Open = {} /\ counters.ok + counters.failed = 0
  BY DEF RunShape, InPool, Open, OpenPhase, NoCounters

LEMMA SpawnEffect ==
  ASSUME TypeInv, RunShape, NEW s \in Source, Spawn(s)
  PROVE  /\ phase[s] = "none" /\ phase'[s] = "ready"
         /\ \A t \in Source \ {s} : phase'[t] = phase[t]
         /\ s \in listed /\ s \in pending /\ pending' = pending \ {s}
         /\ Cardinality(Slots) < WorkerConcurrency
         /\ UNCHANGED <<listed, ctxDone, counters, alerts, fatalErr>>
  BY DEF Spawn, NextInOrder, Goto, RunShape, TypeInv, TypeOK, poolVars

LEMMA CountStep == TypeInv /\ RunShape /\ CountInv /\ [Next]_vars => CountInv'
<1> SUFFICES ASSUME TypeInv, RunShape, CountInv, [Next]_vars PROVE CountInv'
  OBVIOUS
<1>0. /\ IsFiniteSet(Open) /\ Cardinality(Open) \in Nat
      /\ IsFiniteSet(Taken) /\ Cardinality(Taken) \in Nat /\ Counted \in Nat
  BY PoolFinite, PoolSizes DEF TypeInv
<1>1. ASSUME Counted' = 0, Open' = {}, Taken' = {} PROVE CountInv'
  <2>1. Cardinality(Open') = 0 /\ Cardinality(Taken') = 0
    BY <1>1, FS_EmptySet
  <2> QED
    BY <1>1, <2>1 DEF CountInv
<1>2. CASE \/ Start \/ Create \/ CreateFails \/ ListActive \/ ListFails \/ LoopHead
           \/ FinishRun \/ FinishFails \/ Cancel \/ Crash \/ UNCHANGED vars
  <2>1. CASE RunReturns
    BY <1>1, <2>1 DEF RunReturns, NoCounters, Counted, Taken, Open, OpenPhase
  <2>2. CASE UNCHANGED <<phase, counters, listed, pending>> /\ (RunCtxDone => RunCtxDone')
    <3>1. Counted' = Counted /\ Taken' = Taken /\ Open' = Open
      BY <2>2 DEF Counted, Taken, Open
    <3> QED
      BY <2>2, <3>1 DEF CountInv
  <2>3. CASE UNCHANGED <<phase, counters>> /\ pc = "list" /\ listed' = pending'
    BY <1>1, <2>3, NoneListed DEF Counted, Taken, Open
  <2> QED
    BY <1>2, <2>1, <2>2, <2>3, RunQuiet
<1>3. ASSUME NEW s \in Source, Spawn(s) PROVE CountInv'
  <2>1. Open' = Open \cup {s} /\ s \notin Open
    BY <1>3, SpawnEffect DEF Open, OpenPhase
  <2>2. Taken' = Taken \cup {s} /\ s \notin Taken
    BY <1>3, SpawnEffect DEF Taken
  <2>3. Cardinality(Open') = Cardinality(Open) + 1
    BY <1>0, <2>1, FS_AddElement
  <2>4. Cardinality(Taken') = Cardinality(Taken) + 1
    BY <1>0, <2>2, FS_AddElement
  <2>5. Counted' = Counted /\ RunCtxDone' = RunCtxDone
    BY <1>3, SpawnEffect DEF Counted, RunCtxDone
  <2> QED
    BY <1>0, <2>3, <2>4, <2>5 DEF CountInv
<1>4. ASSUME NEW s \in Source, WorkerStep(s) PROVE CountInv'
  <2>1. /\ Taken' = Taken /\ ctxDone' = ctxDone
        /\ \A t \in Source \ {s} : phase'[t] = phase[t]
    BY <1>4, WorkerEffect DEF Taken, runVars
  <2>2. CASE Moves(s)
    <3>1. Open' = Open /\ Counted' = Counted /\ RunCtxDone' = RunCtxDone
      BY <2>1, <2>2 DEF Moves, Open, Counted, RunCtxDone
    <3> QED
      BY <2>1, <3>1 DEF CountInv
  <2>3. CASE Counts(s)
    <3>1. Open' = Open \ {s} /\ s \in Open
      BY <2>1, <2>3 DEF Counts, Open, OpenPhase
    <3>2. Cardinality(Open') = Cardinality(Open) - 1
      BY <1>0, <3>1, FS_RemoveElement
    <3>3. Counted' = Counted + 1 /\ RunCtxDone' = RunCtxDone
      BY <2>1, <2>3 DEF Counts, Counted, RunCtxDone
    <3> QED
      BY <1>0, <2>1, <3>2, <3>3 DEF CountInv
  <2>4. CASE Skips(s)
    <3>1. Open' = Open \ {s} /\ s \in Open
      BY <2>1, <2>4 DEF Skips, Open, OpenPhase
    <3>2. Cardinality(Open') = Cardinality(Open) - 1
      BY <1>0, <3>1, FS_RemoveElement
    <3>3. Counted' = Counted /\ RunCtxDone'
      BY <2>1, <2>4 DEF Skips, Counted, RunCtxDone
    <3> QED
      BY <1>0, <2>1, <3>2, <3>3 DEF CountInv
  <2>5. CASE Alerts(s) \/ Aborts(s)
    <3>1. Open' = Open
      BY <2>1, <2>5 DEF Alerts, Aborts, Open, OpenPhase
    <3>2. Counted' = Counted /\ (RunCtxDone => RunCtxDone')
      BY <2>1, <2>5 DEF Alerts, Aborts, Counted, RunCtxDone
    <3> QED
      BY <2>1, <3>1, <3>2 DEF CountInv
  <2> QED
    BY <1>4, <2>2, <2>3, <2>4, <2>5, WorkerEffect
<1> QED
  BY <1>2, <1>3, <1>4 DEF Next, RunStep

LEMMA CountImplies == TypeInv /\ RunShape /\ CountInv => CountedOnce
<1> SUFFICES ASSUME TypeInv, RunShape, CountInv PROVE CountedOnce
  OBVIOUS
<1>1. /\ Counted \in Nat /\ Cardinality(Open) \in Nat /\ Cardinality(Taken) \in Nat
  BY PoolSizes DEF TypeInv
<1>2. Counted <= Cardinality(Taken)
  BY <1>1 DEF CountInv
<1>3. ASSUME pc = "wait", Slots = {}, ~RunCtxDone
      PROVE  Counted = Cardinality(listed)
  <2>1. Taken = listed
    BY <1>3 DEF RunShape, Taken
  <2>2. Open = {}
    BY <1>3 DEF Slots, Open, OpenPhase
  <2>3. Cardinality(Open) = 0
    BY <2>2, FS_EmptySet
  <2> QED
    BY <1>1, <1>3, <2>1, <2>3 DEF CountInv
<1> QED
  BY <1>2, <1>3 DEF CountedOnce, Counted, Taken

(* Every worker that starts counts its source exactly once, whichever of   *)
(* its error paths it takes, so an undisturbed run adds up to its sources. *)
THEOREM CountSafe == Spec => []CountedOnce
<1>1. Init => CountInv
  <2> SUFFICES ASSUME Init PROVE CountInv
    OBVIOUS
  <2>1. Open = {} /\ Taken = {} /\ Counted = 0
    BY DEF Init, Open, OpenPhase, Taken, Counted, NoCounters
  <2>2. Cardinality(Open) = 0 /\ Cardinality(Taken) = 0
    BY <2>1, FS_EmptySet
  <2> QED
    BY <2>1, <2>2 DEF CountInv
<1> QED
  BY <1>1, ShapeInvariant, CountStep, CountImplies, PTL DEF Spec

-----------------------------------------------------------------------------
(* Alerts.                                                                 *)

LEMMA AlertStep == TypeInv /\ RunShape /\ AlertInv /\ [Next]_vars => AlertInv'
<1> SUFFICES ASSUME TypeInv, RunShape, AlertInv, [Next]_vars PROVE AlertInv'
  OBVIOUS
<1>0. /\ IsFiniteSet(Slots) /\ Cardinality(Slots) \in Nat
      /\ IsFiniteSet(Hot) /\ Cardinality(Hot) \in Nat
      /\ IsFiniteSet(Aborting) /\ Cardinality(Aborting) \in Nat
      /\ alerts \in Nat /\ fatalErr \in BOOLEAN
  BY PoolFinite, PoolSizes DEF TypeInv, TypeOK
<1>1. CASE \/ Start \/ Create \/ CreateFails \/ ListActive \/ ListFails \/ LoopHead
           \/ FinishRun \/ FinishFails \/ Cancel \/ Crash \/ UNCHANGED vars
  <2>1. CASE RunReturns
    <3>1. Slots' = {} /\ Aborting' = {} /\ alerts' = 0 /\ ~fatalErr'
      BY <2>1 DEF RunReturns, Slots, Aborting
    <3>2. Cardinality(Slots') = 0 /\ Cardinality(Aborting') = 0
      BY <3>1, FS_EmptySet
    <3> QED
      BY <3>1, <3>2 DEF AlertInv
  <2>2. CASE UNCHANGED <<phase, alerts, fatalErr>>
    <3>1. Slots' = Slots /\ Aborting' = Aborting /\ Hot' = Hot
      BY <2>2 DEF Slots, Aborting, Hot
    <3> QED
      BY <2>2, <3>1 DEF AlertInv
  <2> QED
    BY <1>1, <2>1, <2>2, RunQuiet
<1>2. ASSUME NEW s \in Source, Spawn(s) PROVE AlertInv'
  <2>1. /\ Slots' = Slots \cup {s} /\ s \notin Slots
        /\ Aborting' = Aborting /\ Hot' = Hot
    BY <1>2, SpawnEffect DEF Slots, Aborting, Hot, HotPhase
  <2>2. Cardinality(Slots') = Cardinality(Slots) + 1
    BY <1>0, <2>1, FS_AddElement
  <2>3. Cardinality(Slots) < WorkerConcurrency
    BY <1>2, SpawnEffect
  <2> QED
    BY <1>0, <1>2, <2>1, <2>2, <2>3, SpawnEffect DEF AlertInv
<1>3. ASSUME NEW s \in Source, WorkerStep(s) PROVE AlertInv'
  <2>0. \A t \in Source \ {s} : phase'[t] = phase[t]
    BY <1>3, WorkerEffect
  <2>1. CASE Moves(s)
    <3>1. Slots' = Slots /\ Aborting' = Aborting
      BY <2>0, <2>1 DEF Moves, OpenPhase, Slots, Aborting
    <3>2. fatalErr => Hot' = Hot
      BY <2>0, <2>1 DEF Moves, OpenPhase, Hot, HotPhase, RunCtxDone
    <3> QED
      BY <2>1, <3>1, <3>2 DEF Moves, AlertInv
  <2>2. CASE Counts(s) \/ Skips(s)
    <3>1. Slots' \subseteq Slots /\ Aborting' = Aborting /\ Hot' \subseteq Hot
      BY <2>0, <2>2 DEF Counts, Skips, OpenPhase, Slots, Aborting, Hot, HotPhase
    <3>2. Cardinality(Slots') <= Cardinality(Slots) /\ Cardinality(Hot') <= Cardinality(Hot)
      BY <1>0, <3>1, FS_Subset
    <3>3. Cardinality(Slots') \in Nat /\ Cardinality(Hot') \in Nat
      BY <1>0, <3>1, FS_Subset, FS_CardinalityType
    <3> QED
      BY <1>0, <2>2, <3>1, <3>2, <3>3 DEF Counts, Skips, AlertInv
  <2>3. CASE Alerts(s)
    <3>1. /\ Slots' = Slots
          /\ Aborting' = Aborting \cup {s} /\ s \notin Aborting
          /\ Hot' = Hot \ {s} /\ s \in Hot
      BY <2>0, <2>3 DEF Alerts, Slots, Aborting, Hot, HotPhase
    <3>2. /\ Cardinality(Aborting') = Cardinality(Aborting) + 1
          /\ Cardinality(Hot') = Cardinality(Hot) - 1
      BY <1>0, <3>1, FS_AddElement, FS_RemoveElement
    <3> QED
      BY <1>0, <2>3, <3>1, <3>2 DEF Alerts, AlertInv
  <2>4. CASE Aborts(s)
    <3>1. Slots' = Slots \ {s} /\ s \in Slots /\ Hot' = Hot
      BY <2>0, <2>4 DEF Aborts, Slots, Hot, HotPhase
    <3>2. Cardinality(Slots') = Cardinality(Slots) - 1
      BY <1>0, <3>1, FS_RemoveElement
    <3>3. Cardinality(Aborting) + Cardinality(Hot) <= Cardinality(Slots)
      <4>1. Aborting \cap Hot = {} /\ Aborting \cup Hot \subseteq Slots
        BY DEF Aborting, Hot, HotPhase, Slots
      <4>2. Cardinality(Aborting \cap Hot) = 0
        BY <4>1, FS_EmptySet
      <4>3. Cardinality(Aborting \cup Hot) = Cardinality(Aborting) + Cardinality(Hot)
        <5>1. Cardinality(Aborting \cup Hot) =
                Cardinality(Aborting) + Cardinality(Hot) - Cardinality(Aborting \cap Hot)
          BY <1>0, FS_Union
        <5> QED
          BY <1>0, <4>2, <5>1
      <4>4. Cardinality(Aborting \cup Hot) <= Cardinality(Slots)
        BY <1>0, <4>1, FS_Subset
      <4> QED
        BY <4>3, <4>4
    <3>4. alerts + Cardinality(Hot) <= WorkerConcurrency
      BY <1>0, <3>3 DEF AlertInv
    <3> QED
      BY <1>0, <2>4, <3>1, <3>2, <3>4 DEF Aborts, AlertInv
  <2> QED
    BY <1>3, <2>1, <2>2, <2>3, <2>4, WorkerEffect
<1> QED
  BY <1>1, <1>2, <1>3 DEF Next, RunStep

LEMMA AlertImplies == TypeInv /\ AlertInv => AlertsBounded
<1> SUFFICES ASSUME TypeInv, AlertInv PROVE AlertsBounded
  OBVIOUS
<1>1. /\ IsFiniteSet(Slots) /\ Cardinality(Slots) \in Nat /\ alerts \in Nat
      /\ Cardinality(Hot) \in Nat /\ Cardinality(Aborting) \in Nat
  BY PoolFinite, PoolSizes DEF TypeInv, TypeOK
<1>2. Aborting \subseteq Slots
  BY DEF Aborting, Slots
<1>3. Cardinality(Aborting) <= Cardinality(Slots)
  BY <1>1, <1>2, FS_Subset
<1> QED
  BY <1>1, <1>3 DEF AlertInv, AlertsBounded

(* An expired token pages at most one human per slot of the pool, however  *)
(* many sources the run has and however the workers interleave.            *)
THEOREM AlertSafe == Spec => []AlertsBounded
<1>1. Init => AlertInv
  <2> SUFFICES ASSUME Init PROVE AlertInv
    OBVIOUS
  <2>1. Slots = {} /\ Aborting = {} /\ alerts = 0 /\ ~fatalErr
    BY DEF Init, Slots, Aborting
  <2>2. Cardinality(Slots) = 0 /\ Cardinality(Aborting) = 0
    BY <2>1, FS_EmptySet
  <2> QED
    BY <2>1, <2>2 DEF AlertInv
<1> QED
  BY <1>1, ShapeInvariant, AlertStep, AlertImplies, PTL DEF Spec

-----------------------------------------------------------------------------
(* Landing.                                                                *)

(* What is gone from a worker's todo is in the table, and so is the whole  *)
(* answer of a source whose worker returned in a run without failures.     *)
LandInv ==
  /\ \A s \in Source : phase[s] = "landing" => Media[s] \subseteq landed \cup todo[s]
  /\ \A s \in Source : phase[s] = "done" /\ counters.failed = 0 /\ ~RunCtxDone =>
       Media[s] \subseteq landed
  /\ \A s \in listed : phase[s] = "none" => s \in pending

(* How a worker step gets to landing and to done.                          *)
Lands(s) ==
  \/ phase[s] = "calling" /\ todo'[s] = Media[s]
  \/ /\ phase[s] = "landing"
     /\ \E p \in landed' : todo'[s] = todo[s] \ {p}
Ends(s) ==
  \/ counters'.failed = counters.failed + 1
  \/ RunCtxDone'
  \/ phase[s] = "landing" /\ todo[s] = {}

LEMMA LandEffect ==
  ASSUME TypeInv, NEW s \in Source, WorkerStep(s)
  PROVE  /\ landed \subseteq landed'
         /\ counters'.failed \in {counters.failed, counters.failed + 1}
         /\ RunCtxDone => RunCtxDone'
         /\ \A t \in Source \ {s} : todo'[t] = todo[t]
         /\ phase'[s] = "landing" => Lands(s)
         /\ phase'[s] = "done" => Ends(s)
<1> DEFINE Effect ==
      /\ landed \subseteq landed'
      /\ counters'.failed \in {counters.failed, counters.failed + 1}
      /\ RunCtxDone => RunCtxDone'
      /\ \A t \in Source \ {s} : todo'[t] = todo[t]
      /\ phase'[s] = "landing" => Lands(s)
      /\ phase'[s] = "done" => Ends(s)
<1>0. /\ {"marking", "backoff", "deactivating", "alerting", "aborting"} \subseteq Phase
      /\ phase \in [Source -> Phase] /\ todo \in [Source -> SUBSET Post]
      /\ counters \in Counter
  BY DEF Phase, TypeInv, TypeOK
<1>a. AddFailure => counters'.failed = counters.failed + 1
  BY <1>0 DEF AddFailure, Counter
<1>b. Return(s) => \A t \in Source \ {s} : todo'[t] = todo[t]
  BY <1>0 DEF Return
<1>1. CASE Begin(s) \/ Retry(s)
  BY <1>0, <1>1 DEF Begin, Retry, dbVars, runVars, poolVars, RunCtxDone
<1>2. CASE Skip(s)
  BY <1>0, <1>b, <1>2, PhaseEffect DEF Skip, dbVars, runVars, poolVars, RunCtxDone, Ends
<1>3. CASE FetchMedia(s)
  BY <1>0, <1>3 DEF FetchMedia, dbVars, runVars, poolVars, RunCtxDone, Lands
<1>4. CASE FetchTransient(s)
  <2>1. /\ UNCHANGED <<landed, ctxDone, fatalErr>>
        /\ \/ Goto(s, "backoff") /\ UNCHANGED counters
           \/ Goto(s, "marking") /\ UNCHANGED counters
           \/ Return(s) /\ AddFailure
    BY <1>4 DEF FetchTransient, dbVars, runVars
  <2>2. \A t \in Source \ {s} : todo'[t] = todo[t]
    BY <1>b, <2>1 DEF Goto
  <2>3. phase'[s] \in {"backoff", "marking", "done"}
    BY <1>0, <2>1, PhaseEffect
  <2>4. phase'[s] = "done" => Ends(s)
    BY <1>0, <1>a, <2>1, PhaseEffect DEF Ends
  <2> QED
    BY <1>a, <2>1, <2>2, <2>3, <2>4 DEF RunCtxDone
<1>5. CASE FetchFatal(s)
  BY <1>0, <1>a, <1>5, PhaseEffect DEF FetchFatal, Goto, dbVars, runVars, RunCtxDone
<1>6. CASE FetchPermanent(s)
  BY <1>0, <1>6, PhaseEffect
  DEF FetchPermanent, Goto, dbVars, runVars, poolVars, RunCtxDone
<1>7. CASE CutShort(s)
  BY <1>a, <1>b, <1>7, PhaseEffect DEF CutShort, dbVars, runVars, RunCtxDone, Ends
<1>8. CASE AlertFatal(s)
  BY <1>0, <1>8, PhaseEffect DEF AlertFatal, Goto, dbVars, runVars, RunCtxDone
<1>9. CASE Abort(s)
  BY <1>b, <1>9, PhaseEffect DEF Abort, dbVars, runVars, RunCtxDone, Ends
<1>10. ASSUME NEW p \in Post, Upsert(s, p) PROVE Effect
  BY <1>0, <1>10 DEF Upsert, runVars, poolVars, RunCtxDone, Lands
<1>11. ASSUME NEW p \in Post, UpsertCutShort(s, p) PROVE Effect
  BY <1>a, <1>b, <1>11, PhaseEffect DEF UpsertCutShort, runVars, RunCtxDone, Ends
<1>12. ASSUME NEW p \in Post, UpsertFails(s, p) PROVE Effect
  BY <1>0, <1>12, PhaseEffect DEF UpsertFails, Goto, runVars, poolVars, RunCtxDone
<1>13. ASSUME Landed(s), CountSuccess(s) PROVE Effect
  <2>1. counters'.failed = counters.failed /\ UNCHANGED <<landed, ctxDone, fatalErr>>
    BY <1>0, <1>13 DEF CountSuccess, AddSuccess, runVars
  <2>2. phase'[s] = "done" /\ Return(s)
    BY <1>13, PhaseEffect DEF CountSuccess
  <2> QED
    BY <1>b, <1>13, <2>1, <2>2 DEF Landed, Ends, RunCtxDone
<1>14. CASE MarkSynced(s) \/ MarkSyncedFails(s)
  BY <1>13, <1>14 DEF MarkSynced, MarkSyncedFails
<1>15. CASE MarkFailed(s)
  <2>1. /\ UNCHANGED <<landed, ctxDone, fatalErr>>
        /\ \/ Goto(s, "deactivating") /\ UNCHANGED counters
           \/ Return(s) /\ AddFailure
    BY <1>15 DEF MarkFailed, runVars
  <2>2. \A t \in Source \ {s} : todo'[t] = todo[t]
    BY <1>b, <2>1 DEF Goto
  <2>3. phase'[s] \in {"deactivating", "done"}
    BY <1>0, <2>1, PhaseEffect
  <2>4. phase'[s] = "done" => Ends(s)
    BY <1>0, <1>a, <2>1, PhaseEffect DEF Ends
  <2> QED
    BY <1>a, <2>1, <2>2, <2>3, <2>4 DEF RunCtxDone
<1>16. CASE MarkFailedFails(s) \/ Deactivate(s) \/ DeactivateFails(s)
  BY <1>a, <1>b, <1>16, PhaseEffect
  DEF MarkFailedFails, Deactivate, DeactivateFails, runVars, RunCtxDone, Ends
<1> QED
  BY <1>1, <1>2, <1>3, <1>4, <1>5, <1>6, <1>7, <1>8, <1>9, <1>10, <1>11, <1>12,
     <1>14, <1>15, <1>16 DEF WorkerStep

(* The run's own steps leave the table and the workers' todo alone.        *)
LEMMA LandFrame ==
  ASSUME TypeInv, RunShape,
         \/ Start \/ Create \/ CreateFails \/ ListActive \/ ListFails \/ LoopHead
         \/ FinishRun \/ FinishFails \/ Cancel \/ Crash \/ UNCHANGED vars
  PROVE  RunReturns \/ UNCHANGED <<landed, todo>>
  BY DEF Start, Create, CreateFails, ListActive, ListFails, LoopHead, FinishRun,
         FinishFails, Cancel, Crash, vars, dbVars, workerVars

LEMMA LandStep == TypeInv /\ RunShape /\ LandInv /\ [Next]_vars => LandInv'
<1> SUFFICES ASSUME TypeInv, RunShape, LandInv, [Next]_vars PROVE LandInv'
  OBVIOUS
<1>1. CASE \/ Start \/ Create \/ CreateFails \/ ListActive \/ ListFails \/ LoopHead
           \/ FinishRun \/ FinishFails \/ Cancel \/ Crash \/ UNCHANGED vars
  <2>1. CASE RunReturns
    BY <2>1 DEF RunReturns, LandInv
  <2>2. CASE /\ UNCHANGED <<landed, todo, phase, counters>> /\ (RunCtxDone => RunCtxDone')
             /\ \/ UNCHANGED <<listed, pending>>
                \/ listed' = pending'
    BY <2>2 DEF LandInv
  <2> QED
    BY <1>1, <2>1, <2>2, RunQuiet, LandFrame
<1>2. ASSUME NEW s \in Source, Spawn(s) PROVE LandInv'
  BY <1>2, SpawnEffect DEF LandInv, Spawn, Goto, dbVars, RunCtxDone, TypeInv, TypeOK
<1>3. ASSUME NEW s \in Source, WorkerStep(s) PROVE LandInv'
  <2>1. /\ UNCHANGED <<listed, pending>> /\ phase'[s] # "none"
        /\ \A t \in Source \ {s} : phase'[t] = phase[t]
    BY <1>3, WorkerEffect DEF runVars, Moves, Counts, Skips, Alerts, Aborts, OpenPhase
  <2>2. counters.failed \in Nat
    BY DEF TypeInv, TypeOK, Counter
  <2>3. ASSUME NEW t \in Source, phase'[t] = "landing"
        PROVE  Media[t] \subseteq landed' \cup todo'[t]
    <3>1. CASE t = s
      BY <1>3, <2>3, <3>1, LandEffect DEF Lands, LandInv
    <3>2. CASE t # s
      BY <1>3, <2>1, <2>3, <3>2, LandEffect DEF LandInv
    <3> QED
      BY <3>1, <3>2
  <2>4. ASSUME NEW t \in Source, phase'[t] = "done", counters'.failed = 0, ~RunCtxDone'
        PROVE  Media[t] \subseteq landed'
    <3>1. counters.failed = 0 /\ ~RunCtxDone /\ landed \subseteq landed'
      BY <1>3, <2>2, <2>4, LandEffect
    <3>2. CASE t = s
      <4>1. phase[s] = "landing" /\ todo[s] = {}
        BY <1>3, <2>2, <2>4, <3>1, <3>2, LandEffect DEF Ends
      <4> QED
        BY <3>1, <3>2, <4>1 DEF LandInv
    <3>3. CASE t # s
      BY <2>1, <2>4, <3>1, <3>3 DEF LandInv
    <3> QED
      BY <3>2, <3>3
  <2>5. \A t \in listed' : phase'[t] = "none" => t \in pending'
    BY <2>1 DEF LandInv, TypeInv, TypeOK
  <2> QED
    BY <2>3, <2>4, <2>5 DEF LandInv
<1> QED
  BY <1>1, <1>2, <1>3 DEF Next, RunStep

(* Only the close of a run writes `success`, and then nothing is missing.  *)
LEMMA HonestStep ==
  TypeInv /\ RunShape /\ LandInv /\ [Next]_vars =>
    (row'.status = "success" /\ row # row' /\ ~ctxDone =>
       \A s \in listed : Media[s] \subseteq landed)
<1> SUFFICES ASSUME TypeInv, RunShape, LandInv, [Next]_vars,
                    row'.status = "success", row # row', ~ctxDone, NEW s \in listed
             PROVE  Media[s] \subseteq landed
  OBVIOUS
<1>1. WaitDone /\ row' = Closed
  <2>1. ~\E t \in Source : Spawn(t) \/ WorkerStep(t)
    BY WorkerEffect DEF Spawn
  <2>2. ~(row' \in {row, RunningRow})
    BY DEF RunningRow
  <2>3. FinishRun \/ FinishFails
    BY <2>1, <2>2
    DEF Next, RunStep, Start, Create, CreateFails, ListActive, ListFails, LoopHead,
        Cancel, Crash, vars
  <2> QED
    BY <2>3 DEF FinishRun, FinishFails
<1>2. pc # "listfailed" /\ ResolveStatus(Cardinality(listed), counters.failed, fatalErr) = "success"
  BY <1>1 DEF Closed
<1>3. ~fatalErr /\ (Cardinality(listed) = 0 \/ counters.failed = 0)
  <2>1. fatalErr \in BOOLEAN
    BY DEF TypeInv, TypeOK
  <2> QED
    BY <1>2, <2>1 DEF ResolveStatus
<1>4. listed # {} /\ IsFiniteSet(listed)
  BY FS_Subset DEF TypeInv, TypeOK
<1>5. counters.failed = 0 /\ ~RunCtxDone
  BY <1>3, <1>4, FS_EmptySet DEF RunCtxDone
<1>6. s \in Source /\ pending = {} /\ phase[s] \in {"none", "done"}
  BY <1>1, <1>2, <1>5 DEF WaitDone, RunShape, Slots, TypeInv, TypeOK
<1> QED
  BY <1>5, <1>6 DEF LandInv

(* A run that was not cut short closes as a success only with every post   *)
(* of every account it listed in the table.                                *)
THEOREM HonestSafe == Spec => FinishedRunIsHonest
<1>1. Init => LandInv
  BY DEF Init, LandInv
<1> QED
  BY <1>1, ShapeInvariant, LandStep, HonestStep, PTL DEF Spec, FinishedRunIsHonest

-----------------------------------------------------------------------------
(* New posts.                                                              *)

(* What the workers have inserted and not counted yet, and what the run    *)
(* has landed.  The posts a worker calls new are in the table since this   *)
(* run, and no two workers call the same one new.                          *)
Uncounted == {p \in Post : \E s \in Source : p \in fresh[s]}
LandedNow == landed \ before
NewInv ==
  /\ before \subseteq landed
  /\ \A s \in Source : fresh[s] \subseteq LandedNow
  /\ \A s, t \in Source : fresh[s] \cap fresh[t] # {} => s = t
  /\ \A s \in Source : phase[s] = "none" => fresh[s] = {}
  /\ counters.new + Cardinality(Uncounted) <= Cardinality(LandedNow)

LEMMA NewSizes ==
  ASSUME TypeOK
  PROVE  /\ IsFiniteSet(Uncounted) /\ Cardinality(Uncounted) \in Nat
         /\ IsFiniteSet(LandedNow) /\ Cardinality(LandedNow) \in Nat
         /\ counters.new \in Nat
<1>1. IsFiniteSet(Uncounted) /\ IsFiniteSet(LandedNow)
  <2>1. Uncounted \in SUBSET Post /\ LandedNow \in SUBSET Post
    BY DEF Uncounted, LandedNow, TypeOK
  <2> QED
    BY <2>1, MediaAssumption, FS_Subset
<1>2. counters.new \in Nat
  BY DEF TypeOK, Counter
<1> QED
  BY <1>1, <1>2, FS_CardinalityType

(* What a worker step does to the posts it calls new: nothing, or one more *)
(* that was in nobody's hands, or it forgets them with its failure, or it  *)
(* adds them to the counter.                                               *)
Inserts(s) ==
  \E p \in Post \ landed :
    /\ fresh' = [fresh EXCEPT ![s] = @ \cup {p}]
    /\ landed' = landed \cup {p} /\ UNCHANGED counters
DropsFresh(s) ==
  /\ fresh' = [fresh EXCEPT ![s] = {}]
  /\ landed \subseteq landed' /\ counters'.new = counters.new
BooksFresh(s) ==
  /\ fresh' = [fresh EXCEPT ![s] = {}]
  /\ landed' = landed /\ counters'.new = counters.new + Cardinality(fresh[s])
NoNews(s) == fresh' = fresh /\ landed \subseteq landed' /\ counters'.new = counters.new

LEMMA NewEffect ==
  ASSUME TypeInv, NEW s \in Source, WorkerStep(s)
  PROVE  NoNews(s) \/ Inserts(s) \/ DropsFresh(s) \/ BooksFresh(s)
<1> DEFINE Effect == NoNews(s) \/ Inserts(s) \/ DropsFresh(s) \/ BooksFresh(s)
<1>0. counters \in Counter /\ fresh \in [Source -> SUBSET Post]
  BY DEF TypeInv, TypeOK
<1>a. AddFailure => counters'.new = counters.new
  BY <1>0 DEF AddFailure, Counter
<1>1. CASE Begin(s) \/ Retry(s) \/ FetchMedia(s) \/ FetchPermanent(s) \/ AlertFatal(s)
  BY <1>1 DEF Begin, Retry, FetchMedia, FetchPermanent, AlertFatal, Goto, dbVars, poolVars,
              NoNews
<1>2. CASE Skip(s) \/ Abort(s)
  BY <1>2 DEF Skip, Abort, Return, dbVars, poolVars, DropsFresh
<1>3. CASE FetchTransient(s)
  <2>1. landed' = landed
        /\ \/ Goto(s, "backoff") /\ UNCHANGED counters
           \/ Goto(s, "marking") /\ UNCHANGED counters
           \/ Return(s) /\ AddFailure
    BY <1>3 DEF FetchTransient, dbVars
  <2> QED
    BY <1>a, <2>1 DEF Goto, Return, NoNews, DropsFresh
<1>4. CASE FetchFatal(s)
  BY <1>a, <1>4 DEF FetchFatal, Goto, dbVars, NoNews
<1>5. CASE CutShort(s) \/ MarkFailedFails(s) \/ Deactivate(s) \/ DeactivateFails(s)
  BY <1>a, <1>5
  DEF CutShort, MarkFailedFails, Deactivate, DeactivateFails, Return, dbVars, DropsFresh
<1>6. ASSUME NEW p \in Post, Upsert(s, p) PROVE Effect
  <2>1. CASE p \in landed
    <3>1. fresh' = fresh /\ landed' = landed /\ UNCHANGED counters
      BY <1>0, <1>6, <2>1 DEF Upsert, Inserted, poolVars
    <3> QED
      BY <3>1 DEF NoNews
  <2>2. CASE p \notin landed
    BY <1>6, <2>2 DEF Upsert, Inserted, poolVars, Inserts
  <2> QED
    BY <2>1, <2>2
<1>7. ASSUME NEW p \in Post, UpsertCutShort(s, p) \/ UpsertFails(s, p) PROVE Effect
  BY <1>a, <1>7
  DEF UpsertCutShort, UpsertFails, Goto, Return, poolVars, NoNews, DropsFresh
<1>8. CASE MarkSynced(s) \/ MarkSyncedFails(s)
  <2>1. CountSuccess(s)
    BY <1>8 DEF MarkSynced, MarkSyncedFails
  <2> QED
    BY <2>1 DEF CountSuccess, AddSuccess, Return, BooksFresh
<1>9. CASE MarkFailed(s)
  <2>1. landed' = landed
        /\ \/ Goto(s, "deactivating") /\ UNCHANGED counters
           \/ Return(s) /\ AddFailure
    BY <1>9 DEF MarkFailed
  <2> QED
    BY <1>a, <2>1 DEF Goto, Return, NoNews, DropsFresh
<1> QED
  BY <1>1, <1>2, <1>3, <1>4, <1>5, <1>6, <1>7, <1>8, <1>9 DEF WorkerStep

(* A worker's posts leave its hands: what is left is what the others have. *)
LEMMA NewDropped ==
  ASSUME TypeInv, TypeInv', NewInv, NEW s \in Source, fresh' = [fresh EXCEPT ![s] = {}]
  PROVE  /\ Uncounted' = Uncounted \ fresh[s]
         /\ Cardinality(Uncounted') = Cardinality(Uncounted) - Cardinality(fresh[s])
         /\ Cardinality(fresh[s]) \in Nat
<1>0. fresh \in [Source -> SUBSET Post]
  BY DEF TypeInv, TypeOK
<1>1. /\ fresh'[s] = {} /\ \A t \in Source \ {s} : fresh'[t] = fresh[t]
      /\ \A t \in Source \ {s} : fresh[t] \cap fresh[s] = {}
  BY <1>0 DEF NewInv
<1>2. fresh[s] \subseteq Uncounted /\ fresh[s] \cap Uncounted = fresh[s]
  BY <1>0 DEF Uncounted
<1>3. Uncounted' = Uncounted \ fresh[s]
  BY <1>0, <1>1 DEF Uncounted
<1>4. IsFiniteSet(Uncounted)
  BY NewSizes DEF TypeInv
<1>5. Uncounted \cap fresh[s] = fresh[s] /\ IsFiniteSet(fresh[s])
  BY <1>2, <1>4, FS_Subset
<1> QED
  BY <1>3, <1>4, <1>5, FS_Difference, FS_CardinalityType

(* A larger table only helps.                                              *)
LEMMA NewLanded ==
  ASSUME TypeInv, TypeInv', landed \subseteq landed', before' = before
  PROVE  LandedNow \subseteq LandedNow' /\ Cardinality(LandedNow) <= Cardinality(LandedNow')
<1>1. LandedNow \subseteq LandedNow'
  BY DEF LandedNow
<1>2. IsFiniteSet(LandedNow')
  <2>1. LandedNow' \in SUBSET Post
    BY DEF LandedNow, TypeInv, TypeOK
  <2> QED
    BY <2>1, MediaAssumption, FS_Subset
<1> QED
  BY <1>1, <1>2, FS_Subset

LEMMA NewStep == TypeInv /\ TypeInv' /\ RunShape /\ NewInv /\ [Next]_vars => NewInv'
<1> SUFFICES ASSUME TypeInv, TypeInv', RunShape, NewInv, [Next]_vars PROVE NewInv'
  OBVIOUS
<1>0. /\ Cardinality(Uncounted) \in Nat /\ Cardinality(LandedNow) \in Nat
      /\ counters.new \in Nat /\ fresh \in [Source -> SUBSET Post]
      /\ IsFiniteSet(Uncounted) /\ IsFiniteSet(LandedNow)
  BY NewSizes DEF TypeInv, TypeOK
<1>00. IsFiniteSet(LandedNow') /\ Cardinality(LandedNow') \in Nat
  <2>1. LandedNow' \in SUBSET Post
    BY DEF LandedNow, TypeInv, TypeOK
  <2> QED
    BY <2>1, MediaAssumption, FS_Subset, FS_CardinalityType
(* The run starts or ends: nothing is counted and nothing is in hand.      *)
<1>1. ASSUME \A s \in Source : fresh'[s] = {}, counters'.new = 0, before' \subseteq landed'
      PROVE  NewInv'
  <2>1. Uncounted' = {}
    BY <1>1 DEF Uncounted
  <2>2. Cardinality(Uncounted') = 0
    BY <2>1, FS_EmptySet
  <2>3. 0 + 0 <= Cardinality(LandedNow')
    BY <1>00
  <2> QED
    BY <1>1, <2>2, <2>3 DEF NewInv
<1>2. CASE Start \/ CreateFails \/ FinishRun \/ FinishFails \/ Crash
  <2>1. CASE Start
    <3>1. counters = NoCounters /\ \A s \in Source : fresh[s] = {}
      BY <2>1 DEF Start, RunShape, InPool, NewInv
    <3>2. counters' = counters /\ fresh' = fresh /\ before' = landed'
      BY <2>1 DEF Start, poolVars, workerVars, dbVars
    <3> QED
      BY <1>1, <3>1, <3>2 DEF NoCounters
  <2>2. CASE RunReturns
    BY <1>1, <2>2 DEF RunReturns, NoCounters
  <2> QED
    BY <1>2, <2>1, <2>2 DEF CreateFails, FinishRun, FinishFails, Crash
<1>3. CASE \/ Create \/ ListActive \/ ListFails \/ LoopHead \/ Cancel \/ UNCHANGED vars
           \/ \E s \in Source : Spawn(s)
  <2>1. UNCHANGED <<fresh, counters, landed, before>>
    BY <1>3 DEF Create, ListActive, ListFails, LoopHead, Cancel, vars, Spawn, Goto, dbVars,
                runVars, poolVars, workerVars
  <2>2. \A s \in Source : phase'[s] = "none" => phase[s] = "none"
    <3>1. CASE \E s \in Source : Spawn(s)
      BY <3>1, SpawnEffect
    <3>2. CASE Create \/ ListActive \/ ListFails \/ LoopHead \/ Cancel \/ UNCHANGED vars
      BY <3>2 DEF Create, ListActive, ListFails, LoopHead, Cancel, vars, workerVars
    <3> QED
      BY <1>3, <3>1, <3>2
  <2>3. Uncounted' = Uncounted /\ LandedNow' = LandedNow
    BY <2>1 DEF Uncounted, LandedNow
  <2> QED
    BY <2>1, <2>2, <2>3 DEF NewInv
<1>4. ASSUME NEW s \in Source, WorkerStep(s) PROVE NewInv'
  <2>1. /\ before' = before /\ phase'[s] # "none"
        /\ \A t \in Source \ {s} : phase'[t] = phase[t]
    BY <1>4, WorkerEffect DEF runVars, Moves, Counts, Skips, Alerts, Aborts, OpenPhase
  <2>2. landed \subseteq landed'
    BY <1>4, LandEffect
  <2>3. LandedNow \subseteq LandedNow' /\ Cardinality(LandedNow) <= Cardinality(LandedNow')
    BY <2>1, <2>2, NewLanded
  <2>4. CASE NoNews(s)
    <3>1. Uncounted' = Uncounted /\ fresh' = fresh /\ counters'.new = counters.new
      BY <2>4 DEF NoNews, Uncounted
    <3>2. counters'.new + Cardinality(Uncounted') <= Cardinality(LandedNow')
      BY <1>0, <1>00, <2>3, <3>1 DEF NewInv
    <3> QED
      BY <2>1, <2>2, <2>3, <3>1, <3>2 DEF NewInv
  <2>5. CASE DropsFresh(s) \/ BooksFresh(s)
    <3>1. fresh' = [fresh EXCEPT ![s] = {}]
      BY <2>5 DEF DropsFresh, BooksFresh
    <3>2. fresh'[s] = {} /\ \A t \in Source \ {s} : fresh'[t] = fresh[t]
      BY <1>0, <3>1
    <3>3. counters'.new + Cardinality(Uncounted') <= Cardinality(LandedNow')
      <4>1. /\ Cardinality(Uncounted') = Cardinality(Uncounted) - Cardinality(fresh[s])
            /\ Cardinality(fresh[s]) \in Nat
        BY <3>1, NewDropped
      <4>2. counters'.new \in {counters.new, counters.new + Cardinality(fresh[s])}
        BY <2>5 DEF DropsFresh, BooksFresh
      <4> QED
        BY <1>0, <1>00, <2>3, <4>1, <4>2 DEF NewInv
    <3> QED
      BY <2>1, <2>2, <2>3, <3>2, <3>3 DEF NewInv
  <2>6. CASE Inserts(s)
    <3>1. PICK p \in Post \ landed :
            /\ fresh' = [fresh EXCEPT ![s] = @ \cup {p}]
            /\ landed' = landed \cup {p} /\ UNCHANGED counters
      BY <2>6 DEF Inserts
    <3>2. /\ fresh'[s] = fresh[s] \cup {p}
          /\ \A t \in Source \ {s} : fresh'[t] = fresh[t]
      BY <1>0, <3>1
    <3>3. p \notin before /\ \A t \in Source : p \notin fresh[t]
      BY <3>1 DEF NewInv, LandedNow
    <3>4. LandedNow' = LandedNow \cup {p} /\ p \notin LandedNow
      BY <2>1, <3>1, <3>3 DEF LandedNow
    <3>5. Uncounted' = Uncounted \cup {p} /\ p \notin Uncounted
      BY <3>1, <3>2, <3>3 DEF Uncounted
    <3>6. /\ Cardinality(Uncounted') = Cardinality(Uncounted) + 1
          /\ Cardinality(LandedNow') = Cardinality(LandedNow) + 1
      BY <1>0, <3>4, <3>5, FS_AddElement
    <3>7. counters'.new + Cardinality(Uncounted') <= Cardinality(LandedNow')
      BY <1>0, <3>1, <3>6 DEF NewInv
    <3>8. \A t \in Source : fresh'[t] \subseteq LandedNow'
      BY <3>2, <3>4 DEF NewInv
    <3>9. \A t, u \in Source : fresh'[t] \cap fresh'[u] # {} => t = u
      BY <3>2, <3>3 DEF NewInv
    <3> QED
      <4>1. before' \subseteq landed'
        BY <2>1, <2>2 DEF NewInv
      <4>2. \A t \in Source : phase'[t] = "none" => fresh'[t] = {}
        BY <2>1, <3>2 DEF NewInv
      <4> QED
        BY <3>7, <3>8, <3>9, <4>1, <4>2 DEF NewInv
  <2> QED
    BY <1>4, <2>4, <2>5, <2>6, NewEffect
<1> QED
  BY <1>2, <1>3, <1>4 DEF Next, RunStep

(* posts_new counts posts that were not in the table when the run started, *)
(* none of them twice, however many workers land them and however many     *)
(* upserts fail after they committed.                                      *)
THEOREM NewSafe == Spec => []NewPostsWereNew
<1>1. Init => NewInv
  <2> SUFFICES ASSUME Init PROVE NewInv
    OBVIOUS
  <2>1. Uncounted = {} /\ LandedNow = {} /\ counters.new = 0
    BY DEF Init, Uncounted, LandedNow, NoCounters
  <2>2. Cardinality(Uncounted) = 0 /\ Cardinality(LandedNow) = 0
    BY <2>1, FS_EmptySet
  <2> QED
    BY <2>1, <2>2 DEF Init, NewInv
<1>2. TypeInv /\ NewInv => NewPostsWereNew
  <2> SUFFICES ASSUME TypeInv, NewInv PROVE NewPostsWereNew
    OBVIOUS
  <2>1. /\ counters.new + Cardinality(Uncounted) <= Cardinality(LandedNow)
        /\ Cardinality(Uncounted) \in Nat /\ counters.new \in Nat
        /\ Cardinality(LandedNow) \in Nat
    BY NewSizes DEF NewInv, TypeInv
  <2> QED
    BY <2>1 DEF NewPostsWereNew, LandedNow
<1> QED
  BY <1>1, <1>2, ShapeInvariant, NewStep, PTL DEF Spec

=============================================================================
