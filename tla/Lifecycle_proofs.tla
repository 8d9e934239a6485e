---------------------------- MODULE Lifecycle_proofs ----------------------------
(***************************************************************************)
(* Proofs about Lifecycle, for any callers of either service, any number   *)
(* of lost writes, and a signal at any moment: the shutdown closes what it *)
(* waits for, never needs its whole budget, and both services implement   *)
(* the one slot of RunSlot all along.                                      *)
(***************************************************************************)
EXTENDS Lifecycle, TLAPS

(* Both slots as Lifecycle has them, with what is proved of them.          *)
IP == INSTANCE IngestionSlot_proofs WITH
  Job <- IngestionTick \cup IngestionStartup,
  mutex <- iMutex, stage <- iStage, row <- iRow, lost <- iLost,
  answer <- iAnswer, drain <- iDrain

PP == INSTANCE ProcessingSlot_proofs WITH
  Job <- ProcessingTick \cup ProcessingStartup,
  Limits <- {0},
  running <- pRunning, currentRunID <- pCurrentRunID, inFlight <- pInFlight,
  stage <- pStage, run <- pRun, limit <- pLimit, rows <- pRows,
  answer <- pAnswer, past <- pPast, drain <- pDrain

-----------------------------------------------------------------------------

(* What IngestionSlot_proofs and ProcessingSlot_proofs assume of their      *)
(* constants.                                                              *)
LEMMA SlotAssumptions ==
  /\ IP!Assumptions
  /\ (ProcessingTick \cup ProcessingStartup) \cap Web = {} /\ NoOne \notin PP!Caller
  /\ {0} \subseteq Int \cup {NaN} /\ NaN \notin Int
  /\ MaxBatch \in Nat \ {0} /\ PostLimit \in 1..MaxBatch
  /\ MaxRuns \in Nat /\ MaxFaults \in Nat
BY CallersAssumption, LimitAssumption, BoundsAssumption
DEF I!KindsAssumption, I!Caller, IP!Assumptions, IP!KindsAssumption, IP!FaultAssumption,
    IP!Caller, PP!Caller

(* The actions of Lifecycle are those of the two proof modules.            *)
LEMMA SameIngestion ==
  /\ IP!Caller = I!Caller /\ (I!TypeOK <=> IP!TypeOK) /\ (I!Init <=> IP!Init)
  /\ \A c \in I!Caller :
       /\ I!TryLock(c) \/ I!TryLockFails(c) => IP!Arrive(c)
       /\ I!CallStep(c) => IP!CallStep(c)
  /\ (I!DrainLock => IP!DrainLock) /\ (I!DrainUnlock => IP!DrainUnlock)
  /\ I!WaitIdle => IP!WaitIdle
BY DEF
      I!Goto, IP!Goto, I!Respond, IP!Respond, I!Fault, IP!Fault, I!CallFails,
      IP!CallFails, I!TryLock, IP!TryLock, I!TryLockFails, IP!TryLockFails,
      I!Create, IP!Create, I!CreateFails, IP!CreateFails,
      I!CreateLost, IP!CreateLost, I!ListActive, IP!ListActive, I!ListFails,
      IP!ListFails, I!Bookkeep, IP!Bookkeep, I!Bookkept, IP!Bookkept, I!PoolDone,
      IP!PoolDone, I!FinishRun, IP!FinishRun, I!FinishFails, IP!FinishFails,
      I!Unlock, IP!Unlock, I!WaitIdle, IP!Reject, I!Reject,
      IP!WaitIdle, I!DrainLock, IP!DrainLock, I!DrainUnlock, IP!DrainUnlock,
      I!CallStep, IP!CallStep, IP!Arrive,
      I!Caller, IP!Caller, I!Client, IP!Client, I!InSlot, IP!InSlot,
      I!TypeOK, IP!TypeOK, I!Init, IP!Init, I!Stage, IP!Stage

LEMMA SameProcessing ==
  /\ PP!Caller = P!Caller /\ (P!TypeOK <=> PP!TypeOK) /\ (P!Init <=> PP!Init)
  /\ \A c \in P!Caller :
       /\ P!RunSwap(c) \/ P!RunSkipped(c) \/ P!TriggerSwap(c) \/ P!TriggerLoses(c)
            => PP!Arrive(c)
       /\ P!CallStep(c) => PP!CallStep(c)
       /\ P!Accept(c) => PP!Accept(c)
  /\ (P!Idle => PP!Idle) /\ (P!WaitIdle => PP!WaitIdle)
BY DEF
      P!Goto, PP!Goto, P!Tell, PP!Tell, P!Fault, PP!Fault, P!CallFails, PP!CallFails,
      P!NextId, PP!NextId, P!RoomForARun, PP!RoomForARun, P!Open, PP!Open,
      P!Closing, PP!Closing, P!Orphans, PP!Orphans, P!RunSwap, PP!RunSwap,
      P!RunSkipped, PP!RunSkipped, P!RunAdd, PP!RunAdd, P!Effective, PP!Effective,
      P!Invalid, PP!Invalid, P!TriggerSwap, PP!TriggerSwap, P!TriggerLoses,
      PP!TriggerLoses, P!Conflict, PP!Conflict, P!Create, PP!Create, P!NotOpened,
      PP!NotOpened, P!CreateFails, PP!CreateFails, P!CreateLost, PP!CreateLost,
      P!Abort, PP!Abort, P!StoreRunID, PP!StoreRunID, P!Launch, PP!Launch,
      P!Accept, PP!Accept, P!Body, PP!Body, P!FinishRun, PP!FinishRun,
      P!FinishFails, PP!FinishFails, P!Done, PP!Done, P!Lower, PP!Lower,
      P!WaitIdle, PP!WaitIdle, P!Idle, PP!Idle, P!CallStep, PP!CallStep,
      PP!Arrive, PP!Reject, P!Caller, PP!Caller, P!Id, PP!Id, P!memory, PP!memory, P!calls,
      PP!calls, P!TypeOK, PP!TypeOK, P!Init, PP!Init, P!Held, PP!Held, P!Stage,
      PP!Stage, P!Answer, PP!Answer, P!Silent, PP!Silent

-----------------------------------------------------------------------------
(* What a step does to either slot.                                        *)

MoreFaults == faults' = faults \/ (faults < MaxFaults /\ faults' = faults + 1)

(* A call of ingestion moves on.  Under a dead context it opens no row, is *)
(* given no list and starts no worker.                                     *)
IngestionMoves(c, s) ==
  /\ iStage' = [iStage EXCEPT ![c] = s]
  /\ s \in IP!Stage \ {"rejected"} /\ s # iStage[c]
  /\ s \in {"list", "run"} => ~ctxDone
  /\ s = "book" => iStage[c] = "run"
  /\ s = "finish" => iStage[c] \in {"list", "run", "book"}
  /\ iRow' = "open" => iRow = "open" \/ ~ctxDone
  /\ ctxDone' = ctxDone /\ iDrain' = iDrain
  /\ MoreFaults

(* A call of processing moves on, and answers stay given.                  *)
ProcessingMoves(c, s) ==
  /\ pStage' = [pStage EXCEPT ![c] = s]
  /\ s \in PP!Stage \ {"rejected"} /\ s # pStage[c]
  /\ s = "storing" => ~ctxDone
  /\ s = "launching" => pStage[c] = "storing"
  /\ s = "body" => pStage[c] \in {"storing", "launching"}
  /\ s = "finish" => pStage[c] = "body"
  /\ \A d \in Web : pAnswer[d] # P!Silent => pAnswer'[d] # P!Silent
  /\ c \in Web /\ s = "refused" => pAnswer'[c] # P!Silent
  /\ ctxDone' = ctxDone /\ pDrain' = pDrain
  /\ MoreFaults

LEMMA IngestionEffect ==
  ASSUME IP!SlotInv, NEW c \in I!Caller,
         I!TryLock(c) \/ I!TryLockFails(c) \/ I!CallStep(c)
  PROVE  \E s \in IP!Stage : IngestionMoves(c, s)
<1> USE SlotAssumptions
<1>1. /\ c \in IP!Caller /\ iStage \in [IP!Caller -> IP!Stage]
      /\ faults \in 0..MaxFaults /\ MaxFaults \in Nat
  BY SameIngestion DEF IP!SlotInv, IP!TypeOK
<1>2. faults' = faults \/ (faults < MaxFaults /\ faults' = faults + 1) => MoreFaults
  BY <1>1 DEF MoreFaults
<1>3. CASE I!TryLock(c)
  <2>1. IngestionMoves(c, "create")
    BY <1>1, <1>2, <1>3 DEF I!TryLock, I!Goto, IngestionMoves, IP!Stage
  <2> QED
    BY <2>1 DEF IngestionMoves
<1>4. CASE I!TryLockFails(c)
  <2>1. IngestionMoves(c, "refused")
    BY <1>1, <1>2, <1>4 DEF I!TryLockFails, I!Goto, IngestionMoves, IP!Stage
  <2> QED
    BY <2>1 DEF IngestionMoves
<1>5. CASE I!Create(c)
  <2>1. IngestionMoves(c, "list")
    BY <1>1, <1>2, <1>5 DEF I!Create, I!Goto, IngestionMoves, IP!Stage
  <2> QED
    BY <2>1 DEF IngestionMoves
<1>6. CASE I!CreateFails(c) \/ I!CreateLost(c) \/ I!FinishRun(c) \/ I!FinishFails(c)
  <2>1. IngestionMoves(c, "unlock")
    BY <1>1, <1>2, <1>6
    DEF I!CreateFails, I!CreateLost, I!FinishRun, I!FinishFails, I!CallFails, I!Fault,
        I!Goto, IngestionMoves, IP!Stage
  <2> QED
    BY <2>1 DEF IngestionMoves
<1>7. CASE I!ListActive(c)
  <2>1. IngestionMoves(c, "run")
    BY <1>1, <1>2, <1>7 DEF I!ListActive, I!Goto, IngestionMoves, IP!Stage
  <2> QED
    BY <2>1 DEF IngestionMoves
<1>8. CASE I!ListFails(c) \/ I!PoolDone(c)
  <2>1. IngestionMoves(c, "finish")
    BY <1>1, <1>2, <1>8
    DEF I!ListFails, I!PoolDone, I!CallFails, I!Fault, I!Goto, IngestionMoves, IP!Stage
  <2> QED
    BY <2>1 DEF IngestionMoves
<1>9. CASE I!Bookkeep(c)
  <2>1. IngestionMoves(c, "book")
    BY <1>1, <1>2, <1>9 DEF I!Bookkeep, I!Goto, IngestionMoves, IP!Stage
  <2> QED
    BY <2>1 DEF IngestionMoves
<1>10. CASE I!Bookkept(c)
  <2>1. IngestionMoves(c, IF ctxDone THEN "finish" ELSE "run")
    BY <1>1, <1>2, <1>10 DEF I!Bookkept, I!Goto, IngestionMoves, IP!Stage
  <2> QED
    BY <2>1 DEF IngestionMoves
<1>11. CASE I!Unlock(c)
  <2>1. IngestionMoves(c, "gone")
    BY <1>1, <1>2, <1>11 DEF I!Unlock, I!Goto, IngestionMoves, IP!Stage
  <2> QED
    BY <2>1 DEF IngestionMoves
<1> QED
  BY <1>3, <1>4, <1>5, <1>6, <1>7, <1>8, <1>9, <1>10, <1>11 DEF I!CallStep

LEMMA ToldIsNotSilent ==
  ASSUME NEW c, NEW code \in {202, 409, 500}, NEW id,
         PP!TypeOK, P!Tell(c, code, id)
  PROVE  \A d \in Web : pAnswer[d] # P!Silent \/ d = c => pAnswer'[d] # P!Silent
<1>1. [code |-> code, run |-> id] # P!Silent
  BY DEF P!Silent
<1> QED
  BY <1>1 DEF P!Tell, PP!TypeOK

LEMMA ProcessingEffect ==
  ASSUME PP!SlotInv, NEW c \in P!Caller,
         P!RunSwap(c) \/ P!RunSkipped(c) \/ P!TriggerSwap(c) \/ P!TriggerLoses(c)
           \/ P!CallStep(c)
  PROVE  \E s \in PP!Stage : ProcessingMoves(c, s)
<1> USE SlotAssumptions
<1>1. /\ c \in PP!Caller /\ pStage \in [PP!Caller -> PP!Stage]
      /\ faults \in 0..MaxFaults /\ MaxFaults \in Nat
  BY SameProcessing DEF PP!SlotInv, PP!TypeOK
<1>2. faults' = faults \/ (faults < MaxFaults /\ faults' = faults + 1) => MoreFaults
  BY <1>1 DEF MoreFaults
<1>3. CASE P!RunSwap(c)
  <2>1. ProcessingMoves(c, "add")
    BY <1>1, <1>2, <1>3 DEF P!RunSwap, P!Goto, ProcessingMoves, PP!Stage, PP!Held
  <2> QED
    BY <2>1 DEF ProcessingMoves
<1>4. CASE P!RunSkipped(c)
  <2>1. ProcessingMoves(c, "refused")
    BY <1>1, <1>2, <1>4 DEF P!RunSkipped, P!Goto, ProcessingMoves, PP!Stage
  <2> QED
    BY <2>1 DEF ProcessingMoves
<1>5. CASE P!TriggerSwap(c)
  <2>1. ProcessingMoves(c, "opening")
    BY <1>1, <1>2, <1>5 DEF P!TriggerSwap, P!Goto, ProcessingMoves, PP!Stage, PP!Held
  <2> QED
    BY <2>1 DEF ProcessingMoves
<1>6. CASE P!TriggerLoses(c)
  <2>1. ProcessingMoves(c, "conflict")
    BY <1>1, <1>2, <1>6 DEF P!TriggerLoses, P!Goto, P!memory, ProcessingMoves, PP!Stage
  <2> QED
    BY <2>1 DEF ProcessingMoves
<1>7. CASE P!RunAdd(c)
  <2>1. ProcessingMoves(c, "create")
    BY <1>1, <1>2, <1>7 DEF P!RunAdd, P!Goto, ProcessingMoves, PP!Stage, PP!Held
  <2> QED
    BY <2>1 DEF ProcessingMoves
<1>8. CASE P!Conflict(c)
  <2>1. \A d \in Web : pAnswer[d] # P!Silent \/ d = c => pAnswer'[d] # P!Silent
    BY <1>8, ToldIsNotSilent DEF P!Conflict, PP!SlotInv
  <2>2. ProcessingMoves(c, "refused")
    BY <1>1, <1>2, <1>8, <2>1 DEF P!Conflict, P!Goto, ProcessingMoves, PP!Stage
  <2> QED
    BY <2>2 DEF ProcessingMoves
<1>9. CASE P!Create(c)
  <2>1. ProcessingMoves(c, "storing")
    BY <1>1, <1>2, <1>9 DEF P!Create, P!Goto, ProcessingMoves, PP!Stage, PP!Held
  <2> QED
    BY <2>1 DEF ProcessingMoves
<1>10. CASE P!CreateFails(c) \/ P!CreateLost(c)
  <2> DEFINE s ==
    IF c \in ProcessingTick \cup ProcessingStartup THEN "finished" ELSE "aborting"
  <2>1. ProcessingMoves(c, s)
    BY <1>1, <1>2, <1>10
    DEF P!CreateFails, P!CreateLost, P!NotOpened, P!CallFails, P!Fault, P!Goto,
        ProcessingMoves, PP!Stage, PP!Held
  <2> QED
    BY <2>1 DEF ProcessingMoves
<1>11. CASE P!Abort(c)
  <2>1. \A d \in Web : pAnswer[d] # P!Silent \/ d = c => pAnswer'[d] # P!Silent
    BY <1>11, ToldIsNotSilent DEF P!Abort, PP!SlotInv
  <2>2. ProcessingMoves(c, "gone")
    BY <1>1, <1>2, <1>11, <2>1 DEF P!Abort, P!Goto, ProcessingMoves, PP!Stage
  <2> QED
    BY <2>2 DEF ProcessingMoves
<1>12. CASE P!StoreRunID(c)
  <2> DEFINE s ==
    IF c \in ProcessingTick \cup ProcessingStartup THEN "body" ELSE "launching"
  <2>1. ProcessingMoves(c, s)
    BY <1>1, <1>2, <1>12 DEF P!StoreRunID, P!Goto, ProcessingMoves, PP!Stage, PP!Held
  <2> QED
    BY <2>1 DEF ProcessingMoves
<1>13. CASE P!Launch(c)
  <2>1. ProcessingMoves(c, "body")
    BY <1>1, <1>2, <1>13 DEF P!Launch, P!Goto, ProcessingMoves, PP!Stage, PP!Held
  <2> QED
    BY <2>1 DEF ProcessingMoves
<1>14. CASE P!Body(c)
  <2>1. ProcessingMoves(c, "finish")
    BY <1>1, <1>2, <1>14 DEF P!Body, P!Goto, ProcessingMoves, PP!Stage, PP!Held
  <2> QED
    BY <2>1 DEF ProcessingMoves
<1>15. CASE P!FinishRun(c) \/ P!FinishFails(c)
  <2>1. ProcessingMoves(c, "finished")
    BY <1>1, <1>2, <1>15
    DEF P!FinishRun, P!FinishFails, P!Fault, P!Goto, ProcessingMoves, PP!Stage, PP!Held
  <2> QED
    BY <2>1 DEF ProcessingMoves
<1>16. CASE P!Done(c)
  <2>1. ProcessingMoves(c, "lowering")
    BY <1>1, <1>2, <1>16 DEF P!Done, P!Goto, ProcessingMoves, PP!Stage, PP!Held
  <2> QED
    BY <2>1 DEF ProcessingMoves
<1>17. CASE P!Lower(c)
  <2>1. ProcessingMoves(c, "gone")
    BY <1>1, <1>2, <1>17 DEF P!Lower, P!Goto, ProcessingMoves, PP!Stage
  <2> QED
    BY <2>1 DEF ProcessingMoves
<1> QED
  BY <1>3, <1>4, <1>5, <1>6, <1>7, <1>8, <1>9, <1>10, <1>11, <1>12, <1>13, <1>14, <1>15,
     <1>16, <1>17 DEF P!CallStep

-----------------------------------------------------------------------------
(* Both slots keep their invariants next to one another.                   *)

LEMMA IngestionRests ==
  ASSUME IP!SlotInv, UNCHANGED iVars, ctxDone' \in BOOLEAN, MoreFaults
  PROVE  IP!SlotInv'
<1> USE SlotAssumptions
<1>1. IP!TypeOK'
  BY DEF IP!SlotInv, IP!TypeOK, iVars, MoreFaults
<1>2. IP!Owner' /\ IP!RowOfHolder'
  BY DEF IP!SlotInv, IP!Owner, IP!RowOfHolder, iVars
<1>3. iLost' <= faults'
  <2>1. iLost \in 0..MaxFaults /\ faults \in 0..MaxFaults /\ iLost <= faults /\ iLost' = iLost
    BY DEF IP!SlotInv, IP!TypeOK, iVars
  <2> QED
    BY <2>1 DEF MoreFaults
<1> QED
  BY <1>1, <1>2, <1>3 DEF IP!SlotInv

LEMMA ProcessingRests ==
  ASSUME PP!SlotInv, UNCHANGED pVars, ctxDone' \in BOOLEAN, MoreFaults
  PROVE  PP!SlotInv'
<1> USE SlotAssumptions
<1>1. PP!TypeOK'
  BY DEF PP!SlotInv, PP!TypeOK, pVars, MoreFaults
<1>2. PP!CallsInv'
  BY DEF PP!SlotInv, PP!CallsInv, PP!Owner, PP!Kinds, PP!OwnRow, PP!CountedIn, pVars
<1>3. PP!Serial'
  BY DEF PP!SlotInv, PP!Serial, PP!UsedUpTo, PP!RoomForARun, pVars
<1> QED
  BY <1>1, <1>2, <1>3 DEF PP!SlotInv

LEMMA NoNewFaults ==
  ASSUME PP!SlotInv, UNCHANGED faults PROVE MoreFaults
<1>1. faults \in 0..MaxFaults /\ MaxFaults \in Nat
  BY SlotAssumptions DEF PP!SlotInv, PP!TypeOK
<1> QED
  BY <1>1 DEF MoreFaults

(* What main does besides moving on.                                       *)
MainStep == Boot \/ VerifyFails \/ SchedulerFails \/ Signal \/ DrainStep \/ Tick

LEMMA MainEffect ==
  ASSUME MainStep
  PROVE  /\ UNCHANGED faults /\ (ctxDone' = ctxDone \/ ctxDone' = TRUE)
         /\ UNCHANGED iVars \/ (I!WaitIdle /\ main = "stopProcessing")
         /\ UNCHANGED pVars \/ (P!WaitIdle /\ main = "waitIngestion")
         /\ UNCHANGED iVars \/ UNCHANGED pVars
<1>1. CASE Boot \/ VerifyFails \/ SchedulerFails \/ Signal \/ Tick
  BY <1>1 DEF Boot, VerifyFails, SchedulerFails, Signal, Tick, Still
<1>2. CASE DrainStep
  BY <1>2
  DEF DrainStep, Drain, StopIngestion, StopProcessing, WaitIngestion, WaitProcessing,
      Shutdown, Exit, Still, I!WaitIdle, P!WaitIdle
<1> QED
  BY <1>1, <1>2 DEF MainStep

Slots == IP!SlotInv /\ PP!SlotInv

LEMMA SlotsStep == Slots /\ [Next]_vars => Slots'
<1> SUFFICES ASSUME Slots, [Next]_vars PROVE Slots'
  OBVIOUS
<1> USE SlotAssumptions
<1>1. ctxDone \in BOOLEAN /\ IP!SlotInv /\ PP!SlotInv
  BY DEF Slots, IP!SlotInv, IP!TypeOK
<1>2. ASSUME IP!Next, UNCHANGED pVars, ctxDone' = ctxDone, MoreFaults PROVE Slots'
  <2>1. IP!SlotInv'
    BY <1>1, <1>2, IP!SlotStep
  <2>2. PP!SlotInv'
    BY <1>1, <1>2, ProcessingRests
  <2> QED
    BY <2>1, <2>2 DEF Slots
<1>3. ASSUME PP!Next, UNCHANGED iVars, ctxDone' = ctxDone, MoreFaults PROVE Slots'
  <2>1. PP!SlotInv'
    BY <1>1, <1>3, PP!SlotStep
  <2>2. IP!SlotInv'
    BY <1>1, <1>3, IngestionRests
  <2> QED
    BY <2>1, <2>2 DEF Slots
<1>4. ASSUME NEW c \in I!Caller, IngestionCall(c) \/ IngestionStep(I!CallStep(c))
      PROVE  Slots'
  <2>1. I!TryLock(c) \/ I!TryLockFails(c) \/ I!CallStep(c)
    BY <1>4 DEF IngestionCall, IngestionStep
  <2>2. PICK s : IngestionMoves(c, s)
    BY <1>1, <2>1, IngestionEffect
  <2>3. IP!Next
    BY <2>1, SameIngestion DEF IP!Next
  <2>4. UNCHANGED pVars
    BY <1>4 DEF IngestionCall, IngestionStep
  <2> QED
    BY <1>2, <2>2, <2>3, <2>4 DEF IngestionMoves
<1>5. ASSUME NEW c \in P!Caller, ProcessingCall(c) \/ ProcessingStep(P!CallStep(c))
      PROVE  Slots'
  <2>1. \/ P!RunSwap(c) \/ P!RunSkipped(c) \/ P!TriggerSwap(c) \/ P!TriggerLoses(c)
        \/ P!CallStep(c)
    BY <1>5 DEF ProcessingCall, ProcessingStep
  <2>2. PICK s : ProcessingMoves(c, s)
    BY <1>1, <2>1, ProcessingEffect
  <2>3. PP!Next
    BY <2>1, SameProcessing DEF PP!Next
  <2>4. UNCHANGED iVars
    BY <1>5 DEF ProcessingCall, ProcessingStep
  <2> QED
    BY <1>3, <2>2, <2>3, <2>4 DEF ProcessingMoves
<1>6. ASSUME NEW c \in P!Caller, ProcessingStep(P!Accept(c)) PROVE Slots'
  <2>1. P!Accept(c) /\ UNCHANGED iVars /\ UNCHANGED faults /\ ctxDone' = ctxDone
    BY <1>6 DEF ProcessingStep, P!Accept
  <2>2. PP!Next
    BY <2>1, SameProcessing DEF PP!Next
  <2> QED
    BY <1>1, <1>3, <2>1, <2>2, NoNewFaults
<1>7. CASE IngestionStep(I!DrainLock) \/ IngestionStep(I!DrainUnlock)
  <2>1. /\ I!DrainLock \/ I!DrainUnlock
        /\ UNCHANGED pVars /\ UNCHANGED faults /\ ctxDone' = ctxDone
    BY <1>7 DEF IngestionStep, I!DrainLock, I!DrainUnlock
  <2>2. IP!Next
    BY <2>1, SameIngestion DEF IP!Next
  <2> QED
    BY <1>1, <1>2, <2>1, <2>2, NoNewFaults
<1>8. CASE ProcessingStep(P!Idle)
  <2>1. P!Idle /\ UNCHANGED iVars /\ UNCHANGED faults /\ ctxDone' = ctxDone
    BY <1>8 DEF ProcessingStep, P!Idle
  <2>2. PP!Next
    BY <2>1, SameProcessing DEF PP!Next
  <2> QED
    BY <1>1, <1>3, <2>1, <2>2, NoNewFaults
<1>9. CASE MainStep
  <2>1. /\ UNCHANGED faults /\ ctxDone' \in BOOLEAN
        /\ UNCHANGED iVars \/ I!WaitIdle
        /\ UNCHANGED pVars \/ P!WaitIdle
        /\ UNCHANGED iVars \/ UNCHANGED pVars
    BY <1>1, <1>9, MainEffect
  <2>2. MoreFaults
    BY <1>1, <2>1, NoNewFaults
  <2>3. CASE I!WaitIdle /\ UNCHANGED pVars
    BY <1>2, <2>2, <2>3, SameIngestion DEF IP!Next, I!WaitIdle
  <2>4. CASE P!WaitIdle /\ UNCHANGED iVars
    BY <1>3, <2>2, <2>4, SameProcessing DEF PP!Next, P!WaitIdle
  <2>5. CASE UNCHANGED iVars /\ UNCHANGED pVars
    BY <1>1, <2>1, <2>2, <2>5, IngestionRests, ProcessingRests DEF Slots
  <2> QED
    BY <2>1, <2>3, <2>4, <2>5
<1>10. CASE UNCHANGED vars
  <2>1. UNCHANGED <<ctxDone, faults>> /\ UNCHANGED iVars /\ UNCHANGED pVars
    BY <1>10 DEF vars
  <2> QED
    BY <1>1, <2>1, IngestionRests, ProcessingRests, NoNewFaults DEF Slots
<1> QED
  BY <1>4, <1>5, <1>6, <1>7, <1>8, <1>9, <1>10 DEF Next, MainStep

-----------------------------------------------------------------------------
(* The inductive invariant of the composition.                             *)

Over == Draining \cup {"exited"}

LifeTypes ==
  /\ main \in Booting \cup {"serving"} \cup Draining \cup {"exited", "failed"}
  /\ clock \in 0..Budget
  /\ iDue \in 0..(Budget + BookTimeout) /\ pDue \in 0..(Budget + BookTimeout)

(* A call that was turned away has been told so; the key is not modelled   *)
(* here, so no call is rejected.                                           *)
Reachable ==
  /\ \A c \in I!Caller : iStage[c] # "rejected"
  /\ \A c \in P!Caller : pStage[c] # "rejected"
  /\ \A c \in Web : pStage[c] = "refused" => pAnswer[c] # P!Silent

(* How far main is says whether the context is dead and which drains were  *)
(* asked for; time passes in the drain only.                               *)
Asked ==
  /\ main \in Over => ctxDone
  /\ clock > 0 => main \in Over
  /\ iDrain # "no" \/ pDrain # "no" => ctxDone
  /\ main \in Over \ {"stopIngestion", "stopProcessing"} => iDrain # "no"
  /\ main \in Over \ {"stopIngestion", "stopProcessing", "waitIngestion"} => pDrain # "no"

(* A drain that found its service idle finds it so for ever, as nothing    *)
(* opens a row under a dead context.                                       *)
Quiet ==
  /\ iDrain \in {"holding", "idle"} => iRow # "open"
  /\ pDrain = "idle" =>
       \A c \in ProcessingTick \cup ProcessingStartup : pStage[c] \notin P!Closing

(* Once time passes, a call that is not over is in a detached write: the   *)
(* last of an ingestion run's two, or the only one of a processing run's,  *)
(* which began before time did.                                            *)
IngestionInTime ==
  \A c \in I!Caller :
    /\ iStage[c] \in {"list", "run"} => clock = 0
    /\ iStage[c] = "book" => clock <= iDue /\ iDue <= BookTimeout
    /\ iStage[c] = "finish" => clock <= iDue /\ iDue <= 2 * BookTimeout
ProcessingInTime ==
  \A c \in P!Caller :
    /\ pStage[c] \in {"storing", "launching", "body"} => clock = 0
    /\ pStage[c] = "finish" => clock <= pDue /\ pDue <= BookTimeout
InTime == clock <= 2 * BookTimeout /\ IngestionInTime /\ ProcessingInTime

LifeInv == Slots /\ LifeTypes /\ Reachable /\ Asked /\ Quiet /\ InTime

LEMMA LifeInit == Init => LifeInv
<1> SUFFICES ASSUME Init PROVE LifeInv
  OBVIOUS
<1> USE SlotAssumptions, TimeAssumption
<1>1. Slots
  BY SameIngestion, SameProcessing, IP!SlotInit, PP!CallsInit DEF Init, Slots
<1>2. LifeTypes
  BY DEF Init, LifeTypes, Booting
<1>3. /\ \A c \in I!Caller : iStage[c] = "outside"
      /\ \A c \in P!Caller : pStage[c] = "outside"
      /\ iDrain = "no" /\ pDrain = "no" /\ clock = 0
  BY DEF Init, I!Init, P!Init
<1>4. Reachable
  <2>1. Web \subseteq P!Caller
    BY DEF P!Caller
  <2> QED
    BY <1>3, <2>1 DEF Reachable
<1>5. Asked
  BY <1>3 DEF Init, Asked, Over, Draining
<1>6. Quiet
  BY <1>3 DEF Quiet
<1>7. InTime
  BY <1>3 DEF InTime, IngestionInTime, ProcessingInTime
<1> QED
  BY <1>1, <1>2, <1>4, <1>5, <1>6, <1>7 DEF LifeInv

(* Where no call moves, no deadline does.                                  *)
LEMMA DueStays ==
  ASSUME NEW stage, NEW due PROVE NewDue(stage, stage, due) = due
  BY DEF NewDue

(* A step of an ingestion call.                                            *)
LEMMA IngestionKeeps ==
  ASSUME LifeInv, NEW c \in I!Caller, IngestionCall(c) \/ IngestionStep(I!CallStep(c))
  PROVE  LifeTypes' /\ Reachable' /\ Asked' /\ Quiet' /\ InTime'
<1> USE SlotAssumptions, TimeAssumption
<1>1. /\ I!TryLock(c) \/ I!TryLockFails(c) \/ I!CallStep(c)
      /\ iDue' = NewDue(iStage, iStage', iDue)
      /\ UNCHANGED <<main, clock, pDue, pVars>>
  BY DEF IngestionCall, IngestionStep
<1>2. PICK s : IngestionMoves(c, s)
  BY <1>1, IngestionEffect DEF LifeInv, Slots
<1>3. iStage \in [I!Caller -> IP!Stage]
  BY SameIngestion DEF LifeInv, Slots, IP!SlotInv, IP!TypeOK
<1>4. /\ iStage'[c] = s /\ DOMAIN iStage' = I!Caller
      /\ \A d \in I!Caller \ {c} : iStage'[d] = iStage[d]
  BY <1>2, <1>3 DEF IngestionMoves
<1>5. iDue' = IF s \in {"book", "finish"} THEN clock + BookTimeout ELSE iDue
  <2>1. (\E d \in Detached(iStage') : iStage[d] # iStage'[d]) <=> s \in {"book", "finish"}
    BY <1>2, <1>4 DEF Detached, IngestionMoves
  <2> QED
    BY <1>1, <2>1 DEF NewDue
<1>6. LifeTypes'
  BY <1>1, <1>5 DEF LifeInv, LifeTypes
<1>7. Reachable'
  BY <1>1, <1>2, <1>4 DEF LifeInv, Reachable, IngestionMoves, pVars
<1>8. Asked'
  BY <1>1, <1>2 DEF LifeInv, Asked, IngestionMoves, pVars
<1>9. Quiet'
  BY <1>1, <1>2 DEF LifeInv, Asked, Quiet, IngestionMoves, pVars
<1>10. InTime'
  <2>1. clock > 0 => ctxDone
    BY DEF LifeInv, Asked
  <2>2. clock \in Nat /\ iDue \in Nat /\ clock <= 2 * BookTimeout
    BY DEF LifeInv, LifeTypes, InTime
  <2>3. ASSUME NEW d \in I!Caller
        PROVE  /\ iStage'[d] \in {"list", "run"} => clock' = 0
               /\ iStage'[d] = "book" => clock' <= iDue' /\ iDue' <= BookTimeout
               /\ iStage'[d] = "finish" => clock' <= iDue' /\ iDue' <= 2 * BookTimeout
    <3>1. CASE d = c
      BY <1>1, <1>2, <1>5, <1>4, <2>1, <2>2, <3>1
      DEF LifeInv, InTime, IngestionInTime, IngestionMoves
    <3>2. CASE d # c /\ s \notin {"book", "finish"}
      BY <1>1, <1>5, <1>4, <3>2 DEF LifeInv, InTime, IngestionInTime
    <3>3. CASE d # c /\ s \in {"book", "finish"}
      <4>1. iStage[c] \in IP!InSlot
        BY <1>2, <3>3 DEF IngestionMoves, IP!InSlot
      <4>2. iStage[d] \notin IP!InSlot
        BY <4>1, <3>3, SameIngestion DEF LifeInv, Slots, IP!SlotInv, IP!Owner
      <4> QED
        BY <1>4, <3>3, <4>2 DEF IP!InSlot
    <3> QED
      BY <3>1, <3>2, <3>3
  <2>4. pStage' = pStage /\ pDue' = pDue /\ clock' = clock
    BY <1>1 DEF pVars
  <2>5. ProcessingInTime'
    BY <2>4 DEF LifeInv, InTime, ProcessingInTime
  <2>6. IngestionInTime'
    BY <2>3 DEF IngestionInTime
  <2> QED
    BY <2>2, <2>4, <2>5, <2>6 DEF InTime
<1> QED
  BY <1>6, <1>7, <1>8, <1>9, <1>10

(* A step of a processing call.                                            *)
LEMMA ProcessingKeeps ==
  ASSUME LifeInv, NEW c \in P!Caller, ProcessingCall(c) \/ ProcessingStep(P!CallStep(c))
  PROVE  LifeTypes' /\ Reachable' /\ Asked' /\ Quiet' /\ InTime'
<1> USE SlotAssumptions, TimeAssumption
<1>1. /\ \/ P!RunSwap(c) \/ P!RunSkipped(c) \/ P!TriggerSwap(c) \/ P!TriggerLoses(c)
         \/ P!CallStep(c)
      /\ pDue' = NewDue(pStage, pStage', pDue)
      /\ UNCHANGED <<main, clock, iDue, iVars>>
  BY DEF ProcessingCall, ProcessingStep
<1>2. PICK s : ProcessingMoves(c, s)
  BY <1>1, ProcessingEffect DEF LifeInv, Slots
<1>3. pStage \in [P!Caller -> PP!Stage]
  BY SameProcessing DEF LifeInv, Slots, PP!SlotInv, PP!TypeOK
<1>4. /\ pStage'[c] = s /\ DOMAIN pStage' = P!Caller
      /\ \A d \in P!Caller \ {c} : pStage'[d] = pStage[d]
  BY <1>2, <1>3 DEF ProcessingMoves
<1>5. pDue' = IF s = "finish" THEN clock + BookTimeout ELSE pDue
  <2>1. s # "book"
    BY <1>2 DEF ProcessingMoves, PP!Stage, PP!Held
  <2>2. (\E d \in Detached(pStage') : pStage[d] # pStage'[d]) <=> s = "finish"
    BY <1>2, <1>4, <2>1 DEF Detached, ProcessingMoves
  <2> QED
    BY <1>1, <2>2 DEF NewDue
<1>6. LifeTypes'
  BY <1>1, <1>5 DEF LifeInv, LifeTypes
<1>7. Reachable'
  <2>1. \A d \in I!Caller : iStage'[d] # "rejected"
    BY <1>1 DEF LifeInv, Reachable, iVars
  <2>2. \A d \in P!Caller : pStage'[d] # "rejected"
    BY <1>2, <1>4 DEF LifeInv, Reachable, ProcessingMoves
  <2>3. \A d \in Web : pStage'[d] = "refused" => pAnswer'[d] # P!Silent
    <3>1. Web \subseteq P!Caller
      BY DEF P!Caller
    <3> QED
      BY <1>2, <1>4, <3>1 DEF LifeInv, Reachable, ProcessingMoves
  <2>4. P!Silent' = P!Silent
    BY DEF P!Silent
  <2> QED
    BY <2>1, <2>2, <2>3, <2>4 DEF Reachable
<1>8. Asked'
  BY <1>1, <1>2 DEF LifeInv, Asked, ProcessingMoves, iVars
<1>9. Quiet'
  <2>1. iDrain' = iDrain /\ iRow' = iRow /\ pDrain' = pDrain
    BY <1>1, <1>2 DEF ProcessingMoves, iVars
  <2>2. ASSUME pDrain = "idle", NEW d \in ProcessingTick \cup ProcessingStartup
        PROVE  pStage'[d] \notin P!Closing
    <3>1. ctxDone /\ d \in P!Caller /\ pStage[d] \notin P!Closing
      BY <2>2 DEF LifeInv, Asked, Quiet, P!Caller
    <3> QED
      BY <1>2, <1>4, <3>1 DEF ProcessingMoves, P!Closing
  <2> QED
    BY <2>1, <2>2 DEF LifeInv, Quiet, P!Closing
<1>10. InTime'
  <2>1. clock > 0 => ctxDone
    BY DEF LifeInv, Asked
  <2>2. clock \in Nat /\ pDue \in Nat /\ clock <= 2 * BookTimeout
    BY DEF LifeInv, LifeTypes, InTime
  <2>3. ASSUME NEW d \in P!Caller
        PROVE  /\ pStage'[d] \in {"storing", "launching", "body"} => clock' = 0
               /\ pStage'[d] = "finish" => clock' <= pDue' /\ pDue' <= BookTimeout
    <3>1. CASE d = c
      BY <1>1, <1>2, <1>5, <1>4, <2>1, <2>2, <3>1
      DEF LifeInv, InTime, ProcessingInTime, ProcessingMoves
    <3>2. CASE d # c /\ s # "finish"
      BY <1>1, <1>5, <1>4, <3>2 DEF LifeInv, InTime, ProcessingInTime
    <3>3. CASE d # c /\ s = "finish"
      <4>1. pStage[c] \in PP!Held
        BY <1>2, <3>3 DEF ProcessingMoves, PP!Held
      <4>2. pStage[d] \notin PP!Held
        BY <4>1, <3>3, SameProcessing DEF LifeInv, Slots, PP!SlotInv, PP!CallsInv, PP!Owner
      <4> QED
        BY <1>4, <3>3, <4>2 DEF PP!Held
    <3> QED
      BY <3>1, <3>2, <3>3
  <2>4. iStage' = iStage /\ iDue' = iDue /\ clock' = clock
    BY <1>1 DEF iVars
  <2>5. IngestionInTime'
    BY <2>4 DEF LifeInv, InTime, IngestionInTime
  <2>6. ProcessingInTime'
    BY <2>3 DEF ProcessingInTime
  <2> QED
    BY <2>2, <2>4, <2>5, <2>6 DEF InTime
<1> QED
  BY <1>6, <1>7, <1>8, <1>9, <1>10

(* A client that has its 202 has its answer.                               *)
LEMMA AcceptKeeps ==
  ASSUME LifeInv, NEW c \in P!Caller, ProcessingStep(P!Accept(c))
  PROVE  LifeTypes' /\ Reachable' /\ Asked' /\ Quiet' /\ InTime'
<1>1. /\ pStage' = pStage /\ pDrain' = pDrain /\ ctxDone' = ctxDone
      /\ P!Tell(c, 202, pRun[c])
      /\ UNCHANGED <<main, clock, iDue, iVars>>
      /\ pDue' = NewDue(pStage, pStage, pDue)
  BY DEF ProcessingStep, P!Accept
<1>2. pDue' = pDue
  BY <1>1, DueStays
<1>3. iStage' = iStage /\ iRow' = iRow /\ iDrain' = iDrain
  BY <1>1 DEF iVars
<1>4. Reachable'
  <2>1. \A d \in Web : pAnswer[d] # P!Silent => pAnswer'[d] # P!Silent
    BY <1>1, ToldIsNotSilent DEF LifeInv, Slots, PP!SlotInv
  <2>2. P!Silent' = P!Silent
    BY DEF P!Silent
  <2> QED
    BY <1>1, <1>3, <2>1, <2>2 DEF LifeInv, Reachable
<1>5. Asked'
  BY <1>1, <1>3 DEF LifeInv, Asked
<1>6. Quiet'
  BY <1>1, <1>3 DEF LifeInv, Quiet, P!Closing
<1>7. InTime'
  BY <1>1, <1>2, <1>3 DEF LifeInv, InTime, IngestionInTime, ProcessingInTime
<1> QED
  BY <1>1, <1>2, <1>4, <1>5, <1>6, <1>7 DEF LifeInv, LifeTypes

(* The drains' own steps.                                                  *)
LEMMA DrainsKeep ==
  ASSUME LifeInv, \/ IngestionStep(I!DrainLock) \/ IngestionStep(I!DrainUnlock)
                  \/ ProcessingStep(P!Idle)
  PROVE  LifeTypes' /\ Reachable' /\ Asked' /\ Quiet' /\ InTime'
<1>1. /\ iStage' = iStage /\ pStage' = pStage /\ pAnswer' = pAnswer /\ ctxDone' = ctxDone
      /\ UNCHANGED <<main, clock>>
      /\ \/ iDrain = "waiting" /\ iDrain' = "holding" /\ iRow' = "none" /\ pDrain' = pDrain
         \/ iDrain = "holding" /\ iDrain' = "idle" /\ iRow' = iRow /\ pDrain' = pDrain
         \/ /\ pDrain = "waiting" /\ pDrain' = "idle" /\ pInFlight = {}
            /\ iDrain' = iDrain /\ iRow' = iRow
  BY DEF IngestionStep, ProcessingStep, I!DrainLock, I!DrainUnlock, P!Idle, P!calls,
         iVars, pVars
<1>2. iDue' = iDue /\ pDue' = pDue
  BY DueStays DEF IngestionStep, ProcessingStep, I!DrainLock, I!DrainUnlock, P!Idle, P!calls
<1>3. LifeTypes'
  BY <1>1, <1>2 DEF LifeInv, LifeTypes
<1>4. Reachable'
  BY <1>1 DEF LifeInv, Reachable, P!Silent
<1>5. Asked'
  BY <1>1 DEF LifeInv, Asked
<1>6. Quiet'
  <2>1. ASSUME pDrain' = "idle", NEW d \in ProcessingTick \cup ProcessingStartup
        PROVE  pStage[d] \notin P!Closing
    <3>1. CASE pDrain = "idle"
      BY <2>1, <3>1 DEF LifeInv, Quiet
    <3>2. CASE pInFlight = {}
      <4>1. d \in PP!Caller /\ d \notin Web
        BY SlotAssumptions DEF PP!Caller
      <4>2. /\ pStage[d] = "launching" => d \in Web
            /\ pStage[d] \in {"body", "finish", "storing"} => d \in pInFlight
        BY <4>1 DEF LifeInv, Slots, PP!SlotInv, PP!CallsInv, PP!Kinds, PP!CountedIn
      <4> QED
        BY <3>2, <4>1, <4>2 DEF P!Closing
    <3> QED
      BY <1>1, <2>1, <3>1, <3>2
  <2> QED
    BY <1>1, <2>1 DEF LifeInv, Quiet, P!Closing
<1>7. InTime'
  BY <1>1, <1>2 DEF LifeInv, InTime, IngestionInTime, ProcessingInTime
<1> QED
  BY <1>3, <1>4, <1>5, <1>6, <1>7

(* The steps of main, which move no call and no clock.                     *)
LEMMA MainKeeps ==
  ASSUME LifeInv, Boot \/ VerifyFails \/ SchedulerFails \/ Signal \/ DrainStep
  PROVE  LifeTypes' /\ Reachable' /\ Asked' /\ Quiet' /\ InTime'
<1>1. /\ UNCHANGED <<clock, iDue, pDue>>
      /\ iStage' = iStage /\ iRow' = iRow /\ pStage' = pStage /\ pAnswer' = pAnswer
      /\ iDrain' = iDrain \/ (iDrain' = "waiting" /\ ctxDone)
      /\ pDrain' = pDrain \/ (pDrain' = "waiting" /\ ctxDone)
  <2>1. CASE Boot \/ VerifyFails \/ SchedulerFails \/ Signal
    BY <2>1 DEF Boot, VerifyFails, SchedulerFails, Signal, Goto, Still, iVars, pVars
  <2>2. CASE DrainStep
    BY <2>2
    DEF DrainStep, Drain, StopIngestion, StopProcessing, WaitIngestion, WaitProcessing,
        Shutdown, Exit, Goto, Still, I!WaitIdle, P!WaitIdle, P!memory, P!calls, iVars, pVars
  <2> QED
    BY <2>1, <2>2
<1>2. LifeTypes'
  <2>1. main' \in Booting \cup {"serving"} \cup Draining \cup {"exited", "failed"}
    <3>1. CASE Boot \/ VerifyFails \/ SchedulerFails
      BY <3>1 DEF Boot, VerifyFails, SchedulerFails, Goto, Booting
    <3>2. CASE Signal
      BY <3>2 DEF LifeInv, LifeTypes, Signal
    <3>3. CASE DrainStep
      BY <3>3
      DEF DrainStep, Drain, StopIngestion, StopProcessing, WaitIngestion, WaitProcessing,
          Shutdown, Exit, Goto, Draining
    <3> QED
      BY <3>1, <3>2, <3>3
  <2> QED
    BY <1>1, <2>1 DEF LifeInv, LifeTypes
<1>3. Reachable'
  BY <1>1 DEF LifeInv, Reachable, P!Silent
<1>4. Asked'
  <2>1. CASE Boot \/ VerifyFails \/ SchedulerFails
    <3>1. main \notin Over /\ main' \notin Over /\ ctxDone' = ctxDone
      BY <2>1 DEF Boot, VerifyFails, SchedulerFails, Goto, Still, Over, Draining
    <3> QED
      BY <1>1, <3>1 DEF LifeInv, Asked
  <2>2. CASE Signal
    BY <1>1, <2>2 DEF LifeInv, Asked, Signal
  <2>3. CASE Drain \/ StopIngestion
    BY <1>1, <2>3
    DEF LifeInv, Asked, Over, Draining, Drain, StopIngestion, Goto, Still
  <2>4. CASE StopProcessing
    BY <1>1, <2>4
    DEF LifeInv, Asked, Over, Draining, StopProcessing, Goto, I!WaitIdle
  <2>5. CASE WaitIngestion
    BY <1>1, <2>5
    DEF LifeInv, Asked, Over, Draining, WaitIngestion, Goto, P!WaitIdle
  <2>6. CASE WaitProcessing \/ Shutdown \/ Exit
    BY <1>1, <2>6
    DEF LifeInv, Asked, Over, Draining, WaitProcessing, Shutdown, Exit, Goto, Still
  <2> QED
    BY <2>1, <2>2, <2>3, <2>4, <2>5, <2>6 DEF DrainStep
<1>5. Quiet'
  BY <1>1 DEF LifeInv, Quiet, P!Closing
<1>6. InTime'
  BY <1>1 DEF LifeInv, InTime, IngestionInTime, ProcessingInTime
<1> QED
  BY <1>2, <1>3, <1>4, <1>5, <1>6

(* Time passes only while a detached write is under way: whatever main     *)
(* waits for is one, or is due at once.                                    *)
LEMMA TimeWaitsForWrites ==
  ASSUME LifeInv, main \in Draining, ~Urgent
  PROVE  \/ \E c \in I!Caller : iStage[c] \in {"book", "finish"}
         \/ \E c \in P!Caller : pStage[c] = "finish"
<1> USE SlotAssumptions
<1>1. SUFFICES ASSUME \A c \in I!Caller : iStage[c] \notin {"book", "finish"},
                      \A c \in P!Caller : pStage[c] # "finish"
               PROVE  FALSE
  OBVIOUS
<1>2. /\ iStage \in [I!Caller -> IP!Stage]
      /\ iMutex \in I!Caller \cup {NoOne, Drainer}
      /\ pStage \in [P!Caller -> PP!Stage]
      /\ iDrain \in {"no", "waiting", "holding", "idle"}
      /\ pDrain \in {"no", "waiting", "idle"}
  BY SameIngestion, SameProcessing
  DEF LifeInv, Slots, IP!SlotInv, IP!TypeOK, PP!SlotInv, PP!TypeOK
<1>3. \A c \in I!Caller : AtRest(iStage, c) /\ iStage[c] \notin IP!InSlot
  BY <1>1, <1>2 DEF Urgent, LifeInv, Reachable, AtRest, IP!Stage, IP!InSlot
<1>4. \A c \in P!Caller : AtRest(pStage, c) /\ pStage[c] \notin PP!Held
  BY <1>1, <1>2 DEF Urgent, LifeInv, Reachable, AtRest, P!Held, PP!Stage, PP!Held
<1>5. ~MainMayGo
  BY DEF Urgent
<1>6. CASE main = "stopIngestion"
  BY <1>3, <1>5, <1>6 DEF MainMayGo, I!Caller
<1>7. CASE main = "stopProcessing"
  BY <1>4, <1>5, <1>7 DEF MainMayGo, P!Caller
<1>8. CASE main = "waitIngestion"
  <2>1. iDrain \in {"waiting", "holding"}
    BY <1>2, <1>5, <1>8 DEF MainMayGo, LifeInv, Asked, Over, Draining
  <2>2. iDrain = "waiting" /\ iMutex # NoOne
    BY <2>1 DEF Urgent
  <2>3. iMutex # Drainer /\ \A c \in I!Caller : iMutex # c
    BY <1>3, <2>2, SameIngestion DEF LifeInv, Slots, IP!SlotInv, IP!Owner
  <2> QED
    BY <1>2, <2>2, <2>3
<1>9. CASE main = "waitProcessing"
  <2>1. pDrain = "waiting"
    BY <1>2, <1>5, <1>9 DEF MainMayGo, LifeInv, Asked, Over, Draining
  <2>2. PICK c : c \in pInFlight
    BY <2>1 DEF Urgent
  <2>3. c \in PP!Caller /\ pStage[c] \in PP!Held
    BY <2>2 DEF LifeInv, Slots, PP!SlotInv, PP!TypeOK
  <2> QED
    BY <1>4, <2>3, SameProcessing
<1>10. CASE main = "shutdown"
  <2>1. ~HandlersDone
    BY <1>5, <1>10 DEF MainMayGo
  <2>2. \A c \in Waiting : AtRest(iStage, c)
    BY <1>3 DEF I!Caller
  <2>3. PICK c \in Web : pStage[c] # "outside" /\ pAnswer[c] = P!Silent
    BY <2>1, <2>2 DEF HandlersDone
  <2>4. pStage[c] \in {"gone", "refused"}
    BY <1>4, <2>3 DEF AtRest, P!Caller
  <2> QED
    BY <2>3, <2>4 DEF Urgent, LifeInv, Reachable
<1>11. CASE main = "closing"
  BY <1>5, <1>11 DEF MainMayGo
<1> QED
  BY <1>6, <1>7, <1>8, <1>9, <1>10, <1>11 DEF Draining

LEMMA TickKeeps ==
  ASSUME LifeInv, Tick
  PROVE  LifeTypes' /\ Reachable' /\ Asked' /\ Quiet' /\ InTime'
<1> USE SlotAssumptions, TimeAssumption
<1>1. /\ UNCHANGED <<main, iDue, pDue, ctxDone>>
      /\ iStage' = iStage /\ iRow' = iRow /\ iDrain' = iDrain
      /\ pStage' = pStage /\ pAnswer' = pAnswer /\ pDrain' = pDrain
      /\ main \in Draining /\ clock' = clock + 1 /\ clock < Budget
  BY DEF Tick, iVars, pVars
<1>2. /\ clock \in Nat /\ iDue \in Nat /\ pDue \in Nat
      /\ iStage \in [I!Caller -> IP!Stage] /\ pStage \in [P!Caller -> PP!Stage]
  BY SameIngestion, SameProcessing
  DEF LifeInv, LifeTypes, Slots, IP!SlotInv, IP!TypeOK, PP!SlotInv, PP!TypeOK
<1>3. LifeTypes'
  BY <1>1 DEF LifeInv, LifeTypes
<1>4. Reachable'
  BY <1>1 DEF LifeInv, Reachable, P!Silent
<1>5. Asked'
  BY <1>1 DEF LifeInv, Asked, Over
<1>6. Quiet'
  BY <1>1 DEF LifeInv, Quiet, P!Closing
<1>7. \A c \in I!Caller :
        /\ iStage[c] \notin {"list", "run"}
        /\ iStage[c] \in {"book", "finish"} => clock < iDue
  BY <1>2 DEF Tick, Urgent, Detached
<1>8. \A c \in P!Caller :
        /\ pStage[c] \notin {"storing", "launching", "body"}
        /\ pStage[c] = "finish" => clock < pDue
  BY <1>2 DEF Tick, Urgent, Detached, P!Held
<1>9. IngestionInTime'
  BY <1>1, <1>2, <1>7 DEF LifeInv, InTime, IngestionInTime
<1>10. ProcessingInTime'
  BY <1>1, <1>2, <1>8 DEF LifeInv, InTime, ProcessingInTime
<1>11. clock' <= 2 * BookTimeout
  <2>1. CASE \E c \in I!Caller : iStage[c] \in {"book", "finish"}
    <3>1. PICK c \in I!Caller : iStage[c] \in {"book", "finish"}
      BY <2>1
    <3>2. iDue <= BookTimeout \/ iDue <= 2 * BookTimeout
      BY <3>1 DEF LifeInv, InTime, IngestionInTime
    <3> QED
      BY <1>1, <1>2, <1>7, <3>1, <3>2
  <2>2. CASE \E c \in P!Caller : pStage[c] = "finish"
    <3>1. PICK c \in P!Caller : pStage[c] = "finish"
      BY <2>2
    <3>2. pDue <= BookTimeout
      BY <3>1 DEF LifeInv, InTime, ProcessingInTime
    <3> QED
      BY <1>1, <1>2, <1>8, <3>1, <3>2
  <2> QED
    BY <2>1, <2>2, TimeWaitsForWrites DEF Tick
<1> QED
  BY <1>3, <1>4, <1>5, <1>6, <1>9, <1>10, <1>11 DEF InTime

LEMMA LifeStep == LifeInv /\ [Next]_vars => LifeInv'
<1> SUFFICES ASSUME LifeInv, [Next]_vars PROVE LifeInv'
  OBVIOUS
<1>1. Slots'
  BY SlotsStep DEF LifeInv
<1>2. LifeTypes' /\ Reachable' /\ Asked' /\ Quiet' /\ InTime'
  <2>1. ASSUME NEW c \in I!Caller, IngestionCall(c) \/ IngestionStep(I!CallStep(c))
        PROVE  LifeTypes' /\ Reachable' /\ Asked' /\ Quiet' /\ InTime'
    BY <2>1, IngestionKeeps
  <2>2. ASSUME NEW c \in P!Caller, ProcessingCall(c) \/ ProcessingStep(P!CallStep(c))
        PROVE  LifeTypes' /\ Reachable' /\ Asked' /\ Quiet' /\ InTime'
    BY <2>2, ProcessingKeeps
  <2>3. ASSUME NEW c \in P!Caller, ProcessingStep(P!Accept(c))
        PROVE  LifeTypes' /\ Reachable' /\ Asked' /\ Quiet' /\ InTime'
    BY <2>3, AcceptKeeps
  <2>4. CASE \/ IngestionStep(I!DrainLock) \/ IngestionStep(I!DrainUnlock)
             \/ ProcessingStep(P!Idle)
    BY <2>4, DrainsKeep
  <2>5. CASE Boot \/ VerifyFails \/ SchedulerFails \/ Signal \/ DrainStep
    BY <2>5, MainKeeps
  <2>6. CASE Tick
    BY <2>6, TickKeeps
  <2>7. CASE UNCHANGED vars
    BY <2>7
    DEF LifeInv, LifeTypes, Reachable, Asked, Quiet, InTime, IngestionInTime,
        ProcessingInTime, vars,
        iVars, pVars, P!Silent, P!Closing
  <2> QED
    BY <2>1, <2>2, <2>3, <2>4, <2>5, <2>6, <2>7 DEF Next
<1> QED
  BY <1>1, <1>2 DEF LifeInv

LEMMA LifeInvariant == Spec => []LifeInv
  BY LifeInit, LifeStep, PTL DEF Spec

(* Every variable keeps its type; time never passes the budget.            *)
THEOREM TypeCorrect == Spec => []TypeOK
<1>1. LifeInv => TypeOK
  BY SameIngestion, SameProcessing
  DEF LifeInv, LifeTypes, Slots, IP!SlotInv, PP!SlotInv, TypeOK
<1> QED
  BY <1>1, LifeInvariant, PTL

-----------------------------------------------------------------------------
(* What the shutdown leaves behind.  The budget has to be more than the    *)
(* two detached writes that the longest drain takes: 30 and 20 seconds in  *)
(* the code.                                                               *)

(* Each wait was left because its drain was idle.                          *)
Waited ==
  /\ main \in {"waitProcessing", "shutdown", "closing", "exited"} => iDrain = "idle"
  /\ main \in {"shutdown", "closing", "exited"} => pDrain = "idle"

LEMMA NeverExpires ==
  ASSUME LifeInv, 2 * BookTimeout < Budget PROVE clock < Budget
  BY TimeAssumption DEF LifeInv, LifeTypes, InTime

LEMMA WaitedStep ==
  ASSUME 2 * BookTimeout < Budget, LifeInv, Waited, [Next]_vars PROVE Waited'
<1>1. ~Expired
  BY NeverExpires, TimeAssumption DEF Expired, LifeInv, LifeTypes
<1>2. ASSUME UNCHANGED <<main, iDrain, pDrain>> PROVE Waited'
  BY <1>2 DEF Waited
<1>3. ASSUME NEW c \in I!Caller, IngestionCall(c) \/ IngestionStep(I!CallStep(c))
      PROVE  Waited'
  <2>1. /\ I!TryLock(c) \/ I!TryLockFails(c) \/ I!CallStep(c)
        /\ UNCHANGED main /\ pDrain' = pDrain
    BY <1>3 DEF IngestionCall, IngestionStep, pVars
  <2>2. iDrain' = iDrain
    BY <2>1, IngestionEffect DEF LifeInv, Slots, IngestionMoves
  <2> QED
    BY <1>2, <2>1, <2>2
<1>4. ASSUME NEW c \in P!Caller, ProcessingCall(c) \/ ProcessingStep(P!CallStep(c))
      PROVE  Waited'
  <2>1. /\ \/ P!RunSwap(c) \/ P!RunSkipped(c) \/ P!TriggerSwap(c) \/ P!TriggerLoses(c)
           \/ P!CallStep(c)
        /\ UNCHANGED main /\ iDrain' = iDrain
    BY <1>4 DEF ProcessingCall, ProcessingStep, iVars
  <2>2. pDrain' = pDrain
    BY <2>1, ProcessingEffect DEF LifeInv, Slots, ProcessingMoves
  <2> QED
    BY <1>2, <2>1, <2>2
<1>5. CASE \/ \E c \in P!Caller : ProcessingStep(P!Accept(c))
           \/ Tick \/ Signal \/ UNCHANGED vars
  BY <1>2, <1>5 DEF ProcessingStep, P!Accept, Tick, Signal, vars, iVars, pVars
<1>6. CASE \/ IngestionStep(I!DrainLock) \/ IngestionStep(I!DrainUnlock)
           \/ ProcessingStep(P!Idle)
  BY <1>6
  DEF Waited, IngestionStep, ProcessingStep, I!DrainLock, I!DrainUnlock, P!Idle, iVars, pVars
<1>7. CASE Boot \/ VerifyFails \/ SchedulerFails \/ Drain \/ StopIngestion
  BY <1>7 DEF Waited, Boot, VerifyFails, SchedulerFails, Drain, StopIngestion, Goto
<1>8. CASE StopProcessing
  BY <1>8 DEF Waited, StopProcessing, Goto
<1>9. CASE WaitIngestion
  BY <1>1, <1>9 DEF Waited, WaitIngestion, Goto, iVars
<1>10. CASE WaitProcessing
  BY <1>1, <1>10 DEF Waited, WaitProcessing, Goto, Still, iVars, pVars
<1>11. CASE Shutdown \/ Exit
  BY <1>11 DEF Waited, Shutdown, Exit, Goto, Still, iVars, pVars
<1> QED
  BY <1>3, <1>4, <1>5, <1>6, <1>7, <1>8, <1>9, <1>10, <1>11 DEF Next, DrainStep

LEMMA WaitedInvariant ==
  ASSUME 2 * BookTimeout < Budget PROVE Spec => [](LifeInv /\ Waited)
<1>1. Init => Waited
  BY DEF Init, Waited
<1>2. LifeInv /\ Waited /\ [Next]_vars => Waited'
  BY WaitedStep
<1> QED
  BY <1>1, <1>2, LifeInit, LifeStep, PTL DEF Spec

(* Whoever calls and whatever writes are lost, the drain is over before    *)
(* its budget is, because both services drain side by side.                *)
THEOREM DrainIsInTime ==
  ASSUME 2 * BookTimeout < Budget PROVE Spec => []DrainFitsBudget
<1>1. LifeInv => DrainFitsBudget
  BY NeverExpires DEF DrainFitsBudget
<1> QED
  BY <1>1, LifeInvariant, PTL

(* A regular exit leaves no ingestion run open but for a lost write, and   *)
(* no processing run that the schedule or the boot started.                *)
THEOREM ExitIsClean ==
  ASSUME 2 * BookTimeout < Budget PROVE Spec => []ExitClosesRows
<1>1. LifeInv /\ Waited => ExitClosesRows
  BY DEF LifeInv, Slots, Quiet, Waited, IP!SlotInv, ExitClosesRows
<1> QED
  BY <1>1, WaitedInvariant, PTL

-----------------------------------------------------------------------------
(* The promise of one slot.  A step of one service is a step of its slot,  *)
(* and to the other's slot at most a fault that changed nothing there.     *)

LEMMA IngestionUndisturbed ==
  ASSUME UNCHANGED iVars, MoreFaults
  PROVE  [IP!Slot!Next]_(IP!Slot!vars)
<1>1. IP!Fate' = IP!Fate /\ UNCHANGED <<iMutex, iRow, iLost>>
  BY DEF iVars, IP!Fate
<1>2. CASE faults' = faults
  BY <1>1, <1>2 DEF IP!Slot!vars
<1>3. CASE faults < MaxFaults /\ faults' = faults + 1
  BY <1>1, <1>3 DEF IP!Slot!Next, IP!Slot!Fail, IP!Slot!Fault
<1> QED
  BY <1>2, <1>3 DEF MoreFaults

LEMMA ProcessingUndisturbed ==
  ASSUME UNCHANGED pVars, MoreFaults
  PROVE  [PP!Slot!Next]_(PP!Slot!vars)
<1>0. pRunning' = pRunning /\ pStage' = pStage /\ pRun' = pRun /\ pRows' = pRows
  BY DEF pVars
<1>1. PP!Orphans' = PP!Orphans
  BY <1>0 DEF PP!Orphans, PP!Open, PP!Closing, PP!Id, PP!Caller
<1>2. PP!Fate' = PP!Fate /\ PP!Lost' = PP!Lost
  BY <1>0, <1>1 DEF PP!Fate, PP!Lost
<1>3. PP!SlotRow' = PP!SlotRow
  BY <1>0, <1>1 DEF PP!SlotRow, PP!RowOf
<1>4. CASE faults' = faults
  BY <1>0, <1>2, <1>3, <1>4 DEF PP!Slot!vars
<1>5. CASE faults < MaxFaults /\ faults' = faults + 1
  BY <1>0, <1>2, <1>3, <1>5 DEF PP!Slot!Next, PP!Slot!Fail, PP!Slot!Fault
<1> QED
  BY <1>4, <1>5 DEF MoreFaults

LEMMA SlotsRefineStep ==
  Slots /\ [Next]_vars => [IP!Slot!Next]_(IP!Slot!vars) /\ [PP!Slot!Next]_(PP!Slot!vars)
<1> DEFINE Both == [IP!Slot!Next]_(IP!Slot!vars) /\ [PP!Slot!Next]_(PP!Slot!vars)
<1> SUFFICES ASSUME Slots, [Next]_vars PROVE Both
  OBVIOUS
<1> USE SlotAssumptions
<1>1. IP!SlotInv /\ PP!SlotInv
  BY DEF Slots
<1>2. ASSUME IP!Next, UNCHANGED pVars, MoreFaults PROVE Both
  BY <1>1, <1>2, IP!RefinesStep, ProcessingUndisturbed
<1>3. ASSUME PP!Next, UNCHANGED iVars, MoreFaults PROVE Both
  BY <1>1, <1>3, PP!RefinesStep, IngestionUndisturbed
<1>4. ASSUME UNCHANGED iVars, UNCHANGED pVars, MoreFaults PROVE Both
  BY <1>4, IngestionUndisturbed, ProcessingUndisturbed
<1> HIDE DEF Both
<1>5. CASE \E c \in I!Caller : IngestionCall(c) \/ IngestionStep(I!CallStep(c))
  <2>1. PICK c \in I!Caller : IngestionCall(c) \/ IngestionStep(I!CallStep(c))
    BY <1>5
  <2>2. I!TryLock(c) \/ I!TryLockFails(c) \/ I!CallStep(c)
    BY <2>1 DEF IngestionCall, IngestionStep
  <2>3. PICK s : IngestionMoves(c, s)
    BY <1>1, <2>2, IngestionEffect
  <2>4. IP!Next
    BY <2>2, SameIngestion DEF IP!Next
  <2>5. UNCHANGED pVars
    BY <2>1 DEF IngestionCall, IngestionStep
  <2> QED
    BY <1>2, <2>3, <2>4, <2>5 DEF IngestionMoves
<1>6. CASE \E c \in P!Caller : ProcessingCall(c) \/ ProcessingStep(P!CallStep(c))
  <2>1. PICK c \in P!Caller : ProcessingCall(c) \/ ProcessingStep(P!CallStep(c))
    BY <1>6
  <2>2. \/ P!RunSwap(c) \/ P!RunSkipped(c) \/ P!TriggerSwap(c) \/ P!TriggerLoses(c)
        \/ P!CallStep(c)
    BY <2>1 DEF ProcessingCall, ProcessingStep
  <2>3. PICK s : ProcessingMoves(c, s)
    BY <1>1, <2>2, ProcessingEffect
  <2>4. PP!Next
    BY <2>2, SameProcessing DEF PP!Next
  <2>5. UNCHANGED iVars
    BY <2>1 DEF ProcessingCall, ProcessingStep
  <2> QED
    BY <1>3, <2>3, <2>4, <2>5 DEF ProcessingMoves
<1>7. CASE \E c \in P!Caller : ProcessingStep(P!Accept(c))
  <2>1. PICK c \in P!Caller : ProcessingStep(P!Accept(c))
    BY <1>7
  <2>2. P!Accept(c) /\ UNCHANGED iVars /\ UNCHANGED faults
    BY <2>1 DEF ProcessingStep, P!Accept
  <2>3. PP!Next
    BY <2>2, SameProcessing DEF PP!Next
  <2> QED
    BY <1>3, <2>2, <2>3 DEF MoreFaults
<1>8. CASE IngestionStep(I!DrainLock) \/ IngestionStep(I!DrainUnlock)
  <2>1. (I!DrainLock \/ I!DrainUnlock) /\ UNCHANGED pVars /\ UNCHANGED faults
    BY <1>8 DEF IngestionStep, I!DrainLock, I!DrainUnlock
  <2>2. IP!Next
    BY <2>1, SameIngestion DEF IP!Next
  <2> QED
    BY <1>2, <2>1, <2>2 DEF MoreFaults
<1>9. CASE ProcessingStep(P!Idle)
  <2>1. P!Idle /\ UNCHANGED iVars /\ UNCHANGED faults
    BY <1>9 DEF ProcessingStep, P!Idle
  <2>2. PP!Next
    BY <2>1, SameProcessing DEF PP!Next
  <2> QED
    BY <1>3, <2>1, <2>2 DEF MoreFaults
<1>10. CASE MainStep
  <2>1. /\ MoreFaults
        /\ UNCHANGED iVars \/ I!WaitIdle
        /\ UNCHANGED pVars \/ P!WaitIdle
        /\ UNCHANGED iVars \/ UNCHANGED pVars
    BY <1>10, MainEffect DEF MoreFaults
  <2>2. CASE I!WaitIdle /\ UNCHANGED pVars
    BY <1>2, <2>1, <2>2, SameIngestion DEF IP!Next
  <2>3. CASE P!WaitIdle /\ UNCHANGED iVars
    BY <1>3, <2>1, <2>3, SameProcessing DEF PP!Next
  <2>4. CASE UNCHANGED iVars /\ UNCHANGED pVars
    BY <1>4, <2>1, <2>4
  <2> QED
    BY <2>1, <2>2, <2>3, <2>4
<1>11. CASE UNCHANGED vars
  BY <1>4, <1>11 DEF vars, iVars, pVars, MoreFaults
<1> QED
  BY <1>5, <1>6, <1>7, <1>8, <1>9, <1>10, <1>11 DEF Next, MainStep

(* Either slot is the same whether it is seen from Lifecycle or from the   *)
(* proofs about it.                                                        *)
LEMMA SameIngestionSlot ==
  /\ IP!Slot!Init => I!Slot!Init
  /\ [IP!Slot!Next]_(IP!Slot!vars) => [I!Slot!Next]_(I!Slot!vars)
<1>1. IP!Fate = I!Fate /\ IP!Caller = I!Caller /\ (IP!Fate)' = (I!Fate)'
  BY DEF I!Fate, IP!Fate, I!Caller, IP!Caller, I!CallFate, IP!CallFate, I!DrainFate,
         IP!DrainFate, I!InSlot, IP!InSlot, I!Client, IP!Client
<1>2. IP!Slot!Init => I!Slot!Init
  BY <1>1 DEF IP!Slot!Init, I!Slot!Init
<1>3. UNCHANGED IP!Slot!vars => UNCHANGED I!Slot!vars
  BY <1>1 DEF IP!Slot!vars, I!Slot!vars
<1>4. IP!Slot!Next => I!Slot!Next
  BY <1>1
  DEF IP!Slot!Next, IP!Slot!Grant, IP!Slot!Refuse, IP!Slot!Open, IP!Slot!Close,
      IP!Slot!Abandon, IP!Slot!Fail, IP!Slot!Release, IP!Slot!Return, IP!Slot!Crash,
      IP!Slot!Fault,
      I!Slot!Next, I!Slot!Grant, I!Slot!Refuse, I!Slot!Open, I!Slot!Close,
      I!Slot!Abandon, I!Slot!Fail, I!Slot!Release, I!Slot!Return, I!Slot!Crash,
      I!Slot!Fault
<1> QED
  BY <1>2, <1>3, <1>4

LEMMA SameProcessingSlot ==
  /\ PP!Slot!Init => P!Slot!Init
  /\ [PP!Slot!Next]_(PP!Slot!vars) => [P!Slot!Next]_(P!Slot!vars)
<1>1. PP!Fate = P!Fate /\ PP!Caller = P!Caller /\ (PP!Fate)' = (P!Fate)'
  BY DEF P!Fate, PP!Fate, P!Caller, PP!Caller, P!CallFate, PP!CallFate, P!Held, PP!Held
<1>2. PP!Orphans = P!Orphans /\ (PP!Orphans)' = (P!Orphans)'
  BY DEF P!Orphans, PP!Orphans, P!Open, PP!Open, P!Closing, PP!Closing, P!Caller, PP!Caller,
         P!Id, PP!Id
<1>3. PP!SlotRow = P!SlotRow /\ (PP!SlotRow)' = (P!SlotRow)'
  BY <1>2 DEF P!SlotRow, PP!SlotRow, P!RowOf, PP!RowOf
<1>4. PP!Lost = P!Lost /\ (PP!Lost)' = (P!Lost)'
  <2>1. \A S : PP!Cardinality(S) = P!Cardinality(S)
    BY DEF PP!Cardinality, P!Cardinality, PP!IsFiniteSet, P!IsFiniteSet
  <2> QED
    BY <1>2, <2>1 DEF P!Lost, PP!Lost
<1>5. PP!Slot!Init => P!Slot!Init
  BY <1>1, <1>3, <1>4 DEF PP!Slot!Init, P!Slot!Init
<1>6. UNCHANGED PP!Slot!vars => UNCHANGED P!Slot!vars
  BY <1>1, <1>3, <1>4 DEF PP!Slot!vars, P!Slot!vars
<1>7. PP!Slot!Next => P!Slot!Next
  BY <1>1, <1>3, <1>4
  DEF PP!Slot!Next, PP!Slot!Grant, PP!Slot!Refuse, PP!Slot!Open, PP!Slot!Close,
      PP!Slot!Abandon, PP!Slot!Fail, PP!Slot!Release, PP!Slot!Return, PP!Slot!Crash,
      PP!Slot!Fault,
      P!Slot!Next, P!Slot!Grant, P!Slot!Refuse, P!Slot!Open, P!Slot!Close,
      P!Slot!Abandon, P!Slot!Fail, P!Slot!Release, P!Slot!Return, P!Slot!Crash,
      P!Slot!Fault
<1> QED
  BY <1>5, <1>6, <1>7

(* In the process as a whole, whoever calls, whatever fails and whenever   *)
(* the signal comes, ingestion's mutex and processing's flag are each the  *)
(* one slot of module RunSlot: no run is let in next to another of its     *)
(* service, and none gives the slot back with its row open but by a fault. *)
THEOREM BothSlotsAreKept == Spec => BothKeepTheirSlot
<1>1. Init => IP!Slot!Init /\ PP!Slot!Init
  <2>1. Init => IP!Init /\ PP!Init
    BY SameIngestion, SameProcessing DEF Init
  <2> QED
    BY <2>1, SlotAssumptions, IP!RefinesInit, PP!RefinesInit
<1>2. LifeInv => Slots
  BY DEF LifeInv
<1>3. Spec => /\ IP!Slot!Init /\ [][IP!Slot!Next]_(IP!Slot!vars)
              /\ PP!Slot!Init /\ [][PP!Slot!Next]_(PP!Slot!vars)
  BY <1>1, <1>2, LifeInvariant, SlotsRefineStep, PTL DEF Spec
<1> QED
  BY <1>3, SameIngestionSlot, SameProcessingSlot, PTL
  DEF BothKeepTheirSlot, I!ImplementsRunSlot, P!ImplementsRunSlot, I!Slot!Spec, P!Slot!Spec
=============================================================================
