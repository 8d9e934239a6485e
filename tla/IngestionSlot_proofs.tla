------------------------- MODULE IngestionSlot_proofs ------------------------
(***************************************************************************)
(* Proofs about IngestionSlot, for any number of ticks, startup runs and   *)
(* clients of either kind, and any number of crashes and lost writes.      *)
(***************************************************************************)
EXTENDS IngestionSlot, TLAPS

Assumptions == KindsAssumption /\ FaultAssumption

-----------------------------------------------------------------------------
(* The inductive invariant: who has the mutex, and how far its row is.     *)
Owner ==
  /\ \A c \in Caller : stage[c] \in InSlot <=> mutex = c
  /\ drain = "holding" <=> mutex = Drainer

RowOfHolder ==
  /\ mutex = Drainer => row = "none"
  /\ \A c \in Caller :
       /\ stage[c] = "create" => row = "none"
       /\ stage[c] \in {"list", "run", "book", "finish"} => row = "open"
       /\ stage[c] = "unlock" => row # "open"

SlotInv == TypeOK /\ Owner /\ RowOfHolder /\ lost <= faults

-----------------------------------------------------------------------------
LEMMA CallerKinds ==
  ASSUME Assumptions
  PROVE  /\ NoOne \notin Caller /\ Drainer \notin Caller /\ Drainer # NoOne
         /\ \A c \in Caller : c \notin Job => c \in Client
         /\ Client \subseteq Caller /\ MaxFaults \in Nat
  BY DEF Assumptions, KindsAssumption, FaultAssumption, Caller, Client

(* An answer is one of the codes the endpoint knows.                       *)
LEMMA RespondType ==
  ASSUME Assumptions, TypeOK, NEW c \in Caller,
         NEW code \in {0, 200, 202, 401, 409, 500}, Respond(c, code)
  PROVE  answer' \in [Client -> {0, 200, 202, 401, 409, 500}]
  BY CallerKinds DEF Respond, TypeOK

LEMMA GotoType ==
  ASSUME TypeOK, NEW c \in Caller, NEW s \in Stage, Goto(c, s)
  PROVE  /\ stage' \in [Caller -> Stage]
         /\ stage'[c] = s
         /\ \A d \in Caller \ {c} : stage'[d] = stage[d]
  BY DEF Goto, TypeOK

LEMMA SlotInit == Assumptions /\ Init => SlotInv
<1> SUFFICES ASSUME Assumptions, Init PROVE SlotInv
  OBVIOUS
<1> USE CallerKinds
<1>1. stage \in [Caller -> Stage]
  BY DEF Init, Stage
<1>2. ctxDone \in BOOLEAN
  BY DEF Init
<1>3. TypeOK
  BY <1>1, <1>2 DEF Init, TypeOK
<1>4. Owner /\ RowOfHolder
  BY DEF Init, Owner, RowOfHolder, InSlot
<1> QED
  BY <1>3, <1>4 DEF Init, SlotInv

(* A call that holds the mutex and goes on holding it.                     *)
LEMMA StaysIn ==
  ASSUME Assumptions, SlotInv, NEW c \in Caller, stage[c] \in InSlot,
         NEW s \in InSlot, Goto(c, s), mutex' = mutex, drain' = drain,
         s = "create" => row' = "none",
         s \in {"list", "run", "book", "finish"} => row' = "open",
         s = "unlock" => row' # "open"
  PROVE  stage' \in [Caller -> Stage] /\ Owner' /\ RowOfHolder'
<1> USE CallerKinds
<1>1. s \in Stage
  BY DEF InSlot, Stage
<1>2. /\ stage' \in [Caller -> Stage]
      /\ stage'[c] = s
      /\ \A d \in Caller \ {c} : stage'[d] = stage[d]
  BY <1>1, GotoType DEF SlotInv
<1>3. mutex = c /\ drain # "holding"
  BY DEF SlotInv, Owner
<1>4. Owner'
  BY <1>2, <1>3 DEF SlotInv, Owner
<1>5. \A d \in Caller \ {c} : stage'[d] \notin InSlot
  BY <1>2, <1>3 DEF SlotInv, Owner
<1>6. RowOfHolder'
  BY <1>2, <1>3, <1>5 DEF RowOfHolder, InSlot
<1> QED
  BY <1>2, <1>4, <1>6

(* A call that is outside the slot and stays outside.                      *)
LEMMA StaysOut ==
  ASSUME Assumptions, SlotInv, NEW c \in Caller, stage[c] \notin InSlot,
         NEW s \in Stage \ InSlot, Goto(c, s), UNCHANGED <<mutex, drain, row>>
  PROVE  stage' \in [Caller -> Stage] /\ Owner' /\ RowOfHolder'
<1>1. /\ stage' \in [Caller -> Stage]
      /\ stage'[c] = s
      /\ \A d \in Caller \ {c} : stage'[d] = stage[d]
  BY GotoType DEF SlotInv
<1>2. Owner'
  BY <1>1 DEF SlotInv, Owner
<1>3. RowOfHolder'
  BY <1>1 DEF SlotInv, RowOfHolder, InSlot
<1> QED
  BY <1>1, <1>2, <1>3

LEMMA SlotCall ==
  ASSUME Assumptions, SlotInv, NEW c \in Caller, Arrive(c) \/ CallStep(c) \/ Return(c)
  PROVE  SlotInv'
<1> USE CallerKinds
<1>0. TypeOK /\ lost \in Nat /\ faults \in Nat /\ lost <= faults
  BY DEF SlotInv, TypeOK
<1>1. CASE TryLock(c)
  <2>1. answer' \in [Client -> {0, 200, 202, 401, 409, 500}]
    BY <1>0, <1>1, RespondType DEF TryLock
  <2>2. /\ stage' \in [Caller -> Stage] /\ stage'[c] = "create"
        /\ \A d \in Caller \ {c} : stage'[d] = stage[d]
    BY <1>0, <1>1, GotoType DEF TryLock, Stage
  <2>3. Owner' /\ RowOfHolder'
    BY <1>1, <2>2 DEF TryLock, SlotInv, Owner, RowOfHolder, InSlot
  <2> QED
    BY <1>0, <1>1, <2>1, <2>2, <2>3 DEF TryLock, SlotInv, TypeOK
<1>2. CASE TryLockFails(c)
  <2>1. answer' \in [Client -> {0, 200, 202, 401, 409, 500}]
    BY <1>0, <1>2, RespondType DEF TryLockFails
  <2>2. stage' \in [Caller -> Stage] /\ Owner' /\ RowOfHolder'
    BY <1>2, StaysOut DEF TryLockFails, InSlot, Stage
  <2> QED
    BY <1>0, <1>2, <2>1, <2>2 DEF TryLockFails, SlotInv, TypeOK
<1>3. CASE Reject(c)
  <2>1. answer' \in [Client -> {0, 200, 202, 401, 409, 500}]
    BY <1>0, <1>3, RespondType DEF Reject
  <2>2. stage' \in [Caller -> Stage] /\ Owner' /\ RowOfHolder'
    BY <1>3, StaysOut DEF Reject, InSlot, Stage
  <2> QED
    BY <1>0, <1>3, <2>1, <2>2 DEF Reject, SlotInv, TypeOK
<1>4. CASE Return(c)
  <2>1. answer' \in [Client -> {0, 200, 202, 401, 409, 500}]
    BY <1>0, <1>4, RespondType DEF Return
  <2>2. stage' \in [Caller -> Stage] /\ Owner' /\ RowOfHolder'
    BY <1>4, StaysOut DEF Return, InSlot, Stage
  <2> QED
    BY <1>0, <1>4, <2>1, <2>2 DEF Return, SlotInv, TypeOK
<1>5. Fault \/ CallFails => faults' \in 0..MaxFaults /\ faults <= faults'
  BY <1>0 DEF Fault, CallFails, TypeOK
<1>6. Fault => faults' = faults + 1 /\ lost + 1 \in 0..MaxFaults
  BY <1>0 DEF Fault
<1>7. CASE Create(c)
  <2>1. stage' \in [Caller -> Stage] /\ Owner' /\ RowOfHolder'
    BY <1>7, StaysIn DEF Create, InSlot
  <2> QED
    BY <1>0, <1>7, <2>1 DEF Create, SlotInv, TypeOK
<1>8. CASE CreateFails(c)
  <2>1. answer' \in [Client -> {0, 200, 202, 401, 409, 500}]
    BY <1>0, <1>8, RespondType DEF CreateFails, TypeOK
  <2>2. row = "none"
    BY <1>8 DEF CreateFails, SlotInv, RowOfHolder
  <2>3. stage' \in [Caller -> Stage] /\ Owner' /\ RowOfHolder'
    BY <1>8, <2>2, StaysIn DEF CreateFails, InSlot
  <2> QED
    BY <1>0, <1>5, <1>8, <2>1, <2>3 DEF CreateFails, SlotInv, TypeOK
<1>9. CASE CreateLost(c)
  <2>1. answer' \in [Client -> {0, 200, 202, 401, 409, 500}]
    BY <1>0, <1>9, RespondType DEF CreateLost, TypeOK
  <2>2. row = "none"
    BY <1>9 DEF CreateLost, SlotInv, RowOfHolder
  <2>3. stage' \in [Caller -> Stage] /\ Owner' /\ RowOfHolder'
    BY <1>9, <2>2, StaysIn DEF CreateLost, InSlot
  <2> QED
    BY <1>0, <1>5, <1>6, <1>9, <2>1, <2>3 DEF CreateLost, SlotInv, TypeOK
<1>10. CASE ListActive(c) \/ Bookkeep(c) \/ Bookkept(c) \/ PoolDone(c)
  <2>1. row = "open"
    BY <1>10 DEF ListActive, Bookkeep, Bookkept, PoolDone, SlotInv, RowOfHolder
  <2>2. PICK s \in {"run", "book", "finish"} : Goto(c, s)
    BY <1>10 DEF ListActive, Bookkeep, Bookkept, PoolDone
  <2>3. stage[c] \in InSlot
        /\ UNCHANGED <<mutex, row, lost, answer, drain, ctxDone, faults>>
    BY <1>10 DEF ListActive, Bookkeep, Bookkept, PoolDone, InSlot
  <2>4. s \in InSlot
    BY DEF InSlot
  <2>5. stage' \in [Caller -> Stage] /\ Owner' /\ RowOfHolder'
    BY <2>1, <2>2, <2>3, <2>4, StaysIn
  <2> QED
    BY <1>0, <2>3, <2>5 DEF SlotInv, TypeOK
<1>11. CASE ListFails(c)
  <2>1. answer' \in [Client -> {0, 200, 202, 401, 409, 500}]
    BY <1>0, <1>11, RespondType DEF ListFails, TypeOK
  <2>2. row = "open"
    BY <1>11 DEF ListFails, SlotInv, RowOfHolder
  <2>3. stage' \in [Caller -> Stage] /\ Owner' /\ RowOfHolder'
    BY <1>11, <2>2, StaysIn DEF ListFails, InSlot
  <2> QED
    BY <1>0, <1>5, <1>11, <2>1, <2>3 DEF ListFails, SlotInv, TypeOK
<1>12. CASE FinishRun(c)
  <2>1. stage' \in [Caller -> Stage] /\ Owner' /\ RowOfHolder'
    BY <1>12, StaysIn DEF FinishRun, InSlot
  <2> QED
    BY <1>0, <1>12, <2>1 DEF FinishRun, SlotInv, TypeOK
<1>13. CASE FinishFails(c)
  <2>1. stage' \in [Caller -> Stage] /\ Owner' /\ RowOfHolder'
    BY <1>13, StaysIn DEF FinishFails, InSlot
  <2> QED
    BY <1>0, <1>5, <1>6, <1>13, <2>1 DEF FinishFails, SlotInv, TypeOK
<1>14. CASE Unlock(c)
  <2>1. answer' \in [Client -> {0, 200, 202, 401, 409, 500}]
    BY <1>0, <1>14, RespondType DEF Unlock, TypeOK
  <2>2. row # "open" /\ mutex = c /\ drain # "holding"
    BY <1>14 DEF Unlock, SlotInv, RowOfHolder, Owner, InSlot
  <2>3. /\ stage' \in [Caller -> Stage] /\ stage'[c] = "gone"
        /\ \A d \in Caller \ {c} : stage'[d] = stage[d]
    BY <1>0, <1>14, GotoType DEF Unlock, Stage
  <2>4. Owner' /\ RowOfHolder'
    BY <1>14, <2>2, <2>3 DEF Unlock, SlotInv, Owner, RowOfHolder, InSlot
  <2> QED
    BY <1>0, <1>14, <2>1, <2>2, <2>3, <2>4 DEF Unlock, SlotInv, TypeOK
<1> QED
  BY <1>1, <1>2, <1>3, <1>4, <1>7, <1>8, <1>9, <1>10, <1>11, <1>12, <1>13, <1>14
  DEF Arrive, CallStep

LEMMA SlotStep == Assumptions /\ SlotInv /\ [Next]_vars => SlotInv'
<1> SUFFICES ASSUME Assumptions, SlotInv, [Next]_vars PROVE SlotInv'
  OBVIOUS
<1> USE CallerKinds
<1>0. TypeOK /\ lost \in Nat /\ faults \in Nat /\ lost <= faults
  BY DEF SlotInv, TypeOK
<1>1. CASE \E c \in Caller : Arrive(c) \/ CallStep(c) \/ Return(c)
  BY <1>1, SlotCall
<1>2. CASE Cancel
  BY <1>2 DEF Cancel, SlotInv, TypeOK, Owner, RowOfHolder
<1>3. CASE WaitIdle
  BY <1>3 DEF WaitIdle, SlotInv, TypeOK, Owner, RowOfHolder
<1>4. CASE DrainLock
  BY <1>4 DEF DrainLock, SlotInv, TypeOK, Owner, RowOfHolder, InSlot
<1>5. CASE DrainUnlock
  BY <1>5 DEF DrainUnlock, SlotInv, TypeOK, Owner, RowOfHolder, InSlot
<1>6. CASE Crash
  <2>1. stage' \in [Caller -> Stage]
    BY <1>6 DEF Crash, Stage
  <2>2. lost' \in 0..MaxFaults /\ faults' \in 0..MaxFaults /\ lost' <= faults'
    BY <1>0, <1>6 DEF Crash, Fault, TypeOK
  <2>3. ctxDone' \in BOOLEAN
    BY <1>6 DEF Crash
  <2>4. TypeOK'
    BY <1>6, <2>1, <2>2, <2>3 DEF Crash, TypeOK
  <2>5. Owner' /\ RowOfHolder'
    BY <1>6 DEF Crash, Owner, RowOfHolder, InSlot
  <2> QED
    BY <2>2, <2>4, <2>5 DEF SlotInv
<1>7. CASE UNCHANGED vars
  BY <1>7 DEF vars, SlotInv, TypeOK, Owner, RowOfHolder
<1> QED
  BY <1>1, <1>2, <1>3, <1>4, <1>5, <1>6, <1>7 DEF Next

LEMMA SlotInvariant ==
  ASSUME Assumptions
  PROVE  Spec => []SlotInv
  BY SlotInit, SlotStep, PTL DEF Spec

-----------------------------------------------------------------------------
(* The refinement: every step of the mutex is a step of module RunSlot.    *)

(* A call that moves takes its fate with it, and nobody else's.            *)
LEMMA CallMovesFate ==
  ASSUME Assumptions, TypeOK, NEW c \in Caller, NEW s \in Stage, Goto(c, s), drain' = drain
  PROVE  /\ c \in Caller \cup {Drainer} /\ Fate[c] = CallFate(stage[c])
         /\ Fate' = [Fate EXCEPT ![c] = CallFate(s)]
         /\ CallFate(s) = CallFate(stage[c]) => Fate' = Fate
<1>1. /\ stage'[c] = s
      /\ \A d \in Caller \ {c} : stage'[d] = stage[d]
  BY GotoType
<1>2. c # Drainer
  BY CallerKinds
<1>3. Fate[c] = CallFate(stage[c])
  BY <1>2 DEF Fate
<1>4. Fate' = [Fate EXCEPT ![c] = CallFate(s)]
  BY <1>1, <1>2 DEF Fate
<1>5. CallFate(s) = CallFate(stage[c]) => Fate' = Fate
  BY <1>3, <1>4 DEF Fate
<1> QED
  BY <1>3, <1>4, <1>5

LEMMA DrainMovesFate ==
  ASSUME stage' = stage
  PROVE  /\ Fate[Drainer] = DrainFate(drain)
         /\ Fate' = [Fate EXCEPT ![Drainer] = DrainFate(drain')]
         /\ DrainFate(drain') = DrainFate(drain) => Fate' = Fate
<1>1. Fate[Drainer] = DrainFate(drain)
  BY DEF Fate
<1>2. Fate' = [Fate EXCEPT ![Drainer] = DrainFate(drain')]
  BY DEF Fate
<1> QED
  BY <1>1, <1>2 DEF Fate

LEMMA RefinesInit == Assumptions /\ Init => Slot!Init
<1> SUFFICES ASSUME Assumptions, Init PROVE Slot!Init
  OBVIOUS
<1>1. Fate = [c \in Caller \cup {Drainer} |-> "outside"]
  BY DEF Fate, Init, CallFate, DrainFate, InSlot
<1> QED
  BY <1>1 DEF Init, Slot!Init

LEMMA RefinesCall ==
  ASSUME Assumptions, SlotInv, NEW c \in Caller, Arrive(c) \/ CallStep(c) \/ Return(c)
  PROVE  [Slot!Next]_(Slot!vars)
<1> USE DEF SlotInv
<1>0. TypeOK
  OBVIOUS
<1>1. /\ \A s \in InSlot : s \in Stage /\ CallFate(s) = "granted"
      /\ CallFate("outside") = "outside" /\ CallFate("rejected") = "outside"
      /\ CallFate("gone") = "over" /\ CallFate("refused") = "refused"
      /\ {"outside", "rejected", "gone", "refused"} \subseteq Stage
  BY DEF CallFate, InSlot, Stage
<1>2. stage[c] \in InSlot => mutex = c /\ mutex # NoOne
  BY CallerKinds DEF Owner
(* A step inside the slot that touches neither the row nor the mutex.      *)
<1>3. ASSUME NEW s \in InSlot, stage[c] \in InSlot, Goto(c, s),
             UNCHANGED <<mutex, row, lost, drain>>, faults' = faults \/ Fault
      PROVE  [Slot!Next]_(Slot!vars)
  <2>1. Fate' = Fate
    BY <1>0, <1>1, <1>3, CallMovesFate
  <2>2. CASE faults' = faults
    BY <1>3, <2>1, <2>2 DEF Slot!vars
  <2>3. CASE Fault
    BY <1>3, <2>1, <2>3 DEF Fault, Slot!Next, Slot!Fail, Slot!Fault
  <2> QED
    BY <1>3, <2>2, <2>3
<1>4. CASE TryLock(c)
  <2>1. Fate[c] = "outside" /\ Fate' = [Fate EXCEPT ![c] = "granted"]
    BY <1>0, <1>1, <1>4, CallMovesFate DEF TryLock, InSlot
  <2>2. Slot!Grant(c)
    BY <1>4, <2>1 DEF TryLock, Slot!Grant
  <2> QED
    BY <2>2 DEF Slot!Next
<1>5. CASE TryLockFails(c)
  <2>1. Fate[c] = "outside" /\ Fate' = [Fate EXCEPT ![c] = "refused"]
    BY <1>0, <1>1, <1>5, CallMovesFate DEF TryLockFails
  <2>2. Slot!Refuse(c)
    BY <1>5, <2>1 DEF TryLockFails, Slot!Refuse
  <2> QED
    BY <2>2 DEF Slot!Next
<1>6. CASE Reject(c)
  <2>1. Fate' = Fate
    BY <1>0, <1>1, <1>6, CallMovesFate DEF Reject
  <2> QED
    BY <1>6, <2>1 DEF Reject, Slot!vars
<1>7. CASE Return(c)
  <2>1. Fate' = [Fate EXCEPT ![c] = "outside"] /\ Fate[c] = CallFate(stage[c])
        /\ (stage[c] = "rejected" => Fate' = Fate)
    BY <1>0, <1>1, <1>7, CallMovesFate DEF Return
  <2>2. CASE stage[c] = "rejected"
    BY <1>7, <2>1, <2>2 DEF Return, Slot!vars
  <2>3. CASE stage[c] \in {"gone", "refused"}
    <3>1. Slot!Return(c)
      BY <1>1, <1>7, <2>1, <2>3 DEF Return, Slot!Return
    <3> QED
      BY <3>1 DEF Slot!Next
  <2> QED
    BY <1>7, <2>2, <2>3 DEF Return
<1>8. CASE Create(c)
  <2>1. Fate' = Fate /\ mutex # NoOne /\ row = "none"
    BY <1>0, <1>1, <1>2, <1>8, CallMovesFate DEF Create, InSlot, RowOfHolder
  <2>2. Slot!Open
    BY <1>8, <2>1 DEF Create, Slot!Open
  <2> QED
    BY <2>2 DEF Slot!Next
<1>9. CASE CreateFails(c) \/ ListFails(c)
  BY <1>3, <1>9 DEF CreateFails, ListFails, CallFails, InSlot
<1>10. CASE CreateLost(c)
  <2>1. Fate' = Fate /\ mutex # NoOne /\ row = "none"
    BY <1>0, <1>1, <1>2, <1>10, CallMovesFate DEF CreateLost, InSlot, RowOfHolder
  <2>2. Slot!Abandon
    BY <1>10, <2>1 DEF CreateLost, Fault, Slot!Abandon, Slot!Fault
  <2> QED
    BY <2>2 DEF Slot!Next
<1>11. CASE ListActive(c) \/ Bookkeep(c) \/ Bookkept(c) \/ PoolDone(c)
  <2>1. PICK s \in {"run", "book", "finish"} : Goto(c, s)
    BY <1>11 DEF ListActive, Bookkeep, Bookkept, PoolDone
  <2>2. stage[c] \in InSlot /\ UNCHANGED <<mutex, row, lost, drain, faults>>
    BY <1>11 DEF ListActive, Bookkeep, Bookkept, PoolDone, InSlot
  <2>3. s \in InSlot
    BY DEF InSlot
  <2> QED
    BY <1>3, <2>1, <2>2, <2>3
<1>12. CASE FinishRun(c)
  <2>1. Fate' = Fate /\ row = "open"
    BY <1>0, <1>1, <1>12, CallMovesFate DEF FinishRun, InSlot, RowOfHolder
  <2>2. Slot!Close
    BY <1>12, <2>1 DEF FinishRun, Slot!Close
  <2> QED
    BY <2>2 DEF Slot!Next
<1>13. CASE FinishFails(c)
  <2>1. Fate' = Fate /\ mutex # NoOne /\ row = "open"
    BY <1>0, <1>1, <1>2, <1>13, CallMovesFate DEF FinishFails, InSlot, RowOfHolder
  <2>2. Slot!Abandon
    BY <1>13, <2>1 DEF FinishFails, Fault, Slot!Abandon, Slot!Fault
  <2> QED
    BY <2>2 DEF Slot!Next
<1>14. CASE Unlock(c)
  <2>1. mutex = c /\ mutex # NoOne /\ row # "open"
    BY <1>2, <1>14 DEF Unlock, InSlot, RowOfHolder
  <2>2. Fate' = [Fate EXCEPT ![mutex] = "over"]
    BY <1>0, <1>1, <1>14, <2>1, CallMovesFate DEF Unlock
  <2>3. Slot!Release
    BY <1>14, <2>1, <2>2 DEF Unlock, Slot!Release
  <2> QED
    BY <2>3 DEF Slot!Next
<1> QED
  BY <1>4, <1>5, <1>6, <1>7, <1>8, <1>9, <1>10, <1>11, <1>12, <1>13, <1>14
  DEF Arrive, CallStep

LEMMA RefinesStep == Assumptions /\ SlotInv /\ [Next]_vars => [Slot!Next]_(Slot!vars)
<1> SUFFICES ASSUME Assumptions, SlotInv, [Next]_vars PROVE [Slot!Next]_(Slot!vars)
  OBVIOUS
<1>1. CASE \E c \in Caller : Arrive(c) \/ CallStep(c) \/ Return(c)
  BY <1>1, RefinesCall
<1>2. CASE Cancel \/ WaitIdle
  <2>1. DrainFate(drain') = DrainFate(drain)
    BY <1>2 DEF Cancel, WaitIdle, DrainFate
  <2>2. Fate' = Fate
    BY <1>2, <2>1, DrainMovesFate DEF Cancel, WaitIdle
  <2> QED
    BY <1>2, <2>2 DEF Cancel, WaitIdle, Slot!vars
<1>3. CASE DrainLock
  <2>1. Fate[Drainer] = "outside" /\ Fate' = [Fate EXCEPT ![Drainer] = "granted"]
    BY <1>3, DrainMovesFate DEF DrainLock, DrainFate
  <2>2. Slot!Grant(Drainer)
    BY <1>3, <2>1 DEF DrainLock, Slot!Grant
  <2> QED
    BY <2>2 DEF Slot!Next
<1>4. CASE DrainUnlock
  <2>1. mutex = Drainer /\ mutex # NoOne /\ row = "none"
    BY <1>4, CallerKinds DEF DrainUnlock, SlotInv, Owner, RowOfHolder
  <2>2. Fate' = [Fate EXCEPT ![mutex] = "over"]
    BY <1>4, <2>1, DrainMovesFate DEF DrainUnlock, DrainFate
  <2>3. Slot!Release
    BY <1>4, <2>1, <2>2 DEF DrainUnlock, Slot!Release
  <2> QED
    BY <2>3 DEF Slot!Next
<1>5. CASE Crash
  <2>1. Fate' = [c \in Caller \cup {Drainer} |-> "outside"]
    BY <1>5 DEF Crash, Fate, CallFate, DrainFate, InSlot
  <2>2. Slot!Crash
    BY <1>5, <2>1 DEF Crash, Fault, Slot!Crash, Slot!Fault
  <2> QED
    BY <2>2 DEF Slot!Next
<1>6. CASE UNCHANGED vars
  BY <1>6 DEF vars, Slot!vars, Fate
<1> QED
  BY <1>1, <1>2, <1>3, <1>4, <1>5, <1>6 DEF Next

(* Two passes never overlap; and when the drain has the mutex, so that the *)
(* process may exit, no pass is under way at all.                          *)
OnePass ==
  /\ \A c, d \in Caller : stage[c] \in InSlot /\ stage[d] \in InSlot => c = d
  /\ drain = "holding" => \A c \in Caller : stage[c] \notin InSlot

(* Whatever mix of ticks, startup runs, clients and a shutdown competes    *)
(* for it, the mutex lets one pass in at a time and the drain only after.  *)
THEOREM NeverTwoPasses ==
  ASSUME KindsAssumption, FaultAssumption
  PROVE  Spec => []OnePass
<1>1. Assumptions
  BY DEF Assumptions
<1>2. SlotInv => OnePass
  BY <1>1, CallerKinds DEF SlotInv, Owner, OnePass
<1>3. Spec => []SlotInv
  BY <1>1, SlotInvariant
<1> QED
  BY <1>2, <1>3, PTL

(* Ingestion's mutex is the one slot of module RunSlot for ticks, startup  *)
(* runs, triggers of both kinds and the drain: nobody is let in next to a  *)
(* run or turned away from a free slot, and every run opens and closes one *)
(* row, or leaves it to a fault.                                           *)
THEOREM MutexIsOneSlot ==
  ASSUME KindsAssumption, FaultAssumption
  PROVE  Spec => ImplementsRunSlot
<1>0. Assumptions
  BY DEF Assumptions
<1>1. Init => Slot!Init
  BY <1>0, RefinesInit
<1>2. SlotInv /\ [Next]_vars => [Slot!Next]_(Slot!vars)
  BY <1>0, RefinesStep
<1>3. Spec => []SlotInv
  BY <1>0, SlotInvariant
<1> QED
  BY <1>1, <1>2, <1>3, PTL DEF Spec, ImplementsRunSlot, Slot!Spec

(* No error path of a run, no shutdown and no refused call leaves a row on *)
(* `running`: each one that stays there was paid for by a crash or by a    *)
(* lost write.  It is what module RunSlot proves of any such slot.         *)
THEOREM OnlyFaultsLeaveARow ==
  ASSUME KindsAssumption, FaultAssumption
  PROVE  Spec => []StuckRowsAreFaults
<1>1. Slot!LostToFaults => StuckRowsAreFaults
  BY DEF Slot!LostToFaults, StuckRowsAreFaults
<1> QED
  BY <1>1, MutexIsOneSlot, Slot!RowsAreLostToFaults, PTL DEF ImplementsRunSlot

=============================================================================
