----------------------------- MODULE Slots_proofs -----------------------------
(***************************************************************************)
(* The theorems about the two slots, brought together where one run checks *)
(* both: a behaviour of the composition is one of each slot, or rest.      *)
(***************************************************************************)
EXTENDS MCSlots, ProcessingSlot_proofs

(* IngestionSlot as MCSlots instantiates it, with its theorems.            *)
IP == INSTANCE IngestionSlot_proofs WITH
  Job <- {tick, startup}, Waiting <- {wait}, Async <- {trigger},
  mutex <- iMutex, stage <- iStage, row <- iRow, lost <- iLost, answer <- iAnswer,
  drain <- iDrain, ctxDone <- iCtxDone, faults <- iFaults

LEMMA IngestionAssumptions == IP!KindsAssumption /\ IP!FaultAssumption
  BY MutexAssumption
  DEF I!KindsAssumption, I!FaultAssumption, IP!KindsAssumption, IP!FaultAssumption,
      I!Caller, IP!Caller

(* One slot moves and the other rests.  The actions of the two instances   *)
(* are the same formulas, which shows when they are expanded.              *)
LEMMA EachMovesAlone ==
  [SlotsNext]_<<slot, iVars, vars>> => [IP!Next]_(IP!vars) /\ [Next]_vars
<1>1. IP!Next <=> I!Next
  BY DEF
      I!Goto, IP!Goto, I!Respond, IP!Respond, I!Fault, IP!Fault, I!CallFails,
      IP!CallFails, I!TryLock, IP!TryLock, I!TryLockFails, IP!TryLockFails,
      I!Reject, IP!Reject, I!Create, IP!Create, I!CreateFails, IP!CreateFails,
      I!CreateLost, IP!CreateLost, I!ListActive, IP!ListActive, I!ListFails,
      IP!ListFails, I!Bookkeep, IP!Bookkeep, I!Bookkept, IP!Bookkept, I!PoolDone,
      IP!PoolDone, I!FinishRun, IP!FinishRun, I!FinishFails, IP!FinishFails,
      I!Unlock, IP!Unlock, I!Return, IP!Return, I!Cancel, IP!Cancel, I!WaitIdle,
      IP!WaitIdle, I!DrainLock, IP!DrainLock, I!DrainUnlock, IP!DrainUnlock,
      I!Crash, IP!Crash, I!CallStep, IP!CallStep, I!Arrive, IP!Arrive, I!Next,
      IP!Next, I!Caller, IP!Caller, I!Client, IP!Client, I!vars, IP!vars, I!InSlot,
      IP!InSlot
<1>2. UNCHANGED iVars => UNCHANGED IP!vars
  BY DEF iVars, IP!vars
<1> QED
  BY <1>1, <1>2 DEF SlotsNext

(* Neither service leaves a row behind, `running`, `submitted` or          *)
(* `polling`, that a crash or a lost write has not paid for.               *)
THEOREM OnlyFaultsLeaveOpenRows == SlotsSpec => []OnlyFaultsLeaveRows
<1>1. SlotsInit => IP!Init /\ Init
  BY DEF SlotsInit, I!Init, IP!Init, I!Caller, IP!Caller, I!Client, IP!Client
<1>2. SlotsSpec => IP!Spec /\ Spec
  BY <1>1, EachMovesAlone, PTL DEF SlotsSpec, IP!Spec, Spec
<1>3. IP!StuckRowsAreFaults /\ StuckRowsAreFaults => OnlyFaultsLeaveRows
  BY DEF IP!StuckRowsAreFaults, I!StuckRowsAreFaults, OnlyFaultsLeaveRows
<1> QED
  BY <1>2, <1>3, IngestionAssumptions, IP!OnlyFaultsLeaveARow, OnlyFaultsLeaveARow, PTL

(* The two instances see the same slot.                                    *)
LEMMA SameSlot ==
  /\ IP!Slot!Init => I!Slot!Init
  /\ [IP!Slot!Next]_(IP!Slot!vars) => [I!Slot!Next]_(I!Slot!vars)
<1>1. IP!Fate = I!Fate /\ IP!Caller = I!Caller /\ (IP!Fate)' = (I!Fate)'
  BY DEF I!Fate, IP!Fate, I!Caller, IP!Caller, I!CallFate, IP!CallFate, I!DrainFate,
         IP!DrainFate, I!InSlot, IP!InSlot
<1>2. IP!Slot!Init => I!Slot!Init
  BY <1>1 DEF IP!Slot!Init, I!Slot!Init
<1>3. UNCHANGED IP!Slot!vars => UNCHANGED I!Slot!vars
  BY <1>1 DEF IP!Slot!vars, I!Slot!vars
<1>4. IP!Slot!Next => I!Slot!Next
  BY <1>1
  DEF IP!Slot!Next, IP!Slot!Grant, IP!Slot!Refuse, IP!Slot!Open, IP!Slot!Close,
      IP!Slot!Abandon, IP!Slot!Fail, IP!Slot!Release, IP!Slot!Return, IP!Slot!Crash,
      IP!Slot!Fault,
      I!Slot!Next, I!Slot!Grant, I!Slot!Refuse, I!Slot!Open, I!Slot!Close,
      I!Slot!Abandon, I!Slot!Fail, I!Slot!Release, I!Slot!Return, I!Slot!Crash,
      I!Slot!Fault
<1> QED
  BY <1>2, <1>3, <1>4

(* In the behaviours that the run explores, as in all others, ingestion's  *)
(* mutex and processing's flag are each the one slot of module RunSlot.    *)
THEOREM SlotsImplementRunSlot == SlotsSpec => BothImplementRunSlot
<1>1. SlotsInit => IP!Init /\ Init
  BY DEF SlotsInit, I!Init, IP!Init, I!Caller, IP!Caller, I!Client, IP!Client
<1>2. SlotsSpec => IP!Spec /\ Spec
  BY <1>1, EachMovesAlone, PTL DEF SlotsSpec, IP!Spec, Spec
<1>3. SlotsSpec => IP!ImplementsRunSlot /\ ImplementsRunSlot
  BY <1>2, IngestionAssumptions, IP!MutexIsOneSlot, FlagIsOneSlot, PTL
<1>4. IP!ImplementsRunSlot => I!ImplementsRunSlot
  BY SameSlot, PTL
  DEF I!ImplementsRunSlot, IP!ImplementsRunSlot, I!Slot!Spec, IP!Slot!Spec
<1> QED
  BY <1>3, <1>4, PTL DEF BothImplementRunSlot
=============================================================================
