------------------------------- MODULE MCSlots ------------------------------
(***************************************************************************)
(* Both slots in one run of TLC.  The two services share nothing here, so  *)
(* a behaviour exercises one of them and leaves the other at rest; their   *)
(* composition, with the signal they share, is the module Lifecycle.       *)
(***************************************************************************)
EXTENDS MCProcessingSlot

CONSTANTS startup, wait, trigger, Drainer

VARIABLES
  slot,    \* the slot this behaviour is about
  iMutex, iStage, iRow, iLost, iAnswer, iDrain, iCtxDone, iFaults

I == INSTANCE IngestionSlot WITH
  Job <- {tick, startup}, Waiting <- {wait}, Async <- {trigger},
  mutex <- iMutex, stage <- iStage, row <- iRow, lost <- iLost, answer <- iAnswer,
  drain <- iDrain, ctxDone <- iCtxDone, faults <- iFaults

ASSUME MutexAssumption == I!KindsAssumption /\ I!FaultAssumption

iVars == <<iMutex, iStage, iRow, iLost, iAnswer, iDrain, iCtxDone, iFaults>>

SlotsInit == slot \in {"ingestion", "processing"} /\ I!Init /\ Init
SlotsNext ==
  \/ slot = "ingestion" /\ I!Next /\ UNCHANGED <<slot, vars>>
  \/ slot = "processing" /\ Next /\ UNCHANGED <<slot, iVars>>
SlotsSpec ==
  SlotsInit /\ [][SlotsNext]_<<slot, iVars, vars>> /\ I!Fairness /\ Fairness

-----------------------------------------------------------------------------
(* Ingestion's mutex is the one slot of module RunSlot, for ticks, startup *)
(* runs, both kinds of trigger and the drain together, and so is           *)
(* processing's flag, for ticks and requests.                              *)
BothImplementRunSlot == I!ImplementsRunSlot /\ ImplementsRunSlot

(* A row stuck on `running`, `submitted` or `polling` is the mark of a     *)
(* crash or of a lost write: no error path of a run, no lost race and no   *)
(* shutdown leaves one.                                                    *)
OnlyFaultsLeaveRows == I!StuckRowsAreFaults /\ StuckRowsAreFaults

(* Ingestion's mutex and processing's flag are given back on every path;   *)
(* and the drain gets its turn among all others: WaitIdle of ingestion the *)
(* mutex among callers that keep coming, that of processing an idle group  *)
(* among ticks that count in.                                              *)
SlotsComeFree ==
  /\ I!SlotComesFree /\ SlotComesFree
  /\ I!DrainEnds /\ DrainEnds
=============================================================================
