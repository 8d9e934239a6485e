------------------------------ MODULE RunSlot ------------------------------
(***************************************************************************)
(* What both services promise about a run, whoever asks for it: there is   *)
(* one slot; a call is refused only while somebody has it; the row of a    *)
(* run is opened and closed by the holder of the slot, once; and the slot  *)
(* is given back with that row closed, unless a fault took the write.      *)
(*                                                                         *)
(* IngestionSlot (a mutex) and ProcessingSlot (an atomic flag, a run id    *)
(* and a wait group) are shown to implement this module.                   *)
(***************************************************************************)
EXTENDS Naturals, TLAPS

CONSTANTS
  Caller,      \* cron ticks, startup runs, manual triggers, and the drain
  NoOne,       \* the slot is free
  MaxFaults    \* bound on crashes and lost writes

VARIABLES
  holder,   \* who has the slot
  row,      \* the row of the holder's run
  lost,     \* rows left open that nobody will close
  fate,     \* how far each call has come
  faults    \* faults spent so far

vars == <<holder, row, lost, fate, faults>>

TypeOK ==
  /\ holder \in Caller \cup {NoOne}
  /\ row \in {"none", "open", "closed", "abandoned"}
  /\ lost \in Nat
  /\ fate \in [Caller -> {"outside", "granted", "refused", "over"}]
  /\ faults \in Nat

Init ==
  /\ holder = NoOne
  /\ row = "none"
  /\ lost = 0
  /\ fate = [c \in Caller |-> "outside"]
  /\ faults = 0

Fault == faults < MaxFaults /\ faults' = faults + 1

Grant(c) ==
  /\ fate[c] = "outside"
  /\ holder = NoOne
  /\ holder' = c
  /\ row' = "none"
  /\ fate' = [fate EXCEPT ![c] = "granted"]
  /\ UNCHANGED <<lost, faults>>

Refuse(c) ==
  /\ fate[c] = "outside"
  /\ holder # NoOne
  /\ fate' = [fate EXCEPT ![c] = "refused"]
  /\ UNCHANGED <<holder, row, lost, faults>>

Open ==
  /\ holder # NoOne
  /\ row = "none"
  /\ row' = "open"
  /\ UNCHANGED <<holder, lost, fate, faults>>

Close ==
  /\ row = "open"
  /\ row' = "closed"
  /\ UNCHANGED <<holder, lost, fate, faults>>

(* The insert committed and its answer was lost, or the closing write was. *)
Abandon ==
  /\ holder # NoOne
  /\ row \in {"none", "open"}
  /\ Fault
  /\ row' = IF row = "open" THEN "abandoned" ELSE row
  /\ lost' = lost + 1
  /\ UNCHANGED <<holder, fate>>

(* A write that fails and changed nothing.                                 *)
Fail == Fault /\ UNCHANGED <<holder, row, lost, fate>>

Release ==
  /\ holder # NoOne
  /\ row # "open"
  /\ holder' = NoOne
  /\ row' = "none"
  /\ fate' = [fate EXCEPT ![holder] = "over"]
  /\ UNCHANGED <<lost, faults>>

Return(c) ==
  /\ fate[c] \in {"refused", "over"}
  /\ fate' = [fate EXCEPT ![c] = "outside"]
  /\ UNCHANGED <<holder, row, lost, faults>>

(* The process dies and starts again; the table keeps an open row.         *)
Crash ==
  /\ Fault
  /\ holder' = NoOne
  /\ row' = "none"
  /\ lost' = IF row = "open" THEN lost + 1 ELSE lost
  /\ fate' = [c \in Caller |-> "outside"]

Next ==
  \/ \E c \in Caller : Grant(c) \/ Refuse(c) \/ Return(c)
  \/ Open \/ Close \/ Abandon \/ Fail \/ Release \/ Crash

Spec == Init /\ [][Next]_vars

(* Rows left open for good are never more than the faults that left them.  *)
LostToFaults == lost <= faults

(* Whoever takes the slot gives it back, so no call is locked out for ever.*)
SlotComesFree == holder # NoOne ~> holder = NoOne

(* One slot: the calls that were let in and are not over are the holder.   *)
OneHolder == \A c \in Caller : fate[c] = "granted" <=> holder = c

-----------------------------------------------------------------------------
(* Proofs, for any callers and any number of faults.                       *)

LEMMA TypeCorrect == Spec => []TypeOK
<1>1. Init => TypeOK
  BY DEF Init, TypeOK
<1>2. TypeOK /\ [Next]_vars => TypeOK'
  <2> SUFFICES ASSUME TypeOK, [Next]_vars PROVE TypeOK'
    OBVIOUS
  <2> USE DEF TypeOK
  <2>1. CASE \E c \in Caller : Grant(c) \/ Refuse(c) \/ Return(c)
    BY <2>1 DEF Grant, Refuse, Return
  <2>2. CASE Open \/ Close
    BY <2>2 DEF Open, Close
  <2>3. CASE Abandon \/ Fail
    BY <2>3 DEF Abandon, Fail, Fault
  <2>4. CASE Release
    BY <2>4 DEF Release
  <2>5. CASE Crash
    BY <2>5 DEF Crash, Fault
  <2>6. CASE UNCHANGED vars
    BY <2>6 DEF vars
  <2> QED
    BY <2>1, <2>2, <2>3, <2>4, <2>5, <2>6 DEF Next
<1> QED
  BY <1>1, <1>2, PTL DEF Spec

(* A slot that keeps its promise loses a row only to a fault, whatever     *)
(* callers come and go: every fault pays for one row at most.              *)
THEOREM RowsAreLostToFaults == Spec => []LostToFaults
<1>1. Init => LostToFaults
  BY DEF Init, LostToFaults
<1>2. TypeOK /\ LostToFaults /\ [Next]_vars => LostToFaults'
  <2> SUFFICES ASSUME TypeOK, LostToFaults, [Next]_vars PROVE LostToFaults'
    OBVIOUS
  <2>0. lost \in Nat /\ faults \in Nat /\ lost <= faults
    BY DEF TypeOK, LostToFaults
  <2>1. CASE Abandon \/ Fail \/ Crash
    BY <2>0, <2>1 DEF Abandon, Fail, Crash, Fault, LostToFaults
  <2>2. CASE UNCHANGED <<lost, faults>>
    BY <2>0, <2>2 DEF LostToFaults
  <2> QED
    BY <2>1, <2>2 DEF Next, vars, Grant, Refuse, Return, Open, Close, Release
<1> QED
  BY <1>1, <1>2, TypeCorrect, PTL DEF Spec

(* Whoever is let in is the holder, and is the only one.                   *)
THEOREM OneIsLetIn ==
  ASSUME NoOne \notin Caller
  PROVE  Spec => []OneHolder
<1>1. Init => OneHolder
  BY DEF Init, OneHolder
<1>2. TypeOK /\ OneHolder /\ [Next]_vars => OneHolder'
  <2> SUFFICES ASSUME TypeOK, OneHolder, [Next]_vars PROVE OneHolder'
    OBVIOUS
  <2> USE DEF TypeOK, OneHolder
  <2>1. CASE \E c \in Caller : Grant(c) \/ Refuse(c) \/ Return(c)
    BY <2>1 DEF Grant, Refuse, Return
  <2>2. CASE Open \/ Close \/ Abandon \/ Fail \/ UNCHANGED vars
    BY <2>2 DEF Open, Close, Abandon, Fail, vars
  <2>3. CASE Release
    BY <2>3 DEF Release
  <2>4. CASE Crash
    BY <2>4 DEF Crash
  <2> QED
    BY <2>1, <2>2, <2>3, <2>4 DEF Next
<1> QED
  BY <1>1, <1>2, TypeCorrect, PTL DEF Spec
=============================================================================
