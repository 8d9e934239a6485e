------------------------ MODULE ProcessingSlot_proofs ------------------------
(***************************************************************************)
(* Proofs about ProcessingSlot, for any number of ticks, startup runs and  *)
(* clients, any limits they ask for, and any number of crashes and writes  *)
(* that fail or whose answer is lost.                                      *)
(***************************************************************************)
EXTENDS ProcessingSlot, FiniteSetTheorems, TLAPS

USE KindsAssumption, LimitsAssumption, BoundsAssumption

-----------------------------------------------------------------------------
(* The inductive invariant.                                                *)

(* The flag is up for the call that is past its swap, and for no other.    *)
Owner == \A c \in Caller : stage[c] \in Held <=> running = c

(* Scheduled runs open their row in run(), triggers before they launch it. *)
Kinds ==
  \A c \in Caller :
    /\ stage[c] \in {"add", "create"} => c \in Job
    /\ stage[c] \in {"opening", "launching", "aborting"} => c \in Web

(* A call has the id of a row once it opened one, its own; and that row is *)
(* open for as long as the call is going to close it.                      *)
OwnRow ==
  /\ \A c \in Caller :
       /\ stage[c] \in {"outside", "add", "create", "opening", "aborting", "conflict",
                        "refused", "rejected"} => run[c] = 0
       /\ stage[c] \in Closing => run[c] # 0 /\ rows[run[c]] = "submitted"
       /\ run[c] # 0 => rows[run[c]] # "none"
  /\ \A c, d \in Caller : run[c] = run[d] /\ run[c] # 0 => c = d

(* The table's ids are handed out in order, and the call about to insert   *)
(* finds one left.                                                         *)
UsedUpTo(k) == \A i \in Id : rows[i] # "none" <=> i <= k
Serial ==
  /\ \E k \in 0..MaxRuns : UsedUpTo(k)
  /\ \A c \in Caller : stage[c] \in {"add", "create", "opening"} => RoomForARun

(* The wait group counts every pass that touches the database, and only    *)
(* calls that will count themselves out again.                             *)
CountedIn ==
  /\ \A c \in inFlight :
       stage[c] \in {"create", "storing", "launching", "body", "finish", "finished"}
  /\ \A c \in Caller :
       stage[c] \in {"create", "body", "finish"} \/ (stage[c] = "storing" /\ c \in Job) =>
         c \in inFlight

(* A client has no answer before its request is decided; a 202 has the id  *)
(* of its own run; and every run got a limit that a batch can hold.        *)
AnsweredTo(c) ==
  /\ stage[c] \in {"outside", "conflict", "opening", "storing", "launching", "aborting"} =>
       answer[c] = Silent
  /\ answer[c].code = 202 => answer[c].run = run[c] /\ run[c] # 0
  /\ stage[c] \in {"body", "finish", "finished", "lowering"}
       \/ (stage[c] = "gone" /\ answer[c] = Silent) => run[c] # 0
  /\ stage[c] \in Held \/ run[c] # 0 => limit[c] \in 1..MaxBatch
Answered == \A c \in Web : AnsweredTo(c)

CallsInv == Owner /\ Kinds /\ OwnRow /\ CountedIn
SlotInv == TypeOK /\ CallsInv /\ Serial

-----------------------------------------------------------------------------
LEMMA StageSets ==
  /\ Held \subseteq Stage /\ Closing \subseteq Held
  /\ "lowering" \in Held \ Closing /\ "finished" \in Held \ Closing
  /\ \A s \in {"outside", "gone", "conflict", "refused", "rejected"} : s \in Stage \ Held
<1>1. Held \subseteq Stage /\ Closing \subseteq Held
  BY DEF Held, Stage, Closing
<1>2. "lowering" \in Held \ Closing /\ "finished" \in Held \ Closing
  BY DEF Held, Closing
<1>3. \A s \in {"outside", "gone", "conflict", "refused", "rejected"} : s \in Stage \ Held
  BY DEF Held, Stage
<1> QED
  BY <1>1, <1>2, <1>3

LEMMA GotoType ==
  ASSUME TypeOK, NEW c \in Caller, NEW s \in Stage, Goto(c, s)
  PROVE  /\ stage' \in [Caller -> Stage]
         /\ stage'[c] = s
         /\ \A d \in Caller \ {c} : stage'[d] = stage[d]
  BY DEF Goto, TypeOK

LEMMA TellType ==
  ASSUME TypeOK, NEW c, NEW code \in {0, 202, 400, 401, 409, 500}, NEW id \in Id \cup {0},
         Tell(c, code, id)
  PROVE  answer' \in [Web -> Answer]
<1>1. [code |-> code, run |-> id] \in Answer
  BY DEF Answer
<1> QED
  BY <1>1 DEF Tell, TypeOK

(* The serial hands out an id that no row has.                             *)
LEMMA NextIdIsNew ==
  ASSUME TypeOK, Serial, RoomForARun
  PROVE  /\ NextId \in Id /\ rows[NextId] = "none"
         /\ \A k \in 0..MaxRuns : UsedUpTo(k) => NextId = k + 1
<1>1. PICK k \in 0..MaxRuns : UsedUpTo(k)
  BY DEF Serial
<1>2. PICK r \in Id : rows[r] = "none"
  BY DEF RoomForARun
<1>3. k < MaxRuns /\ k + 1 \in Id
  BY <1>1, <1>2 DEF UsedUpTo, Id
<1>4. rows[k + 1] = "none" /\ \A j \in 1..(k + 1 - 1) : rows[j] # "none"
  BY <1>1, <1>3 DEF UsedUpTo, Id
<1>5. NextId \in Id /\ rows[NextId] = "none" /\ \A j \in 1..(NextId - 1) : rows[j] # "none"
  BY <1>3, <1>4 DEF NextId
<1>6. ASSUME NEW m \in 0..MaxRuns, UsedUpTo(m) PROVE NextId = m + 1
  <2>1. ~(NextId <= m)
    BY <1>5, <1>6 DEF UsedUpTo
  <2>2. ~(NextId > m + 1)
    <3> SUFFICES ASSUME NextId > m + 1 PROVE FALSE
      OBVIOUS
    <3>1. m + 1 \in 1..(NextId - 1) /\ m + 1 \in Id
      BY <1>5 DEF Id
    <3> QED
      BY <1>5, <1>6, <3>1 DEF UsedUpTo
  <2> QED
    BY <1>5, <2>1, <2>2 DEF Id
<1> QED
  BY <1>5, <1>6

(* Inserting the next row keeps the ids in order.                          *)
LEMMA InsertKeepsSerial ==
  ASSUME TypeOK, Serial, RoomForARun,
         rows' = [rows EXCEPT ![NextId] = "submitted"]
  PROVE  /\ rows' \in [Id -> {"none", "submitted", "closed"}]
         /\ \E k \in 0..MaxRuns : UsedUpTo(k)'
<1>1. PICK k \in 0..MaxRuns : UsedUpTo(k)
  BY DEF Serial
<1>2. NextId = k + 1 /\ k + 1 \in Id
  BY <1>1, NextIdIsNew
<1>3. UsedUpTo(k + 1)' /\ k + 1 \in 0..MaxRuns
  BY <1>1, <1>2 DEF UsedUpTo, TypeOK, Id
<1> QED
  BY <1>2, <1>3 DEF TypeOK

LEMMA OrphansFinite ==
  /\ IsFiniteSet(Id) /\ Open \subseteq Id /\ Orphans \subseteq Open
  /\ IsFiniteSet(Orphans) /\ Cardinality(Orphans) \in Nat
<1>1. IsFiniteSet(Id)
  BY FS_Interval DEF Id
<1>2. Open \subseteq Id /\ Orphans \subseteq Open
  BY DEF Open, Orphans
<1> QED
  BY <1>1, <1>2, FS_Subset, FS_CardinalityType

-----------------------------------------------------------------------------
(* What happens to the calls.                                              *)
LEMMA CallsInit == Init => SlotInv
<1> SUFFICES ASSUME Init PROVE SlotInv
  OBVIOUS
<1>1. stage \in [Caller -> Stage] /\ inFlight \in SUBSET {c \in Caller : stage[c] \in Held}
  BY StageSets DEF Init
<1>2. answer \in [Web -> Answer]
  BY DEF Init, Silent, Answer
<1>3. ctxDone \in BOOLEAN
  BY DEF Init
<1>4. TypeOK
  BY <1>1, <1>2, <1>3 DEF Init, TypeOK
<1>5. CallsInv
  BY DEF Init, CallsInv, Owner, Kinds, OwnRow, CountedIn, Held, Closing
<1>6. Serial
  <2>1. UsedUpTo(0) /\ 0 \in 0..MaxRuns
    BY DEF Init, UsedUpTo, Id
  <2> QED
    BY <2>1 DEF Init, Serial
<1> QED
  BY <1>4, <1>5, <1>6 DEF SlotInv

(* A call with the flag that goes on to its next stage.                    *)
LEMMA GoesOn ==
  ASSUME TypeOK, CallsInv, NEW c \in Caller, stage[c] \in Held,
         NEW s \in Held, Goto(c, s), running' = running, run' = run,
         \A d \in Caller : run[d] # 0 /\ d # c => rows'[run[d]] = rows[run[d]],
         run[c] # 0 => rows'[run[c]] # "none",
         s \in {"add", "create"} => c \in Job,
         s \in {"opening", "launching", "aborting"} => c \in Web,
         s \in {"add", "create", "opening", "aborting"} => run[c] = 0,
         s \in Closing => run[c] # 0 /\ rows'[run[c]] = "submitted",
         \A d \in Caller \ {c} : d \in inFlight' <=> d \in inFlight,
         inFlight' \subseteq Caller,
         c \in inFlight' =>
           s \in {"create", "storing", "launching", "body", "finish", "finished"},
         s \in {"create", "body", "finish"} \/ (s = "storing" /\ c \in Job) => c \in inFlight'
  PROVE  stage' \in [Caller -> Stage] /\ CallsInv'
         /\ inFlight' \in SUBSET {d \in Caller : stage'[d] \in Held}
<1>1. /\ stage' \in [Caller -> Stage]
      /\ stage'[c] = s
      /\ \A d \in Caller \ {c} : stage'[d] = stage[d]
  BY GotoType, StageSets
<1>2. Owner'
  BY <1>1 DEF CallsInv, Owner
<1>3. Kinds'
  BY <1>1 DEF CallsInv, Kinds
<1>4. \A d \in Caller \ {c} : stage[d] \notin Closing
  BY StageSets DEF CallsInv, Owner
<1>5. OwnRow'
  <2>1. ASSUME NEW d \in Caller
        PROVE  /\ stage'[d] \in {"outside", "add", "create", "opening", "aborting",
                                 "conflict", "refused", "rejected"} => run'[d] = 0
               /\ stage'[d] \in Closing => run'[d] # 0 /\ rows'[run'[d]] = "submitted"
               /\ run'[d] # 0 => rows'[run'[d]] # "none"
    <3>1. CASE d = c
      <4>1. s \notin {"outside", "conflict", "refused", "rejected"}
        BY StageSets
      <4> QED
        BY <1>1, <3>1, <4>1
    <3>2. CASE d # c
      BY <1>1, <1>4, <3>2 DEF CallsInv, OwnRow
    <3> QED
      BY <3>1, <3>2
  <2>2. \A d, e \in Caller : run'[d] = run'[e] /\ run'[d] # 0 => d = e
    BY DEF CallsInv, OwnRow
  <2> QED
    BY <2>1, <2>2 DEF OwnRow, Closing
<1>6. CountedIn'
  <2>1. ASSUME NEW d \in inFlight'
        PROVE  stage'[d] \in {"create", "storing", "launching", "body", "finish", "finished"}
    BY <1>1, <2>1 DEF CallsInv, CountedIn
  <2>2. ASSUME NEW d \in Caller,
               stage'[d] \in {"create", "body", "finish"} \/ (stage'[d] = "storing" /\ d \in Job)
        PROVE  d \in inFlight'
    BY <1>1, <2>2 DEF CallsInv, CountedIn
  <2> QED
    BY <2>1, <2>2 DEF CountedIn
<1>7. inFlight' \in SUBSET {d \in Caller : stage'[d] \in Held}
  BY <1>6 DEF CountedIn, Held
<1> QED
  BY <1>1, <1>2, <1>3, <1>5, <1>6, <1>7 DEF CallsInv

(* A call without the flag that stays without it.                          *)
LEMMA StaysOut ==
  ASSUME TypeOK, CallsInv, NEW c \in Caller, stage[c] \notin Held,
         NEW s \in Stage \ Held, Goto(c, s), UNCHANGED <<memory, rows>>,
         run' = run \/ run' = [run EXCEPT ![c] = 0],
         s # "gone" => run'[c] = 0
  PROVE  stage' \in [Caller -> Stage] /\ run' \in [Caller -> Id \cup {0}] /\ CallsInv'
         /\ inFlight' \in SUBSET {d \in Caller : stage'[d] \in Held}
<1>0. run' \in [Caller -> Id \cup {0}]
      /\ (\A d \in Caller \ {c} : run'[d] = run[d]) /\ run'[c] \in {0, run[c]}
  BY DEF TypeOK
<1>1. /\ stage' \in [Caller -> Stage]
      /\ stage'[c] = s
      /\ \A d \in Caller \ {c} : stage'[d] = stage[d]
  BY GotoType
<1>2. Owner'
  BY <1>1 DEF CallsInv, Owner, memory
<1>3. Kinds'
  BY <1>1 DEF CallsInv, Kinds, Held
<1>4. s \notin Closing
  BY StageSets
<1>5. OwnRow'
  <2>1. ASSUME NEW d \in Caller
        PROVE  /\ stage'[d] \in {"outside", "add", "create", "opening", "aborting",
                                 "conflict", "refused", "rejected"} => run'[d] = 0
               /\ stage'[d] \in Closing => run'[d] # 0 /\ rows'[run'[d]] = "submitted"
               /\ run'[d] # 0 => rows'[run'[d]] # "none"
    <3>1. CASE d = c
      BY <1>0, <1>1, <1>4, <3>1 DEF CallsInv, OwnRow
    <3>2. CASE d # c
      BY <1>0, <1>1, <3>2 DEF CallsInv, OwnRow
    <3> QED
      BY <3>1, <3>2
  <2>2. \A d, e \in Caller : run'[d] = run'[e] /\ run'[d] # 0 => d = e
    BY <1>0 DEF CallsInv, OwnRow
  <2> QED
    BY <2>1, <2>2 DEF OwnRow, Closing
<1>6. CountedIn' /\ inFlight' \in SUBSET {d \in Caller : stage'[d] \in Held}
  <2>1. c \notin inFlight
    BY DEF TypeOK
  <2>2. CountedIn'
    <3>1. s \notin {"create", "body", "finish", "storing"} /\ inFlight' = inFlight
      BY DEF Held, memory
    <3>2. \A d \in inFlight' : stage'[d] = stage[d]
      BY <1>1, <2>1, <3>1 DEF TypeOK
    <3>3. \A d \in Caller : d # c => stage'[d] = stage[d]
      BY <1>1
    <3> QED
      BY <1>1, <3>1, <3>2, <3>3 DEF CallsInv, CountedIn
  <2>3. inFlight' \in SUBSET {d \in Caller : stage'[d] \in Held}
    BY <1>1, <2>1 DEF TypeOK, memory
  <2> QED
    BY <2>2, <2>3
<1> QED
  BY <1>0, <1>1, <1>2, <1>3, <1>5, <1>6 DEF CallsInv

(* The table only loses an empty row to an insert.                         *)
LEMMA KeepsSerial ==
  ASSUME SlotInv, \A i \in Id : rows'[i] = "none" <=> rows[i] = "none",
         \A c \in Caller : stage'[c] \in {"add", "create", "opening"} =>
           stage[c] \in {"add", "create", "opening"} \/ RoomForARun
  PROVE  Serial'
<1>1. \E k \in 0..MaxRuns : UsedUpTo(k)'
  BY DEF SlotInv, Serial, UsedUpTo
<1>2. RoomForARun => RoomForARun'
  BY DEF RoomForARun
<1>3. \A c \in Caller : stage'[c] \in {"add", "create", "opening"} => RoomForARun'
  BY <1>2 DEF SlotInv, Serial
<1> QED
  BY <1>1, <1>3 DEF Serial

(* An insert, by the call that holds the flag.                             *)
LEMMA InsertSerial ==
  ASSUME SlotInv, NEW c \in Caller, stage[c] \in {"create", "opening"},
         NEW s \in {"storing", "finished", "aborting"}, Goto(c, s),
         rows' = [rows EXCEPT ![NextId] = "submitted"]
  PROVE  /\ NextId \in Id /\ rows[NextId] = "none"
         /\ rows' \in [Id -> {"none", "submitted", "closed"}]
         /\ \A d \in Caller : run[d] # 0 => run[d] # NextId /\ rows'[run[d]] = rows[run[d]]
         /\ Serial'
<1>1. RoomForARun
  BY DEF SlotInv, Serial
<1>2. NextId \in Id /\ rows[NextId] = "none"
  BY <1>1, NextIdIsNew DEF SlotInv
<1>3. rows' \in [Id -> {"none", "submitted", "closed"}] /\ \E k \in 0..MaxRuns : UsedUpTo(k)'
  BY <1>1, InsertKeepsSerial DEF SlotInv
<1>4. ASSUME NEW d \in Caller, run[d] # 0
      PROVE  run[d] # NextId /\ rows'[run[d]] = rows[run[d]]
  <2>1. run[d] \in Id /\ rows[run[d]] # "none"
    BY <1>4 DEF SlotInv, CallsInv, OwnRow, TypeOK
  <2> QED
    BY <1>2, <2>1 DEF SlotInv, TypeOK
<1>5. ASSUME NEW d \in Caller PROVE stage'[d] \notin {"add", "create", "opening"}
  <2>1. s \in Stage /\ stage[c] \in Held
    BY DEF Stage, Held
  <2>2. stage'[c] = s /\ (d # c => stage'[d] = stage[d] /\ stage[d] \notin Held)
    BY <2>1, GotoType DEF SlotInv, CallsInv, Owner
  <2> QED
    BY <2>2 DEF Held
<1> QED
  BY <1>2, <1>3, <1>4, <1>5 DEF Serial

LEMMA FaultType ==
  ASSUME TypeOK, Fault \/ CallFails
  PROVE  faults' \in 0..MaxFaults
  BY DEF TypeOK, Fault, CallFails

LEMMA OrphansAreIds == {0} \cup {i \in Id : rows[i] = "closed"} \cup Orphans \in SUBSET (Id \cup {0})
  BY DEF Orphans, Open

LEMMA CallsArrive ==
  ASSUME SlotInv, NEW c \in Caller, Arrive(c) \/ Conflict(c) \/ Return(c)
  PROVE  SlotInv'
<1>0. TypeOK /\ CallsInv
  BY DEF SlotInv
<1>1. ASSUME stage[c] = "outside", running = NoOne, RoomForARun, running' = c,
             NEW s \in {"add", "opening"}, Goto(c, s), s = "add" => c \in Job,
             s = "opening" => c \in Web,
             NEW l \in Int, limit' = [limit EXCEPT ![c] = l],
             UNCHANGED <<currentRunID, inFlight, run, answer, past, rows, drain, ctxDone, faults>>
      PROVE  SlotInv'
  <2>1. s \in Stage /\ s \in Held
    BY <1>1 DEF Stage, Held
  <2>2. /\ stage' \in [Caller -> Stage] /\ stage'[c] = s
        /\ \A d \in Caller \ {c} : stage'[d] = stage[d] /\ stage[d] \notin Held
    BY <1>0, <1>1, <2>1, GotoType DEF CallsInv, Owner
  <2>3. Owner' /\ Kinds'
    BY <1>0, <1>1, <2>1, <2>2 DEF CallsInv, Owner, Kinds
  <2>4. OwnRow'
    BY <1>0, <1>1, <2>2 DEF CallsInv, OwnRow, Closing
  <2>5. inFlight = {}
    BY <1>0, <1>1, <2>2 DEF TypeOK, Held
  <2>6. CountedIn' /\ inFlight' \in SUBSET {d \in Caller : stage'[d] \in Held}
    BY <1>1, <2>2, <2>5 DEF CountedIn, Held
  <2>7. Serial'
    BY <1>1, <2>2, KeepsSerial DEF Held
  <2>8. limit' \in [Caller -> Int]
    BY <1>0, <1>1 DEF TypeOK
  <2>9. TypeOK'
    BY <1>0, <1>1, <2>2, <2>6, <2>8 DEF TypeOK
  <2> QED
    BY <2>3, <2>4, <2>6, <2>7, <2>9 DEF SlotInv, CallsInv
<1>2. CASE RunSwap(c)
  <2>1. PostLimit \in Int
    OBVIOUS
  <2> QED
    BY <1>1, <1>2, <2>1 DEF RunSwap
<1>3. CASE TriggerSwap(c)
  <2>1. PICK l \in Limits : ~Invalid(l) /\ limit' = [limit EXCEPT ![c] = Effective(l)]
    BY <1>3 DEF TriggerSwap
  <2>2. Effective(l) \in Int
    BY <2>1 DEF Effective, Invalid
  <2> QED
    BY <1>1, <1>3, <2>1, <2>2 DEF TriggerSwap
(* A call that stays outside the flag.                                     *)
<1>4. ASSUME stage[c] \notin Held, NEW s \in Stage \ Held, s # "gone", Goto(c, s),
             run' = run \/ run' = [run EXCEPT ![c] = 0], run'[c] = 0,
             UNCHANGED <<memory, rows, drain, ctxDone, faults>>,
             limit' \in [Caller -> Int],
             answer' \in [Web -> Answer],
             past' \in [Web -> SUBSET (Id \cup {0})]
      PROVE  SlotInv'
  <2>1. /\ stage' \in [Caller -> Stage] /\ run' \in [Caller -> Id \cup {0}] /\ CallsInv'
        /\ inFlight' \in SUBSET {d \in Caller : stage'[d] \in Held}
    BY <1>0, <1>4, StaysOut
  <2>2. \A d \in Caller : stage'[d] = s \/ stage'[d] = stage[d]
    BY <1>0, <1>4, GotoType
  <2>3. Serial'
    BY <1>4, <2>2, KeepsSerial DEF Held
  <2>4. TypeOK'
    BY <1>0, <1>4, <2>1 DEF TypeOK, memory
  <2> QED
    BY <2>1, <2>3, <2>4 DEF SlotInv
<1>5. /\ limit \in [Caller -> Int] /\ past \in [Web -> SUBSET (Id \cup {0})]
      /\ answer \in [Web -> Answer]
      /\ 0 \in Id \cup {0} /\ currentRunID \in Id \cup {0}
  BY <1>0 DEF TypeOK
<1>6. stage[c] \in {"outside", "conflict", "refused", "rejected"} =>
        run[c] = 0 /\ stage[c] \notin Held
  BY <1>0, StageSets DEF CallsInv, OwnRow
<1>7. CASE RunSkipped(c)
  BY <1>4, <1>5, <1>6, <1>7, StageSets DEF RunSkipped
<1>8. CASE Reject(c)
  <2>1. Tell(c, 401, 0) \/ Tell(c, 400, 0)
    BY <1>8 DEF Reject
  <2>2. answer' \in [Web -> Answer]
    <3>1. CASE Tell(c, 401, 0)
      BY <1>0, <1>5, <3>1, TellType
    <3>2. CASE Tell(c, 400, 0)
      BY <1>0, <1>5, <3>2, TellType
    <3> QED
      BY <2>1, <3>1, <3>2
  <2> QED
    BY <1>4, <1>5, <1>6, <1>8, <2>2, StageSets DEF Reject
<1>9. CASE TriggerLoses(c)
  <2>1. past' \in [Web -> SUBSET (Id \cup {0})]
    BY <1>5, <1>9, OrphansAreIds DEF TriggerLoses
  <2>2. /\ stage[c] = "outside" /\ Goto(c, "conflict")
        /\ UNCHANGED <<memory, run, limit, answer, rows, drain, ctxDone, faults>>
    BY <1>9 DEF TriggerLoses
  <2>3. "conflict" \in Stage \ Held
    BY StageSets
  <2> QED
    BY <1>4, <1>5, <1>6, <2>1, <2>2, <2>3
<1>10. CASE Conflict(c)
  <2>1. answer' \in [Web -> Answer]
    BY <1>0, <1>5, <1>10, TellType DEF Conflict
  <2> QED
    BY <1>4, <1>5, <1>6, <1>10, <2>1, StageSets DEF Conflict
<1>11. CASE Return(c)
  <2>1. stage[c] \notin Held /\ "outside" \in Stage \ Held
    BY <1>11, StageSets DEF Return
  <2>2. limit' \in [Caller -> Int] /\ past' \in [Web -> SUBSET (Id \cup {0})]
    BY <1>5, <1>11 DEF Return
  <2>3. Silent \in Answer
    BY DEF Silent, Answer
  <2>4. answer' \in [Web -> Answer]
    BY <1>5, <1>11, <2>3 DEF Return
  <2>5. run' = [run EXCEPT ![c] = 0] /\ run'[c] = 0
    BY <1>0, <1>11 DEF Return, TypeOK
  <2> QED
    BY <1>4, <1>11, <2>1, <2>2, <2>4, <2>5 DEF Return
<1> QED
  BY <1>2, <1>3, <1>7, <1>8, <1>9, <1>10, <1>11 DEF Arrive

(* The frame of a step inside the slot that leaves the table alone.        *)
LEMMA CallsGoOn ==
  ASSUME SlotInv, NEW c \in Caller, stage[c] \in Held,
         NEW s \in Held \ {"add", "opening"}, s = "create" => stage[c] = "add" /\ c \in Job,
         Goto(c, s), currentRunID' \in Id \cup {0},
         UNCHANGED <<running, run, limit, past, rows, answer, drain, ctxDone>>,
         faults' \in 0..MaxFaults,
         s \in {"launching", "aborting"} => c \in Web,
         s = "aborting" => run[c] = 0,
         s \in Closing => stage[c] \in Closing,
         inFlight' \in {inFlight, inFlight \cup {c}, inFlight \ {c}},
         c \in inFlight' =>
           s \in {"create", "storing", "launching", "body", "finish", "finished"},
         s \in {"create", "body", "finish"} \/ (s = "storing" /\ c \in Job) => c \in inFlight'
  PROVE  SlotInv'
<1>0. TypeOK /\ CallsInv
  BY DEF SlotInv
<1>1. \A d \in Caller : run[d] # 0 => rows'[run[d]] = rows[run[d]] /\ rows'[run[d]] # "none"
  BY <1>0 DEF CallsInv, OwnRow
<1>2. s \in Closing => run[c] # 0 /\ rows'[run[c]] = "submitted"
  BY <1>0 DEF CallsInv, OwnRow
<1>3. s = "create" => run[c] = 0
  BY <1>0 DEF CallsInv, OwnRow
<1>4. inFlight' \subseteq Caller /\ \A d \in Caller \ {c} : d \in inFlight' <=> d \in inFlight
  BY <1>0 DEF TypeOK
<1>5. /\ stage' \in [Caller -> Stage] /\ CallsInv'
      /\ inFlight' \in SUBSET {d \in Caller : stage'[d] \in Held}
  BY <1>0, <1>1, <1>2, <1>3, <1>4, GoesOn
<1>6. Serial'
  <2>1. \A d \in Caller : stage'[d] = stage[d] \/ (d = c /\ stage'[d] = s)
    BY <1>0, GotoType, StageSets
  <2> QED
    BY <2>1, KeepsSerial DEF Held
<1>7. TypeOK'
  BY <1>0, <1>5 DEF TypeOK
<1> QED
  BY <1>5, <1>6, <1>7 DEF SlotInv

(* The flag is lowered by its holder.                                      *)
LEMMA CallsLeave ==
  ASSUME SlotInv, NEW c \in Caller, stage[c] \in {"aborting", "lowering"},
         Goto(c, "gone"), running' = NoOne, answer' \in [Web -> Answer],
         UNCHANGED <<currentRunID, inFlight, run, limit, past, rows, drain, ctxDone, faults>>
  PROVE  SlotInv'
<1>0. TypeOK /\ CallsInv
  BY DEF SlotInv
<1>1. "gone" \in Stage \ Held /\ stage[c] \in Held
  BY StageSets DEF Held
<1>2. /\ stage' \in [Caller -> Stage] /\ stage'[c] = "gone"
      /\ \A d \in Caller \ {c} : stage'[d] = stage[d] /\ stage[d] \notin Held
  BY <1>0, <1>1, GotoType DEF CallsInv, Owner
<1>3. \A d \in Caller : stage'[d] \notin Held
  BY <1>1, <1>2
<1>4. Owner' /\ Kinds'
  BY <1>3 DEF Owner, Kinds, Held
<1>5. OwnRow'
  <2>1. ASSUME NEW d \in Caller
        PROVE  /\ stage'[d] \in {"outside", "add", "create", "opening", "aborting",
                                 "conflict", "refused", "rejected"} => run'[d] = 0
               /\ stage'[d] \notin Closing
               /\ run'[d] # 0 => rows'[run'[d]] # "none"
    <3>1. stage'[d] \notin Closing
      BY <1>3, StageSets
    <3>2. d # c => stage'[d] = stage[d]
      BY <1>2
    <3> QED
      BY <1>0, <1>2, <3>1, <3>2 DEF CallsInv, OwnRow
  <2> QED
    BY <1>0, <2>1 DEF CallsInv, OwnRow, Closing
<1>6. inFlight = {}
  <2>1. c \notin inFlight
    BY <1>0 DEF CallsInv, CountedIn
  <2> QED
    BY <1>0, <1>2, <2>1 DEF TypeOK
<1>7. CountedIn' /\ inFlight' \in SUBSET {d \in Caller : stage'[d] \in Held}
  BY <1>3, <1>6 DEF CountedIn, Held
<1>8. Serial'
  BY <1>3, KeepsSerial DEF Held
<1>9. TypeOK'
  BY <1>0, <1>2, <1>7 DEF TypeOK
<1> QED
  BY <1>4, <1>5, <1>7, <1>8, <1>9 DEF SlotInv, CallsInv

LEMMA CallsStep ==
  ASSUME SlotInv, NEW c \in Caller, CallStep(c)
  PROVE  SlotInv'
<1>0. TypeOK /\ CallsInv /\ faults \in 0..MaxFaults /\ currentRunID \in Id \cup {0}
      /\ answer \in [Web -> Answer]
  BY DEF SlotInv, TypeOK
<1>1. CASE Conflict(c)
  BY <1>1, CallsArrive
<1>2. CASE RunAdd(c)
  <2>1. c \in Job
    BY <1>0, <1>2 DEF RunAdd, CallsInv, Kinds
  <2> QED
    BY <1>0, <1>2, <2>1, CallsGoOn DEF RunAdd, Held, Closing
<1>3. CASE Create(c)
  <2>1. stage[c] \in Held /\ run[c] = 0 /\ "storing" \in Held /\ "storing" \in Closing
    BY <1>0, <1>3 DEF Create, CallsInv, OwnRow, Held, Closing
  <2>2. /\ NextId \in Id /\ rows[NextId] = "none"
        /\ rows' \in [Id -> {"none", "submitted", "closed"}]
        /\ \A d \in Caller : run[d] # 0 => run[d] # NextId /\ rows'[run[d]] = rows[run[d]]
        /\ Serial'
    BY <1>3, InsertSerial DEF Create
  <2>3. rows'[NextId] = "submitted" /\ NextId # 0
    BY <1>0, <1>3, <2>2 DEF Create, TypeOK, Id
  <2>4. /\ stage' \in [Caller -> Stage] /\ stage'[c] = "storing"
        /\ \A d \in Caller \ {c} : stage'[d] = stage[d] /\ stage[d] \notin Held
    BY <1>0, <1>3, <2>1, GotoType, StageSets DEF Create, CallsInv, Owner
  <2>5. /\ run' \in [Caller -> Id \cup {0}] /\ run'[c] = NextId
        /\ \A d \in Caller \ {c} : run'[d] = run[d]
    BY <1>0, <1>3, <2>2 DEF Create, TypeOK
  <2>6. Owner' /\ Kinds'
    BY <1>0, <1>3, <2>1, <2>4 DEF Create, CallsInv, Owner, Kinds, memory
  <2>7. OwnRow'
    <3>1. ASSUME NEW d \in Caller
          PROVE  /\ stage'[d] \in {"outside", "add", "create", "opening", "aborting",
                                   "conflict", "refused", "rejected"} => run'[d] = 0
                 /\ stage'[d] \in Closing => run'[d] # 0 /\ rows'[run'[d]] = "submitted"
                 /\ run'[d] # 0 => rows'[run'[d]] # "none"
      <4>1. CASE d = c
        BY <2>3, <2>4, <2>5, <4>1
      <4>2. CASE d # c
        BY <1>0, <2>2, <2>4, <2>5, <4>2, StageSets DEF CallsInv, OwnRow
      <4> QED
        BY <4>1, <4>2
    <3>2. ASSUME NEW d \in Caller, NEW e \in Caller, run'[d] = run'[e], run'[d] # 0
          PROVE  d = e
      BY <1>0, <2>2, <2>5, <3>2 DEF CallsInv, OwnRow
    <3> QED
      BY <3>1, <3>2 DEF OwnRow, Closing
  <2>8. CountedIn' /\ inFlight' \in SUBSET {d \in Caller : stage'[d] \in Held}
    <3>1. inFlight' = inFlight /\ (c \in Job => c \in inFlight)
      BY <1>0, <1>3 DEF Create, memory, CallsInv, CountedIn, Kinds
    <3>2. \A d \in inFlight : d = c \/ (d \in Caller /\ stage'[d] = stage[d])
      BY <1>0, <2>4 DEF TypeOK
    <3>3. CountedIn'
      BY <1>0, <2>4, <3>1, <3>2 DEF CallsInv, CountedIn
    <3> QED
      BY <1>0, <3>1, <3>3 DEF CountedIn, TypeOK, Held
  <2>9. TypeOK'
    BY <1>0, <1>3, <2>2, <2>4, <2>5, <2>8 DEF Create, TypeOK, memory
  <2> QED
    BY <2>2, <2>6, <2>7, <2>8, <2>9 DEF SlotInv, CallsInv
(* Where a call goes that got no row.                                      *)
<1>4. stage[c] \in {"create", "opening"} =>
        /\ run[c] = 0 /\ stage[c] \in Held
        /\ c \in Job => stage[c] = "create"
        /\ c \notin Job => c \in Web /\ stage[c] = "opening" /\ c \notin inFlight
  BY <1>0 DEF CallsInv, OwnRow, Kinds, CountedIn, Caller, Held
<1>5. CASE CreateFails(c)
  <2>1. stage[c] \in {"create", "opening"} /\ faults' \in 0..MaxFaults
        /\ UNCHANGED <<memory, run, limit, answer, past, rows, drain, ctxDone>>
        /\ Goto(c, IF c \in Job THEN "finished" ELSE "aborting")
    BY <1>0, <1>5, FaultType DEF CreateFails, NotOpened
  <2>2. CASE c \in Job
    BY <1>0, <1>4, <2>1, <2>2, CallsGoOn DEF memory, Held, Closing
  <2>3. CASE c \notin Job
    BY <1>0, <1>4, <2>1, <2>3, CallsGoOn DEF memory, Held, Closing
  <2> QED
    BY <2>2, <2>3
<1>6. CASE CreateLost(c)
  <2>1. /\ stage[c] \in {"create", "opening"} /\ faults' \in 0..MaxFaults
        /\ UNCHANGED <<memory, run, limit, answer, past, drain, ctxDone>>
        /\ rows' = [rows EXCEPT ![NextId] = "submitted"]
    BY <1>0, <1>6, FaultType DEF CreateLost
  <2>2. PICK s \in {"finished", "aborting"} :
          Goto(c, s) /\ s = IF c \in Job THEN "finished" ELSE "aborting"
    BY <1>6 DEF CreateLost, NotOpened
  <2>3. /\ rows' \in [Id -> {"none", "submitted", "closed"}]
        /\ \A d \in Caller : run[d] # 0 => run[d] # NextId /\ rows'[run[d]] = rows[run[d]]
        /\ Serial'
    BY <2>1, <2>2, InsertSerial
  <2>4. s \in Held /\ s \notin Closing
    BY DEF Held, Closing
  <2>5. inFlight' = inFlight /\ inFlight \subseteq Caller /\ running' = running
    BY <1>0, <2>1 DEF TypeOK, memory
  <2>6. /\ stage' \in [Caller -> Stage] /\ CallsInv'
        /\ inFlight' \in SUBSET {d \in Caller : stage'[d] \in Held}
    BY <1>0, <1>4, <2>1, <2>2, <2>3, <2>4, <2>5, GoesOn
  <2>7. TypeOK'
    BY <1>0, <2>1, <2>3, <2>6 DEF TypeOK, memory
  <2> QED
    BY <2>3, <2>6, <2>7 DEF SlotInv
<1>7. CASE Abort(c)
  <2>1. answer' \in [Web -> Answer]
    BY <1>0, <1>7, TellType DEF Abort
  <2> QED
    BY <1>7, <2>1, CallsLeave DEF Abort
<1>8. CASE StoreRunID(c)
  <2>1. c \notin Job => c \in Web
    BY DEF Caller
  <2>2. c \in Job => c \in inFlight
    BY <1>0, <1>8 DEF StoreRunID, CallsInv, CountedIn
  <2>3. run[c] \in Id \cup {0}
    BY <1>0 DEF TypeOK
  <2>4. CASE c \in Job
    BY <1>0, <1>8, <2>2, <2>3, <2>4, CallsGoOn DEF StoreRunID, Held, Closing
  <2>5. CASE c \notin Job
    BY <1>0, <1>8, <2>1, <2>3, <2>5, CallsGoOn DEF StoreRunID, Held, Closing
  <2> QED
    BY <2>4, <2>5
<1>9. CASE Launch(c)
  BY <1>0, <1>9, CallsGoOn DEF Launch, Held, Closing
<1>10. CASE Body(c)
  <2>1. c \in inFlight
    BY <1>0, <1>10 DEF Body, CallsInv, CountedIn
  <2> QED
    BY <1>0, <1>10, <2>1, CallsGoOn DEF Body, memory, Held, Closing
<1>11. CASE FinishRun(c)
  <2>1. stage[c] = "finish" /\ run[c] \in Id /\ rows[run[c]] = "submitted"
    BY <1>0, <1>11 DEF FinishRun, CallsInv, OwnRow, Closing, TypeOK
  <2>2. /\ rows' \in [Id -> {"none", "submitted", "closed"}] /\ rows'[run[c]] = "closed"
        /\ \A i \in Id : rows'[i] = "none" <=> rows[i] = "none"
        /\ \A i \in Id : i # run[c] => rows'[i] = rows[i]
    BY <1>0, <1>11, <2>1 DEF FinishRun, TypeOK
  <2>3. \A d \in Caller : run[d] # 0 /\ d # c => rows'[run[d]] = rows[run[d]]
    <3> SUFFICES ASSUME NEW d \in Caller, run[d] # 0, d # c
                 PROVE  rows'[run[d]] = rows[run[d]]
      OBVIOUS
    <3>1. run[d] \in Id /\ run[d] # run[c]
      BY <1>0 DEF CallsInv, OwnRow, TypeOK
    <3> QED
      BY <2>2, <3>1
  <2>4. inFlight' = inFlight /\ inFlight \subseteq Caller /\ stage[c] \in Held
        /\ running' = running /\ run' = run /\ Goto(c, "finished")
    BY <1>0, <1>11 DEF FinishRun, TypeOK, memory, Held
  <2>5. "finished" \in Held /\ "finished" \notin Closing
    BY DEF Held, Closing
  <2>6. /\ stage' \in [Caller -> Stage] /\ CallsInv'
        /\ inFlight' \in SUBSET {d \in Caller : stage'[d] \in Held}
    BY <1>0, <2>2, <2>3, <2>4, <2>5, GoesOn
  <2>7. Serial'
    <3>1. \A d \in Caller : stage'[d] = stage[d] \/ stage'[d] = "finished"
      BY <1>0, <2>4, <2>5, GotoType, StageSets
    <3> QED
      BY <2>2, <3>1, KeepsSerial
  <2>8. TypeOK'
    BY <1>0, <1>11, <2>2, <2>6 DEF FinishRun, TypeOK, memory
  <2> QED
    BY <2>6, <2>7, <2>8 DEF SlotInv
<1>12. CASE FinishFails(c)
  BY <1>0, <1>12, FaultType, CallsGoOn DEF FinishFails, memory, Held, Closing
<1>13. CASE Done(c)
  BY <1>0, <1>13, CallsGoOn DEF Done, Held, Closing
<1>14. CASE Lower(c)
  BY <1>0, <1>14, CallsLeave DEF Lower
<1> QED
  BY <1>1, <1>2, <1>3, <1>5, <1>6, <1>7, <1>8, <1>9, <1>10, <1>11, <1>12, <1>13, <1>14
  DEF CallStep

LEMMA CallsAccept ==
  ASSUME SlotInv, NEW c \in Caller, Accept(c)
  PROVE  SlotInv'
<1>0. TypeOK /\ CallsInv /\ Serial
  BY DEF SlotInv
<1>1. UNCHANGED <<memory, stage, run, limit, past, rows, drain, ctxDone, faults>>
  BY DEF Accept
<1>2. answer' \in [Web -> Answer]
  <2>1. run[c] \in Id \cup {0} /\ Tell(c, 202, run[c])
    BY <1>0 DEF Accept, TypeOK
  <2> QED
    BY <1>0, <2>1, TellType
<1>3. TypeOK'
  BY <1>0, <1>1, <1>2 DEF TypeOK, memory
<1>4. CallsInv'
  BY <1>0, <1>1 DEF CallsInv, Owner, Kinds, OwnRow, CountedIn, Closing, memory
<1>5. Serial'
  BY <1>1, KeepsSerial
<1> QED
  BY <1>3, <1>4, <1>5 DEF SlotInv

LEMMA CallsCrash == SlotInv /\ Crash => SlotInv'
<1> SUFFICES ASSUME SlotInv, Crash PROVE SlotInv'
  OBVIOUS
<1>0. TypeOK /\ rows' = rows /\ \A c \in Caller : stage'[c] = "outside" /\ run'[c] = 0
  BY DEF SlotInv, Crash
<1>1. faults' \in 0..MaxFaults
  BY <1>0, FaultType DEF Crash
<1>2. stage' \in [Caller -> Stage] /\ run' \in [Caller -> Id \cup {0}]
      /\ limit' \in [Caller -> Int] /\ past' \in [Web -> SUBSET (Id \cup {0})]
  BY StageSets DEF Crash
<1>3. answer' \in [Web -> Answer]
  BY DEF Crash, Silent, Answer
<1>4. running' = NoOne /\ currentRunID' = 0 /\ inFlight' = {} /\ drain' = "no"
  BY DEF Crash
<1>5. ctxDone' \in BOOLEAN
  BY DEF Crash
<1>6. TypeOK'
  BY <1>0, <1>1, <1>2, <1>3, <1>4, <1>5 DEF TypeOK
<1>7. CallsInv'
  BY <1>0, <1>4 DEF CallsInv, Owner, Kinds, OwnRow, CountedIn, Held, Closing
<1>8. Serial'
  BY <1>0, KeepsSerial
<1> QED
  BY <1>6, <1>7, <1>8 DEF SlotInv

LEMMA SlotStep == SlotInv /\ [Next]_vars => SlotInv'
<1> SUFFICES ASSUME SlotInv, [Next]_vars PROVE SlotInv'
  OBVIOUS
<1>1. CASE \E c \in Caller : Arrive(c) \/ CallStep(c) \/ Accept(c) \/ Return(c)
  BY <1>1, CallsArrive, CallsStep, CallsAccept
<1>2. CASE Crash
  BY <1>2, CallsCrash
<1>3. ASSUME UNCHANGED <<memory, calls, rows, faults>>, ctxDone' \in BOOLEAN,
             drain' \in {"no", "waiting", "idle"}
      PROVE  SlotInv'
  <2>1. TypeOK'
    BY <1>3 DEF SlotInv, TypeOK, memory, calls
  <2>2. CallsInv'
    BY <1>3 DEF SlotInv, CallsInv, Owner, Kinds, OwnRow, CountedIn, Closing, memory, calls
  <2>3. Serial'
    BY <1>3, KeepsSerial DEF calls
  <2> QED
    BY <2>1, <2>2, <2>3 DEF SlotInv
<1>4. ctxDone \in BOOLEAN /\ drain \in {"no", "waiting", "idle"}
  BY DEF SlotInv, TypeOK
<1>5. CASE Cancel
  BY <1>3, <1>4, <1>5 DEF Cancel
<1>6. CASE WaitIdle
  BY <1>3, <1>4, <1>6 DEF WaitIdle
<1>7. CASE Idle
  BY <1>3, <1>4, <1>7 DEF Idle
<1>8. CASE UNCHANGED vars
  BY <1>3, <1>4, <1>8 DEF vars
<1> QED
  BY <1>1, <1>2, <1>5, <1>6, <1>7, <1>8 DEF Next

LEMMA SlotInvariant == Spec => []SlotInv
  BY CallsInit, SlotStep, PTL DEF Spec

(* Two passes never overlap, whoever asked for them; and a pass that works *)
(* on the database is counted in, so that the shutdown waits for it.       *)
OnePass ==
  /\ \A c, d \in Caller : stage[c] \in Held /\ stage[d] \in Held => c = d
  /\ \A c \in Caller : stage[c] \in {"body", "finish"} => c \in inFlight

(* The flag, lowered on every path, never lets two passes in, and the wait *)
(* group has counted a pass in before it touches a post.                   *)
THEOREM NeverTwoPasses == Spec => []OnePass
<1>1. SlotInv => OnePass
  BY DEF SlotInv, CallsInv, Owner, CountedIn, OnePass
<1> QED
  BY <1>1, SlotInvariant, PTL

-----------------------------------------------------------------------------
(* What a client is told.                                                  *)
LEMMA AnsweredInit == Init => Answered
<1> SUFFICES ASSUME Init, NEW c \in Web PROVE AnsweredTo(c)
  BY DEF Answered
<1>1. stage[c] = "outside" /\ answer[c] = Silent /\ run[c] = 0 /\ Silent.code = 0
  BY DEF Init, Caller, Silent
<1> QED
  BY <1>1 DEF AnsweredTo, Held

LEMMA AnsweredStep == SlotInv /\ Answered /\ [Next]_vars => Answered'
<1> SUFFICES ASSUME SlotInv, Answered, [Next]_vars, NEW d \in Web
             PROVE  AnsweredTo(d)'
  BY DEF Answered
<1>0. TypeOK /\ CallsInv /\ AnsweredTo(d) /\ d \in Caller /\ d \notin Job
  BY DEF SlotInv, Answered, Caller
<1>1. ASSUME stage'[d] = stage[d], answer'[d] = answer[d], run'[d] = run[d],
             limit'[d] = limit[d]
      PROVE  AnsweredTo(d)'
  BY <1>0, <1>1 DEF AnsweredTo
(* The call of another, or a step of no call.                              *)
<1>2. ASSUME NEW c \in Caller, c # d,
             Arrive(c) \/ CallStep(c) \/ Accept(c) \/ Return(c)
      PROVE  AnsweredTo(d)'
  <2>1. stage'[d] = stage[d]
    BY <1>0, <1>2
    DEF TypeOK, Goto, NotOpened, Arrive, RunSwap, RunSkipped, Reject, TriggerSwap,
        TriggerLoses, CallStep, RunAdd, Conflict, Create, CreateFails, CreateLost, Abort,
        StoreRunID, Launch, Body, FinishRun, FinishFails, Done, Lower, Accept, Return
  <2>2. answer'[d] = answer[d]
    BY <1>0, <1>2
    DEF TypeOK, Tell, Arrive, RunSwap, RunSkipped, Reject, TriggerSwap,
        TriggerLoses, CallStep, RunAdd, Conflict, Create, CreateFails, CreateLost, Abort,
        StoreRunID, Launch, Body, FinishRun, FinishFails, Done, Lower, Accept, Return
  <2>3. run'[d] = run[d]
    BY <1>0, <1>2
    DEF TypeOK, Arrive, RunSwap, RunSkipped, Reject, TriggerSwap,
        TriggerLoses, CallStep, RunAdd, Conflict, Create, CreateFails, CreateLost, Abort,
        StoreRunID, Launch, Body, FinishRun, FinishFails, Done, Lower, Accept, Return
  <2>4. limit'[d] = limit[d]
    BY <1>0, <1>2
    DEF TypeOK, Arrive, RunSwap, RunSkipped, Reject, TriggerSwap,
        TriggerLoses, CallStep, RunAdd, Conflict, Create, CreateFails, CreateLost, Abort,
        StoreRunID, Launch, Body, FinishRun, FinishFails, Done, Lower, Accept, Return
  <2> QED
    BY <1>1, <2>1, <2>2, <2>3, <2>4
<1>3. CASE Cancel \/ WaitIdle \/ Idle \/ UNCHANGED vars
  BY <1>1, <1>3 DEF Cancel, WaitIdle, Idle, vars, calls
<1>4. CASE Crash
  BY <1>4 DEF Crash, AnsweredTo, Silent, Held, Caller
(* The client's own call, up to the answer.                                *)
<1>5. /\ stage[d] \in {"outside", "opening", "aborting", "conflict", "refused", "rejected"} =>
           run[d] = 0
      /\ stage[d] \in {"storing", "launching"} => run[d] # 0
      /\ stage[d] \notin {"add", "create"}
  BY <1>0 DEF CallsInv, OwnRow, Kinds, Closing
<1>6. CASE Arrive(d) \/ Conflict(d) \/ Return(d)
  <2>1. CASE RunSwap(d) \/ RunSkipped(d)
    BY <1>0, <2>1 DEF RunSwap, RunSkipped
  <2>2. CASE Reject(d)
    <3>1. run'[d] = 0 /\ stage'[d] = "rejected" /\ answer'[d].code # 202
      BY <1>0, <1>5, <2>2 DEF Reject, Goto, Tell, TypeOK
    <3> QED
      BY <3>1 DEF AnsweredTo, Held
  <2>3. CASE TriggerSwap(d)
    <3>1. PICK l \in Limits : ~Invalid(l) /\ limit' = [limit EXCEPT ![d] = Effective(l)]
      BY <2>3 DEF TriggerSwap
    <3>2. Effective(l) \in 1..MaxBatch
      BY <3>1 DEF Effective, Invalid
    <3>3. limit'[d] \in 1..MaxBatch
      BY <1>0, <3>1, <3>2 DEF TypeOK
    <3>4. stage'[d] = "opening" /\ answer'[d] = answer[d] /\ answer[d] = Silent
      BY <1>0, <2>3 DEF TriggerSwap, Goto, TypeOK, AnsweredTo
    <3> QED
      BY <3>3, <3>4 DEF AnsweredTo, Silent
  <2>4. CASE TriggerLoses(d)
    <3>1. run'[d] = 0 /\ stage'[d] = "conflict" /\ answer'[d] = Silent
      BY <1>0, <1>5, <2>4 DEF TriggerLoses, Goto, TypeOK, AnsweredTo
    <3> QED
      BY <3>1 DEF AnsweredTo, Held, Silent
  <2>5. CASE Conflict(d)
    <3>1. run'[d] = 0 /\ stage'[d] = "refused" /\ answer'[d].code # 202
      BY <1>0, <1>5, <2>5 DEF Conflict, Goto, Tell, TypeOK
    <3> QED
      BY <3>1 DEF AnsweredTo, Held
  <2>6. CASE Return(d)
    <3>1. run'[d] = 0 /\ stage'[d] = "outside" /\ answer'[d] = Silent
      BY <1>0, <2>6 DEF Return, Goto, TypeOK
    <3> QED
      BY <3>1 DEF AnsweredTo, Held, Silent
  <2> QED
    BY <1>6, <2>1, <2>2, <2>3, <2>4, <2>5, <2>6 DEF Arrive
<1>7. CASE Create(d)
  <2>1. stage[d] = "opening"
    BY <1>5, <1>7 DEF Create
  <2>2. stage'[d] = "storing" /\ answer'[d] = answer[d] /\ limit'[d] = limit[d]
    BY <1>0, <1>7 DEF Create, Goto, TypeOK
  <2>3. answer[d] = Silent /\ limit[d] \in 1..MaxBatch
    BY <1>0, <2>1 DEF AnsweredTo, Held
  <2> QED
    BY <2>2, <2>3 DEF AnsweredTo, Silent
<1>8. CASE CreateFails(d) \/ CreateLost(d)
  <2>1. stage[d] = "opening" /\ stage'[d] = "aborting" /\ answer' = answer
        /\ run' = run /\ limit' = limit
    BY <1>0, <1>5, <1>8 DEF CreateFails, CreateLost, NotOpened, Goto, TypeOK
  <2> QED
    BY <1>0, <2>1 DEF AnsweredTo, Held
<1>9. CASE Abort(d)
  <2>1. stage'[d] = "gone" /\ answer'[d].code = 500 /\ run'[d] = 0
    BY <1>0, <1>5, <1>9 DEF Abort, Goto, Tell, TypeOK
  <2> QED
    BY <2>1 DEF AnsweredTo, Held, Silent
(* From the row on, the client keeps its id and its limit.                 *)
<1>10. CASE RunAdd(d) \/ StoreRunID(d) \/ Launch(d) \/ Body(d) \/ FinishRun(d)
            \/ FinishFails(d) \/ Done(d) \/ Lower(d)
  <2>1. /\ stage[d] \in Held /\ run[d] # 0
        /\ stage'[d] \notin {"outside", "conflict", "opening", "storing", "aborting"}
        /\ stage'[d] = "launching" => stage[d] = "storing"
        /\ answer' = answer /\ run' = run /\ limit' = limit
    BY <1>0, <1>5, <1>10
    DEF RunAdd, StoreRunID, Launch, Body, FinishRun, FinishFails, Done, Lower, Goto, TypeOK,
        AnsweredTo, Held
  <2> QED
    BY <1>0, <2>1 DEF AnsweredTo
<1>11. CASE Accept(d)
  <2>1. /\ stage' = stage /\ run' = run /\ limit' = limit
        /\ stage[d] \in {"body", "finish", "finished", "lowering", "gone"}
        /\ answer[d] = Silent
    BY <1>11 DEF Accept
  <2>2. answer'[d] = [code |-> 202, run |-> run[d]]
    BY <1>0, <1>11 DEF Accept, Tell, TypeOK
  <2>3. run[d] # 0
    BY <1>0, <2>1 DEF AnsweredTo
  <2> QED
    BY <1>0, <2>1, <2>2, <2>3 DEF AnsweredTo
<1> QED
  BY <1>0, <1>2, <1>3, <1>4, <1>6, <1>7, <1>8, <1>9, <1>10, <1>11 DEF Next, CallStep

(* A 202 is kept: whatever text or number a client sent as its limit, and  *)
(* whoever else races it, the answer names the client's own run, whose row *)
(* is there when the answer is, and that run has a limit a batch can hold. *)
THEOREM AcceptedRunIsReal == Spec => []AcceptedRunIsSound
<1>1. SlotInv /\ Answered => AcceptedRunIsSound
  <2> SUFFICES ASSUME SlotInv, Answered, NEW c \in Web, answer[c].code = 202
               PROVE  /\ answer[c].run = run[c] /\ run[c] # 0
                      /\ rows[run[c]] # "none"
                      /\ \A d \in Caller \ {c} : run[d] # run[c]
                      /\ limit[c] \in 1..MaxBatch
    BY DEF AcceptedRunIsSound
  <2>1. c \in Caller /\ AnsweredTo(c) /\ OwnRow
    BY DEF Caller, Answered, SlotInv, CallsInv
  <2> QED
    BY <2>1 DEF AnsweredTo, OwnRow
<1>2. Spec => []Answered
  BY AnsweredInit, AnsweredStep, SlotInvariant, PTL DEF Spec
<1> QED
  BY <1>1, <1>2, SlotInvariant, PTL

-----------------------------------------------------------------------------
(* The refinement: every step of the flag is a step of module RunSlot.     *)

LEMMA FateNames ==
  /\ \A s \in Held : s \in Stage /\ CallFate(s) = "granted"
  /\ CallFate("outside") = "outside" /\ CallFate("rejected") = "outside"
  /\ CallFate("gone") = "over"
  /\ CallFate("conflict") = "refused" /\ CallFate("refused") = "refused"
<1>1. \A s \in Held : s \in Stage /\ CallFate(s) = "granted"
  BY DEF CallFate, Held, Stage
<1>2. /\ CallFate("outside") = "outside" /\ CallFate("rejected") = "outside"
      /\ CallFate("gone") = "over"
      /\ CallFate("conflict") = "refused" /\ CallFate("refused") = "refused"
  BY DEF CallFate, Held
<1> QED
  BY <1>1, <1>2

(* A call that moves takes its fate with it, and nobody else's.            *)
LEMMA CallMovesFate ==
  ASSUME TypeOK, NEW c \in Caller, NEW s \in Stage, Goto(c, s)
  PROVE  /\ Fate[c] = CallFate(stage[c])
         /\ Fate' = [Fate EXCEPT ![c] = CallFate(s)]
         /\ CallFate(s) = CallFate(stage[c]) => Fate' = Fate
<1>1. /\ stage'[c] = s
      /\ \A d \in Caller \ {c} : stage'[d] = stage[d]
  BY GotoType
<1>2. Fate[c] = CallFate(stage[c])
  BY DEF Fate
<1>3. Fate' = [Fate EXCEPT ![c] = CallFate(s)]
  BY <1>1 DEF Fate
<1>4. CallFate(s) = CallFate(stage[c]) => Fate' = Fate
  BY <1>2, <1>3 DEF Fate
<1> QED
  BY <1>2, <1>3, <1>4

(* Whether a row has somebody to close it.                                 *)
Tended(i) == \E c \in Caller : run[c] = i /\ stage[c] \in Closing

LEMMA OrphansAreUntended ==
  \A i : i \in Orphans <=> i \in Id /\ rows[i] = "submitted" /\ ~Tended(i)
  BY DEF Orphans, Open, Tended

(* While no row changes and no closing call comes or goes, the orphans are *)
(* the same, and so is what the slot sees of a row.                        *)
LEMMA OrphansStay ==
  ASSUME rows' = rows,
         \A d \in Caller : stage[d] \in Closing \/ stage'[d] \in Closing =>
           stage[d] \in Closing /\ stage'[d] \in Closing /\ run'[d] = run[d]
  PROVE  Orphans' = Orphans /\ Lost' = Lost /\ \A i : RowOf(i)' = RowOf(i)
<1>1. \A i : Tended(i)' <=> Tended(i)
  BY DEF Tended, Closing
<1>2. Orphans' = Orphans
  <2>1. \A i : i \in Orphans' <=> i \in Id /\ rows'[i] = "submitted" /\ ~Tended(i)'
    BY DEF Orphans, Open, Tended
  <2> QED
    BY <1>1, <2>1, OrphansAreUntended DEF Orphans, Open
<1> QED
  BY <1>2 DEF Lost, RowOf

(* One orphan more is one lost row more.                                   *)
LEMMA OneMoreLost ==
  ASSUME NEW i, i \notin Orphans, Orphans' = Orphans \cup {i}
  PROVE  Lost' = Lost + 1
  BY OrphansFinite, FS_AddElement DEF Lost

(* The holder's row as the slot sees it.                                   *)
LEMMA HolderRow ==
  ASSUME SlotInv, NEW c \in Caller, stage[c] \in Held
  PROVE  /\ running = c /\ running # NoOne /\ SlotRow = RowOf(run[c])
         /\ run[c] = 0 => SlotRow = "none"
         /\ stage[c] \in Closing => SlotRow = "open" /\ run[c] \in Id /\ run[c] \notin Orphans
         /\ stage[c] \notin Closing => SlotRow # "open"
         /\ \A d \in Caller \ {c} : stage[d] \notin Held /\ stage[d] \notin Closing
<1>1. running = c /\ running # NoOne /\ SlotRow = RowOf(run[c])
  BY DEF SlotInv, CallsInv, Owner, SlotRow, Caller
<1>2. run[c] \in Id \cup {0} /\ rows \in [Id -> {"none", "submitted", "closed"}]
  BY DEF SlotInv, TypeOK
<1>3. \A d \in Caller \ {c} : stage[d] \notin Held /\ stage[d] \notin Closing
  BY <1>1, StageSets DEF SlotInv, CallsInv, Owner
<1>4. run[c] = 0 => SlotRow = "none"
  BY <1>1 DEF RowOf
<1>5. ASSUME stage[c] \in Closing
      PROVE  SlotRow = "open" /\ run[c] \in Id /\ run[c] \notin Orphans
  <2>1. run[c] # 0 /\ rows[run[c]] = "submitted" /\ Tended(run[c])
    BY <1>5 DEF SlotInv, CallsInv, OwnRow, Tended
  <2> QED
    BY <1>1, <1>2, <2>1, OrphansAreUntended DEF RowOf
<1>6. ASSUME stage[c] \notin Closing PROVE SlotRow # "open"
  <2>1. ASSUME run[c] # 0, rows[run[c]] = "submitted" PROVE run[c] \in Orphans
    <3>1. ~Tended(run[c])
      BY <1>3, <1>6 DEF Tended
    <3> QED
      BY <1>2, <2>1, <3>1, OrphansAreUntended
  <2> QED
    BY <1>1, <2>1 DEF RowOf
<1> QED
  BY <1>1, <1>3, <1>4, <1>5, <1>6

LEMMA RefinesInit == Init => Slot!Init
<1> SUFFICES ASSUME Init PROVE Slot!Init
  OBVIOUS
<1>1. Fate = [c \in Caller |-> "outside"]
  BY FateNames DEF Fate, Init
<1>2. Orphans = {}
  BY DEF Init, Orphans, Open
<1>3. Lost = 0
  BY <1>2, FS_EmptySet DEF Lost
<1>4. SlotRow = "none"
  BY DEF Init, SlotRow
<1> QED
  BY <1>1, <1>3, <1>4 DEF Init, Slot!Init

(* A step of the holder that neither opens nor closes its row.             *)
LEMMA RefinesQuiet ==
  ASSUME SlotInv, NEW c \in Caller, stage[c] \in Held, NEW s \in Held, Goto(c, s),
         UNCHANGED <<running, run, rows>>, faults' = faults \/ Fault,
         s \in Closing <=> stage[c] \in Closing
  PROVE  [Slot!Next]_(Slot!vars)
<1>0. TypeOK
  BY DEF SlotInv
<1>1. Fate' = Fate
  BY <1>0, FateNames, CallMovesFate
<1>2. stage'[c] = s /\ \A d \in Caller \ {c} : stage'[d] = stage[d]
  BY <1>0, GotoType, FateNames
<1>3. Lost' = Lost /\ \A i : RowOf(i)' = RowOf(i)
  BY <1>2, OrphansStay
<1>4. SlotRow' = SlotRow
  BY <1>3 DEF SlotRow
<1>5. CASE faults' = faults
  BY <1>1, <1>3, <1>4, <1>5 DEF Slot!vars
<1>6. CASE Fault
  BY <1>1, <1>3, <1>4, <1>6 DEF Fault, Slot!Next, Slot!Fail, Slot!Fault
<1> QED
  BY <1>5, <1>6

(* A step of a call without the flag.                                      *)
LEMMA OutsideKeepsRow ==
  ASSUME SlotInv, NEW c \in Caller, stage[c] \notin Held, NEW s \in Stage \ Held, Goto(c, s),
         UNCHANGED <<running, rows>>, \A d \in Caller \ {c} : run'[d] = run[d]
  PROVE  SlotRow' = SlotRow /\ Lost' = Lost
<1>1. stage'[c] = s /\ \A d \in Caller \ {c} : stage'[d] = stage[d]
  BY GotoType DEF SlotInv
<1>2. s \notin Closing /\ stage[c] \notin Closing
  BY StageSets
<1>3. Lost' = Lost /\ \A i : RowOf(i)' = RowOf(i)
  BY <1>1, <1>2, OrphansStay
<1>4. running # c /\ running \in Caller \cup {NoOne}
  BY DEF SlotInv, CallsInv, Owner, TypeOK
<1> QED
  BY <1>3, <1>4 DEF SlotRow

(* The call whose swap wins is granted the slot; it has no row yet.        *)
LEMMA RefinesGrant ==
  ASSUME SlotInv, NEW c \in Caller, stage[c] = "outside", running = NoOne, running' = c,
         NEW s \in {"add", "opening"}, Goto(c, s), UNCHANGED <<run, rows, faults>>
  PROVE  [Slot!Next]_(Slot!vars)
<1>0. TypeOK
  BY DEF SlotInv
<1>1. s \in Held \ Closing /\ s \in Stage /\ stage[c] \notin Closing
  BY DEF Held, Closing, Stage
<1>2. stage'[c] = s /\ \A d \in Caller \ {c} : stage'[d] = stage[d]
  BY <1>0, <1>1, GotoType
<1>3. Lost' = Lost /\ \A i : RowOf(i)' = RowOf(i)
  BY <1>1, <1>2, OrphansStay
<1>4. Fate[c] = "outside" /\ Fate' = [Fate EXCEPT ![c] = "granted"]
  BY <1>0, <1>1, FateNames, CallMovesFate
<1>5. run'[running'] = 0 /\ running' # NoOne
  BY DEF SlotInv, CallsInv, OwnRow, Caller
<1>6. SlotRow' = "none"
  <2>1. SlotRow' = RowOf(run[c])'
    BY <1>5 DEF SlotRow
  <2> QED
    BY <1>5, <2>1 DEF RowOf
<1>7. Slot!Grant(c)
  BY <1>3, <1>4, <1>6 DEF Slot!Grant
<1> QED
  BY <1>7 DEF Slot!Next

(* A row the holder opens has somebody to close it, and so is no orphan.   *)
LEMMA RefinesCreate ==
  ASSUME SlotInv, NEW c \in Caller, Create(c)
  PROVE  [Slot!Next]_(Slot!vars)
<1>0. TypeOK /\ stage[c] \in {"create", "opening"} /\ stage[c] \in Held
      /\ stage[c] \notin Closing /\ "storing" \in Held /\ "storing" \in Closing
  BY DEF SlotInv, Create, Held, Closing
<1>1. PICK n \in Id : n = NextId
  BY <1>0, InsertSerial DEF Create
<1>2. /\ rows[n] = "none" /\ n # 0
      /\ rows' = [rows EXCEPT ![n] = "submitted"]
      /\ run' = [run EXCEPT ![c] = n]
  BY <1>0, <1>1, InsertSerial DEF Create, Id
<1>3. stage'[c] = "storing" /\ \A d \in Caller \ {c} : stage'[d] = stage[d]
  BY <1>0, StageSets, GotoType DEF Create
<1>4. ASSUME NEW i PROVE i \in Orphans' <=> i \in Orphans
  <2>1. i \in Orphans' <=> i \in Id /\ rows'[i] = "submitted" /\ ~Tended(i)'
    BY DEF Orphans, Open, Tended
  <2>2. CASE i = n
    <3>1. Tended(i)'
      BY <1>0, <1>2, <1>3, <2>2 DEF Tended, TypeOK, Closing
    <3> QED
      BY <1>2, <2>1, <2>2, <3>1, OrphansAreUntended
  <2>3. CASE i # n
    <3>1. Tended(i)' <=> Tended(i)
      BY <1>0, <1>2, <1>3, <2>3 DEF Tended, TypeOK, Closing
    <3> QED
      BY <1>0, <1>2, <2>1, <2>3, <3>1, OrphansAreUntended DEF TypeOK
  <2> QED
    BY <2>2, <2>3
<1>5. Orphans' = Orphans
  BY <1>4 DEF Orphans, Open
<1>6. Fate' = Fate
  BY <1>0, StageSets, FateNames, CallMovesFate DEF Create
<1>7. running # NoOne /\ SlotRow = "none" /\ running' = running /\ running = c
  <2>1. run[c] = 0
    BY <1>0 DEF SlotInv, CallsInv, OwnRow
  <2> QED
    BY <1>0, <2>1, HolderRow DEF Create, memory
<1>8. SlotRow' = "open"
  <2>1. run'[c] = n /\ rows'[n] = "submitted"
    BY <1>0, <1>2 DEF TypeOK
  <2>2. n \notin Orphans'
    BY <1>2, <1>5, OrphansAreUntended
  <2>3. SlotRow' = RowOf(n)'
    BY <1>7, <2>1 DEF SlotRow
  <2> QED
    BY <1>2, <2>1, <2>2, <2>3 DEF RowOf
<1>9. Slot!Open
  BY <1>5, <1>6, <1>7, <1>8 DEF Create, Slot!Open, Lost
<1> QED
  BY <1>9 DEF Slot!Next

(* A row nobody heard of is an orphan from the start.                      *)
LEMMA RefinesCreateLost ==
  ASSUME SlotInv, NEW c \in Caller, CreateLost(c)
  PROVE  [Slot!Next]_(Slot!vars)
<1>0. TypeOK /\ stage[c] \in {"create", "opening"} /\ stage[c] \in Held
      /\ stage[c] \notin Closing
  BY DEF SlotInv, CreateLost, Held, Closing
<1>1. PICK s \in {"finished", "aborting"} : Goto(c, s)
  BY DEF CreateLost, NotOpened
<1>2. s \in Held /\ s \notin Closing /\ s \in Stage
  BY DEF Held, Closing, Stage
<1>3. stage'[c] = s /\ \A d \in Caller \ {c} : stage'[d] = stage[d]
  BY <1>0, <1>1, <1>2, GotoType
<1>4. PICK n \in Id : n = NextId
  BY <1>0, <1>1, InsertSerial DEF CreateLost
<1>5. rows[n] = "none" /\ rows' = [rows EXCEPT ![n] = "submitted"] /\ run' = run
      /\ \A d \in Caller : run[d] # 0 => run[d] # n
  BY <1>0, <1>1, <1>4, InsertSerial DEF CreateLost
<1>6. ASSUME NEW i PROVE i \in Orphans' <=> i \in Orphans \cup {n}
  <2>1. i \in Orphans' <=> i \in Id /\ rows'[i] = "submitted" /\ ~Tended(i)'
    BY DEF Orphans, Open, Tended
  <2>2. Tended(i)' <=> Tended(i)
    BY <1>0, <1>2, <1>3, <1>5 DEF Tended, Closing
  <2>3. ~Tended(n)
    BY <1>5 DEF Tended, Id
  <2> QED
    BY <1>0, <1>5, <2>1, <2>2, <2>3, OrphansAreUntended DEF TypeOK
<1>7. Orphans' = Orphans \cup {n} /\ n \notin Orphans
  <2>1. n \notin Orphans
    BY <1>5, OrphansAreUntended
  <2> QED
    BY <1>6, <2>1
<1>8. Lost' = Lost + 1
  BY <1>7, OneMoreLost
<1>9. Fate' = Fate
  BY <1>0, <1>1, <1>2, FateNames, CallMovesFate
<1>10. running # NoOne /\ SlotRow = "none" /\ running' = running /\ running = c /\ run[c] = 0
  <2>1. run[c] = 0
    BY <1>0 DEF SlotInv, CallsInv, OwnRow
  <2> QED
    BY <1>0, <2>1, HolderRow DEF CreateLost, memory
<1>11. SlotRow' = "none"
  BY <1>5, <1>10 DEF SlotRow, RowOf
<1>12. Slot!Abandon
  BY <1>8, <1>9, <1>10, <1>11 DEF CreateLost, Fault, Slot!Abandon, Slot!Fault
<1> QED
  BY <1>12 DEF Slot!Next

(* A closed row is no orphan, and the other rows are as they were.         *)
LEMMA RefinesClose ==
  ASSUME SlotInv, NEW c \in Caller, FinishRun(c)
  PROVE  [Slot!Next]_(Slot!vars)
<1>0. TypeOK /\ stage[c] = "finish" /\ stage[c] \in Held /\ stage[c] \in Closing
      /\ "finished" \in Held /\ "finished" \notin Closing
  BY DEF SlotInv, FinishRun, Held, Closing
<1>1. stage'[c] = "finished" /\ \A d \in Caller \ {c} : stage'[d] = stage[d]
  BY <1>0, StageSets, GotoType DEF FinishRun
<1>2. /\ running = c /\ running' = running /\ running # NoOne /\ run' = run
      /\ SlotRow = "open" /\ run[c] \in Id /\ run[c] \notin Orphans
  BY <1>0, HolderRow DEF FinishRun, memory
<1>3. rows' = [rows EXCEPT ![run[c]] = "closed"]
  BY DEF FinishRun
<1>4. ASSUME NEW i PROVE i \in Orphans' <=> i \in Orphans
  <2>1. i \in Orphans' <=> i \in Id /\ rows'[i] = "submitted" /\ ~Tended(i)'
    BY DEF Orphans, Open, Tended
  <2>2. CASE i = run[c]
    BY <1>0, <1>2, <1>3, <2>1, <2>2 DEF TypeOK
  <2>3. CASE i # run[c]
    <3>1. Tended(i)' <=> Tended(i)
      BY <1>1, <1>2, <2>3 DEF Tended, Closing
    <3> QED
      BY <1>0, <1>3, <2>1, <2>3, <3>1, OrphansAreUntended DEF TypeOK
  <2> QED
    BY <2>2, <2>3
<1>5. Orphans' = Orphans
  BY <1>4 DEF Orphans, Open
<1>6. Fate' = Fate
  BY <1>0, StageSets, FateNames, CallMovesFate DEF FinishRun
<1>7. SlotRow' = "closed"
  <2>1. rows'[run[c]] = "closed" /\ run[c] # 0
    BY <1>0, <1>2, <1>3 DEF TypeOK, Id
  <2>2. SlotRow' = RowOf(run[c])'
    BY <1>2 DEF SlotRow
  <2> QED
    BY <1>2, <1>5, <2>1, <2>2 DEF RowOf
<1>8. Slot!Close
  BY <1>2, <1>5, <1>6, <1>7 DEF FinishRun, Slot!Close, Lost
<1> QED
  BY <1>8 DEF Slot!Next

(* A row whose closing write was lost is an orphan from then on.           *)
LEMMA RefinesLeave ==
  ASSUME SlotInv, NEW c \in Caller, FinishFails(c)
  PROVE  [Slot!Next]_(Slot!vars)
<1>0. TypeOK /\ stage[c] = "finish" /\ stage[c] \in Held /\ stage[c] \in Closing
      /\ "finished" \in Held /\ "finished" \notin Closing
  BY DEF SlotInv, FinishFails, Held, Closing
<1>1. stage'[c] = "finished" /\ \A d \in Caller \ {c} : stage'[d] = stage[d]
  BY <1>0, StageSets, GotoType DEF FinishFails
<1>2. /\ running = c /\ running' = running /\ running # NoOne /\ run' = run /\ rows' = rows
      /\ SlotRow = "open" /\ run[c] \in Id /\ run[c] \notin Orphans
      /\ \A d \in Caller \ {c} : stage[d] \notin Closing
  BY <1>0, HolderRow DEF FinishFails, memory
<1>3. rows[run[c]] = "submitted"
  BY <1>0 DEF SlotInv, CallsInv, OwnRow
<1>4. ASSUME NEW i PROVE i \in Orphans' <=> i \in Orphans \cup {run[c]}
  <2>1. i \in Orphans' <=> i \in Id /\ rows'[i] = "submitted" /\ ~Tended(i)'
    BY DEF Orphans, Open, Tended
  <2>2. ~Tended(i)'
    BY <1>0, <1>1, <1>2 DEF Tended, Closing
  <2>3. Tended(i) <=> i = run[c]
    BY <1>0, <1>2 DEF Tended
  <2> QED
    BY <1>2, <1>3, <2>1, <2>2, <2>3, OrphansAreUntended
<1>5. Orphans' = Orphans \cup {run[c]}
  BY <1>4
<1>6. Lost' = Lost + 1
  BY <1>2, <1>5, OneMoreLost
<1>7. Fate' = Fate
  BY <1>0, StageSets, FateNames, CallMovesFate DEF FinishFails
<1>8. SlotRow' = "abandoned"
  <2>1. SlotRow' = RowOf(run[c])'
    BY <1>2 DEF SlotRow
  <2> QED
    BY <1>2, <1>5, <2>1 DEF RowOf, Id
<1>9. Slot!Abandon
  BY <1>2, <1>6, <1>7, <1>8 DEF FinishFails, Fault, Slot!Abandon, Slot!Fault
<1> QED
  BY <1>9 DEF Slot!Next

(* The flag comes down with no row left open by its holder.                *)
LEMMA RefinesRelease ==
  ASSUME SlotInv, NEW c \in Caller, Abort(c) \/ Lower(c)
  PROVE  [Slot!Next]_(Slot!vars)
<1>0. TypeOK /\ stage[c] \in Held /\ stage[c] \notin Closing /\ "gone" \notin Closing
      /\ "gone" \in Stage
  BY DEF SlotInv, Abort, Lower, Held, Closing, Stage
<1>1. Goto(c, "gone") /\ running' = NoOne /\ UNCHANGED <<run, rows, faults>>
  BY DEF Abort, Lower
<1>2. stage'[c] = "gone" /\ \A d \in Caller \ {c} : stage'[d] = stage[d]
  BY <1>0, <1>1, GotoType
<1>3. Lost' = Lost
  BY <1>0, <1>1, <1>2, OrphansStay
<1>4. running = c /\ running # NoOne /\ SlotRow # "open" /\ SlotRow' = "none"
  BY <1>0, <1>1, HolderRow DEF SlotRow
<1>5. Fate' = [Fate EXCEPT ![running] = "over"]
  BY <1>0, <1>1, <1>4, FateNames, CallMovesFate
<1>6. Slot!Release
  BY <1>1, <1>3, <1>4, <1>5 DEF Slot!Release
<1> QED
  BY <1>6 DEF Slot!Next

(* A call without the flag is turned away, goes on or comes back.          *)
LEMMA RefinesOutside ==
  ASSUME SlotInv, NEW c \in Caller,
         RunSkipped(c) \/ TriggerLoses(c) \/ Reject(c) \/ Conflict(c) \/ Return(c)
  PROVE  [Slot!Next]_(Slot!vars)
<1>0. TypeOK
  BY DEF SlotInv
<1>1. PICK s \in {"refused", "conflict", "rejected", "outside"} :
        /\ Goto(c, s)
        /\ s \in {"refused", "conflict"} => stage[c] \in {"outside", "conflict"}
        /\ s = "refused" \/ stage[c] # "conflict"
        /\ stage[c] = "outside" /\ s \in {"refused", "conflict"} => running # NoOne
        /\ s = "rejected" => stage[c] = "outside"
        /\ s = "outside" => stage[c] \in {"gone", "refused", "rejected"}
  BY DEF RunSkipped, TriggerLoses, Reject, Conflict, Return
<1>2. stage[c] \in {"outside", "conflict", "gone", "refused", "rejected"}
      /\ UNCHANGED <<running, rows, faults>>
      /\ \A d \in Caller \ {c} : run'[d] = run[d]
  BY <1>0 DEF RunSkipped, TriggerLoses, Reject, Conflict, Return, memory, TypeOK
<1>3. stage[c] \notin Held /\ s \in Stage \ Held
  BY <1>1, <1>2, StageSets
<1>4. SlotRow' = SlotRow /\ Lost' = Lost
  BY <1>1, <1>2, <1>3, OutsideKeepsRow
<1>5. /\ Fate[c] = CallFate(stage[c])
      /\ Fate' = [Fate EXCEPT ![c] = CallFate(s)]
      /\ CallFate(s) = CallFate(stage[c]) => Fate' = Fate
  BY <1>0, <1>1, <1>3, CallMovesFate
<1>6. CASE s \in {"refused", "conflict"} /\ stage[c] = "outside"
  <2>1. Slot!Refuse(c)
    BY <1>1, <1>2, <1>4, <1>5, <1>6, FateNames DEF Slot!Refuse
  <2> QED
    BY <2>1 DEF Slot!Next
<1>7. CASE s = "outside" /\ stage[c] \in {"gone", "refused"}
  <2>1. Slot!Return(c)
    BY <1>1, <1>2, <1>4, <1>5, <1>7, FateNames DEF Slot!Return
  <2> QED
    BY <2>1 DEF Slot!Next
<1>8. CASE \/ s \in {"refused", "conflict"} /\ stage[c] = "conflict"
           \/ s = "rejected"
           \/ s = "outside" /\ stage[c] = "rejected"
  <2>1. CallFate(s) = CallFate(stage[c])
    BY <1>1, <1>8, FateNames
  <2> QED
    BY <1>2, <1>4, <1>5, <2>1 DEF Slot!vars
<1> QED
  BY <1>1, <1>6, <1>7, <1>8

LEMMA RefinesCall ==
  ASSUME SlotInv, NEW c \in Caller, Arrive(c) \/ CallStep(c) \/ Accept(c) \/ Return(c)
  PROVE  [Slot!Next]_(Slot!vars)
<1>1. CASE RunSwap(c) \/ TriggerSwap(c)
  <2>1. PICK s \in {"add", "opening"} : Goto(c, s)
    BY <1>1 DEF RunSwap, TriggerSwap
  <2> QED
    BY <1>1, <2>1, RefinesGrant DEF RunSwap, TriggerSwap
<1>2. CASE RunSkipped(c) \/ TriggerLoses(c) \/ Reject(c) \/ Conflict(c) \/ Return(c)
  BY <1>2, RefinesOutside
<1>3. CASE Create(c) \/ CreateLost(c)
  BY <1>3, RefinesCreate, RefinesCreateLost
<1>4. CASE FinishRun(c) \/ FinishFails(c)
  BY <1>4, RefinesClose, RefinesLeave
<1>5. CASE Abort(c) \/ Lower(c)
  BY <1>5, RefinesRelease
<1>6. CASE RunAdd(c) \/ CreateFails(c) \/ Done(c)
  <2>1. PICK s \in {"create", "finished", "aborting", "lowering"} : Goto(c, s)
    BY <1>6 DEF RunAdd, CreateFails, NotOpened, Done
  <2>2. s \in Held /\ s \notin Closing
    BY DEF Held, Closing
  <2>3. stage[c] \in Held /\ stage[c] \notin Closing
    BY <1>6 DEF RunAdd, CreateFails, Done, Held, Closing
  <2>4. UNCHANGED <<running, run, rows>> /\ (faults' = faults \/ Fault)
    BY <1>6 DEF RunAdd, CreateFails, Done, CallFails, memory
  <2> QED
    BY <2>1, <2>2, <2>3, <2>4, RefinesQuiet
<1>7. CASE StoreRunID(c) \/ Launch(c) \/ Body(c)
  <2>1. PICK s \in {"body", "launching", "finish"} : Goto(c, s)
    BY <1>7 DEF StoreRunID, Launch, Body
  <2>2. s \in Held /\ s \in Closing
    BY DEF Held, Closing
  <2>3. stage[c] \in Held /\ stage[c] \in Closing
    BY <1>7 DEF StoreRunID, Launch, Body, Held, Closing
  <2>4. UNCHANGED <<running, run, rows, faults>>
    BY <1>7 DEF StoreRunID, Launch, Body, memory
  <2> QED
    BY <2>1, <2>2, <2>3, <2>4, RefinesQuiet
<1>8. CASE Accept(c)
  <2>1. UNCHANGED <<running, stage, run, rows, faults>>
    BY <1>8 DEF Accept, memory
  <2>2. Lost' = Lost /\ \A i : RowOf(i)' = RowOf(i)
    BY <2>1, OrphansStay
  <2>3. Fate' = Fate /\ SlotRow' = SlotRow
    BY <2>1, <2>2 DEF Fate, SlotRow
  <2> QED
    BY <2>1, <2>2, <2>3 DEF Slot!vars
<1> QED
  BY <1>1, <1>2, <1>3, <1>4, <1>5, <1>6, <1>7, <1>8 DEF Arrive, CallStep

(* A crash orphans the row of the run under way, if it had an open one.    *)
LEMMA RefinesCrash == SlotInv /\ Crash => Slot!Crash
<1> SUFFICES ASSUME SlotInv, Crash PROVE Slot!Crash
  OBVIOUS
<1>1. /\ Fault /\ running' = NoOne /\ rows' = rows
      /\ stage' = [c \in Caller |-> "outside"] /\ run' = [c \in Caller |-> 0]
  BY DEF Crash
<1>2. Fate' = [c \in Caller |-> "outside"]
  BY <1>1, FateNames DEF Fate
<1>3. SlotRow' = "none"
  BY <1>1 DEF SlotRow
<1>4. Orphans' = Open
  BY <1>1 DEF Orphans, Open, Closing
<1>5. ASSUME NEW i, i \in Open, i \notin Orphans
      PROVE  SlotRow = "open" /\ i = run[running]
  <2>1. PICK c \in Caller : run[c] = i /\ stage[c] \in Closing
    BY <1>5 DEF Orphans
  <2> QED
    BY <2>1, StageSets, HolderRow
<1>6. CASE SlotRow = "open"
  <2>1. run[running] \in Open /\ run[running] \notin Orphans
    <3>1. running \in Caller /\ running # NoOne /\ RowOf(run[running]) = "open"
      BY <1>6 DEF SlotRow, SlotInv, TypeOK
    <3>2. run[running] # 0 /\ run[running] \notin Orphans /\ rows[run[running]] = "submitted"
      BY <3>1 DEF RowOf
    <3> QED
      BY <3>1, <3>2 DEF Open, SlotInv, TypeOK
  <2>2. Orphans' = Orphans \cup {run[running]}
    BY <1>4, <1>5, <2>1 DEF Orphans
  <2>3. Lost' = Lost + 1
    BY <2>1, <2>2, OneMoreLost
  <2> QED
    BY <1>1, <1>2, <1>3, <1>6, <2>3 DEF Slot!Crash, Slot!Fault, Fault
<1>7. CASE SlotRow # "open"
  <2>1. Orphans' = Orphans
    BY <1>4, <1>5, <1>7 DEF Orphans
  <2> QED
    BY <1>1, <1>2, <1>3, <1>7, <2>1 DEF Slot!Crash, Slot!Fault, Fault, Lost
<1> QED
  BY <1>6, <1>7

LEMMA RefinesStep == SlotInv /\ [Next]_vars => [Slot!Next]_(Slot!vars)
<1> SUFFICES ASSUME SlotInv, [Next]_vars PROVE [Slot!Next]_(Slot!vars)
  OBVIOUS
<1>1. CASE \E c \in Caller : Arrive(c) \/ CallStep(c) \/ Accept(c) \/ Return(c)
  BY <1>1, RefinesCall
<1>2. CASE Cancel \/ WaitIdle \/ Idle \/ UNCHANGED vars
  <2>1. UNCHANGED <<running, stage, run, rows, faults>>
    BY <1>2 DEF Cancel, WaitIdle, Idle, vars, memory, calls
  <2>2. Lost' = Lost /\ \A i : RowOf(i)' = RowOf(i)
    BY <2>1, OrphansStay
  <2>3. Fate' = Fate /\ SlotRow' = SlotRow
    BY <2>1, <2>2 DEF Fate, SlotRow
  <2> QED
    BY <2>1, <2>2, <2>3 DEF Slot!vars
<1>3. CASE Crash
  BY <1>3, RefinesCrash DEF Slot!Next
<1> QED
  BY <1>1, <1>2, <1>3 DEF Next

(* The flag, the run id, the wait group and the table together are the one *)
(* slot of module RunSlot for ticks, startup runs and triggers alike.      *)
THEOREM FlagIsOneSlot == Spec => ImplementsRunSlot
<1>1. Init => Slot!Init
  BY RefinesInit
<1>2. SlotInv /\ [Next]_vars => [Slot!Next]_(Slot!vars)
  BY RefinesStep
<1> QED
  BY <1>1, <1>2, SlotInvariant, PTL DEF Spec, ImplementsRunSlot, Slot!Spec

(* No error path of a run and no lost race leaves a row on `submitted` or  *)
(* `polling`: each one that stays there was paid for by a crash or by a    *)
(* lost write.  It is what module RunSlot proves of any such slot.         *)
THEOREM OnlyFaultsLeaveARow == Spec => []StuckRowsAreFaults
<1>1. Slot!LostToFaults => StuckRowsAreFaults
  BY DEF Slot!LostToFaults, StuckRowsAreFaults
<1> QED
  BY <1>1, FlagIsOneSlot, Slot!RowsAreLostToFaults, PTL DEF ImplementsRunSlot

=============================================================================
