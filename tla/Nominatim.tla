----------------------------- MODULE Nominatim -----------------------------
(***************************************************************************)
(* The rate limit of the geocoder, over time: waitForSlot holds a mutex    *)
(* across its sleep, remembers when it last let somebody through, and is   *)
(* left early when the caller's context dies.  What the answer of a        *)
(* request does to a venue is the module Processing.                       *)
(*                                                                         *)
(* Time is discrete and passes between any two steps: a goroutine may be   *)
(* late anywhere.  Instants are kept as ages, counted up to the interval   *)
(* (an older one makes no difference), so the clock needs no bound.        *)
(***************************************************************************)
EXTENDS Integers, FiniteSetsExt

CONSTANTS
  Caller,        \* goroutines that geocode
  NoOne,         \* the mutex is free
  MinInterval    \* cfg.Geocode.MinInterval

ASSUME CallerAssumption == NoOne \notin Caller
ASSUME IntervalAssumption == MinInterval \in Nat \ {0}

VARIABLES
  mu,         \* Nominatim.mu: who holds it
  since,      \* time.Since(lastCall)
  stage,      \* where each caller is
  left,       \* what is left on each caller's timer
  ctxDone     \* the run's context is done

vars == <<mu, since, stage, left, ctxDone>>

Stage == {"outside", "locking", "asleep", "awake", "granted", "sent"}

(* Ages and timers run from 0 to the interval; the two stages under the    *)
(* lock belong to its holder.                                              *)
TypeOK ==
  /\ mu \in Caller \cup {NoOne}
  /\ since \in 0..MinInterval
  /\ stage \in [Caller -> Stage]
  /\ \A c \in Caller : stage[c] \in {"asleep", "awake"} <=> mu = c
  /\ left \in [Caller -> 0..MinInterval]
  /\ ctxDone \in BOOLEAN

(* The zero time of Go lies further back than any interval.                *)
Init ==
  /\ mu = NoOne
  /\ since = MinInterval
  /\ stage = [c \in Caller |-> "outside"]
  /\ left = [c \in Caller |-> 0]
  /\ ctxDone = FALSE

Goto(c, s) == stage' = [stage EXCEPT ![c] = s]

(* Geocode is called; p.mu.Lock() does not look at the context.            *)
Geocode(c) ==
  /\ stage[c] = "outside"
  /\ Goto(c, "locking")
  /\ UNCHANGED <<mu, since, left, ctxDone>>

(* What is left to wait is computed under the lock; the mutated form reads *)
(* it and sleeps without taking the lock.                                  *)
Wait == MinInterval - since

Queue(c) ==
  /\ stage[c] = "locking"
  /\ mu = NoOne
  /\ left' = [left EXCEPT ![c] = Wait]
  /\ Goto(c, IF Wait > 0 THEN "asleep" ELSE "awake")
  /\ UNCHANGED <<since, ctxDone>>

SleepUnlocked(c) == Queue(c) /\ UNCHANGED mu

Lock(c) == Queue(c) /\ mu' = c

Wake(c) ==
  /\ stage[c] = "asleep"
  /\ left[c] = 0
  /\ Goto(c, "awake")
  /\ UNCHANGED <<mu, since, left, ctxDone>>

(* The context dies during the sleep: the slot stays as it was.            *)
LeaveBed(c) ==
  /\ stage[c] = "asleep"
  /\ ctxDone
  /\ Goto(c, "outside")
  /\ left' = [left EXCEPT ![c] = 0]
  /\ UNCHANGED <<since, ctxDone>>

GiveUpLocked(c) == LeaveBed(c) /\ UNCHANGED mu

GiveUp(c) == LeaveBed(c) /\ mu' = NoOne

Grant(c) ==
  /\ stage[c] = "awake"
  /\ mu' = NoOne
  /\ since' = 0
  /\ Goto(c, "granted")
  /\ UNCHANGED <<left, ctxDone>>

(* client.Do: the request goes out, or is refused under a dead context.    *)
Send(c) ==
  /\ stage[c] = "granted"
  /\ ~ctxDone
  /\ Goto(c, "sent")
  /\ UNCHANGED <<mu, since, left, ctxDone>>

NotSent(c) ==
  /\ stage[c] = "granted"
  /\ ctxDone
  /\ Goto(c, "outside")
  /\ UNCHANGED <<mu, since, left, ctxDone>>

(* Coordinates, nothing found, or an error.                                *)
Answer(c) ==
  /\ stage[c] = "sent"
  /\ Goto(c, "outside")
  /\ UNCHANGED <<mu, since, left, ctxDone>>

(* One run's context dies; the next run comes with a new one.              *)
Cancel ==
  /\ ~ctxDone
  /\ ctxDone' = TRUE
  /\ UNCHANGED <<mu, since, stage, left>>

NextRun ==
  /\ ctxDone
  /\ \A c \in Caller : stage[c] = "outside"
  /\ ctxDone' = FALSE
  /\ UNCHANGED <<mu, since, stage, left>>

Older(age) == Min({age + 1, MinInterval})

Tick ==
  /\ since' = Older(since)
  /\ left' = [c \in Caller |-> Max({left[c] - 1, 0})]
  /\ UNCHANGED <<mu, stage, ctxDone>>

Step(c) ==
  Lock(c) \/ Wake(c) \/ GiveUp(c) \/ Grant(c) \/ Send(c) \/ NotSent(c) \/ Answer(c)

Next ==
  \/ \E c \in Caller : Geocode(c) \/ Step(c)
  \/ Cancel \/ NextRun \/ Tick

Spec == Init /\ [][Next]_vars

(* Time passes, goroutines run, and a waiter of a mutex is served.         *)
Fairness ==
  /\ WF_vars(Tick)
  /\ \A c \in Caller : WF_vars(Step(c)) /\ SF_vars(Lock(c))

FairSpec == Spec /\ Fairness

-----------------------------------------------------------------------------
(* Two callers are never let through less than MinInterval apart, whoever  *)
(* waits, gives up or comes late (geocode.go:54: even if venues were       *)
(* resolved concurrently).                                                 *)
GrantsSpaced ==
  [][\A c \in Caller : Grant(c) => since = MinInterval]_vars

(* A caller in the queue gets through to its slot or out with its context's*)
(* error, however often those ahead of it are cancelled.                   *)
Served ==
  \A c \in Caller : stage[c] = "locking" ~> stage[c] \in {"granted", "outside"}
=============================================================================
