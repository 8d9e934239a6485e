----------------------------- MODULE Edges_proofs -----------------------------
(***************************************************************************)
(* Proofs about the edges of the process: the pace of the geocoder for any *)
(* number of callers and any interval, the blame of the Graph API's errors *)
(* and the media kept of its answers for any answers and unknown codes,    *)
(* the reading of the model's answers for texts and lists of any length,   *)
(* and the boot for any environment.                                       *)
(***************************************************************************)
EXTENDS MCEdges, TLAPS, WellFoundedInduction, FiniteSetTheorems

-----------------------------------------------------------------------------
(* The geocoder (Nominatim).                                               *)

(* Whoever sleeps will not wake before the interval is over; whoever is    *)
(* awake has waited for all of it.  Nobody else resets the clock meanwhile.*)
Paced ==
  \A c \in Caller :
    /\ stage[c] = "asleep" => since + left[c] >= MinInterval
    /\ stage[c] = "awake" => since = MinInterval
PaceInv == TypeOK /\ Paced

LEMMA MinMax ==
  ASSUME NEW x \in Int, NEW y \in Int
  PROVE  /\ Min({x, y}) = IF x <= y THEN x ELSE y
         /\ Max({x, y}) = IF x <= y THEN y ELSE x
<1>1. \E m \in {x, y} : \A z \in {x, y} : m <= z
  OBVIOUS
<1>2. \E m \in {x, y} : \A z \in {x, y} : m >= z
  OBVIOUS
<1>3. Min({x, y}) \in {x, y} /\ \A z \in {x, y} : Min({x, y}) <= z
  BY <1>1 DEF Min
<1>4. Max({x, y}) \in {x, y} /\ \A z \in {x, y} : Max({x, y}) >= z
  BY <1>2 DEF Max
<1> QED
  BY <1>3, <1>4

LEMMA PaceInit == Init => PaceInv
<1> SUFFICES ASSUME Init PROVE PaceInv
  OBVIOUS
<1>1. ctxDone \in BOOLEAN
  BY DEF Init
<1> QED
  BY <1>1, CallerAssumption, IntervalAssumption DEF Init, PaceInv, TypeOK, Paced, Stage

LEMMA PaceStep == PaceInv /\ [Next]_vars => PaceInv'
<1> SUFFICES ASSUME PaceInv, [Next]_vars PROVE PaceInv'
  OBVIOUS
<1> USE CallerAssumption, IntervalAssumption DEF PaceInv, TypeOK, Paced, Goto
<1>1. ASSUME NEW c \in Caller, Lock(c) PROVE PaceInv'
  BY <1>1 DEF Lock, Queue, Wait, Stage
<1>2. ASSUME NEW c \in Caller, GiveUp(c) PROVE PaceInv'
  BY <1>2 DEF GiveUp, LeaveBed, Stage
<1>3. ASSUME NEW c \in Caller, Grant(c) PROVE PaceInv'
  BY <1>3 DEF Grant, Stage
<1>4. ASSUME NEW c \in Caller, Wake(c) PROVE PaceInv'
  BY <1>4 DEF Wake, Stage
<1>5. ASSUME NEW c \in Caller, Geocode(c) \/ Send(c) \/ NotSent(c) \/ Answer(c)
      PROVE  PaceInv'
  BY <1>5 DEF Geocode, Send, NotSent, Answer, Stage
<1>6. CASE Tick
  <2>0. UNCHANGED <<mu, stage, ctxDone>> /\ ctxDone \in BOOLEAN
    BY <1>6 DEF Tick
  <2>1. since' = IF since + 1 <= MinInterval THEN since + 1 ELSE MinInterval
    BY <1>6, MinMax DEF Tick, Older
  <2>2. left' = [c \in Caller |-> IF left[c] - 1 <= 0 THEN 0 ELSE left[c] - 1]
    <3>1. ASSUME NEW c \in Caller
          PROVE  Max({left[c] - 1, 0}) = IF left[c] - 1 <= 0 THEN 0 ELSE left[c] - 1
      <4>1. PICK x \in Int : x = left[c] - 1
        OBVIOUS
      <4>2. Max({x, 0}) = IF x <= 0 THEN 0 ELSE x
        BY MinMax
      <4> QED
        BY <4>1, <4>2
    <3> QED
      BY <1>6, <3>1 DEF Tick
  <2>3. since' \in 0..MinInterval /\ since' >= since
    BY <2>1
  <2>4. left' \in [Caller -> 0..MinInterval]
    BY <2>2
  <2>5. ASSUME NEW c \in Caller, stage[c] = "asleep" PROVE since' + left'[c] >= MinInterval
    BY <2>1, <2>2, <2>5
  <2>6. ASSUME NEW c \in Caller, stage[c] = "awake" PROVE since' = MinInterval
    BY <2>1, <2>6
  <2>7. TypeOK'
    BY <2>0, <2>3, <2>4
  <2>8. Paced'
    BY <2>0, <2>5, <2>6
  <2> QED
    BY <2>7, <2>8
<1>7. CASE Cancel \/ NextRun \/ UNCHANGED vars
  BY <1>7 DEF Cancel, NextRun, vars
<1> QED
  BY <1>1, <1>2, <1>3, <1>4, <1>5, <1>6, <1>7 DEF Next, Step

(* Two callers are never let through less than the interval apart, whoever *)
(* waits, is cancelled or oversleeps, and however many geocode at once.    *)
THEOREM GrantsAreSpaced == Spec => GrantsSpaced
<1>1. PaceInv /\ [Next]_vars => [\A c \in Caller : Grant(c) => since = MinInterval]_vars
  BY DEF PaceInv, Paced, Grant
<1> QED
  BY <1>1, PaceInit, PaceStep, PTL DEF Spec, GrantsSpaced

-----------------------------------------------------------------------------
(* The Graph API (GraphAnswers).                                           *)

(* What classify says of the codes that the world answers with.            *)
LEMMA OurCodes ==
  ASSUME NEW code \in G!RateCodes \cup G!ScopeCodes \cup {190}, NEW status
  PROVE  G!classify(code, status) = "fatal" /\ G!RemediationHint(code) # ""
<1>1. G!classify(code, status) = "fatal"
  BY DEF G!classify, G!Kinds, G!IsPermissionCode, G!FatalCodes, G!RateCodes, G!ScopeCodes
<1>2. G!RemediationHint(code) # ""
  BY DEF G!RemediationHint, G!IsPermissionCode, G!RateCodes, G!ScopeCodes
<1> QED
  BY <1>1, <1>2

LEMMA TransientCode ==
  ASSUME NEW code \in G!TransientCodes, NEW status
  PROVE  G!classify(code, status) = "transient"
BY DEF G!classify, G!Kinds, G!IsPermissionCode, G!FatalCodes, G!RateCodes,
       G!PermanentCodes, G!TransientCodes

LEMMA PermanentCode ==
  ASSUME NEW code \in G!PermanentCodes, NEW status
  PROVE  G!classify(code, status) = "permanent"
BY DEF G!classify, G!Kinds, G!IsPermissionCode, G!FatalCodes, G!RateCodes, G!PermanentCodes

LEMMA UnknownCode ==
  ASSUME NEW code \in UnknownCodes
  PROVE  G!classify(code, 400) = "transient"
BY GraphAssumption
DEF G!CodesAssumption, G!classify, G!Kinds, G!IsPermissionCode, G!FatalCodes,
    G!RateCodes, G!PermanentCodes

LEMMA PageKinds ==
  /\ G!classify(0, 429) = "fatal"
  /\ G!classify(0, 503) = "transient"
  /\ G!classify(0, 504) = "transient"
BY DEF G!classify, G!Kinds, G!IsPermissionCode, G!FatalCodes, G!RateCodes,
       G!PermanentCodes, G!TransientCodes

(* The provider's verdict on an error envelope, and on a page without one. *)
LEMMA EnvelopeOutcome ==
  ASSUME NEW status, NEW code
  PROVE  LET ans == G!Http(status, G!Error(code))
         IN  /\ G!Discovered(ans) = G!Failed(G!classify(code, status), code)
             /\ G!TokenOf(ans) = G!Failed(G!classify(code, status), code)
             /\ ans.body.type = "error"
<1> DEFINE ans == G!Http(status, G!Error(code))
<1>1. ans.body.type = "error" /\ ans.body.code = code /\ ans.status = status
  BY DEF G!Http, G!Error
<1>2. G!IsError(ans)
  BY <1>1 DEF G!IsError
<1> HIDE DEF ans
<1>3. G!decodeGraphError(ans) = G!Failed(G!classify(code, status), code)
  BY <1>1 DEF G!decodeGraphError
<1>4. G!Discovered(ans) = G!Failed(G!classify(code, status), code)
  BY <1>2, <1>3 DEF G!Discovered
<1>5. G!TokenOf(ans) = G!Failed(G!classify(code, status), code)
  BY <1>2, <1>3 DEF G!TokenOf
<1> QED
  BY <1>1, <1>4, <1>5 DEF ans

LEMMA PageOutcome ==
  ASSUME NEW status, ~G!IsOk(status)
  PROVE  LET ans == G!Http(status, G!Html)
         IN  /\ G!Discovered(ans) = G!Failed(G!classify(0, status), 0)
             /\ G!TokenOf(ans) = G!Failed(G!classify(0, status), 0)
             /\ ans.body.type = "html"
<1> DEFINE ans == G!Http(status, G!Html)
<1>1. ans.body.type = "html" /\ ans.body.code = 0 /\ ans.status = status
  BY DEF G!Http, G!Html
<1>2. G!IsError(ans)
  BY <1>1 DEF G!IsError
<1> HIDE DEF ans
<1>3. G!decodeGraphError(ans) = G!Failed(G!classify(0, status), 0)
  BY <1>1 DEF G!decodeGraphError
<1>4. G!Discovered(ans) = G!Failed(G!classify(0, status), 0)
  BY <1>2, <1>3 DEF G!Discovered
<1>5. G!TokenOf(ans) = G!Failed(G!classify(0, status), 0)
  BY <1>2, <1>3 DEF G!TokenOf
<1> QED
  BY <1>1, <1>4, <1>5 DEF ans

LEMMA FailedFields ==
  ASSUME NEW k, NEW n
  PROVE  G!Failed(k, n).kind = k /\ G!Failed(k, n).code = n
BY DEF G!Failed, G!Outcome

(* The two ways the provider reads an answer, and a verdict on our own     *)
(* token, scope or quota that comes with a hint.                           *)
Readings(ans) == {G!Discovered(ans), G!TokenOf(ans)}
Ours(o, ans) ==
  /\ o.kind = "fatal"
  /\ ans.body.type = "error" => G!RemediationHint(o.code) # ""

LEMMA CodeOfOurs ==
  ASSUME NEW code \in G!RateCodes \cup G!ScopeCodes \cup {190}, NEW status,
         NEW ans, ans = G!Http(status, G!Error(code)), NEW o \in Readings(ans)
  PROVE  Ours(o, ans)
<1>1. o = G!Failed(G!classify(code, status), code)
  BY EnvelopeOutcome DEF Readings
<1>2. G!classify(code, status) = "fatal" /\ G!RemediationHint(code) # ""
  BY OurCodes
<1>3. o = G!Failed("fatal", code)
  BY <1>1, <1>2
<1>4. o.kind = "fatal" /\ o.code = code
  BY <1>3, FailedFields
<1> QED
  BY <1>2, <1>4 DEF Ours

(* Trouble that hits every account is ours, and an outage is nobody's.     *)
LEMMA TroubleIsOurs ==
  ASSUME NEW ans \in G!Trouble, NEW o \in Readings(ans)
  PROVE  /\ weather = "outage" => o.kind = "transient"
         /\ weather # "outage" => Ours(o, ans)
<1>1. CASE weather = "outage"
  <2>1. \/ \E c \in G!TransientCodes : ans = G!Http(500, G!Error(c))
        \/ \E s \in {503, 504} : ans = G!Http(s, G!Html)
        \/ ans = G!Http(200, G!Html)
    BY <1>1 DEF G!Trouble
  <2>2. ASSUME NEW c \in G!TransientCodes, ans = G!Http(500, G!Error(c))
        PROVE  o.kind = "transient"
    <3>1. o = G!Failed(G!classify(c, 500), c)
      BY <2>2, EnvelopeOutcome DEF Readings
    <3>2. G!classify(c, 500) = "transient"
      BY TransientCode
    <3> QED
      BY <3>1, <3>2, FailedFields
  <2>3. ASSUME NEW s \in {503, 504}, ans = G!Http(s, G!Html) PROVE o.kind = "transient"
    <3>1. ~G!IsOk(s)
      BY DEF G!IsOk
    <3>2. o = G!Failed(G!classify(0, s), 0)
      BY <2>3, <3>1, PageOutcome DEF Readings
    <3>3. G!classify(0, s) = "transient"
      BY PageKinds
    <3> QED
      BY <3>2, <3>3, FailedFields
  <2>4. ASSUME ans = G!Http(200, G!Html) PROVE o.kind = "transient"
    <3>1. ~G!IsError(ans) /\ ans.body.type = "html"
      BY <2>4 DEF G!IsError, G!IsOk, G!Http, G!Html
    <3> QED
      BY <3>1 DEF Readings, G!Discovered, G!TokenOf, G!Failed, G!Outcome
  <2> QED
    BY <1>1, <2>1, <2>2, <2>3, <2>4
<1>2. CASE weather = "limited"
  <2>1. \/ \E s \in {400, 403}, c \in G!RateCodes : ans = G!Http(s, G!Error(c))
        \/ ans = G!Http(429, G!Html)
    BY <1>2 DEF G!Trouble
  <2>2. ASSUME ans = G!Http(429, G!Html) PROVE Ours(o, ans)
    <3>1. ~G!IsOk(429)
      BY DEF G!IsOk
    <3>2. o = G!Failed(G!classify(0, 429), 0) /\ ans.body.type = "html"
      BY <2>2, <3>1, PageOutcome DEF Readings
    <3>3. G!classify(0, 429) = "fatal"
      BY PageKinds
    <3>4. o.kind = "fatal"
      BY <3>2, <3>3, FailedFields
    <3> QED
      BY <3>2, <3>4 DEF Ours
  <2> QED
    BY <1>2, <2>1, <2>2, CodeOfOurs
<1>3. CASE weather \notin {"outage", "limited"}
  <2>1. \E s \in {400, 401} : ans = G!Http(s, G!Error(190))
    BY <1>3 DEF G!Trouble
  <2> QED
    BY <1>3, <2>1, CodeOfOurs
<1> QED
  BY <1>1, <1>2, <1>3

(* Without such trouble a lookup speaks of our scope, or of the account.   *)
LEMMA LookupVerdict ==
  ASSUME G!Trouble = {}, NEW ans \in G!LookupAnswers
  PROVE  /\ token = "unscoped" => Ours(G!Discovered(ans), ans)
         /\ token # "unscoped" /\ account \in {"personal", "gone"} =>
              G!Discovered(ans).kind = "permanent"
         /\ token # "unscoped" /\ account \notin {"personal", "gone"} =>
              G!Discovered(ans).kind \in {"ok", "transient"}
<1>1. ASSUME token = "unscoped" PROVE Ours(G!Discovered(ans), ans)
  <2>1. \E s \in {400, 403}, c \in G!ScopeCodes : ans = G!Http(s, G!Error(c))
    BY <1>1 DEF G!LookupAnswers
  <2> QED
    BY <2>1, CodeOfOurs DEF Readings
<1>2. ASSUME token # "unscoped", account \in {"personal", "gone"}
      PROVE  G!Discovered(ans).kind = "permanent"
  <2>1. \/ \E c \in G!PermanentCodes : ans = G!Http(400, G!Error(c))
        \/ ans = G!Http(200, G!Bare)
    BY <1>2 DEF G!LookupAnswers, G!PermanentCodes
  <2>2. ASSUME NEW c \in G!PermanentCodes, ans = G!Http(400, G!Error(c))
        PROVE  G!Discovered(ans).kind = "permanent"
    <3>1. G!Discovered(ans) = G!Failed(G!classify(c, 400), c)
      BY <2>2, EnvelopeOutcome
    <3>2. G!classify(c, 400) = "permanent"
      BY PermanentCode
    <3> QED
      BY <3>1, <3>2, FailedFields
  <2>3. ASSUME ans = G!Http(200, G!Bare) PROVE G!Discovered(ans).kind = "permanent"
    <3>1. ~G!IsError(ans) /\ ans.body.type = "bare"
      BY <2>3 DEF G!IsError, G!IsOk, G!Http, G!Bare
    <3> QED
      BY <3>1 DEF G!Discovered, G!Failed, G!Outcome
  <2> QED
    BY <2>1, <2>2, <2>3
<1>3. ASSUME token # "unscoped", account \notin {"personal", "gone"}
      PROVE  G!Discovered(ans).kind \in {"ok", "transient"}
  <2>1. \/ \E nodes \in G!Nodes : ans = G!Http(200, G!Document(nodes))
        \/ \E c \in UnknownCodes : ans = G!Http(400, G!Error(c))
    BY <1>3 DEF G!LookupAnswers
  <2>2. ASSUME NEW nodes \in G!Nodes, ans = G!Http(200, G!Document(nodes))
        PROVE  G!Discovered(ans).kind = "ok"
    <3>1. ~G!IsError(ans) /\ ans.body.type = "document"
      BY <2>2 DEF G!IsError, G!IsOk, G!Http, G!Document
    <3> QED
      BY <3>1 DEF G!Discovered, G!Outcome
  <2>3. ASSUME NEW c \in UnknownCodes, ans = G!Http(400, G!Error(c))
        PROVE  G!Discovered(ans).kind = "transient"
    <3>1. G!Discovered(ans) = G!Failed(G!classify(c, 400), c)
      BY <2>3, EnvelopeOutcome
    <3>2. G!classify(c, 400) = "transient"
      BY UnknownCode
    <3> QED
      BY <3>1, <3>2, FailedFields
  <2> QED
    BY <2>1, <2>2, <2>3
<1> QED
  BY <1>1, <1>2, <1>3

LEMMA TroubleShows ==
  /\ weather \in {"outage", "limited"} => G!Trouble # {}
  /\ weather # "outage" /\ token = "expired" => G!Trouble # {}
<1>1. ASSUME weather = "outage" PROVE G!Http(503, G!Html) \in G!Trouble
  BY <1>1 DEF G!Trouble
<1>2. ASSUME weather = "limited" PROVE G!Http(429, G!Html) \in G!Trouble
  BY <1>2 DEF G!Trouble
<1>3. ASSUME weather \notin {"outage", "limited"}, token = "expired"
      PROVE  G!Http(400, G!Error(190)) \in G!Trouble
  BY <1>3 DEF G!Trouble
<1> QED
  BY <1>1, <1>2, <1>3

(* What the verdict on an answer has to be for the kind to name the true   *)
(* culprit, whichever request it answers.                                  *)
Just(o, ans, request) ==
  /\ o.kind = "permanent" => account \in {"personal", "gone"}
  /\ \/ weather = "limited"
     \/ weather = "fine" /\ token = "expired"
     \/ weather = "fine" /\ token = "unscoped" /\ request = "account"
     => o.kind = "fatal"
  /\ o.kind = "fatal" /\ ans.body.type = "error" => G!RemediationHint(o.code) # ""

LEMMA LookupIsJust ==
  ASSUME NEW ans \in G!LookupAnswers PROVE Just(G!Discovered(ans), ans, "account")
<1>1. CASE G!Trouble # {}
  <2>1. ans \in G!Trouble
    BY <1>1 DEF G!LookupAnswers
  <2> QED
    BY <2>1, TroubleIsOurs DEF Just, Readings, Ours
<1>2. CASE G!Trouble = {}
  <2>1. weather # "limited" /\ ~(weather = "fine" /\ token = "expired")
    BY <1>2, TroubleShows
  <2> QED
    BY <1>2, <2>1, LookupVerdict DEF Just, Ours
<1> QED
  BY <1>1, <1>2

LEMMA CheckIsJust ==
  ASSUME NEW ans \in G!MeAnswers PROVE Just(G!TokenOf(ans), ans, "me")
<1>1. CASE ans \in G!Trouble
  BY <1>1, TroubleIsOurs DEF Just, Readings, Ours
<1>2. CASE ans \notin G!Trouble /\ G!Trouble # {}
  <2>1. ans = G!Http(200, G!Bare)
    BY <1>2 DEF G!MeAnswers
  <2>2. ~G!IsError(ans) /\ ans.body.type = "bare"
    BY <2>1 DEF G!IsError, G!IsOk, G!Http, G!Bare
  <2>3. G!TokenOf(ans) = G!Failed("fatal", 190)
    BY <2>2 DEF G!TokenOf
  <2>4. G!TokenOf(ans).kind = "fatal"
    BY <2>3, FailedFields
  <2> QED
    BY <2>2, <2>4 DEF Just
<1>3. CASE G!Trouble = {}
  <2>1. weather # "limited" /\ ~(weather = "fine" /\ token = "expired")
    BY <1>3, TroubleShows
  <2>2. ans = G!Http(200, G!Document(<<>>))
    BY <1>3 DEF G!MeAnswers
  <2>3. ~G!IsError(ans) /\ ans.body.type = "document"
    BY <2>2 DEF G!IsError, G!IsOk, G!Http, G!Document
  <2>4. G!TokenOf(ans).kind = "ok"
    BY <2>3 DEF G!TokenOf, G!Outcome
  <2> QED
    BY <2>1, <2>4 DEF Just
<1> QED
  BY <1>1, <1>2, <1>3

LEMMA GraphStep ==
  ASSUME G!KindNamesTheCulprit, [G!Next]_(G!vars) PROVE G!KindNamesTheCulprit'
<1>1. ASSUME outcome' = G!Nothing PROVE asked' = "none" => G!KindNamesTheCulprit'
  <2>1. outcome'.kind = "none"
    BY <1>1, FailedFields DEF G!Nothing
  <2> QED
    BY <2>1 DEF G!KindNamesTheCulprit
<1>2. CASE G!WorldMoves
  BY <1>1, <1>2 DEF G!WorldMoves
<1>3. ASSUME weather = "network", UNCHANGED G!world, outcome' \in G!NoAnswer
      PROVE  G!KindNamesTheCulprit'
  <2>1. outcome'.kind \in {"ctx", "transient"}
    BY <1>3, FailedFields DEF G!NoAnswer
  <2> QED
    BY <1>3, <2>1 DEF G!KindNamesTheCulprit, G!world
<1>8. ASSUME NEW request, asked' = request, ~G!Builds(request), UNCHANGED G!world,
             outcome' = G!NotBuilt
      PROVE  G!KindNamesTheCulprit'
  <2>1. outcome'.kind = "permanent"
    BY <1>8, FailedFields DEF G!NotBuilt
  <2>2. ~G!Builds(asked)'
    BY <1>8 DEF G!Builds, G!world
  <2> QED
    BY <2>1, <2>2 DEF G!KindNamesTheCulprit
<1>4. ASSUME UNCHANGED G!world, NEW ans, answer' = ans, Just(outcome', ans, asked')
      PROVE  G!KindNamesTheCulprit'
  BY <1>4 DEF G!KindNamesTheCulprit, Just, G!world, G!RemediationHint, G!IsPermissionCode
<1>5. CASE G!VerifyToken
  <2>0. CASE ~G!Builds("me")
    BY <1>8, <1>5, <2>0 DEF G!VerifyToken
  <2>1. CASE G!Builds("me") /\ weather = "network"
    BY <1>3, <1>5, <2>1 DEF G!VerifyToken
  <2>2. CASE G!Builds("me") /\ weather # "network"
    <3>1. PICK ans \in G!MeAnswers : answer' = ans
      BY <1>5, <2>2 DEF G!VerifyToken
    <3>2. outcome' = G!TokenOf(ans) /\ asked' = "me" /\ UNCHANGED G!world
      BY <1>5, <2>2, <3>1 DEF G!VerifyToken
    <3>3. Just(G!TokenOf(ans), ans, "me")
      BY CheckIsJust
    <3> QED
      BY <1>4, <3>1, <3>2, <3>3
  <2> QED
    BY <2>0, <2>1, <2>2
<1>6. CASE G!DiscoverMedia
  <2>0. CASE ~G!Builds("account")
    BY <1>8, <1>6, <2>0 DEF G!DiscoverMedia
  <2>1. CASE G!Builds("account") /\ weather = "network"
    BY <1>3, <1>6, <2>1 DEF G!DiscoverMedia
  <2>2. CASE G!Builds("account") /\ weather # "network"
    <3>1. PICK ans \in G!LookupAnswers : answer' = ans
      BY <1>6, <2>2 DEF G!DiscoverMedia
    <3>2. outcome' = G!Discovered(ans) /\ asked' = "account" /\ UNCHANGED G!world
      BY <1>6, <2>2, <3>1 DEF G!DiscoverMedia
    <3>3. Just(G!Discovered(ans), ans, "account")
      BY LookupIsJust
    <3> QED
      BY <1>4, <3>1, <3>2, <3>3
  <2> QED
    BY <2>0, <2>1, <2>2
<1>7. CASE UNCHANGED G!vars
  <2>1. /\ UNCHANGED <<account, weather, token, asked, answer, outcome>>
        /\ G!Builds(asked)' <=> G!Builds(asked)
    BY <1>7 DEF G!vars, G!world, G!Builds
  <2> QED
    BY <2>1 DEF G!KindNamesTheCulprit, G!RemediationHint, G!IsPermissionCode
<1> QED
  BY <1>2, <1>5, <1>6, <1>7 DEF G!Next

-----------------------------------------------------------------------------
(* The configuration (Configuration).                                      *)

(* A boot past the refusal, and the run it launched, hold a configuration  *)
(* that validate passed; only a boot from the bottom parses another.       *)
Typed(c) ==
  /\ \A v \in C!Counts \cup C!Durations : c[v].number \in Int
  /\ c["ADMIN_API_KEY"] \in {C!Unset, C!S("short"), C!S("long")}
ConfigInv ==
  /\ DOMAIN env = C!Var /\ \A v \in C!Var : env[v] \in Offered[v]
  /\ boot = "down" => ~launched
  /\ boot \in {"loaded", "verified", "ingesting", "serving"} \/ launched =>
       C!validate(cfg) = {} /\ Typed(cfg)
  /\ boot \in {"ingesting", "serving"} => cfg["CRON_SCHEDULE"] # C!S("bad")
  /\ boot = "serving" => cfg["PROCESSING_CRON_SCHEDULE"] # C!S("bad")

(* Every fallback is set and reads; the numbers are numbers.               *)
LEMMA NumbersAreNumbers ==
  /\ DOMAIN C!Numbers = C!Counts \cup C!Durations
  /\ \A v \in DOMAIN C!Numbers : C!Numbers[v] \in Int
BY DEF C!Numbers, C!Counts, C!Durations

LEMMA FallbackForms ==
  ASSUME NEW v \in DOMAIN C!Fallback
  PROVE  /\ v \in DOMAIN C!Numbers => C!Fallback[v] = C!N(C!Numbers[v])
         /\ v \in C!Flags => C!Fallback[v] = C!B(FALSE)
         /\ v \in C!Strings => \E s \in {"public", "schedule"} : C!Fallback[v] = C!S(s)
<1>1. v \in C!Parsed \cup C!Strings
  BY DEF C!Fallback
<1>2. v \in DOMAIN C!Numbers => C!Fallback[v] = C!N(C!Numbers[v])
  <2>1. v \in DOMAIN C!Numbers => v \notin C!Flags /\ v # "GEOCODE_BASE_URL"
    BY NumbersAreNumbers DEF C!Flags, C!Counts, C!Durations
  <2> QED
    BY <1>1, <2>1 DEF C!Fallback
<1>3. v \in C!Flags => v \notin DOMAIN C!Numbers /\ v # "GEOCODE_BASE_URL"
  BY NumbersAreNumbers DEF C!Flags, C!Counts, C!Durations
<1>4. v \in C!Flags => C!Fallback[v] = C!B(FALSE)
  BY <1>1, <1>3, ZenonT(20) DEF C!Fallback
<1>5. v \in C!Strings => v \notin DOMAIN C!Numbers /\ v \notin C!Flags
  BY NumbersAreNumbers DEF C!Flags, C!Counts, C!Durations, C!Strings
<1>6. v \in C!Strings =>
        C!Fallback[v] = IF v = "GEOCODE_BASE_URL" THEN C!S("public") ELSE C!S("schedule")
  BY <1>1, <1>5 DEF C!Fallback
<1> QED
  BY <1>2, <1>4, <1>6

LEMMA FallbackNumbers ==
  ASSUME NEW v \in C!Counts \cup C!Durations PROVE C!Fallback[v].number \in Int
<1>1. v \in DOMAIN C!Fallback
  BY DEF C!Fallback, C!Parsed
<1>2. C!Fallback[v] = C!N(C!Numbers[v]) /\ C!Numbers[v] \in Int
  BY <1>1, NumbersAreNumbers, FallbackForms
<1> QED
  BY <1>2 DEF C!N

LEMMA ParseIsTyped ==
  ASSUME \A v \in C!Var : env[v] \in Offered[v] PROVE Typed(C!parse)
<1>1. ASSUME NEW v \in C!Counts \cup C!Durations PROVE C!parse[v].number \in Int
  <2>1. v \in C!Var /\ v \in C!Parsed
    BY DEF C!Var, C!Parsed
  <2>2. C!parse[v] = C!Read(v)
    BY <2>1 DEF C!parse
  <2>3. v \in DOMAIN C!Fallback
    BY <2>1 DEF C!Fallback
  <2>4. C!Fallback[v].number \in Int
    BY FallbackNumbers DEF C!N
  <2>5. env[v] \notin {C!Unset, C!Malformed} => env[v].number \in Int
    BY <2>1, EnvironmentAssumption DEF C!OfferedAssumption
  <2> QED
    BY <2>2, <2>3, <2>4, <2>5 DEF C!Read
<1>2. C!parse["ADMIN_API_KEY"] \in {C!Unset, C!S("short"), C!S("long")}
  <2>1. "ADMIN_API_KEY" \in C!Var
    BY DEF C!Var
  <2>2. "ADMIN_API_KEY" \notin DOMAIN C!Fallback
    BY DEF C!Fallback, C!Parsed, C!Strings, C!Counts, C!Durations, C!Flags
  <2>3. C!parse["ADMIN_API_KEY"] = env["ADMIN_API_KEY"]
    BY <2>1, <2>2 DEF C!parse, C!Read
  <2> QED
    BY <2>1, <2>3, EnvironmentAssumption DEF C!OfferedAssumption
<1> QED
  BY <1>1, <1>2 DEF Typed

LEMMA ConfigInit == C!Init => ConfigInv
BY EnvironmentAssumption DEF C!Init, ConfigInv, C!ExampleAssumption

LEMMA ConfigStep == ConfigInv /\ [C!Next]_(C!vars) => ConfigInv'
<1> SUFFICES ASSUME ConfigInv, [C!Next]_(C!vars) PROVE ConfigInv'
  OBVIOUS
<1>1. ASSUME NEW v \in C!Var, NEW value \in Offered[v], C!Edit(v, value) PROVE ConfigInv'
  BY <1>1 DEF C!Edit, ConfigInv
<1>2. CASE C!Load
  <2>1. Typed(C!parse)
    BY ParseIsTyped DEF ConfigInv
  <2>2. boot' \in {"loaded", "refused"} /\ ~launched' /\ UNCHANGED env
    BY <1>2 DEF C!Load, ConfigInv
  <2>3. boot' = "loaded" => C!validate(cfg') = {}
    BY <1>2 DEF C!Load
  <2>4. Typed(cfg')
    BY <1>2, <2>1 DEF C!Load
  <2> QED
    BY <2>2, <2>3, <2>4 DEF ConfigInv
<1>3. CASE C!Connect
  BY <1>3 DEF C!Connect, ConfigInv
<1>4. CASE C!StartIngestion
  BY <1>4 DEF C!StartIngestion, ConfigInv
<1>5. CASE C!StartProcessing
  BY <1>5 DEF C!StartProcessing, ConfigInv
<1>6. CASE C!Stop
  BY <1>6 DEF C!Stop, ConfigInv
<1>7. CASE UNCHANGED C!vars
  BY <1>7 DEF C!vars, ConfigInv
<1> QED
  BY <1>1, <1>2, <1>3, <1>4, <1>5, <1>6, <1>7 DEF C!Next

LEMMA PassedIsSound == ConfigInv => C!ServesOnSoundConfig
<1> SUFFICES ASSUME ConfigInv PROVE C!ServesOnSoundConfig
  OBVIOUS
<1>1. ASSUME boot = "serving" \/ launched
      PROVE  /\ C!Number(cfg, "WORKER_CONCURRENCY") > 0
             /\ C!Number(cfg, "IG_MEDIA_LIMIT") > 0
             /\ C!Number(cfg, "LLM_POST_LIMIT") \in 1..C!MaxBatchRequests
             /\ C!Number(cfg, "BATCH_POLL_INTERVAL") < C!Number(cfg, "BATCH_POLL_TIMEOUT")
             /\ cfg["GEOCODE_BASE_URL"] = C!S("public") =>
                  C!Number(cfg, "GEOCODE_MIN_INTERVAL") >= 1000
             /\ cfg["ADMIN_API_KEY"] \in {C!Unset, C!S("long")}
  <2>1. C!validate(cfg) = {} /\ Typed(cfg)
    BY <1>1 DEF ConfigInv
  <2>2. \A v \in {"WORKER_CONCURRENCY", "IG_MEDIA_LIMIT", "LLM_POST_LIMIT",
                  "BATCH_POLL_INTERVAL", "BATCH_POLL_TIMEOUT", "GEOCODE_MIN_INTERVAL"} :
          C!Number(cfg, v) \in Int
    BY <2>1 DEF Typed, C!Number, C!Counts, C!Durations
  <2>3. C!OutOfRange(cfg) = {} /\ C!MissingOrBad(cfg) = {}
        /\ C!PollingBad(cfg) = {} /\ C!GeocodeBad(cfg) = {}
    BY <2>1 DEF C!validate
  <2>4. \A v \in {"WORKER_CONCURRENCY", "IG_MEDIA_LIMIT", "LLM_POST_LIMIT"} :
          ~(C!Number(cfg, v) < 1)
    BY <2>3 DEF C!OutOfRange, C!Counts
  <2>5. ~(C!Number(cfg, "LLM_POST_LIMIT") > C!MaxBatchRequests)
    BY <2>3 DEF C!OutOfRange
  <2>6. ~(C!Number(cfg, "BATCH_POLL_TIMEOUT") <= C!Number(cfg, "BATCH_POLL_INTERVAL"))
    BY <2>3 DEF C!PollingBad
  <2>7. cfg["GEOCODE_BASE_URL"] = C!S("public") =>
          ~(C!Number(cfg, "GEOCODE_MIN_INTERVAL") < 1000)
    BY <2>3 DEF C!GeocodeBad
  <2>8. cfg["ADMIN_API_KEY"] # C!S("short")
    <3>1. {v \in {"ADMIN_API_KEY"} : cfg[v] = C!S("short")} = {}
      BY <2>3 DEF C!MissingOrBad
    <3> QED
      BY <3>1
  <2>9. cfg["ADMIN_API_KEY"] \in {C!Unset, C!S("long")}
    BY <2>1, <2>8 DEF Typed
  <2>10. C!Number(cfg, "LLM_POST_LIMIT") \in 1..C!MaxBatchRequests
    <3>1. PICK n \in Int : n = C!Number(cfg, "LLM_POST_LIMIT")
      BY <2>2
    <3>2. PICK m \in Int : m = C!MaxBatchRequests
      BY DEF C!MaxBatchRequests
    <3>3. ~(n < 1) /\ ~(n > m)
      BY <2>4, <2>5, <3>1, <3>2
    <3>4. n \in 1..m
      BY <3>3
    <3> QED
      BY <3>1, <3>2, <3>4
  <2> QED
    BY <2>2, <2>4, <2>6, <2>7, <2>9, <2>10
<1>2. boot = "serving" =>
        C!S("bad") \notin {cfg["CRON_SCHEDULE"], cfg["PROCESSING_CRON_SCHEDULE"]}
  BY DEF ConfigInv
<1> QED
  BY <1>1, <1>2 DEF C!ServesOnSoundConfig

-----------------------------------------------------------------------------
(* The model's answers (Extraction).                                       *)

(* A post without an event has no review status left over from one.        *)
ReviewInv == event = X!NoEvent => review = "none"

LEMMA DecodedIsNoBlank ==
  ASSUME NEW p PROVE X!decodePayload(p) # X!NoEvent
<1>1. "absent" \notin DOMAIN X!decodePayload(p)
  BY DEF X!decodePayload
<1>2. "absent" \in DOMAIN X!NoEvent
  BY DEF X!NoEvent
<1> QED
  BY <1>1, <1>2

LEMMA HighIsReadable ==
  ASSUME NEW p, X!decodePayload(p).confidence = "high"
  PROVE  /\ p.confidence \in {"high", " High"}
         /\ p.start \in {"null", "day", "time"}
<1>1. X!Confidence(p) = "high"
  BY DEF X!decodePayload
<1>2. p.start \in {"null", "day", "time"}
  BY <1>1 DEF X!Confidence, X!parseDate
<1>3. X!NormalizeConfidence(p.confidence) = "high"
  BY <1>1 DEF X!Confidence
<1> QED
  BY <1>2, <1>3 DEF X!NormalizeConfidence

(* The cause an event needs to get on the calendar unseen.                 *)
Deserved(l) ==
  /\ l.type = "succeeded"
  /\ l.payload.isEvent
  /\ l.payload.confidence \in {"high", " High"}
  /\ l.payload.start \in {"null", "day", "time"}
Publishes == review' = "auto_published" /\ review # "auto_published"

LEMMA ReviewStep ==
  ASSUME ReviewInv, [X!Next]_(X!vars)
  PROVE  /\ ReviewInv'
         /\ Publishes => review = "none" /\ Deserved(line')
<1>1. ASSUME NEW l \in Lines, X!Apply(l), result' # X!Error, result'.isEvent
      PROVE  event' # X!NoEvent /\ (Publishes => review = "none" /\ Deserved(line'))
  <2>1. line' = l /\ X!Upsert(result') /\ result' = X!decodeEntry(l)
    BY <1>1 DEF X!Apply
  <2>2. l.type = "succeeded" /\ result' = X!decodePayload(l.payload)
    BY <1>1, <2>1 DEF X!decodeEntry
  <2>3. event' # X!NoEvent
    BY <2>1, <2>2, DecodedIsNoBlank DEF X!Upsert
  <2>4. ASSUME Publishes PROVE review = "none" /\ Deserved(line')
    <3>1. event = X!NoEvent /\ X!StartingReview(result') = "auto_published"
      BY <2>1, <2>4 DEF X!Upsert, Publishes
    <3>2. X!decodePayload(l.payload).confidence = "high"
      BY <2>2, <3>1 DEF X!StartingReview
    <3>3. l.payload.isEvent
      BY <1>1, <2>2 DEF X!decodePayload
    <3>4. Deserved(l)
      BY <2>2, <3>2, <3>3, HighIsReadable DEF Deserved
    <3> QED
      BY <2>1, <3>1, <3>4 DEF ReviewInv
  <2> QED
    BY <2>3, <2>4
<1>2. ASSUME NEW l \in Lines, X!Apply(l), ~(result' # X!Error /\ result'.isEvent)
      PROVE  UNCHANGED <<event, review>>
  BY <1>2 DEF X!Apply
<1>3. ASSUME NEW decision \in {"approved", "rejected"}, X!Review(decision)
      PROVE  event # X!NoEvent /\ UNCHANGED event /\ ~Publishes
  BY <1>3 DEF X!Review, Publishes
<1>4. CASE UNCHANGED <<event, review>>
  BY <1>4 DEF ReviewInv, X!NoEvent, Publishes
<1>5. UNCHANGED X!vars => UNCHANGED <<event, review>>
  BY DEF X!vars
<1>6. ASSUME NEW l \in Lines, X!Apply(l), result' # X!Error, result'.isEvent
      PROVE  ReviewInv'
  BY <1>1, <1>6 DEF ReviewInv, X!NoEvent
<1>7. ASSUME NEW decision \in {"approved", "rejected"}, X!Review(decision) PROVE ReviewInv'
  BY <1>3, <1>7 DEF ReviewInv, X!NoEvent
<1> QED
  BY <1>1, <1>2, <1>3, <1>4, <1>5, <1>6, <1>7 DEF X!Next

-----------------------------------------------------------------------------
(* The four edges together: a step of one of them leaves the others alone, *)
(* so each behaves as its own specification says.                          *)
LEMMA EachByItself == EdgesSpec => Spec /\ G!Spec /\ X!Spec /\ C!Spec
<1>1. EdgesInit => Init /\ G!Init /\ X!Init /\ C!Init
  BY DEF EdgesInit
<1>2. [EdgesNext]_<<edge, vars, graphVars, modelVars, environmentVars>> =>
        [Next]_vars /\ [G!Next]_(G!vars) /\ [X!Next]_(X!vars) /\ [C!Next]_(C!vars)
  BY DEF EdgesNext, graphVars, modelVars, environmentVars, G!vars, G!world, X!vars, C!vars
<1> QED
  BY <1>1, <1>2, PTL DEF EdgesSpec, Spec, G!Spec, X!Spec, C!Spec

(* Whatever Meta answers, in whatever trouble: an account is only called   *)
(* broken when it is, and our token, scope and quota stop the boot or run, *)
(* as long as the configuration lets the request be built.                 *)
THEOREM BlameIsRight == EdgesSpec => []KindNamesTheCulprit
<1>1. G!Init => G!KindNamesTheCulprit
  <2>1. G!Nothing.kind = "none"
    BY DEF G!Nothing, G!Failed, G!Outcome
  <2> QED
    BY <2>1 DEF G!Init, G!KindNamesTheCulprit
<1>2. G!KindNamesTheCulprit /\ [G!Next]_(G!vars) => G!KindNamesTheCulprit'
  BY GraphStep
<1> QED
  BY <1>1, <1>2, EachByItself, PTL DEF G!Spec, KindNamesTheCulprit

(* Whatever the operator writes into the environment, what serves, and the *)
(* run that starts during the boot, have the values the services rely on.  *)
THEOREM BootIsSound == EdgesSpec => []ServesOnSoundConfig
BY ConfigInit, ConfigStep, PassedIsSound, EachByItself, PTL DEF C!Spec, ServesOnSoundConfig

(* Whatever the model answers and in whatever order, an event gets on the  *)
(* calendar unseen only when its row is created, by an event line at high  *)
(* confidence whose start date is null or readable.                        *)
THEOREM PublishedOnlyForCause == EdgesSpec => PublishedForCause
<1>1. X!Init => ReviewInv
  BY DEF X!Init, ReviewInv
<1>2. ReviewInv /\ [X!Next]_(X!vars) =>
        /\ ReviewInv'
        /\ [review' = "auto_published" /\ review # "auto_published" =>
              /\ review = "none"
              /\ line'.type = "succeeded"
              /\ line'.payload.isEvent
              /\ line'.payload.confidence \in {"high", " High"}
              /\ line'.payload.start \in {"null", "day", "time"}]_(X!vars)
  BY ReviewStep DEF Publishes, Deserved
<1> QED
  BY <1>1, <1>2, EachByItself, PTL DEF X!Spec, PublishedForCause, X!PublishedForCause

-----------------------------------------------------------------------------
(* Lists.  Both lists of a row and the media of an answer are made by a    *)
(* loop, one word or node after the other, so what the loop has done is    *)
(* shown round by round.  Induction is stated for a set of numbers: the    *)
(* set of the numbers up to which the claim holds is all of Nat.           *)
LEMMA NatByStep ==
  ASSUME NEW T, 0 \in T, \A n \in Nat : n \in T => n + 1 \in T
  PROVE  Nat \subseteq T
<1> SUFFICES ASSUME Nat \ T # {} PROVE FALSE
  OBVIOUS
<1> DEFINE R == OpToRel(<, Nat)
<1>1. IsWellFoundedOn(R, Nat)
  BY NatLessThanWellFounded
<1>2. ASSUME NEW x \in Nat, NEW y \in Nat, x < y PROVE <<x, y>> \in R
  BY <1>2 DEF OpToRel
<1> HIDE DEF R
<1>3. PICK m \in Nat \ T : \A y \in Nat \ T : ~ (<<y, m>> \in R)
  BY <1>1, WFMin
<1>4. m # 0 /\ m - 1 \in Nat /\ m - 1 < m
  BY <1>3
<1>5. m - 1 \in T
  BY <1>2, <1>3, <1>4
<1>6. (m - 1) + 1 \in T
  BY <1>4, <1>5
<1> QED
  BY <1>3, <1>6

(* A set of positions has a last one, which is how a fold takes its turns. *)
LEMMA TopOfSubset ==
  ASSUME NEW n \in Nat, NEW s \in SUBSET (1..n), s # {}
  PROVE  X!Max(s) \in s /\ \A y \in s : y <= X!Max(s)
<1> DEFINE Topped(k) == \A t \in SUBSET (1..k) : t # {} => \E x \in t : \A y \in t : x >= y
           T == {k \in Nat : Topped(k)}
<1>1. 0 \in T
  <2>1. 1..0 = {}
    OBVIOUS
  <2>2. \A t \in SUBSET (1..0) : t = {}
    BY <2>1
  <2> QED
    BY <2>2
<1>2. ASSUME NEW k \in Nat, k \in T PROVE k + 1 \in T
  <2> SUFFICES ASSUME NEW t \in SUBSET (1..(k + 1)), t # {} PROVE \E x \in t : \A y \in t : x >= y
    OBVIOUS
  <2>1. CASE k + 1 \in t
    BY <2>1
  <2>2. CASE k + 1 \notin t
    <3>1. t \in SUBSET (1..k)
      BY <2>2
    <3> QED
      BY <1>2, <3>1
  <2> QED
    BY <2>1, <2>2
<1>3. n \in T
  <2> HIDE DEF T
  <2> QED
    BY <1>1, <1>2, NatByStep
<1>4. \E x \in s : \A y \in s : x >= y
  BY <1>3
<1> QED
  BY <1>4 DEF X!Max

LEMMA TopOfInterval == ASSUME NEW n \in Nat, n # 0 PROVE X!Max(1..n) = n
<1>1. 1..n # {} /\ n \in 1..n
  OBVIOUS
<1>2. X!Max(1..n) \in 1..n /\ \A y \in 1..n : y <= X!Max(1..n)
  BY <1>1, TopOfSubset
<1>3. PICK m : m = X!Max(1..n)
  OBVIOUS
<1>4. m \in 1..n /\ n <= m
  BY <1>1, <1>2, <1>3
<1> QED
  BY <1>3, <1>4

(* What a loop does with the next word: the loop that cleans a list, and   *)
(* the one that reads the nodes of an answer.                              *)
NoWord == ""
Good == "good"
Takes(loop, out, w) ==
  IF loop = "list" THEN w \notin {NoWord} \cup X!Range(out) ELSE w = Good
Grown(loop, out, w) == IF Takes(loop, out, w) THEN Append(out, w) ELSE out

(* A fold's value over a set of positions, from its value without the last.*)
Round(loop, words, f, s) ==
  IF s = {} THEN <<>> ELSE Grown(loop, f[s \ {X!Max(s)}], words[X!Max(s)])

IsFold(loop, words, n, iter) ==
  \A s \in SUBSET (1..n) : iter[s] = Round(loop, words, iter, s)

(* There is such a fold for a list of any length.                          *)
LEMMA RoundsExist ==
  ASSUME NEW loop, NEW words, NEW n \in Nat
  PROVE  \E f : f = [s \in SUBSET (1..n) |-> Round(loop, words, f, s)]
<1> DEFINE T == {k \in Nat : \E f : \A s \in SUBSET (1..k) : f[s] = Round(loop, words, f, s)}
<1>1. 0 \in T
  <2> DEFINE f == [s \in SUBSET (1..0) |-> <<>>]
  <2>1. \A s \in SUBSET (1..0) : s = {}
    OBVIOUS
  <2>2. \A s \in SUBSET (1..0) : f[s] = Round(loop, words, f, s)
    BY <2>1 DEF Round
  <2> QED
    BY <2>2
<1>2. ASSUME NEW k \in Nat, k \in T PROVE k + 1 \in T
  <2>1. PICK f : \A s \in SUBSET (1..k) : f[s] = Round(loop, words, f, s)
    BY <1>2
  <2> DEFINE g == [s \in SUBSET (1..(k + 1)) |-> Round(loop, words, f, s)]
  <2>2. ASSUME NEW s \in SUBSET (1..k) PROVE g[s] = f[s]
    <3>1. s \in SUBSET (1..(k + 1))
      OBVIOUS
    <3> QED
      BY <2>1, <3>1
  <2>6. \A s \in SUBSET (1..(k + 1)) : g[s] = Round(loop, words, f, s)
    OBVIOUS
  <2> HIDE DEF g
  <2>3. ASSUME NEW s \in SUBSET (1..(k + 1)), s # {}
        PROVE  s \ {X!Max(s)} \in SUBSET (1..k)
    <3>0. k + 1 \in Nat
      OBVIOUS
    <3>1. PICK m : m = X!Max(s)
      OBVIOUS
    <3>2. m \in s /\ \A y \in s : y <= m
      BY <2>3, <3>0, <3>1, TopOfSubset
    <3>3. \A y \in s \ {m} : y \in 1..k
      BY <3>2
    <3> QED
      BY <3>1, <3>3
  <2>4. ASSUME NEW s \in SUBSET (1..(k + 1)) PROVE Round(loop, words, f, s) = Round(loop, words, g, s)
    BY <2>2, <2>3 DEF Round
  <2>5. \A s \in SUBSET (1..(k + 1)) : g[s] = Round(loop, words, g, s)
    BY <2>4, <2>6
  <2>7. \E h : \A s \in SUBSET (1..(k + 1)) : h[s] = Round(loop, words, h, s)
    BY <2>5
  <2>8. k + 1 \in Nat
    OBVIOUS
  <2> QED
    BY <2>7, <2>8, Zenon
<1>3. n \in T
  <2> HIDE DEF T
  <2> QED
    BY <1>1, <1>2, NatByStep
<1>4. PICK f : \A s \in SUBSET (1..n) : f[s] = Round(loop, words, f, s)
  BY <1>3
<1> DEFINE g == [s \in SUBSET (1..n) |-> f[s]]
<1>5. ASSUME NEW s \in SUBSET (1..n) PROVE Round(loop, words, f, s) = Round(loop, words, g, s)
  <2>1. s # {} => s \ {X!Max(s)} \in SUBSET (1..n)
    OBVIOUS
  <2> QED
    BY <2>1 DEF Round
<1>6. g = [s \in SUBSET (1..n) |-> Round(loop, words, g, s)]
  BY <1>4, <1>5
<1> QED
  BY <1>6

(* The run of a loop over n words, from one round to the next.             *)
Runs(loop, words, n, outs) ==
  /\ outs[0] = <<>>
  /\ \A k \in 1..n : outs[k] = Grown(loop, outs[k - 1], words[k])

LEMMA FoldRuns ==
  ASSUME NEW loop, NEW words, NEW n \in Nat, NEW iter,
         IsFold(loop, words, n, iter)
  PROVE  \E outs : Runs(loop, words, n, outs) /\ outs[n] = iter[1..n]
<1> DEFINE outs == [k \in 0..n |-> iter[1..k]]
<1>4. outs[0] = <<>>
  <2>1. 1..0 = {} /\ 0 \in 0..n
    OBVIOUS
  <2> QED
    BY <2>1 DEF Round, IsFold
<1>5. ASSUME NEW k \in 1..n PROVE outs[k] = Grown(loop, outs[k - 1], words[k])
  <2>1. X!Max(1..k) = k
    BY TopOfInterval
  <2>2. (1..k) \ {k} = 1..(k - 1) /\ 1..k # {} /\ 1..k \in SUBSET (1..n)
    OBVIOUS
  <2>3. iter[1..k] = Round(loop, words, iter, 1..k)
    BY <2>2 DEF IsFold
  <2>4. iter[1..k] = Grown(loop, iter[1..(k - 1)], words[k])
    BY <2>1, <2>2, <2>3 DEF Round
  <2> QED
    BY <2>4
<1>6. outs[n] = iter[1..n]
  OBVIOUS
<1> HIDE DEF outs
<1> QED
  BY <1>4, <1>5, <1>6 DEF Runs

LEMMA FirstOfEachRuns ==
  ASSUME NEW loop, loop = "list", NEW words, NEW n \in Nat, DOMAIN words = 1..n
  PROVE  \E outs : Runs(loop, words, n, outs) /\ X!FirstOfEach(words) = outs[n]
<1> DEFINE iter == CHOOSE f : f = [s \in SUBSET (1..n) |-> Round(loop, words, f, s)]
<1>1. iter = [s \in SUBSET (1..n) |-> Round(loop, words, iter, s)]
  BY RoundsExist
<1>2. X!FirstOfEach(words) = iter[1..n]
  BY DEF X!FirstOfEach, X!FoldLeft, X!MapThenFoldSet, Round, Grown, Takes, NoWord
<1> HIDE DEF iter
<1>3. IsFold(loop, words, n, iter)
  BY <1>1 DEF IsFold
<1>4. \E outs : Runs(loop, words, n, outs) /\ outs[n] = iter[1..n]
  BY <1>3, FoldRuns
<1> QED
  BY <1>2, <1>4

LEMMA KeptRuns ==
  ASSUME NEW loop, loop = "nodes", NEW nodes, NEW n \in Nat, DOMAIN nodes = 1..n
  PROVE  \E outs : Runs(loop, nodes, n, outs) /\ G!Kept(nodes) = outs[n]
<1> DEFINE iter == CHOOSE f : f = [s \in SUBSET (1..n) |-> Round(loop, nodes, f, s)]
<1>1. iter = [s \in SUBSET (1..n) |-> Round(loop, nodes, iter, s)]
  BY RoundsExist
<1>2. G!Kept(nodes) = iter[1..n]
  BY DEF G!Kept, G!FoldLeft, G!MapThenFoldSet, Round, Grown, Takes, Good, X!Max, G!Max
<1> HIDE DEF iter
<1>3. IsFold(loop, nodes, n, iter)
  BY <1>1 DEF IsFold
<1>4. \E outs : Runs(loop, nodes, n, outs) /\ outs[n] = iter[1..n]
  BY <1>3, FoldRuns
<1> QED
  BY <1>2, <1>4

(* Each word once, none of them empty, and none of those read so far lost. *)
Cleaned(W, words, k, out) ==
  /\ out \in Seq(W)
  /\ \A i, j \in 1..Len(out) : out[i] = out[j] => i = j
  /\ \A j \in 1..Len(out) : out[j] # NoWord /\ \E i \in 1..k : out[j] = words[i]
  /\ \A i \in 1..k : words[i] # NoWord => \E j \in 1..Len(out) : out[j] = words[i]

(* One more word, whether it is dropped or kept.                           *)
LEMMA ListRound ==
  ASSUME NEW W, NEW words, NEW k \in Nat, NEW out, NEW next, Cleaned(W, words, k, out),
         words[k + 1] \in W,
         NEW loop, loop = "list", next = Grown(loop, out, words[k + 1])
  PROVE  Cleaned(W, words, k + 1, next)
<1>1. PICK w \in W : w = words[k + 1]
  OBVIOUS
<1>2. out \in Seq(W) /\ Len(out) \in Nat
  BY DEF Cleaned
<1>3. X!Range(out) = {out[i] : i \in 1..Len(out)}
  BY <1>2 DEF X!Range
<1>4. CASE w = NoWord \/ \E j \in 1..Len(out) : out[j] = w
  <2>1. next = out
    BY <1>1, <1>3, <1>4 DEF Grown, Takes
  <2>2. \A i \in 1..(k + 1) : words[i] # NoWord => \E j \in 1..Len(out) : out[j] = words[i]
    BY <1>1, <1>4 DEF Cleaned
  <2>3. \A j \in 1..Len(out) : out[j] # NoWord /\ \E i \in 1..(k + 1) : out[j] = words[i]
    BY DEF Cleaned
  <2>4. \A i, j \in 1..Len(out) : out[i] = out[j] => i = j
    BY DEF Cleaned
  <2> QED
    BY <1>2, <2>1, <2>2, <2>3, <2>4 DEF Cleaned
<1>5. CASE w # NoWord /\ \A j \in 1..Len(out) : out[j] # w
  <2>1. next = Append(out, w)
    BY <1>1, <1>3, <1>5 DEF Grown, Takes
  <2>3. /\ next \in Seq(W) /\ Len(next) = Len(out) + 1
        /\ next[Len(out) + 1] = w
        /\ \A i \in 1..Len(out) : next[i] = out[i]
    BY <1>2, <2>1
  <2>4. \A i, j \in 1..Len(next) : next[i] = next[j] => i = j
    <3> SUFFICES ASSUME NEW i \in 1..Len(next), NEW j \in 1..Len(next), next[i] = next[j]
                 PROVE  i = j
      OBVIOUS
    <3>1. CASE i \in 1..Len(out) /\ j \in 1..Len(out)
      BY <2>3, <3>1 DEF Cleaned
    <3>2. CASE i = Len(out) + 1 \/ j = Len(out) + 1
      BY <1>2, <1>5, <2>3, <3>2
    <3>3. /\ i \in 1..Len(out) \/ i = Len(out) + 1
          /\ j \in 1..Len(out) \/ j = Len(out) + 1
      BY <1>2, <2>3
    <3> QED
      BY <3>1, <3>2, <3>3
  <2>5. ASSUME NEW i \in 1..(k + 1), words[i] # NoWord
        PROVE  \E j \in 1..Len(next) : next[j] = words[i]
    <3>1. CASE i = k + 1
      BY <1>1, <1>2, <2>3, <3>1
    <3>2. CASE i # k + 1
      <4>1. PICK j \in 1..Len(out) : out[j] = words[i]
        BY <2>5, <3>2 DEF Cleaned
      <4>2. j \in 1..Len(next) /\ next[j] = words[i]
        BY <1>2, <2>3, <4>1
      <4> QED
        BY <4>2
    <3> QED
      BY <3>1, <3>2
  <2>6. ASSUME NEW j \in 1..Len(next)
        PROVE  next[j] # NoWord /\ \E i \in 1..(k + 1) : next[j] = words[i]
    <3>1. CASE j = Len(out) + 1
      BY <1>1, <1>5, <2>3, <3>1
    <3>2. CASE j # Len(out) + 1
      <4>1. j \in 1..Len(out) /\ next[j] = out[j]
        BY <1>2, <2>3, <3>2
      <4> QED
        BY <4>1 DEF Cleaned
    <3> QED
      BY <3>1, <3>2
  <2> QED
    BY <2>3, <2>4, <2>5, <2>6 DEF Cleaned
<1> QED
  BY <1>4, <1>5

(* Whatever words the model gives for a list, and however many: the ids    *)
(* and tags that are kept are all different, none is empty, and none that  *)
(* was asked for is lost (validateCategories, cleanTags).                  *)
THEOREM ListIsClean ==
  ASSUME NEW W, NEW words, NEW n \in Nat, DOMAIN words = 1..n, \A i \in 1..n : words[i] \in W
  PROVE  Cleaned(W, words, n, X!FirstOfEach(words))
<1> SUFFICES ASSUME NEW loop, loop = "list" PROVE Cleaned(W, words, n, X!FirstOfEach(words))
  OBVIOUS
<1>1. PICK outs : Runs(loop, words, n, outs) /\ X!FirstOfEach(words) = outs[n]
  BY FirstOfEachRuns
<1> DEFINE T == {k \in Nat : k <= n => Cleaned(W, words, k, outs[k])}
<1>2. 0 \in T
  <2>1. outs[0] = <<>>
    BY <1>1 DEF Runs
  <2>2. <<>> \in Seq(W) /\ Len(<<>>) = 0 /\ 1..0 = {}
    OBVIOUS
  <2>3. Cleaned(W, words, 0, <<>>)
    BY <2>2 DEF Cleaned
  <2> QED
    BY <2>1, <2>3
<1>3. ASSUME NEW k \in Nat, k \in T PROVE k + 1 \in T
  <2> SUFFICES ASSUME k + 1 <= n PROVE Cleaned(W, words, k + 1, outs[k + 1])
    OBVIOUS
  <2>1. k + 1 \in 1..n /\ (k + 1) - 1 = k
    OBVIOUS
  <2>2. outs[k + 1] = Grown(loop, outs[k], words[k + 1])
    BY <1>1, <2>1 DEF Runs
  <2>3. Cleaned(W, words, k, outs[k])
    BY <1>3
  <2>4. words[k + 1] \in W
    BY <2>1
  <2> HIDE DEF T
  <2> QED
    BY <2>2, <2>3, <2>4, ListRound
<1>4. n \in T
  <2> HIDE DEF T
  <2> QED
    BY <1>2, <1>3, NatByStep
<1> QED
  BY <1>1, <1>4

(* As many media as good nodes read so far.                                *)
GoodOnes(nodes, k) == {i \in 1..k : nodes[i] = Good}
Collected(nodes, k, media) ==
  media \in Seq({Good}) /\ Len(media) = Cardinality(GoodOnes(nodes, k))

LEMMA GoodOnesCounted ==
  ASSUME NEW nodes, NEW k \in Nat
  PROVE  /\ Cardinality(GoodOnes(nodes, k)) \in Nat
         /\ Cardinality(GoodOnes(nodes, k + 1)) =
              IF nodes[k + 1] = Good THEN Cardinality(GoodOnes(nodes, k)) + 1
              ELSE Cardinality(GoodOnes(nodes, k))
<1>1. IsFiniteSet(GoodOnes(nodes, k))
  <2>1. IsFiniteSet(1..k)
    BY FS_Interval
  <2>2. GoodOnes(nodes, k) \subseteq 1..k
    BY DEF GoodOnes
  <2> QED
    BY <2>1, <2>2, FS_Subset
<1>2. Cardinality(GoodOnes(nodes, k)) \in Nat
  BY <1>1, FS_CardinalityType
<1>3. CASE nodes[k + 1] = Good
  <2>1. GoodOnes(nodes, k + 1) = GoodOnes(nodes, k) \cup {k + 1} /\ k + 1 \notin GoodOnes(nodes, k)
    BY <1>3 DEF GoodOnes
  <2>2. Cardinality(GoodOnes(nodes, k) \cup {k + 1}) = Cardinality(GoodOnes(nodes, k)) + 1
    BY <1>1, <2>1, FS_AddElement
  <2> QED
    BY <1>2, <1>3, <2>1, <2>2
<1>4. CASE nodes[k + 1] # Good
  <2>1. GoodOnes(nodes, k + 1) = GoodOnes(nodes, k)
    BY <1>4 DEF GoodOnes
  <2> QED
    BY <1>2, <1>4, <2>1
<1> QED
  BY <1>3, <1>4

LEMMA NoneAtFirst == ASSUME NEW nodes PROVE Cardinality(GoodOnes(nodes, 0)) = 0
<1>1. GoodOnes(nodes, 0) = {}
  <2>1. 1..0 = {}
    OBVIOUS
  <2> QED
    BY <2>1 DEF GoodOnes
<1> QED
  BY <1>1, FS_EmptySet

LEMMA NodeRound ==
  ASSUME NEW nodes, NEW k \in Nat, NEW media, NEW next, Collected(nodes, k, media),
         NEW loop, loop = "nodes", next = Grown(loop, media, nodes[k + 1])
  PROVE  Collected(nodes, k + 1, next)
<1>1. next = IF nodes[k + 1] = Good THEN Append(media, nodes[k + 1]) ELSE media
  BY DEF Grown, Takes
<1>2. media \in Seq({Good}) /\ Len(media) = Cardinality(GoodOnes(nodes, k))
  BY DEF Collected
<1>3. CASE nodes[k + 1] = Good
  <2>1. next = Append(media, Good)
    BY <1>1, <1>3
  <2>2. next \in Seq({Good}) /\ Len(next) = Len(media) + 1
    BY <1>2, <2>1
  <2> QED
    BY <1>2, <1>3, <2>2, GoodOnesCounted DEF Collected
<1>4. CASE nodes[k + 1] # Good
  BY <1>1, <1>2, <1>4, GoodOnesCounted DEF Collected
<1> QED
  BY <1>3, <1>4

(* All the nodes: as many media as nodes that could be read.               *)
LEMMA NodesCollected ==
  ASSUME NEW nodes, NEW n \in Nat, DOMAIN nodes = 1..n
  PROVE  Collected(nodes, n, G!Kept(nodes))
<1> SUFFICES ASSUME NEW loop, loop = "nodes" PROVE Collected(nodes, n, G!Kept(nodes))
  OBVIOUS
<1>1. PICK outs : Runs(loop, nodes, n, outs) /\ G!Kept(nodes) = outs[n]
  BY KeptRuns
<1> DEFINE T == {k \in Nat : k <= n => Collected(nodes, k, outs[k])}
<1>2. 0 \in T
  <2>1. outs[0] = <<>>
    BY <1>1 DEF Runs
  <2>2. <<>> \in Seq({Good}) /\ Len(<<>>) = 0
    OBVIOUS
  <2>3. Collected(nodes, 0, <<>>)
    BY <2>2, NoneAtFirst DEF Collected
  <2> QED
    BY <2>1, <2>3
<1>3. ASSUME NEW k \in Nat, k \in T PROVE k + 1 \in T
  <2> SUFFICES ASSUME k + 1 <= n PROVE Collected(nodes, k + 1, outs[k + 1])
    OBVIOUS
  <2>1. k + 1 \in 1..n /\ (k + 1) - 1 = k
    OBVIOUS
  <2>2. outs[k + 1] = Grown(loop, outs[k], nodes[k + 1])
    BY <1>1, <2>1 DEF Runs
  <2>3. Collected(nodes, k, outs[k])
    BY <1>3
  <2> HIDE DEF T
  <2> QED
    BY <2>2, <2>3, NodeRound
<1>4. n \in T
  <2> HIDE DEF T
  <2> QED
    BY <1>2, <1>3, NatByStep
<1> QED
  BY <1>1, <1>4

-----------------------------------------------------------------------------
(* The row (Extraction).                                                   *)

(* A raw word becomes an id or a tag that there is, or nothing.            *)
LEMMA WordsMapped ==
  /\ \A w \in X!Word : X!Category(w) \in X!CategoryId \cup {NoWord}
  /\ \A w \in X!Word : X!Tag(w) \in X!TagWord \cup {NoWord}
<1>1. ASSUME NEW w \in X!Word PROVE X!Category(w) \in X!CategoryId \cup {NoWord}
  BY DEF X!Word, X!Category, X!CategoryId, NoWord
<1>2. ASSUME NEW w \in X!Word PROVE X!Tag(w) \in X!TagWord \cup {NoWord}
  BY DEF X!Word, X!Tag, X!TagWord, NoWord
<1> QED
  BY <1>1, <1>2

(* A list the frontend can render.                                         *)
Renders(W, out) == out \in Seq(W) /\ X!IsInjective(out) /\ X!Range(out) \subseteq W

LEMMA CleanedRenders ==
  ASSUME NEW W, NEW words, NEW n \in Nat, NEW out, Cleaned(W \cup {NoWord}, words, n, out)
  PROVE  Renders(W, out)
<1>1. /\ out \in Seq(W \cup {NoWord}) /\ Len(out) \in Nat /\ DOMAIN out = 1..Len(out)
      /\ \A i \in 1..Len(out) : out[i] \in W
  BY DEF Cleaned
<1>2. X!IsInjective(out)
  BY <1>1 DEF Cleaned, X!IsInjective
<1>3. X!Range(out) \subseteq W
  BY <1>1 DEF X!Range
<1>4. out \in Seq(W)
  BY <1>1
<1> QED
  BY <1>2, <1>3, <1>4 DEF Renders

LEMMA ListsRender ==
  ASSUME NEW raw \in Seq(X!Word)
  PROVE  /\ Renders(X!CategoryId, X!validateCategories(raw))
         /\ Renders(X!TagWord, X!cleanTags(raw))
<1> DEFINE n == Len(raw)
           ids == [i \in DOMAIN raw |-> X!Category(raw[i])]
           tags == [i \in DOMAIN raw |-> X!Tag(raw[i])]
<1>1. n \in Nat /\ DOMAIN raw = 1..n /\ \A i \in 1..n : raw[i] \in X!Word
  OBVIOUS
<1>2. DOMAIN ids = 1..n /\ \A i \in 1..n : ids[i] \in X!CategoryId \cup {NoWord}
  BY <1>1, WordsMapped
<1>3. DOMAIN tags = 1..n /\ \A i \in 1..n : tags[i] \in X!TagWord \cup {NoWord}
  BY <1>1, WordsMapped
<1>4. X!validateCategories(raw) = X!FirstOfEach(ids) /\ X!cleanTags(raw) = X!FirstOfEach(tags)
  BY DEF X!validateCategories, X!cleanTags
<1> HIDE DEF ids, tags, n
<1>5. Cleaned(X!CategoryId \cup {NoWord}, ids, n, X!FirstOfEach(ids))
  BY <1>1, <1>2, ListIsClean
<1>6. Cleaned(X!TagWord \cup {NoWord}, tags, n, X!FirstOfEach(tags))
  BY <1>1, <1>3, ListIsClean
<1> QED
  BY <1>1, <1>4, <1>5, <1>6, CleanedRenders

(* What the decoder makes of a payload is a row the frontend can render.   *)
CleanRow(r) ==
  /\ X!Range(r.categories) \subseteq X!CategoryId
  /\ X!IsInjective(r.categories) /\ X!IsInjective(r.tags)
  /\ "" \notin X!Range(r.tags)
  /\ r.price = null \/ r.price >= 0
  /\ r.startKnown => r.start = "time"
  /\ r.endKnown => r.end = "time"

LEMMA DecodedIsClean ==
  ASSUME NEW p \in X!Payload
  PROVE  X!decodePayload(p) \in X!Extracted /\ CleanRow(X!decodePayload(p))
<1> DEFINE r == X!decodePayload(p)
<1>0. DOMAIN r = {"isEvent", "confidence", "start", "startKnown", "end", "endKnown",
                  "price", "categories", "tags"}
  BY DEF X!decodePayload
<1>1. /\ r = [isEvent |-> p.isEvent, confidence |-> X!Confidence(p),
              start |-> X!parseDate(p.start), startKnown |-> X!TimeKnown(p.start, p.startFlag),
              end |-> X!parseDate(p.end), endKnown |-> X!TimeKnown(p.end, p.endFlag),
              price |-> X!sanitizePrice(p.price),
              categories |-> X!validateCategories(p.categories), tags |-> X!cleanTags(p.tags)]
  BY DEF X!decodePayload
<1>2. /\ p.isEvent \in BOOLEAN /\ p.categories \in Seq(X!Word) /\ p.tags \in Seq(X!Word)
      /\ p.price \in Int \cup {null} /\ p.start \in X!RawDate /\ p.end \in X!RawDate
      /\ p.startFlag \in BOOLEAN /\ p.endFlag \in BOOLEAN
  BY DEF X!Payload
<1>3. X!Confidence(p) \in {"high", "medium", "low"}
  BY DEF X!Confidence, X!NormalizeConfidence
<1>4. ASSUME NEW d, NEW flag \in BOOLEAN
      PROVE  /\ X!parseDate(d) \in X!Date /\ X!TimeKnown(d, flag) \in BOOLEAN
             /\ X!TimeKnown(d, flag) => X!parseDate(d) = "time"
  BY DEF X!parseDate, X!TimeKnown, X!Date
<1>5. X!sanitizePrice(p.price) \in Nat \cup {null}
  BY <1>2 DEF X!sanitizePrice
<1>6. /\ Renders(X!CategoryId, X!validateCategories(p.categories))
      /\ Renders(X!TagWord, X!cleanTags(p.tags))
  BY <1>2, ListsRender
<1>7. /\ X!validateCategories(p.categories) \in Seq(X!CategoryId)
      /\ X!cleanTags(p.tags) \in Seq(X!TagWord)
  BY <1>6 DEF Renders
<1>8. r \in X!Extracted
  BY <1>1, <1>2, <1>3, <1>4, <1>5, <1>7 DEF X!Extracted
<1>9. CleanRow(r)
  <2>0. r.categories = X!validateCategories(p.categories) /\ r.tags = X!cleanTags(p.tags)
    BY <1>1
  <2> HIDE DEF r
  <2>1. /\ X!IsInjective(r.categories) /\ X!IsInjective(r.tags)
        /\ X!Range(r.categories) \subseteq X!CategoryId
        /\ X!Range(r.tags) \subseteq X!TagWord
    BY <1>6, <2>0 DEF Renders
  <2>4. \A w \in X!TagWord : w # ""
    BY DEF X!TagWord
  <2>5. "" \notin X!Range(r.tags)
    BY <2>1, <2>4
  <2>2. r.price = null \/ r.price >= 0
    BY <1>1, <1>5 DEF r
  <2>3. (r.startKnown => r.start = "time") /\ (r.endKnown => r.end = "time")
    BY <1>1, <1>2, <1>4 DEF r
  <2> QED
    BY <2>1, <2>2, <2>3, <2>5 DEF CleanRow
<1> QED
  BY <1>8, <1>9

(* Only a clean row gets in, and it stays as it was written.               *)
RowInv == X!TypeOK /\ (event # X!NoEvent => CleanRow(event))

LEMMA DecodedLine ==
  ASSUME NEW l \in Lines, X!decodeEntry(l) # X!Error
  PROVE  /\ X!decodeEntry(l) \in X!Extracted /\ CleanRow(X!decodeEntry(l))
         /\ X!decodeEntry(l) # X!NoEvent
<1>1. l.type = "succeeded" /\ X!decodeEntry(l) = X!decodePayload(l.payload)
  BY DEF X!decodeEntry
<1>2. l \in X!Line
  BY ModelAssumption DEF X!LineAssumption
<1>3. l.payload \in X!Payload
  BY <1>1, <1>2 DEF X!Line
<1> QED
  BY <1>1, <1>3, DecodedIsClean, DecodedIsNoBlank

LEMMA RowInit == X!Init => RowInv
BY DEF X!Init, RowInv, X!TypeOK

LEMMA RowStep == RowInv /\ [X!Next]_(X!vars) => RowInv'
<1> SUFFICES ASSUME RowInv, [X!Next]_(X!vars) PROVE RowInv'
  OBVIOUS
<1>1. ASSUME NEW l \in Lines, X!Apply(l) PROVE RowInv'
  <2>1. line' \in Lines \cup {X!NoLine} /\ result' = X!decodeEntry(l)
    BY <1>1 DEF X!Apply
  <2>2. result' \in X!Extracted \cup {X!Error}
    BY <2>1, DecodedLine
  <2>3. CASE result' # X!Error /\ result'.isEvent
    <3>1. X!Upsert(result')
      BY <1>1, <2>3 DEF X!Apply
    <3>2. event' \in X!Extracted /\ CleanRow(event') /\ event' # X!NoEvent
      BY <2>1, <2>3, <3>1, DecodedLine DEF X!Upsert
    <3>3. review' \in {"auto_published", "pending", "approved", "rejected"}
      BY <3>1 DEF X!Upsert, X!StartingReview, RowInv, X!TypeOK
    <3> QED
      BY <2>1, <2>2, <3>2, <3>3 DEF RowInv, X!TypeOK
  <2>4. CASE ~(result' # X!Error /\ result'.isEvent)
    <3>1. UNCHANGED <<event, review>>
      BY <1>1, <2>4 DEF X!Apply
    <3> QED
      BY <2>1, <2>2, <3>1 DEF RowInv, X!TypeOK, CleanRow
  <2> QED
    BY <2>3, <2>4
<1>2. ASSUME NEW decision \in {"approved", "rejected"}, X!Review(decision) PROVE RowInv'
  BY <1>2 DEF X!Review, RowInv, X!TypeOK, CleanRow
<1>3. CASE UNCHANGED X!vars
  BY <1>3 DEF X!vars, RowInv, X!TypeOK, CleanRow
<1> QED
  BY <1>1, <1>2, <1>3 DEF X!Next

(* Whatever the model answers about a post, however often it is extracted  *)
(* again: no id twice and none invented, no price below zero, and no time  *)
(* called known that the date did not give is ever in the row.             *)
THEOREM RowsAreClean == EdgesSpec => []RowIsClean
<1>1. RowInv => X!RowIsClean
  BY DEF RowInv, CleanRow, X!RowIsClean
<1> QED
  BY <1>1, RowInit, RowStep, EachByItself, PTL DEF X!Spec, RowIsClean

-----------------------------------------------------------------------------
(* The media nodes (GraphAnswers).                                         *)

(* The answers that Meta gives, and what the provider can make of them.    *)
Answers(ans) ==
  /\ ans.status \in {0, 200, 400, 401, 403, 429, 500, 503, 504}
  /\ ans.body.type \in {"error", "html", "bare", "document"}
  /\ \E n \in Nat : DOMAIN ans.body.nodes = 1..n
Outcomes(o) ==
  /\ o.kind \in {"none", "ok", "permanent", "transient", "fatal", "ctx"}
  /\ o.media \in Seq({Good})

LEMMA BodyForms ==
  ASSUME NEW status \in {0, 200, 400, 401, 403, 429, 500, 503, 504}
  PROVE  /\ \A code : Answers(G!Http(status, G!Error(code)))
         /\ Answers(G!Http(status, G!Html)) /\ Answers(G!Http(status, G!Bare))
         /\ \A nodes : (\E n \in Nat : DOMAIN nodes = 1..n) =>
              Answers(G!Http(status, G!Document(nodes)))
<1>1. DOMAIN <<>> = 1..0
  OBVIOUS
<1>2. ASSUME NEW code PROVE Answers(G!Http(status, G!Error(code)))
  BY <1>1 DEF Answers, G!Http, G!Error
<1>3. Answers(G!Http(status, G!Html)) /\ Answers(G!Http(status, G!Bare))
  BY <1>1 DEF Answers, G!Http, G!Html, G!Bare
<1>4. ASSUME NEW nodes, \E n \in Nat : DOMAIN nodes = 1..n
      PROVE  Answers(G!Http(status, G!Document(nodes)))
  BY <1>4 DEF Answers, G!Http, G!Document
<1> QED
  BY <1>2, <1>3, <1>4

LEMMA TroubleForms == ASSUME NEW ans \in G!Trouble PROVE Answers(ans)
<1>1. \/ \E s \in {400, 401, 403, 500} : \E c : ans = G!Http(s, G!Error(c))
      \/ \E s \in {200, 429, 503, 504} : ans = G!Http(s, G!Html)
  BY DEF G!Trouble
<1> QED
  BY <1>1, BodyForms

LEMMA AnswerForms ==
  /\ \A ans \in G!LookupAnswers : Answers(ans)
  /\ \A ans \in G!MeAnswers : Answers(ans)
<1>1. ASSUME NEW ans \in G!LookupAnswers PROVE Answers(ans)
  <2>1. \/ ans \in G!Trouble
        \/ \E s \in {400, 403} : \E c : ans = G!Http(s, G!Error(c))
        \/ ans = G!Http(200, G!Bare)
        \/ \E nodes \in G!Nodes : ans = G!Http(200, G!Document(nodes))
    BY DEF G!LookupAnswers
  <2>2. ASSUME NEW nodes \in G!Nodes PROVE \E n \in Nat : DOMAIN nodes = 1..n
    BY GraphAssumption DEF G!Nodes, G!NodesAssumption
  <2> QED
    BY <2>1, <2>2, TroubleForms, BodyForms
<1>2. ASSUME NEW ans \in G!MeAnswers PROVE Answers(ans)
  <2>1. \/ ans \in G!Trouble
        \/ ans = G!Http(200, G!Bare)
        \/ ans = G!Http(200, G!Document(<<>>))
    BY DEF G!MeAnswers
  <2>2. DOMAIN <<>> = 1..0
    OBVIOUS
  <2> QED
    BY <2>1, <2>2, TroubleForms, BodyForms
<1> QED
  BY <1>1, <1>2

LEMMA FailedForm ==
  ASSUME NEW code, NEW kind \in {"none", "permanent", "transient", "fatal", "ctx"}
  PROVE  Outcomes(G!Failed(kind, code))
BY DEF Outcomes, G!Failed, G!Outcome

LEMMA ReadingForms ==
  ASSUME NEW ans, Answers(ans)
  PROVE  Outcomes(G!Discovered(ans)) /\ Outcomes(G!TokenOf(ans))
<1>1. Outcomes(G!decodeGraphError(ans))
  <2>1. G!classify(ans.body.code, ans.status) \in {"permanent", "transient", "fatal"}
    BY DEF G!classify, G!Kinds
  <2> QED
    BY <2>1, FailedForm DEF G!decodeGraphError
<1>2. \A code : Outcomes(G!Failed("transient", code)) /\ Outcomes(G!Failed("permanent", code))
                 /\ Outcomes(G!Failed("fatal", code))
  BY FailedForm
<1>3. Outcomes(G!Outcome("ok", 0, G!Kept(ans.body.nodes)))
  <2>1. PICK n \in Nat : DOMAIN ans.body.nodes = 1..n
    BY DEF Answers
  <2>2. G!Kept(ans.body.nodes) \in Seq({Good})
    BY <2>1, NodesCollected DEF Collected
  <2> QED
    BY <2>2 DEF Outcomes, G!Outcome
<1>4. Outcomes(G!Outcome("ok", 0, <<>>))
  BY DEF Outcomes, G!Outcome
<1>5. Outcomes(G!Discovered(ans))
  BY <1>1, <1>2, <1>3 DEF G!Discovered, Answers
<1>6. Outcomes(G!TokenOf(ans))
  BY <1>1, <1>2, <1>4 DEF G!TokenOf, Answers
<1> QED
  BY <1>5, <1>6

LEMMA SameCount == ASSUME NEW S PROVE G!Cardinality(S) = Cardinality(S)
BY DEF G!Cardinality, Cardinality, G!IsFiniteSet, IsFiniteSet

(* A bad node costs itself.                                                *)
LEMMA DocumentIsKept ==
  ASSUME NEW ans, Answers(ans), ans.status = 200, ans.body.type = "document"
  PROVE  /\ G!Discovered(ans).kind = "ok"
         /\ Len(G!Discovered(ans).media) =
              Cardinality({i \in DOMAIN ans.body.nodes : ans.body.nodes[i] = "good"})
<1>1. G!Discovered(ans) = G!Outcome("ok", 0, G!Kept(ans.body.nodes))
  BY DEF G!Discovered, G!IsError, G!IsOk
<1>2. PICK n \in Nat : DOMAIN ans.body.nodes = 1..n
  BY DEF Answers
<1>3. Len(G!Kept(ans.body.nodes)) = Cardinality(GoodOnes(ans.body.nodes, n))
  BY <1>2, NodesCollected DEF Collected
<1>4. GoodOnes(ans.body.nodes, n) = {i \in DOMAIN ans.body.nodes : ans.body.nodes[i] = "good"}
  BY <1>2 DEF GoodOnes, Good
<1>5. /\ G!Discovered(ans).kind = "ok"
      /\ G!Discovered(ans).media = G!Kept(ans.body.nodes)
  BY <1>1 DEF G!Outcome
<1> QED
  BY <1>3, <1>4, <1>5

(* What the provider holds is an answer of Meta's and its own verdict.     *)
GraphInv == G!TypeOK /\ G!BadNodesCostThemselves

LEMMA SilenceForms ==
  /\ Answers(G!Silence) /\ G!Silence.status = 0 /\ Outcomes(G!Nothing)
  /\ Outcomes(G!NotBuilt) /\ \A o \in G!NoAnswer : Outcomes(o)
<1>1. Answers(G!Silence) /\ G!Silence.status = 0
  <2>1. Answers(G!Http(0, G!Html))
    BY BodyForms
  <2> QED
    BY <2>1 DEF G!Silence, G!Http
<1>2. Outcomes(G!Nothing)
  BY FailedForm DEF G!Nothing
<1>3. Outcomes(G!NotBuilt) /\ \A o \in G!NoAnswer : Outcomes(o)
  BY FailedForm DEF G!NotBuilt, G!NoAnswer
<1> QED
  BY <1>1, <1>2, <1>3

LEMMA GraphInit == G!Init => GraphInv
<1> SUFFICES ASSUME G!Init PROVE GraphInv
  OBVIOUS
<1>1. Answers(answer) /\ Outcomes(outcome)
  BY SilenceForms DEF G!Init
<1>2. G!TypeOK
  BY <1>1 DEF G!Init, G!TypeOK, Answers, Outcomes, Good
<1>3. G!BadNodesCostThemselves
  BY DEF G!Init, G!BadNodesCostThemselves
<1> QED
  BY <1>2, <1>3 DEF GraphInv

LEMMA GraphInvStep == GraphInv /\ [G!Next]_(G!vars) => GraphInv'
<1> SUFFICES ASSUME GraphInv, [G!Next]_(G!vars) PROVE GraphInv'
  OBVIOUS
<1>0. ASSUME NEW ans, Answers(ans), answer' = ans, Outcomes(outcome'),
             booted' \in BOOLEAN, asked' \in {"none", "me", "account"},
             token' \in {"good", "expired", "unscoped"},
             account' \in {"business", "personal", "gone"},
             weather' \in {"fine", "limited", "outage", "network"},
             path' \in {"sound", "badUser", "badVersion"}
      PROVE  G!TypeOK'
  BY <1>0 DEF G!TypeOK, Answers, Outcomes, Good
<1>1. CASE G!WorldMoves
  <2>1. G!TypeOK'
    BY <1>0, <1>1, SilenceForms DEF G!WorldMoves, GraphInv, G!TypeOK
  <2>2. G!BadNodesCostThemselves'
    BY <1>1 DEF G!WorldMoves, G!BadNodesCostThemselves
  <2> QED
    BY <2>1, <2>2 DEF GraphInv
<1>2. CASE G!VerifyToken
  <2>1. \E ans : Answers(ans) /\ answer' = ans /\ Outcomes(outcome')
    <3>1. CASE ~G!Builds("me") \/ weather = "network"
      BY <1>2, <3>1, SilenceForms DEF G!VerifyToken
    <3>2. CASE G!Builds("me") /\ weather # "network"
      BY <1>2, <3>2, AnswerForms, ReadingForms DEF G!VerifyToken
    <3> QED
      BY <3>1, <3>2
  <2>2. G!TypeOK'
    BY <1>0, <1>2, <2>1 DEF G!VerifyToken, G!world, GraphInv, G!TypeOK
  <2>3. G!BadNodesCostThemselves'
    BY <1>2 DEF G!VerifyToken, G!BadNodesCostThemselves
  <2> QED
    BY <2>2, <2>3 DEF GraphInv
<1>3. CASE G!DiscoverMedia
  <2>1. CASE ~G!Builds("account") \/ weather = "network"
    <3>1. answer' = G!Silence /\ Outcomes(outcome')
      BY <1>3, <2>1, SilenceForms DEF G!DiscoverMedia
    <3>2. G!TypeOK'
      BY <1>0, <1>3, <3>1, SilenceForms DEF G!DiscoverMedia, G!world, GraphInv, G!TypeOK
    <3>3. G!BadNodesCostThemselves'
      BY <3>1, SilenceForms DEF G!BadNodesCostThemselves
    <3> QED
      BY <3>2, <3>3 DEF GraphInv
  <2>2. CASE G!Builds("account") /\ weather # "network"
    <3>1. PICK ans : Answers(ans) /\ answer' = ans /\ outcome' = G!Discovered(ans)
      BY <1>3, <2>2, AnswerForms DEF G!DiscoverMedia
    <3>2. G!TypeOK'
      BY <1>0, <1>3, <3>1, ReadingForms DEF G!DiscoverMedia, G!world, GraphInv, G!TypeOK
    <3>3. G!BadNodesCostThemselves'
      <4>1. ans.status = 200 /\ ans.body.type = "document" =>
              /\ outcome'.kind = "ok"
              /\ Len(outcome'.media) =
                   Cardinality({i \in DOMAIN ans.body.nodes : ans.body.nodes[i] = "good"})
        BY <3>1, DocumentIsKept
      <4> QED
        BY <3>1, <4>1, SameCount DEF G!BadNodesCostThemselves
    <3> QED
      BY <3>2, <3>3 DEF GraphInv
  <2> QED
    BY <2>1, <2>2
<1>4. CASE UNCHANGED G!vars
  BY <1>4 DEF G!vars, G!world, GraphInv, G!TypeOK, G!BadNodesCostThemselves
<1> QED
  BY <1>1, <1>2, <1>3, <1>4 DEF G!Next

(* Whatever Meta puts into the list of media, and however long it is: a    *)
(* node that cannot be read costs that node, and every other is ingested.  *)
THEOREM BadNodesCostNoMore == EdgesSpec => []BadNodesCostThemselves
BY GraphInit, GraphInvStep, EachByItself, PTL DEF G!Spec, GraphInv, BadNodesCostThemselves

-----------------------------------------------------------------------------
(* The text (Extraction).  Stripping a fence takes pieces off both ends of *)
(* the text, so every intermediate text is a part of it.                   *)

(* u is the part of t that starts after its first d tokens.                *)
Part(u, t, d) ==
  /\ u \in Seq(X!Token) /\ d \in Nat /\ Len(u) + d <= Len(t)
  /\ \A k \in 1..Len(u) : u[k] = t[k + d]
Inside(u, d, i) == d < i /\ i <= d + Len(u)

LEMMA PartOfPart ==
  ASSUME NEW t \in Seq(X!Token), NEW u, NEW v, NEW d, NEW e, Part(u, t, d), Part(v, u, e)
  PROVE  Part(v, t, d + e)
<1>1. \A k \in 1..Len(v) : k + e \in 1..Len(u)
  BY DEF Part
<1>2. \A k \in 1..Len(v) : v[k] = t[(k + e) + d] /\ (k + e) + d = k + (d + e)
  BY <1>1 DEF Part
<1> QED
  BY <1>2 DEF Part

LEMMA PartIsSlice ==
  ASSUME NEW t \in Seq(X!Token), NEW lo \in Nat, NEW hi \in Nat, lo >= 1, hi <= Len(t), lo <= hi + 1
  PROVE  /\ Part(SubSeq(t, lo, hi), t, lo - 1)
         /\ Len(SubSeq(t, lo, hi)) = hi - lo + 1
<1> DEFINE u == SubSeq(t, lo, hi)
<1>1. Len(u) = hi - lo + 1 /\ u \in Seq(X!Token)
  OBVIOUS
<1>2. \A k \in 1..(hi - lo + 1) : u[k] = t[k + (lo - 1)]
  OBVIOUS
<1> QED
  BY <1>1, <1>2 DEF Part

(* The least and the greatest of a set of positions.                       *)
LEMMA EndsOfSet ==
  ASSUME NEW n \in Nat, NEW s \in SUBSET (1..n), s # {}
  PROVE  /\ X!Min(s) \in s /\ \A y \in s : X!Min(s) <= y
         /\ X!Max(s) \in s /\ \A y \in s : y <= X!Max(s)
<1> DEFINE R == OpToRel(<, Nat)
<1>1. IsWellFoundedOn(R, Nat)
  BY NatLessThanWellFounded
<1>2. ASSUME NEW x \in Nat, NEW y \in Nat, x < y PROVE <<x, y>> \in R
  BY <1>2 DEF OpToRel
<1> HIDE DEF R
<1>3. s \subseteq Nat
  OBVIOUS
<1>4. PICK m \in s : \A y \in s : ~ (<<y, m>> \in R)
  BY <1>1, <1>3, WFMin
<1>5. ASSUME NEW y \in s PROVE m <= y
  <2>1. m \in Nat /\ y \in Nat
    BY <1>3
  <2>2. ~ (y < m)
    BY <1>2, <1>4, <2>1
  <2> QED
    BY <2>1, <2>2
<1>6. \E x \in s : \A y \in s : x <= y
  BY <1>5
<1>7. X!Min(s) \in s /\ \A y \in s : X!Min(s) <= y
  BY <1>6 DEF X!Min
<1> QED
  BY <1>7, TopOfSubset

(* strings.TrimSpace takes line breaks away at both ends, and all of them. *)
LEMMA TrimShape ==
  ASSUME NEW t \in Seq(X!Token)
  PROVE  \E d : /\ Part(X!Trim(t), t, d)
                /\ \A i \in 1..Len(t) : Inside(X!Trim(t), d, i) \/ t[i] = "nl"
                /\ X!Trim(t) # <<>> =>
                     X!Trim(t)[1] # "nl" /\ X!Trim(t)[Len(X!Trim(t))] # "nl"
<1> DEFINE ink == {i \in DOMAIN t : t[i] # "nl"}
           u == X!Trim(t)
<1>0. DOMAIN t = 1..Len(t) /\ Len(t) \in Nat
  OBVIOUS
<1>1. CASE ink = {}
  <2>1. u = <<>>
    BY <1>1 DEF X!Trim
  <2>2. Part(u, t, 0)
    BY <2>1 DEF Part
  <2>3. \A i \in 1..Len(t) : t[i] = "nl"
    BY <1>0, <1>1
  <2> QED
    BY <2>1, <2>2, <2>3
<1>2. CASE ink # {}
  <2>1. PICK lo, hi : lo = X!Min(ink) /\ hi = X!Max(ink)
    OBVIOUS
  <2>2. /\ lo \in ink /\ \A y \in ink : lo <= y
        /\ hi \in ink /\ \A y \in ink : y <= hi
    BY <1>0, <1>2, <2>1, EndsOfSet
  <2>3. lo \in 1..Len(t) /\ hi \in 1..Len(t) /\ lo <= hi
    BY <2>2
  <2>4. u = SubSeq(t, lo, hi)
    BY <1>2, <2>1 DEF X!Trim
  <2>5. Part(u, t, lo - 1) /\ Len(u) = hi - lo + 1
    BY <2>3, <2>4, PartIsSlice
  <2>6. u[1] = t[lo] /\ u[Len(u)] = t[hi]
    BY <2>3, <2>5 DEF Part
  <2>7. \A i \in 1..Len(t) : Inside(u, lo - 1, i) \/ t[i] = "nl"
    BY <1>0, <2>2, <2>3, <2>5 DEF Inside
  <2> HIDE DEF u
  <2> QED
    BY <2>2, <2>5, <2>6, <2>7 DEF u
<1> QED
  BY <1>1, <1>2

(* What follows the first line break.                                      *)
LEMMA RestShape ==
  ASSUME NEW t \in Seq(X!Token)
  PROVE  \E d : /\ Part(X!Rest(t), t, d) /\ Len(X!Rest(t)) + d = Len(t)
                /\ \A i \in 1..(d - 1) : t[i] # "nl"
                /\ d = 0 => \A i \in 1..Len(t) : t[i] # "nl"
                /\ d # 0 => t[d] = "nl"
<1> DEFINE breaks == {i \in DOMAIN t : t[i] = "nl"}
<1>0. DOMAIN t = 1..Len(t) /\ Len(t) \in Nat
  OBVIOUS
<1>1. CASE breaks = {}
  <2>1. X!Rest(t) = t
    BY <1>1 DEF X!Rest
  <2>2. Part(t, t, 0)
    BY DEF Part
  <2> QED
    BY <1>0, <1>1, <2>1, <2>2
<1>2. CASE breaks # {}
  <2>1. PICK d : d = X!Min(breaks)
    OBVIOUS
  <2>2. d \in breaks /\ \A y \in breaks : d <= y
    BY <1>0, <1>2, <2>1, EndsOfSet
  <2>3. X!Rest(t) = SubSeq(t, d + 1, Len(t))
    BY <1>2, <2>1 DEF X!Rest
  <2>4. Part(X!Rest(t), t, d) /\ Len(X!Rest(t)) = Len(t) - d
    BY <1>0, <2>2, <2>3, PartIsSlice
  <2> QED
    BY <1>0, <2>2, <2>4
<1> QED
  BY <1>1, <1>2

(* The closing fence goes if it is the last token.                         *)
LEMMA TrimFenceShape ==
  ASSUME NEW t \in Seq(X!Token)
  PROVE  /\ Part(X!TrimFence(t), t, 0)
         /\ IF t # <<>> /\ t[Len(t)] = "fence"
            THEN Len(X!TrimFence(t)) = Len(t) - 1
            ELSE X!TrimFence(t) = t
<1>1. CASE t # <<>> /\ t[Len(t)] = "fence"
  <2>1. X!TrimFence(t) = SubSeq(t, 1, Len(t) - 1)
    BY <1>1 DEF X!TrimFence, X!Last, X!Front
  <2>2. Len(t) \in Nat /\ Len(t) - 1 \in Nat
    BY <1>1
  <2>3. Part(X!TrimFence(t), t, 0) /\ Len(X!TrimFence(t)) = Len(t) - 1
    <3>1. PICK hi : hi = Len(t) - 1
      OBVIOUS
    <3>2. PICK lo : lo = 1
      OBVIOUS
    <3>3. hi \in Nat /\ lo \in Nat /\ lo >= 1 /\ hi <= Len(t) /\ lo <= hi + 1
      BY <2>2, <3>1, <3>2
    <3>4. Part(SubSeq(t, lo, hi), t, lo - 1) /\ Len(SubSeq(t, lo, hi)) = hi - lo + 1
      BY <3>3, PartIsSlice
    <3>5. lo - 1 = 0 /\ hi - lo + 1 = Len(t) - 1
      BY <2>2, <3>1, <3>2
    <3> QED
      BY <2>1, <3>1, <3>2, <3>4, <3>5
  <2> QED
    BY <1>1, <2>3
<1>2. CASE ~(t # <<>> /\ t[Len(t)] = "fence")
  BY <1>2 DEF X!TrimFence, X!Last, Part
<1> QED
  BY <1>1, <1>2

(* Prose survives whatever is stripped, and makes the text unreadable.     *)
HasProse(t) == \E i \in 1..Len(t) : t[i] = "prose"

LEMMA ProseIsNoJson ==
  ASSUME NEW t \in Seq(X!Token), HasProse(t) PROVE ~X!IsJson(t)
BY DEF HasProse, X!IsJson

LEMMA TrimKeepsProse ==
  ASSUME NEW t \in Seq(X!Token), HasProse(t)
  PROVE  X!Trim(t) \in Seq(X!Token) /\ HasProse(X!Trim(t))
<1>1. PICK d : /\ Part(X!Trim(t), t, d)
               /\ \A i \in 1..Len(t) : Inside(X!Trim(t), d, i) \/ t[i] = "nl"
  BY TrimShape
<1>2. PICK i \in 1..Len(t) : t[i] = "prose"
  BY DEF HasProse
<1>3. Inside(X!Trim(t), d, i)
  BY <1>1, <1>2
<1>4. i - d \in 1..Len(X!Trim(t)) /\ i = (i - d) + d
  BY <1>1, <1>3 DEF Inside, Part
<1>5. X!Trim(t)[i - d] = t[i]
  BY <1>1, <1>4 DEF Part
<1> QED
  BY <1>1, <1>2, <1>4, <1>5 DEF HasProse, Part

LEMMA TrimFenceKeepsProse ==
  ASSUME NEW t \in Seq(X!Token), HasProse(t)
  PROVE  X!TrimFence(t) \in Seq(X!Token) /\ HasProse(X!TrimFence(t))
<1>1. PICK i \in 1..Len(t) : t[i] = "prose"
  BY DEF HasProse
<1>2. Part(X!TrimFence(t), t, 0) /\ (Len(X!TrimFence(t)) = Len(t) - 1 => t[Len(t)] = "fence")
      /\ Len(X!TrimFence(t)) \in {Len(t), Len(t) - 1}
  BY TrimFenceShape
<1>3. i \in 1..Len(X!TrimFence(t))
  BY <1>1, <1>2 DEF Part
<1>4. X!TrimFence(t)[i] = t[i]
  BY <1>2, <1>3 DEF Part
<1> QED
  BY <1>1, <1>2, <1>3, <1>4 DEF HasProse, Part

(* The opening fence takes its own line with it, and nothing else.         *)
LEMMA OpeningKeepsProse ==
  ASSUME NEW t \in Seq(X!Token), NEW i \in (1..Len(t)) \ X!FenceLine(t), t[i] = "prose",
         X!IsFenced(X!Trim(t))
  PROVE  LET rest == X!Rest(Tail(X!Trim(t))) IN rest \in Seq(X!Token) /\ HasProse(rest)
<1> DEFINE u == X!Trim(t)
           w == Tail(u)
           r == X!Rest(w)
<1>1. PICK d : /\ Part(u, t, d)
               /\ \A k \in 1..Len(t) : Inside(u, d, k) \/ t[k] = "nl"
  BY TrimShape
<1>2. u # <<>> /\ u[1] = "fence" /\ u \in Seq(X!Token)
  BY <1>1 DEF X!IsFenced, Part
<1> HIDE DEF u
<1>3. w \in Seq(X!Token) /\ Len(w) = Len(u) - 1 /\ Len(u) \in Nat
  BY <1>2
<1>4. \A k \in 1..Len(w) : w[k] = u[k + 1]
  BY <1>2
<1>5. Part(w, u, 1)
  BY <1>3, <1>4 DEF Part
<1>6. Part(w, t, d + 1)
  BY <1>1, <1>2, <1>3, <1>5, PartOfPart
<1> HIDE DEF w
<1>7. PICK e : /\ Part(r, w, e) /\ Len(r) + e = Len(w)
               /\ \A k \in 1..(e - 1) : w[k] # "nl"
               /\ e # 0 => w[e] = "nl"
  BY <1>3, RestShape
<1> HIDE DEF r
<1>8. Part(r, t, (d + 1) + e)
  BY <1>3, <1>6, <1>7, PartOfPart
<1>9. d \in Nat /\ e \in Nat /\ Len(r) \in Nat /\ Len(w) \in Nat /\ Len(t) \in Nat
  BY <1>1, <1>3, <1>7 DEF Part
<1>10. Inside(u, d, i)
  BY <1>1
<1>11. t[d + 1] = "fence" /\ d + 1 \in 1..Len(t)
  <2>1. 1 \in 1..Len(u) /\ 1 + d = d + 1
    BY <1>2, <1>9
  <2> QED
    BY <1>1, <1>2, <1>9, <2>1 DEF Part
<1>12. i # d + 1
  BY <1>11
<1>13. i - (d + 1) \in 1..Len(w) /\ (i - (d + 1)) + (d + 1) = i
  BY <1>3, <1>9, <1>10, <1>12 DEF Inside
<1>14. \A k \in 1..Len(w) : w[k] = t[k + (d + 1)]
  BY <1>6 DEF Part
<1>15. i - (d + 1) # e
  BY <1>7, <1>9, <1>13, <1>14
<1>16. ~(i - (d + 1) < e)
  <2> SUFFICES ASSUME i - (d + 1) < e PROVE i \in X!FenceLine(t)
    OBVIOUS
  <2>1. \A k \in 1..d : t[k] = "nl"
    BY <1>1, <1>9, <1>11 DEF Inside
  <2>2. ASSUME NEW k \in (d + 1)..i PROVE t[k] # "nl"
    <3>1. CASE k = d + 1
      BY <1>11, <3>1
    <3>2. CASE k # d + 1
      <4>1. k - (d + 1) \in 1..(e - 1) /\ k - (d + 1) \in 1..Len(w) /\ (k - (d + 1)) + (d + 1) = k
        BY <1>9, <1>13, <3>2
      <4> QED
        BY <1>7, <1>14, <4>1
    <3> QED
      BY <3>1, <3>2
  <2>3. d + 1 < i /\ (d + 1) - 1 = d
    BY <1>9, <1>13
  <2>4. d + 1 \in DOMAIN t /\ i \in DOMAIN t
    BY <1>11
  <2> QED
    BY <1>11, <2>1, <2>2, <2>3, <2>4 DEF X!FenceLine
<1>17. i - ((d + 1) + e) \in 1..Len(r) /\ (i - ((d + 1) + e)) + ((d + 1) + e) = i
  BY <1>7, <1>9, <1>13, <1>15, <1>16
<1>18. r[i - ((d + 1) + e)] = "prose"
  BY <1>8, <1>17 DEF Part
<1>19. r \in Seq(X!Token) /\ HasProse(r)
  BY <1>8, <1>17, <1>18 DEF HasProse, Part
<1> QED
  BY <1>19 DEF r, w, u

(* Prose off the line of the opening fence is an error.                    *)
LEMMA ProseIsError ==
  ASSUME NEW t \in Seq(X!Token), NEW i \in DOMAIN t \ X!FenceLine(t), t[i] = "prose"
  PROVE  ~X!IsJson(X!stripCodeFence(t))
<1>1. i \in 1..Len(t) /\ HasProse(t)
  BY DEF HasProse
<1>2. CASE ~X!IsFenced(X!Trim(t))
  <2>1. X!stripCodeFence(t) = X!Trim(t)
    BY <1>2 DEF X!stripCodeFence
  <2> QED
    BY <1>1, <2>1, TrimKeepsProse, ProseIsNoJson
<1>3. CASE X!IsFenced(X!Trim(t))
  <2> DEFINE r == X!Rest(Tail(X!Trim(t)))
  <2>1. r \in Seq(X!Token) /\ HasProse(r)
    BY <1>1, <1>3, OpeningKeepsProse
  <2>2. X!stripCodeFence(t) = X!Trim(X!TrimFence(X!Trim(r)))
    BY <1>3 DEF X!stripCodeFence
  <2> HIDE DEF r
  <2>3. X!Trim(r) \in Seq(X!Token) /\ HasProse(X!Trim(r))
    BY <2>1, TrimKeepsProse
  <2>4. X!TrimFence(X!Trim(r)) \in Seq(X!Token) /\ HasProse(X!TrimFence(X!Trim(r)))
    BY <2>3, TrimFenceKeepsProse
  <2> QED
    BY <2>2, <2>4, TrimKeepsProse, ProseIsNoJson
<1> QED
  BY <1>2, <1>3

(* An object survives too, with a fence around it or without.              *)
LEMMA TrimKeepsJson ==
  ASSUME NEW t \in Seq(X!Token), X!IsJson(t)
  PROVE  X!IsJson(X!Trim(t)) /\ ~X!IsFenced(X!Trim(t))
<1> DEFINE u == X!Trim(t)
<1>1. PICK d : /\ Part(u, t, d)
               /\ \A k \in 1..Len(t) : Inside(u, d, k) \/ t[k] = "nl"
               /\ u # <<>> => u[1] # "nl"
  BY TrimShape
<1> HIDE DEF u
<1>2. PICK i \in 1..Len(t), j \in 1..Len(t) :
        i < j /\ t[i] = "open" /\ t[j] = "close" /\ \A k \in 1..Len(t) \ {i, j} : t[k] = "nl"
  BY DEF X!IsJson
<1>3. Inside(u, d, i) /\ Inside(u, d, j)
  BY <1>1, <1>2
<1>4. /\ i - d \in 1..Len(u) /\ (i - d) + d = i
      /\ j - d \in 1..Len(u) /\ (j - d) + d = j /\ i - d < j - d
  BY <1>1, <1>2, <1>3 DEF Inside, Part
<1>5. u[i - d] = "open" /\ u[j - d] = "close"
  BY <1>1, <1>2, <1>4 DEF Part
<1>6. ASSUME NEW k \in 1..Len(u) \ {i - d, j - d} PROVE u[k] = "nl"
  <2>1. k + d \in 1..Len(t) \ {i, j}
    BY <1>1, <1>4 DEF Part
  <2> QED
    BY <1>1, <1>2, <2>1 DEF Part
<1>7. DOMAIN u = 1..Len(u)
  BY <1>1 DEF Part
<1>8. X!IsJson(u)
  BY <1>4, <1>5, <1>6, <1>7 DEF X!IsJson
<1>9. ~X!IsFenced(u)
  <2>1. u # <<>> /\ 1 \in 1..Len(u)
    BY <1>1, <1>4 DEF Part
  <2>2. u[1] # "nl"
    BY <1>1, <2>1
  <2>3. 1 = i - d \/ 1 = j - d
    BY <1>6, <2>1, <2>2
  <2>4. u[1] \in {"open", "close"}
    BY <1>5, <2>3
  <2> QED
    BY <2>4 DEF X!IsFenced
<1> QED
  BY <1>8, <1>9 DEF u

(* What follows the line of the opening fence.                             *)
LEMMA FencedRestReads ==
  ASSUME NEW r \in Seq(X!Token), NEW i \in 1..Len(r), NEW j \in 1..Len(r), NEW f \in 1..Len(r),
         i < j, j < f, r[i] = "open", r[j] = "close", r[f] = "fence",
         \A k \in 1..Len(r) \ {i, j, f} : r[k] = "nl"
  PROVE  X!IsJson(X!Trim(X!TrimFence(X!Trim(r))))
<1> DEFINE u == X!Trim(r)
           v == X!TrimFence(u)
<1>1. PICK d : /\ Part(u, r, d)
               /\ \A k \in 1..Len(r) : Inside(u, d, k) \/ r[k] = "nl"
               /\ u # <<>> => u[Len(u)] # "nl"
  BY TrimShape
<1> HIDE DEF u
<1>2. Inside(u, d, i) /\ Inside(u, d, j) /\ Inside(u, d, f)
  BY <1>1
<1>3. d \in Nat /\ Len(u) \in Nat /\ u \in Seq(X!Token) /\ Len(u) + d \in 1..Len(r)
  BY <1>1, <1>2 DEF Part, Inside
<1>4. u # <<>> /\ Len(u) \in 1..Len(u) /\ u[Len(u)] = r[Len(u) + d]
  BY <1>1, <1>2, <1>3 DEF Part, Inside
<1>5. Len(u) + d = f
  <2>1. Len(u) + d \in {i, j, f}
    BY <1>1, <1>3, <1>4
  <2> QED
    BY <1>2, <1>3, <2>1 DEF Inside
<1>6. u[Len(u)] = "fence"
  BY <1>4, <1>5
<1>7. Part(v, u, 0) /\ Len(v) = Len(u) - 1
  BY <1>3, <1>4, <1>6, TrimFenceShape
<1> HIDE DEF v
<1>8. v \in Seq(X!Token) /\ DOMAIN v = 1..Len(v) /\ Len(v) + d = f - 1
  BY <1>3, <1>5, <1>7 DEF Part
<1>9. \A k \in 1..Len(v) : k + d \in 1..Len(r) /\ k \in 1..Len(u) /\ v[k] = r[k + d]
  BY <1>1, <1>3, <1>7 DEF Part
<1>10. /\ i - d \in 1..Len(v) /\ (i - d) + d = i
       /\ j - d \in 1..Len(v) /\ (j - d) + d = j /\ i - d < j - d
  BY <1>2, <1>3, <1>8 DEF Inside
<1>11. v[i - d] = "open" /\ v[j - d] = "close"
  BY <1>9, <1>10
<1>12. ASSUME NEW k \in 1..Len(v) \ {i - d, j - d} PROVE v[k] = "nl"
  <2>1. k + d \in 1..Len(r) \ {i, j, f}
    BY <1>3, <1>8, <1>9, <1>10
  <2> QED
    BY <1>9, <2>1
<1>13. X!IsJson(v)
  BY <1>8, <1>10, <1>11, <1>12 DEF X!IsJson
<1> QED
  BY <1>8, <1>13, TrimKeepsJson DEF u, v

LEMMA FencedReads ==
  ASSUME NEW t \in Seq(X!Token), X!Fenced(t) PROVE X!IsJson(X!stripCodeFence(t))
<1> DEFINE u == X!Trim(t)
           w == Tail(u)
           r == X!Rest(w)
           L == Len(t)
<1>0. DOMAIN t = 1..L
  OBVIOUS
<1>1. PICK n \in 1..L, e \in 1..L :
        /\ 1 < n /\ n < e
        /\ t[1] = "fence" /\ t[n] = "nl" /\ \A k \in 2..(n - 1) : t[k] # "nl"
        /\ X!IsJson(SubSeq(t, n + 1, e - 1))
        /\ t[e] = "fence" /\ \A k \in (e + 1)..L : t[k] = "nl"
  BY <1>0, Zenon DEF X!Fenced
<1>2. PICK i \in Nat, j \in Nat :
        /\ n < i /\ i < j /\ j < e /\ t[i] = "open" /\ t[j] = "close"
        /\ \A k \in (n + 1)..(e - 1) : k \notin {i, j} => t[k] = "nl"
  <2> DEFINE body == SubSeq(t, n + 1, e - 1)
  <2>1. L \in Nat /\ Len(body) = e - 1 - n /\ DOMAIN body = 1..(e - 1 - n)
    BY <1>1
  <2>2. \A k \in 1..(e - 1 - n) : body[k] = t[k + n]
    BY <1>1
  <2>3. X!IsJson(body)
    BY <1>1
  <2> HIDE DEF body
  <2>4. PICK i \in DOMAIN body, j \in DOMAIN body :
          i < j /\ body[i] = "open" /\ body[j] = "close" /\ \A k \in DOMAIN body \ {i, j} : body[k] = "nl"
    BY <2>3 DEF X!IsJson
  <2>5. i + n \in Nat /\ j + n \in Nat /\ n < i + n /\ i + n < j + n /\ j + n < e
    BY <2>1, <2>4
  <2>6. t[i + n] = "open" /\ t[j + n] = "close"
    BY <2>1, <2>2, <2>4
  <2>7. ASSUME NEW k \in (n + 1)..(e - 1), k \notin {i + n, j + n} PROVE t[k] = "nl"
    <3>1. k - n \in 1..(e - 1 - n) /\ k - n \notin {i, j} /\ (k - n) + n = k
      BY <2>1, <2>4, <2>7
    <3> QED
      BY <2>1, <2>2, <2>4, <3>1
  <2> QED
    BY <2>5, <2>6, <2>7
<1>3. L \in Nat /\ 1 \in 1..L
  BY <1>1
<1>4. PICK d : Part(u, t, d) /\ \A k \in 1..L : Inside(u, d, k) \/ t[k] = "nl"
  BY TrimShape
<1> HIDE DEF u
<1>5. Inside(u, d, 1) /\ Inside(u, d, e)
  BY <1>1, <1>3, <1>4
<1>6. d = 0 /\ e <= Len(u) /\ u \in Seq(X!Token) /\ Len(u) \in Nat /\ Len(u) <= L
  BY <1>1, <1>4, <1>5 DEF Inside, Part
<1>7. \A k \in 1..Len(u) : u[k] = t[k]
  BY <1>4, <1>6 DEF Part
<1>8. X!IsFenced(u)
  BY <1>1, <1>6, <1>7 DEF X!IsFenced
<1>9. w \in Seq(X!Token) /\ Len(w) = Len(u) - 1 /\ \A k \in 1..Len(w) : w[k] = u[k + 1]
  <2>1. u # <<>>
    BY <1>8 DEF X!IsFenced
  <2>2. w \in Seq(X!Token) /\ Len(w) = Len(u) - 1
    BY <1>6, <2>1
  <2> QED
    BY <1>6, <2>1, <2>2
<1>10. \A k \in 1..Len(w) : w[k] = t[k + 1]
  BY <1>6, <1>7, <1>9
<1> HIDE DEF w
<1>11. PICK x : /\ Part(r, w, x) /\ Len(r) + x = Len(w)
                /\ \A k \in 1..(x - 1) : w[k] # "nl"
                /\ x = 0 => \A k \in 1..Len(w) : w[k] # "nl"
                /\ x # 0 => w[x] = "nl"
  BY <1>9, RestShape
<1> HIDE DEF r
<1>12. x = n - 1
  <2>1. n - 1 \in 1..Len(w) /\ (n - 1) + 1 = n /\ x \in Nat /\ x <= Len(w)
    BY <1>1, <1>6, <1>9, <1>11 DEF Part
  <2>2. w[n - 1] = "nl"
    BY <1>1, <1>10, <2>1
  <2>3. x # 0
    BY <1>11, <2>1, <2>2
  <2>4. ~(n - 1 < x)
    BY <1>11, <2>1, <2>2
  <2>5. ~(x < n - 1)
    <3>1. x \in 1..Len(w) /\ t[x + 1] = "nl"
      BY <1>10, <1>11, <2>1, <2>3
    <3> QED
      BY <1>1, <2>1, <2>3, <3>1
  <2> QED
    BY <2>1, <2>4, <2>5
<1>13. r \in Seq(X!Token) /\ Len(r) = Len(u) - n
  BY <1>1, <1>6, <1>9, <1>11, <1>12 DEF Part
<1>14. ASSUME NEW k \in 1..Len(r) PROVE r[k] = t[k + n]
  <2>1. k + x \in 1..Len(w) /\ (k + x) + 1 = k + n
    BY <1>1, <1>6, <1>9, <1>12, <1>13
  <2>2. r[k] = w[k + x]
    BY <1>11 DEF Part
  <2> QED
    BY <1>10, <2>1, <2>2
<1>15. /\ i - n \in 1..Len(r) /\ (i - n) + n = i
       /\ j - n \in 1..Len(r) /\ (j - n) + n = j
       /\ e - n \in 1..Len(r) /\ (e - n) + n = e
       /\ i - n < j - n /\ j - n < e - n
  BY <1>1, <1>2, <1>6, <1>13
<1>16. r[i - n] = "open" /\ r[j - n] = "close" /\ r[e - n] = "fence"
  BY <1>1, <1>2, <1>14, <1>15
<1>17. ASSUME NEW k \in 1..Len(r) \ {i - n, j - n, e - n} PROVE r[k] = "nl"
  <2>1. k + n \in (n + 1)..L /\ k + n \notin {i, j, e}
    BY <1>1, <1>2, <1>6, <1>13, <1>15
  <2>2. k + n \in (n + 1)..(e - 1) \/ k + n \in (e + 1)..L
    BY <1>1, <1>3, <2>1
  <2> QED
    BY <1>1, <1>2, <1>14, <2>1, <2>2
<1>18. X!IsJson(X!Trim(X!TrimFence(X!Trim(r))))
  BY <1>13, <1>15, <1>16, <1>17, FencedRestReads
<1>19. X!stripCodeFence(t) = X!Trim(X!TrimFence(X!Trim(r)))
  BY <1>8 DEF X!stripCodeFence, r, w, u
<1> QED
  BY <1>18, <1>19

LEMMA ErrorIsNoRow == ASSUME NEW p PROVE X!decodePayload(p) # X!Error
<1>1. "error" \notin DOMAIN X!decodePayload(p)
  BY DEF X!decodePayload
<1>2. "error" \in DOMAIN X!Error
  BY DEF X!Error
<1> QED
  BY <1>1, <1>2

(* What is on record is what decodeEntry made of the line.                 *)
ReadInv == line = X!NoLine \/ (line \in Lines /\ result = X!decodeEntry(line))

LEMMA ReadStep == ReadInv /\ [X!Next]_(X!vars) => ReadInv'
BY DEF ReadInv, X!Next, X!Apply, X!Review, X!vars

LEMMA ReadIsRight == ReadInv => X!FencesChangeNothing
<1> SUFFICES ASSUME ReadInv, line.type = "succeeded" PROVE
        /\ X!IsJson(line.text) \/ X!Fenced(line.text) => result # X!Error
        /\ \A i \in DOMAIN line.text \ X!FenceLine(line.text) :
             line.text[i] = "prose" => result = X!Error
  BY DEF X!FencesChangeNothing
<1>1. line \in Lines /\ result = X!decodeEntry(line)
  BY DEF ReadInv, X!NoLine
<1>2. line.text \in Seq(X!Token)
  BY <1>1, ModelAssumption DEF X!LineAssumption, X!Line
<1>3. result = IF X!IsJson(X!stripCodeFence(line.text)) THEN X!decodePayload(line.payload)
               ELSE X!Error
  BY <1>1 DEF X!decodeEntry
<1>4. ASSUME X!IsJson(line.text) PROVE result # X!Error
  <2>1. X!IsJson(X!Trim(line.text)) /\ ~X!IsFenced(X!Trim(line.text))
    BY <1>2, <1>4, TrimKeepsJson
  <2>2. X!stripCodeFence(line.text) = X!Trim(line.text)
    BY <2>1 DEF X!stripCodeFence
  <2> QED
    BY <1>3, <2>1, <2>2, ErrorIsNoRow
<1>5. ASSUME X!Fenced(line.text) PROVE result # X!Error
  BY <1>2, <1>3, <1>5, FencedReads, ErrorIsNoRow
<1>6. ASSUME NEW i \in DOMAIN line.text \ X!FenceLine(line.text), line.text[i] = "prose"
      PROVE  result = X!Error
  BY <1>2, <1>3, <1>6, ProseIsError
<1> QED
  BY <1>4, <1>5, <1>6

(* Whatever text the model answers with, of any length: an object reads    *)
(* the same bare and fenced, and prose anywhere but on the line of the     *)
(* opening fence is an error of the line, never an event.                  *)
THEOREM FencesMeanNothing == EdgesSpec => []FencesChangeNothing
<1>1. X!Init => ReadInv
  BY DEF X!Init, ReadInv
<1> QED
  BY <1>1, ReadStep, ReadIsRight, EachByItself, PTL DEF X!Spec, FencesChangeNothing

-----------------------------------------------------------------------------
(* The boot (Configuration), and the types of all four.                    *)

LEMMA FallbacksAreSet ==
  ASSUME NEW v \in DOMAIN C!Fallback
  PROVE  C!Fallback[v] \notin {C!Unset, C!Malformed}
<1>1. \/ v \in C!Counts \cup C!Durations \/ v \in C!Flags \/ v \in C!Strings
  BY DEF C!Fallback, C!Parsed
<1>2. \A n : "unset" \notin DOMAIN C!N(n) /\ "malformed" \notin DOMAIN C!N(n)
  BY DEF C!N
<1>3. \A flag : "unset" \notin DOMAIN C!B(flag) /\ "malformed" \notin DOMAIN C!B(flag)
  BY DEF C!B
<1>4. \A s : "unset" \notin DOMAIN C!S(s) /\ "malformed" \notin DOMAIN C!S(s)
  BY DEF C!S
<1>5. "unset" \in DOMAIN C!Unset /\ "malformed" \in DOMAIN C!Malformed
  BY DEF C!Unset, C!Malformed
<1>6. CASE v \in C!Counts \cup C!Durations
  BY <1>2, <1>5, <1>6, NumbersAreNumbers, FallbackForms
<1>7. CASE v \in C!Flags
  <2>1. C!Fallback[v] = C!B(FALSE)
    BY <1>7, FallbackForms
  <2> QED
    BY <1>3, <1>5, <2>1, Zenon
<1>8. CASE v \in C!Strings
  BY <1>4, <1>5, <1>8, FallbackForms
<1> QED
  BY <1>1, <1>6, <1>7, <1>8

(* What validate lets through has every variable set but the admin key.    *)
LEMMA PassedIsSet ==
  ASSUME \A v \in C!Var : env[v] \in Offered[v], C!validate(C!parse) = {},
         NEW v \in C!Var \ {"ADMIN_API_KEY"}
  PROVE  C!parse[v] \notin {C!Unset, C!Malformed}
<1>1. C!parse[v] = C!Read(v)
  BY DEF C!parse
<1>2. CASE v \in DOMAIN C!Fallback
  BY <1>1, <1>2, FallbacksAreSet DEF C!Read
<1>3. CASE v \notin DOMAIN C!Fallback
  <2>1. v \notin C!Parsed /\ v \notin C!Strings
    BY <1>3 DEF C!Fallback
  <2>2. v \in C!Required
    BY <2>1 DEF C!Var
  <2>3. C!parse[v] = env[v]
    BY <1>1, <1>3 DEF C!Read
  <2>4. env[v] # C!Malformed
    BY <2>1, EnvironmentAssumption DEF C!OfferedAssumption
  <2>5. {u \in C!Required : C!parse[u] = C!Unset} = {}
    BY DEF C!validate, C!MissingOrBad
  <2>6. C!parse[v] # C!Unset
    BY <2>2, <2>5
  <2> QED
    BY <2>3, <2>4, <2>6
<1> QED
  BY <1>2, <1>3

LEMMA SetupInit == C!Init => C!TypeOK
<1> SUFFICES ASSUME C!Init PROVE C!TypeOK
  OBVIOUS
<1>1. env = Example /\ boot = "down" /\ cfg = C!NoCfg /\ problems = {} /\ launched = FALSE
  BY DEF C!Init
<1>2. env \in [C!Var -> UNION {Offered[v] : v \in C!Var}]
  BY <1>1, EnvironmentAssumption DEF C!ExampleAssumption
<1>3. \A v \in C!Var : env[v] \in Offered[v]
  BY <1>1, EnvironmentAssumption DEF C!ExampleAssumption
<1>4. DOMAIN cfg = C!Var
  BY <1>1 DEF C!NoCfg
<1> QED
  BY <1>1, <1>2, <1>3, <1>4 DEF C!TypeOK

LEMMA SetupStep == C!TypeOK /\ [C!Next]_(C!vars) => C!TypeOK'
<1> SUFFICES ASSUME C!TypeOK, [C!Next]_(C!vars) PROVE C!TypeOK'
  OBVIOUS
<1>1. ASSUME NEW v \in C!Var, NEW value \in Offered[v], C!Edit(v, value) PROVE C!TypeOK'
  <2>1. env' = [env EXCEPT ![v] = value] /\ boot' = "down" /\ cfg' = C!NoCfg
        /\ problems' = {} /\ launched' = FALSE
    BY <1>1 DEF C!Edit
  <2>2. \A u \in C!Var : env'[u] \in Offered[u]
    BY <2>1 DEF C!TypeOK
  <2>3. env' \in [C!Var -> UNION {Offered[u] : u \in C!Var}]
    BY <2>1 DEF C!TypeOK
  <2>4. DOMAIN cfg' = C!Var
    BY <2>1 DEF C!NoCfg
  <2> QED
    BY <2>1, <2>2, <2>3, <2>4 DEF C!TypeOK
<1>2. CASE C!Load
  <2>1. /\ cfg' = C!parse /\ problems' = C!validate(cfg') /\ UNCHANGED <<env, launched>>
        /\ boot' \in {"loaded", "refused"} /\ (boot' = "loaded" => problems' = {})
    BY <1>2 DEF C!Load
  <2>2. DOMAIN cfg' = C!Var
    BY <2>1 DEF C!parse
  <2>3. problems' \subseteq C!Var
    <3>1. C!OutOfRange(cfg') \subseteq C!Counts
      BY DEF C!OutOfRange, C!Counts
    <3>2. C!MissingOrBad(cfg') \subseteq C!Required \cup {"ADMIN_API_KEY"}
      BY DEF C!MissingOrBad, C!Required
    <3>3. C!PollingBad(cfg') \subseteq C!Durations
      BY DEF C!PollingBad, C!Durations
    <3>4. C!GeocodeBad(cfg') \subseteq C!Durations
      BY DEF C!GeocodeBad, C!Durations
    <3> QED
      BY <2>1, <3>1, <3>2, <3>3, <3>4 DEF C!validate, C!Var, C!Parsed
  <2>4. boot' = "loaded" =>
          \A v \in C!Var \ {"ADMIN_API_KEY"} : cfg'[v] \notin {C!Unset, C!Malformed}
    <3>1. \A v \in C!Var : env[v] \in Offered[v]
      BY DEF C!TypeOK
    <3> QED
      BY <2>1, <3>1, PassedIsSet
  <2> QED
    BY <2>1, <2>2, <2>3, <2>4 DEF C!TypeOK
<1>3. CASE C!Connect
  BY <1>3 DEF C!Connect, C!TypeOK
<1>4. CASE C!StartIngestion
  BY <1>4 DEF C!StartIngestion, C!TypeOK
<1>5. CASE C!StartProcessing
  BY <1>5 DEF C!StartProcessing, C!TypeOK
<1>6. CASE C!Stop
  BY <1>6 DEF C!Stop, C!TypeOK
<1>7. CASE UNCHANGED C!vars
  BY <1>7 DEF C!vars, C!TypeOK
<1> QED
  BY <1>1, <1>2, <1>3, <1>4, <1>5, <1>6, <1>7 DEF C!Next

(* In all four, every variable stays within its type; of the boot this     *)
(* says that a process past the checks reads no variable that is unset or  *)
(* did not parse.                                                          *)
THEOREM EdgesTyped == EdgesSpec => []EdgeTypes
<1>1. PaceInv => TypeOK
  BY DEF PaceInv
<1>2. GraphInv => G!TypeOK
  BY DEF GraphInv
<1>3. RowInv => X!TypeOK
  BY DEF RowInv
<1> QED
  BY <1>1, <1>2, <1>3, PaceInit, PaceStep, GraphInit, GraphInvStep, RowInit, RowStep,
     SetupInit, SetupStep, EachByItself, PTL
  DEF Spec, G!Spec, X!Spec, C!Spec, EdgeTypes

=============================================================================
