---------------------------- MODULE GraphAnswers ----------------------------
(***************************************************************************)
(* What the Instagram provider makes of the Graph API's answers: the token *)
(* check at boot, and the lookup of one account.  The kind of the error is *)
(* all that ingestion acts on (module Ingestion), so the question is       *)
(* whether the kind names the true culprit: the account (permanent), our   *)
(* app, token or quota (fatal), or nobody (transient).                     *)
(*                                                                         *)
(* The world below is external: which answers Meta gives in which trouble, *)
(* as the tables of errors.go and the README describe it.                  *)
(***************************************************************************)
EXTENDS Integers, Sequences, SequencesExt

CONSTANTS
  MaxNodes,      \* media nodes of an answer
  UnknownCodes   \* codes the tables do not list

(* Stated as ASSUMEs by the module that instantiates this one.             *)
NodesAssumption == MaxNodes \in Nat
CodesAssumption ==
  UnknownCodes \subseteq Nat \ (200..299 \cup {0, 1, 2, 4, 10, 17, 24, 32, 110, 190})

VARIABLES
  token,     \* "good", "expired", "unscoped": a scope is missing
  account,   \* "business", "personal", "gone"
  weather,   \* "fine", "limited", "outage", "network": no answer at all
  path,      \* what the configuration puts into a URL: "sound", or "badUser",
             \* "badVersion": an IG_USER_ID, IG_API_VERSION no URL can hold
  booted,    \* VerifyToken let the process start
  asked,     \* the last request: "none", "me", "account"
  answer,    \* its HTTP answer
  outcome    \* what the provider returned for it

world == <<token, account, weather, path>>
vars == <<world, booted, asked, answer, outcome>>

(* Codes, as errors.go groups them.                                        *)
RateCodes == {4, 17, 32}
ScopeCodes == {10, 200, 250, 299}
PermanentCodes == {24, 110}
TransientCodes == {1, 2}
FatalCodes == RateCodes \cup {190, 10}

IsPermissionCode(code) == code >= 200 /\ code <= 299

(* Bodies: an error envelope, an HTML page, or a document with or without  *)
(* the block asked for.                                                    *)
Node == {"good", "malformed", "undated"}
Nodes == UNION {[1..n -> Node] : n \in 0..MaxNodes}

Error(code) == [type |-> "error", code |-> code, nodes |-> <<>>]
Html == [type |-> "html", code |-> 0, nodes |-> <<>>]
Bare == [type |-> "bare", code |-> 0, nodes |-> <<>>]
Document(nodes) == [type |-> "document", code |-> 0, nodes |-> nodes]

Http(status, body) == [status |-> status, body |-> body]
Silence == Http(0, Html)

(* Kinds of outcome; code feeds the operator's hint.                       *)
Outcome(kind, code, media) == [kind |-> kind, code |-> code, media |-> media]
Failed(kind, code) == Outcome(kind, code, <<>>)
Nothing == Failed("none", 0)

TypeOK ==
  /\ token \in {"good", "expired", "unscoped"}
  /\ account \in {"business", "personal", "gone"}
  /\ weather \in {"fine", "limited", "outage", "network"}
  /\ path \in {"sound", "badUser", "badVersion"}
  /\ booted \in BOOLEAN
  /\ asked \in {"none", "me", "account"}
  /\ answer.status \in {0, 200, 400, 401, 403, 429, 500, 503, 504}
  /\ answer.body.type \in {"error", "html", "bare", "document"}
  /\ outcome.kind \in {"none", "ok", "permanent", "transient", "fatal", "ctx"}
  /\ outcome.media \in Seq({"good"})

Init ==
  /\ token \in {"good", "expired", "unscoped"}
  /\ account \in {"business", "personal", "gone"}
  /\ weather \in {"fine", "limited", "outage", "network"}
  /\ path \in {"sound", "badUser", "badVersion"}
  /\ booted = FALSE
  /\ asked = "none"
  /\ answer = Silence
  /\ outcome = Nothing

-----------------------------------------------------------------------------
(* The provider.                                                           *)

(* classify: the code first, then the status.                              *)
Kinds(code, status, permanent, fatal) ==
  IF code \in FatalCodes \/ fatal THEN "fatal"
  ELSE IF code \in PermanentCodes \/ permanent THEN "permanent"
  ELSE IF code \notin TransientCodes /\ status = 429 THEN "fatal"
  ELSE "transient"

ScopesBlameTheAccount(code, status) == Kinds(code, status, IsPermissionCode(code), FALSE)
classify(code, status) == Kinds(code, status, FALSE, IsPermissionCode(code))

(* decodeGraphError: an envelope with a message counts whatever the status;*)
(* without one, any status outside 2xx does.                               *)
IsOk(status) == status >= 200 /\ status <= 299
IsError(a) == a.body.type = "error" \/ ~IsOk(a.status)
decodeGraphError(a) == Failed(classify(a.body.code, a.status), a.body.code)

(* do: a URL that does not parse is called permanent before any call; the  *)
(* token check has the version in its URL, the lookup the user id as well. *)
Builds(request) == path = "sound" \/ (path = "badUser" /\ request = "me")
NotBuilt == Failed("permanent", 0)

(* do: a call without an answer asks the context; an answer whose body     *)
(* breaks off is transient whatever the context says.                      *)
NoAnswer == {Failed("ctx", 0), Failed("transient", 0)}

(* DiscoverMedia: malformed and undated nodes are skipped one by one.      *)
KeepAll(nodes) == nodes
StopAtBad(nodes) ==
  LET bad == {i \in DOMAIN nodes : nodes[i] # "good"}
  IN  IF bad = {} THEN nodes ELSE SubSeq(nodes, 1, Min(bad) - 1)
Kept(nodes) ==
  FoldLeft(LAMBDA media, n : IF n = "good" THEN Append(media, n) ELSE media, <<>>, nodes)

Discovered(a) ==
  IF IsError(a) THEN decodeGraphError(a)
  ELSE CASE a.body.type = "html" -> Failed("transient", 0)
         [] a.body.type = "bare" -> Failed("permanent", 110)
         [] OTHER -> Outcome("ok", 0, Kept(a.body.nodes))

(* VerifyToken: an answer without an id is a dead token.                   *)
TokenOf(a) ==
  IF IsError(a) THEN decodeGraphError(a)
  ELSE CASE a.body.type = "html" -> Failed("transient", 0)
         [] a.body.type = "bare" -> Failed("fatal", 190)
         [] OTHER -> Outcome("ok", 0, <<>>)

(* RemediationHint, from a switch of its own.                              *)
RemediationHint(code) ==
  CASE code = 190 -> "renew"
    [] code = 10 \/ IsPermissionCode(code) -> "scopes"
    [] code \in {4, 17, 32} -> "cooldown"
    [] OTHER -> ""

-----------------------------------------------------------------------------
(* The world.                                                              *)

Trouble ==
  CASE weather = "outage" ->
         {Http(500, Error(c)) : c \in TransientCodes} \cup {Http(503, Html), Http(504, Html), Http(200, Html)}
    [] weather = "limited" -> {Http(s, Error(c)) : s \in {400, 403}, c \in RateCodes} \cup {Http(429, Html)}
    [] weather \notin {"outage", "limited"} /\ token = "expired" -> {Http(400, Error(190)), Http(401, Error(190))}
    [] OTHER -> {}

(* A scope that is missing shows in the lookup only.                       *)
LookupAnswers ==
  IF Trouble # {} THEN Trouble
  ELSE IF token = "unscoped" THEN {Http(s, Error(c)) : s \in {400, 403}, c \in ScopeCodes}
  ELSE CASE account = "gone" -> {Http(400, Error(110))}
         [] account = "personal" -> {Http(400, Error(24)), Http(200, Bare)}
         [] OTHER -> {Http(200, Document(nodes)) : nodes \in Nodes}
                       \cup {Http(400, Error(c)) : c \in UnknownCodes}

(* A 200 without an id also means a dead token.                            *)
MeAnswers ==
  IF Trouble = {} THEN {Http(200, Document(<<>>))}
  ELSE Trouble \cup (IF token = "expired" THEN {Http(200, Bare)} ELSE {})

(* Each request is made in a world of its own; after a failed check that   *)
(* is the world of the next start.  The configuration is read at the start *)
(* only: IG_USER_ID need not be empty, IG_API_VERSION begins with a v.     *)
WorldMoves ==
  /\ asked # "none"
  /\ token' \in {"good", "expired", "unscoped"}
  /\ account' \in {"business", "personal", "gone"}
  /\ weather' \in {"fine", "limited", "outage", "network"}
  /\ path' \in (IF booted THEN {path} ELSE {"sound", "badUser", "badVersion"})
  /\ asked' = "none"
  /\ answer' = Silence
  /\ outcome' = Nothing
  /\ UNCHANGED booted

VerifyToken ==
  /\ ~booted
  /\ asked = "none" /\ asked' = "me"
  /\ \/ /\ ~Builds("me")
        /\ answer' = Silence
        /\ outcome' = NotBuilt
     \/ /\ Builds("me") /\ weather = "network"
        /\ answer' = Silence
        /\ outcome' \in NoAnswer
     \/ /\ Builds("me") /\ weather # "network"
        /\ answer' \in MeAnswers
        /\ outcome' = TokenOf(answer')
  /\ booted' = (outcome'.kind = "ok")
  /\ UNCHANGED world

DiscoverMedia ==
  /\ booted
  /\ asked = "none" /\ asked' = "account"
  /\ \/ /\ ~Builds("account")
        /\ answer' = Silence
        /\ outcome' = NotBuilt
     \/ /\ Builds("account") /\ weather = "network"
        /\ answer' = Silence
        /\ outcome' \in NoAnswer
     \/ /\ Builds("account") /\ weather # "network"
        /\ answer' \in LookupAnswers
        /\ outcome' = Discovered(answer')
  /\ UNCHANGED <<world, booted>>

Next == WorldMoves \/ VerifyToken \/ DiscoverMedia

Spec == Init /\ [][Next]_vars

-----------------------------------------------------------------------------
(* The kind names the true culprit, whenever a request could be made at    *)
(* all.  Only an account that really cannot be looked up is called broken, *)
(* for ingestion retires it on this word alone (errors.go:73, README.md:203)*)
(* - or, which is no account's doing, one whose request could not be built:*)
(* a user id no URL can hold passes the configuration and the token check, *)
(* and then has every account called broken (instagram.go:153), although   *)
(* errors.go:10-11 keeps the word for sources that are.  Trouble that hits *)
(* every account alike, token, scope or quota, is never blamed on one of   *)
(* them nor retried: it stops the boot or, at the first account, the run   *)
(* (README.md:199); a missing scope cannot be seen at the boot             *)
(* (README.md:201).  A code that stops a run is in the table of hints too. *)
KindNamesTheCulprit ==
  /\ outcome.kind = "permanent" => account \in {"personal", "gone"} \/ ~Builds(asked)
  /\ (/\ asked # "none" /\ Builds(asked)
      /\ \/ weather = "limited"
         \/ weather = "fine" /\ token = "expired"
         \/ weather = "fine" /\ token = "unscoped" /\ asked = "account")
     => outcome.kind = "fatal"
  /\ outcome.kind = "fatal" /\ answer.body.type = "error"
     => RemediationHint(outcome.code) # ""

(* A media node that cannot be read or dated costs that node: the account  *)
(* still counts as looked up, and every other node of it is handed on,     *)
(* wherever in the answer the bad ones stand (instagram.go:95).            *)
BadNodesCostThemselves ==
  asked = "account" /\ answer.status = 200 /\ answer.body.type = "document" =>
    /\ outcome.kind = "ok"
    /\ Len(outcome.media) =
         Cardinality({i \in DOMAIN answer.body.nodes : answer.body.nodes[i] = "good"})
=============================================================================
