------------------------------- MODULE MCEdges ------------------------------
(***************************************************************************)
(* The four edges of the process in one run of TLC: the environment it     *)
(* boots from, the answers of the Graph API, the answers of the model, and *)
(* the pace of the geocoder.  They share no state, so a behaviour moves    *)
(* one of them and leaves the others at rest.                              *)
(***************************************************************************)
EXTENDS Nominatim, Sequences

CONSTANTS a, b, null, Lines, Offered, Example, MaxNodes, UnknownCodes, MaxChanged

VARIABLES
  edge,                                                          \* the one that moves
  token, account, weather, path, booted, asked, answer, outcome, \* GraphAnswers
  line, result, event, review,                                   \* Extraction
  env, boot, cfg, problems, launched                             \* Configuration

G == INSTANCE GraphAnswers
X == INSTANCE Extraction WITH NoPrice <- null
C == INSTANCE Configuration WITH stage <- boot

ASSUME GraphAssumption == G!NodesAssumption /\ G!CodesAssumption
ASSUME ModelAssumption == X!LineAssumption /\ X!PriceAssumption
ASSUME EnvironmentAssumption ==
  C!OfferedAssumption /\ C!ExampleAssumption /\ C!BoundAssumption

-----------------------------------------------------------------------------
MCCaller == {a, b}
MCCodes == {100, 9999}

(* The vocabularies of two modules, apart from the inputs chosen in it.    *)
Words == INSTANCE Extraction WITH Lines <- {}, NoPrice <- null
Env == INSTANCE Configuration WITH
  stage <- boot, Offered <- <<>>, Example <- <<>>, MaxChanged <- 0

(* Result lines that vary the dates, the lists and prices, and the text in *)
(* turn.                                                                   *)
Plain == [isEvent |-> TRUE, confidence |-> "high", start |-> "day", startFlag |-> FALSE,
          end |-> "null", endFlag |-> FALSE, price |-> null,
          categories |-> <<>>, tags |-> <<>>]

Dates ==
  {[Plain EXCEPT !.confidence = k, !.start = d, !.startFlag = f] :
     k \in {"high", " High", "medium", "sure"}, d \in Words!RawDate, f \in BOOLEAN}
  \cup {[Plain EXCEPT !.start = d, !.startFlag = f, !.end = e, !.endFlag = TRUE] :
     d \in {"null", "garbage", "time"}, f \in BOOLEAN, e \in Words!RawDate}
Lists ==
  {[Plain EXCEPT !.price = n, !.categories = c, !.tags = t] :
     n \in {null, -1, 0, 5},
     c \in {<<>>, <<"music", "MUSIC ">>, <<"opera", "art", " ">>},
     t \in {<<>>, <<"opera", "#opera">>, <<"#", "art", " ">>}}
NonEvents == {[Plain EXCEPT !.isEvent = FALSE]}

(* Short texts of any kind, bare and fenced objects, and odd ones.         *)
Object == {<<"open", "close">>, <<"open", "nl", "close">>}
Fenced == {<<"fence">> \o tag \o <<"nl">> \o object \o <<"nl", "fence">> \o tail :
             tag \in {<<>>, <<"lang">>}, object \in Object, tail \in {<<>>, <<"nl">>}}
Texts == UNION {[1..n -> Words!Token] : n \in 0..2} \cup Object \cup Fenced
          \cup {<<"fence", "lang", "nl", "open", "close", "fence">>,
                <<"fence", "open", "nl", "close", "nl", "fence">>,
                <<"fence", "lang", "nl", "open", "close", "nl">>,
                <<"nl", "fence", "prose", "nl", "open", "close">>,
                <<"fence", "nl", "open", "close", "nl", "fence", "prose">>,
                <<"prose", "fence", "nl", "open", "close", "nl", "fence">>}

MCLines ==
  [type : {"errored", "canceled", "expired", "unknown"}]
  \cup [type : {"succeeded"}, text : {<<"open", "close">>},
         payload : Dates \cup Lists \cup NonEvents]
  \cup [type : {"succeeded"}, text : Texts, payload : {Plain}]

(* .env.example, and for every variable the values around its checks.      *)
MCExample ==
  [v \in Env!Var |->
     CASE v = "IG_API_VERSION" -> Env!S("v25.0")
       [] v \in Env!Required \ {"IG_API_VERSION"} -> Env!S("set")
       [] v = "ADMIN_API_KEY" -> Env!Unset
       [] OTHER -> Env!Fallback[v]]

MCOffered ==
  [v \in Env!Var |-> {Env!Unset, MCExample[v]} \cup
     CASE v = "PORT" -> {Env!Malformed, Env!N(0), Env!N(1), Env!N(65535), Env!N(65536)}
       [] v = "LLM_POST_LIMIT" -> {Env!Malformed, Env!N(0), Env!N(100000), Env!N(100001)}
       [] v \in Env!Counts \ {"PORT", "LLM_POST_LIMIT"} -> {Env!Malformed, Env!N(0), Env!N(1)}
       [] v = "BATCH_POLL_INTERVAL" -> {Env!Malformed, Env!N(999), Env!N(1000), Env!N(7200000)}
       [] v = "BATCH_POLL_TIMEOUT" -> {Env!Malformed, Env!N(1000), Env!N(1001)}
       [] v = "GEOCODE_MIN_INTERVAL" -> {Env!Malformed, Env!N(0), Env!N(999)}
       [] v \in Env!Flags -> {Env!Malformed, Env!B(TRUE)}
       [] v = "GEOCODE_BASE_URL" -> {Env!S("own")}
       [] v \in Env!Strings \ {"GEOCODE_BASE_URL"} -> {Env!S("bad")}
       [] v = "IG_API_VERSION" -> {Env!S("no v")}
       [] v = "ADMIN_API_KEY" -> {Env!S("short"), Env!S("long")}
       [] OTHER -> {}]

-----------------------------------------------------------------------------
EdgesInit ==
  /\ edge \in {"geocoder", "graph", "model", "environment"}
  /\ Init /\ X!Init /\ C!Init
  /\ G!Init
  /\ edge # "graph" => G!world = <<"good", "business", "fine", "sound">>

graphVars == <<token, account, weather, path, booted, asked, answer, outcome>>
modelVars == <<line, result, event, review>>
environmentVars == <<env, boot, cfg, problems, launched>>

EdgesNext ==
  /\ UNCHANGED edge
  /\ \/ edge = "geocoder" /\ Next /\ UNCHANGED <<graphVars, modelVars, environmentVars>>
     \/ edge = "graph" /\ G!Next /\ UNCHANGED <<vars, modelVars, environmentVars>>
     \/ edge = "model" /\ X!Next /\ UNCHANGED <<vars, graphVars, environmentVars>>
     \/ edge = "environment" /\ C!Next /\ UNCHANGED <<vars, graphVars, modelVars>>

(* Only the geocoder's mutex and clock are asked for progress.             *)
EdgesSpec ==
  /\ EdgesInit
  /\ [][EdgesNext]_<<edge, vars, graphVars, modelVars, environmentVars>>
  /\ Fairness

-----------------------------------------------------------------------------
(* The types of all four.                                                  *)
EdgeTypes == TypeOK /\ G!TypeOK /\ X!TypeOK /\ C!TypeOK

(* What the provider says of an answer blames whom it should: the account, *)
(* our token, scope or quota, or nobody; but for a request that could not  *)
(* be built.                                                               *)
KindNamesTheCulprit == G!KindNamesTheCulprit

(* A media node that cannot be read costs that node only.                  *)
BadNodesCostThemselves == G!BadNodesCostThemselves

(* An event gets on the calendar unseen only as a new row, at high         *)
(* confidence and not on a start date that could not be read.              *)
PublishedForCause == X!PublishedForCause

(* A fenced object reads like a bare one, and prose is never an answer but *)
(* on the line where the language goes.                                    *)
FencesChangeNothing == X!FencesChangeNothing

(* No repeated or invented id, no negative price and no invented time gets *)
(* into a row.                                                             *)
RowIsClean == X!RowIsClean

(* What serves, and what starts during the boot, runs on values that the   *)
(* other modules may rely on.                                              *)
ServesOnSoundConfig == C!ServesOnSoundConfig
=============================================================================
