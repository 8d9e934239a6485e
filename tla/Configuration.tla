--------------------------- MODULE Configuration ---------------------------
(***************************************************************************)
(* What the process makes of its environment: parse reads every variable   *)
(* or falls back, validate collects the problems, and main() goes on to    *)
(* the database, the token and the two schedulers, each of which may still *)
(* refuse.  An operator edits the environment between two starts.          *)
(*                                                                         *)
(* Durations are in milliseconds.  A string is what the checks can tell of *)
(* it.  Variables without a check (ENV, the address, the webhook) are left *)
(* out.                                                                    *)
(***************************************************************************)
EXTENDS Integers, FiniteSets

CONSTANTS
  Offered,      \* Offered[v]: what the operator may set v to
  Example,      \* .env.example, which boots
  MaxChanged    \* bound on the variables that differ from the example

Required == {"DATABASE_URL", "IG_ACCESS_TOKEN", "IG_USER_ID", "IG_API_VERSION",
             "ANTHROPIC_API_KEY", "GEOCODE_USER_AGENT"}
Counts == {"PORT", "IG_MEDIA_LIMIT", "LLM_MAX_TOKENS", "LLM_POST_LIMIT", "WORKER_CONCURRENCY"}
Durations == {"BATCH_POLL_INTERVAL", "BATCH_POLL_TIMEOUT", "GEOCODE_MIN_INTERVAL"}
Flags == {"RUN_ON_STARTUP", "PROCESSING_RUN_ON_STARTUP"}
Strings == {"GEOCODE_BASE_URL", "CRON_SCHEDULE", "PROCESSING_CRON_SCHEDULE"}
Parsed == Counts \cup Durations \cup Flags
Var == Required \cup Parsed \cup Strings \cup {"ADMIN_API_KEY"}

(* Every value is a record of one kind: absent, text that does not parse,  *)
(* a number, a flag, or a string that stands for its class.                *)
Unset == [unset |-> TRUE]
Malformed == [malformed |-> TRUE]
N(n) == [number |-> n]
B(b) == [flag |-> b]
S(s) == [string |-> s]

(* Stated as ASSUMEs by the module that instantiates this one.             *)
OfferedAssumption ==
  /\ DOMAIN Offered = Var
  /\ \A v \in Var : Unset \in Offered[v]
  /\ \A v \in Var : Malformed \in Offered[v] => v \in Parsed
  /\ \A v \in Counts \cup Durations : \A x \in Offered[v] \ {Unset, Malformed} :
       x = N(x.number) /\ x.number \in Int
  /\ Offered["ADMIN_API_KEY"] \subseteq {Unset, S("short"), S("long")}
ExampleAssumption ==
  /\ Example \in [Var -> UNION {Offered[v] : v \in Var}]
  /\ \A v \in Var : Example[v] \in Offered[v]
BoundAssumption == MaxChanged \in Nat

VARIABLES
  env,        \* the environment of the next start
  stage,      \* how far the start has come
  cfg,        \* the Configurations it runs with
  problems,   \* the variables the refusal names
  launched    \* the startup run of ingestion is under way

vars == <<env, stage, cfg, problems, launched>>

(* Before the first start.                                                 *)
NoCfg == [v \in Var |-> Unset]

TypeOK ==
  /\ env \in [Var -> UNION {Offered[v] : v \in Var}]
  /\ \A v \in Var : env[v] \in Offered[v]
  /\ stage \in {"down", "loaded", "verified", "ingesting", "serving", "refused", "failed"}
  /\ DOMAIN cfg = Var
  /\ stage \in {"loaded", "verified", "ingesting", "serving"} =>
       /\ \A v \in Var \ {"ADMIN_API_KEY"} : cfg[v] \notin {Unset, Malformed}
       /\ problems = {}
  /\ problems \subseteq Var
  /\ launched \in BOOLEAN

Init ==
  /\ env = Example
  /\ stage = "down"
  /\ cfg = NoCfg
  /\ problems = {}
  /\ launched = FALSE

-----------------------------------------------------------------------------
(* parse.                                                                  *)

(* The fallbacks that parse names.                                         *)
Numbers ==
  [PORT |-> 8082, IG_MEDIA_LIMIT |-> 25, LLM_MAX_TOKENS |-> 500, LLM_POST_LIMIT |-> 5000,
   WORKER_CONCURRENCY |-> 3, BATCH_POLL_INTERVAL |-> 30000, BATCH_POLL_TIMEOUT |-> 7200000,
   GEOCODE_MIN_INTERVAL |-> 1000]
Fallback ==
  [v \in Parsed \cup Strings |->
     CASE v \in DOMAIN Numbers -> N(Numbers[v])
       [] v \in Flags -> B(FALSE)
       [] v = "GEOCODE_BASE_URL" -> S("public")
       [] OTHER -> S("schedule")]

(* envInt, envBool, envDuration and envString: what is empty or does not   *)
(* parse becomes the fallback; os.Getenv keeps it.                         *)
Read(v) ==
  IF v \in DOMAIN Fallback /\ env[v] \in {Unset, Malformed} THEN Fallback[v] ELSE env[v]

parse == [v \in Var |-> Read(v)]

-----------------------------------------------------------------------------
(* validate.                                                               *)

MaxBatchRequests == 100000

Number(c, v) == c[v].number

(* The variables that do not pass, each checked whatever the others are.   *)
OutOfRange(c) ==
  {v \in Counts : Number(c, v) < 1}
    \cup {v \in {"PORT"} : Number(c, v) > 65535}
    \cup {v \in {"LLM_POST_LIMIT"} : Number(c, v) > MaxBatchRequests}
MissingOrBad(c) ==
  {v \in Required : c[v] = Unset}
    \cup {v \in {"IG_API_VERSION"} : c[v] = S("no v")}
    \cup {v \in {"ADMIN_API_KEY"} : c[v] = S("short")}
PollingBad(c) ==
  {v \in {"BATCH_POLL_INTERVAL"} : Number(c, v) < 1000}
    \cup {v \in {"BATCH_POLL_TIMEOUT"} : Number(c, v) <= Number(c, "BATCH_POLL_INTERVAL")}
GeocodeBad(c) ==
  {v \in {"GEOCODE_MIN_INTERVAL"} : Number(c, v) < 1000 /\ c["GEOCODE_BASE_URL"] = S("public")}

WithoutPolling(c) == MissingOrBad(c) \cup OutOfRange(c) \cup GeocodeBad(c)
validate(c) == MissingOrBad(c) \cup OutOfRange(c) \cup PollingBad(c) \cup GeocodeBad(c)

-----------------------------------------------------------------------------
(* The operator.                                                           *)

Stopped == stage \in {"down", "refused", "failed"}

Changed(e) == {v \in Var : e[v] # Example[v]}

Edit(v, value) ==
  /\ Stopped
  /\ env' = [env EXCEPT ![v] = value]
  /\ Cardinality(Changed(env')) <= MaxChanged
  /\ stage' = "down"
  /\ cfg' = NoCfg /\ problems' = {} /\ launched' = FALSE

Stop == stage = "serving" /\ stage' = "down" /\ launched' = FALSE
        /\ UNCHANGED <<env, cfg, problems>>

-----------------------------------------------------------------------------
(* The start.                                                              *)

Load ==
  /\ stage = "down"
  /\ cfg' = parse
  /\ problems' = validate(cfg')
  /\ stage' = IF problems' = {} THEN "loaded" ELSE "refused"
  /\ UNCHANGED <<env, launched>>

(* InitPostgres and VerifyToken, neither of which has started anything.    *)
Connect ==
  /\ stage = "loaded"
  /\ stage' \in {"verified", "failed"}
  /\ UNCHANGED <<env, cfg, problems, launched>>

(* IngestionCron.Run: AddFunc parses the schedule; RUN_ON_STARTUP starts a *)
(* run at once.                                                            *)
StartIngestion ==
  /\ stage = "verified"
  /\ IF cfg["CRON_SCHEDULE"] = S("bad")
     THEN stage' = "failed" /\ UNCHANGED launched
     ELSE stage' = "ingesting" /\ launched' = (cfg["RUN_ON_STARTUP"] = B(TRUE))
  /\ UNCHANGED <<env, cfg, problems>>

StartProcessing ==
  /\ stage = "ingesting"
  /\ stage' = IF cfg["PROCESSING_CRON_SCHEDULE"] = S("bad") THEN "failed" ELSE "serving"
  /\ UNCHANGED <<env, cfg, problems, launched>>

Next ==
  \/ \E v \in Var : \E value \in Offered[v] : Edit(v, value)
  \/ Stop
  \/ Load \/ Connect \/ StartIngestion \/ StartProcessing

Spec == Init /\ [][Next]_vars

-----------------------------------------------------------------------------
(* Whatever the environment, a process that serves, and the run it starts  *)
(* while it is still booting, have a configuration on which the other      *)
(* modules may rely: a worker, a limit one batch can hold, a first poll    *)
(* before the deadline, the public geocoder's pace, schedules that parse,  *)
(* and an admin key that is long or not there.                             *)
ServesOnSoundConfig ==
  /\ stage = "serving" \/ launched =>
       /\ Number(cfg, "WORKER_CONCURRENCY") > 0 /\ Number(cfg, "IG_MEDIA_LIMIT") > 0
       /\ Number(cfg, "LLM_POST_LIMIT") \in 1..MaxBatchRequests
       /\ Number(cfg, "BATCH_POLL_INTERVAL") < Number(cfg, "BATCH_POLL_TIMEOUT")
       /\ cfg["GEOCODE_BASE_URL"] = S("public") => Number(cfg, "GEOCODE_MIN_INTERVAL") >= 1000
       /\ cfg["ADMIN_API_KEY"] \in {Unset, S("long")}
  /\ stage = "serving" =>
       S("bad") \notin {cfg["CRON_SCHEDULE"], cfg["PROCESSING_CRON_SCHEDULE"]}
=============================================================================
