------------------------------ MODULE Services ------------------------------
(***************************************************************************)
(* The services as processes: the API's start against a database that may  *)
(* not be there yet (server.ts, db.ts), the health report (app.ts,         *)
(* checks.ts, aiCheck.ts, storageCheck.ts) and the banner that shows it    *)
(* (HealthBanner.tsx), and the AI service's threads, of which the first    *)
(* loads the model for all (classifier.py, main.py), under the API's       *)
(* patience with them (tagClient.ts).                                      *)
(***************************************************************************)
EXTENDS Integers, FiniteSets

CONSTANTS
  Threads,        \* the AI service's threadpool
  MaxTags,        \* bound: photos sent to be tagged
  MaxMountedBanners, \* bound: times the profile mounts a banner
  MaxOutages      \* bound: services that change, checks missed, requests lost

ASSUME ServicesBoundsAssumption == {MaxTags, MaxMountedBanners, MaxOutages} \subseteq Nat

VARIABLES
  mongo,          \* the database: up or not
  minio,          \* the object store: "up", "bare" (up, its bucket missing) or "gone"
  ai,             \* the AI service: "up", "sick" (it answers, with an error) or "gone"
  api,            \* the API's connection: "connecting", "waiting", "connected"
  banner,         \* HealthBanner
  checks,         \* the banner's GET /health
  seen,           \* history: how each service has been while the banner was checking
  bundle, lock,   \* _classifier_bundle and _load_lock
  pc,             \* where each thread is in its POST /tag
  call,           \* the API's tagImage behind it
  tags, banners, outages

servicesVars == <<mongo, minio, ai, api, banner, checks, seen, bundle, lock, pc, call,
                  tags, banners, outages>>
healthVars == <<banner, checks, seen, banners>>
taggerVars == <<bundle, lock, pc, call, tags>>

Free == "free"
ASSUME FreeIsNoThread == Free \notin Threads

Reported == {"database", "storage", "ai"}
Statuses == {"ok", "degraded", "down"}
Conditions == {"up", "bare", "sick", "gone"}
NoReport == [s \in Reported |-> "none"]
CheckStates == {"none", "asking", "answered", "lost"}
NoChecks == [at |-> "none", found |-> NoReport]

ServicesTypeOK ==
  /\ {mongo, bundle} \subseteq BOOLEAN
  /\ minio \in {"up", "bare", "gone"} /\ ai \in {"up", "sick", "gone"}
  /\ api \in {"connecting", "waiting", "connected"}
  /\ banner.state \in {"absent", "loading", "failed", "rows"}
  /\ checks \in [at : CheckStates, found : [Reported -> Statuses \cup {"none"}]]
  /\ seen \in [Reported -> SUBSET (Conditions \cup {"unanswered"})]
  /\ lock \in Threads \cup {Free} /\ (lock # Free => pc[lock] \in {"recheck", "load"})
  /\ pc \in [Threads -> {"idle", "check", "lock", "recheck", "load", "classify", "failed"}]
  /\ call \in [Threads -> {"none", "waiting", "tagged", "null"}]

ServicesInit ==
  /\ mongo \in BOOLEAN /\ minio = "up" /\ ai = "up" /\ api = "connecting"
  /\ banner = [state |-> "absent", report |-> NoReport]
  /\ checks = NoChecks
  /\ seen = [s \in Reported |-> {}]
  /\ bundle = FALSE /\ lock = Free
  /\ pc = [t \in Threads |-> "idle"] /\ call = [t \in Threads |-> "none"]
  /\ tags = 0 /\ banners = 0 /\ outages = 0

Outage == outages < MaxOutages /\ outages' = outages + 1

----------------------------------------------------------------------------
(***************************************************************************)
(* Start-up.  main listens first, and connects as soon as it can.          *)
(***************************************************************************)

\* How each service is to the API that asks it: the database is as it is over
\* the connection there is just now.
Condition == [database |-> IF api = "connected" /\ mongo THEN "up" ELSE "gone",
              storage |-> minio, ai |-> ai]

Noted ==
  seen' = IF banner.state = "loading"
            THEN [s \in Reported |-> seen[s] \cup {Condition'[s]}] ELSE seen

\* connectWithRetry: the attempt, and the delay after one that failed.
Connect ==
  /\ api' = IF api = "waiting" THEN "connecting" ELSE IF mongo THEN "connected" ELSE "waiting"
  /\ api # "connected"
  /\ UNCHANGED <<mongo, minio, ai, banner, checks, banners, taggerVars, outages>> /\ Noted

\* A store stops or starts, or the bucket goes.
ChangeStores ==
  /\ Outage
  /\ \/ mongo' = ~mongo /\ UNCHANGED minio
     \/ (\E state \in {"up", "bare", "gone"} \ {minio} : minio' = state) /\ UNCHANGED mongo
  /\ UNCHANGED <<ai, api, banner, checks, banners, taggerVars>> /\ Noted

\* The API process dies and is started again; whoever waits for it is let down.
RestartApi ==
  /\ Outage /\ api' = "connecting"
  /\ checks' = IF checks.at = "asking" THEN [checks EXCEPT !.at = "lost"] ELSE checks
  /\ call' = [t \in Threads |-> IF call[t] = "waiting" THEN "none" ELSE call[t]]
  /\ UNCHANGED <<mongo, minio, ai, banner, banners, bundle, lock, pc, tags>> /\ Noted

----------------------------------------------------------------------------
(***************************************************************************)
(* Health.                                                                 *)
(***************************************************************************)

\* The banner mounts and asks.
MountBanner ==
  /\ banner.state = "absent"
  /\ banners < MaxMountedBanners /\ banners' = banners + 1
  /\ banner' = [state |-> "loading", report |-> NoReport]
  /\ checks' = [NoChecks EXCEPT !.at = "asking"]
  /\ seen' = [s \in Reported |-> {Condition[s]}]
  /\ UNCHANGED <<mongo, minio, ai, api, taggerVars, outages>>

\* databaseStatus: a ping that is answered, or not.
DatabaseStatus(condition) == IF condition = "up" THEN "ok" ELSE "down"

\* Mutant: that the store answers is enough.
StorageAnswers(condition) == IF condition \in {"up", "bare"} THEN "ok" ELSE "down"

\* storageStatus: whether the bucket is there, or a call that throws.
StorageStatus(condition) ==
  CASE condition = "up" -> "ok" [] condition = "bare" -> "degraded" [] OTHER -> "down"

\* aiStatus: a healthy answer, one that is not, or none.
AiStatus(condition) ==
  CASE condition = "up" -> "ok" [] condition = "sick" -> "degraded" [] OTHER -> "down"

Status(s, condition) ==
  CASE s = "database" -> DatabaseStatus(condition)
    [] s = "storage" -> StorageStatus(condition)
    [] OTHER -> AiStatus(condition)

\* Each check asks its service in its own time.
RunCheck(s) ==
  /\ checks.at = "asking" /\ checks.found[s] = "none"
  /\ checks' = [checks EXCEPT !.found[s] = Status(s, Condition[s])]
  /\ UNCHANGED <<mongo, minio, ai, api, banner, seen, banners, taggerVars, outages>>

\* safeCheck: a service that is not heard of, because the call fails or the 3 s
\* of aiStatus are over, is down, however it is.
MissCheck(s) ==
  /\ checks.at = "asking" /\ checks.found[s] = "none" /\ Outage
  /\ checks' = [checks EXCEPT !.found[s] = "down"]
  /\ seen' = [seen EXCEPT ![s] = @ \cup {"unanswered"}]
  /\ UNCHANGED <<mongo, minio, ai, api, banner, banners, taggerVars>>

\* overallStatus: the HTTP status of the report, which carries the report too.
OverallStatus(found) ==
  IF \E s \in Reported : found[s] = "down" THEN "down"
  ELSE IF \E s \in Reported : found[s] = "degraded" THEN "degraded" ELSE "ok"

AnswerHealth ==
  /\ checks.at = "asking" /\ \A s \in Reported : checks.found[s] # "none"
  /\ checks' = [checks EXCEPT !.at = "answered"]
  /\ UNCHANGED <<mongo, minio, ai, api, banner, seen, banners, taggerVars, outages>>

\* The request or the answer is lost.
LoseHealth ==
  /\ checks.at \in {"asking", "answered"} /\ Outage
  /\ checks' = [checks EXCEPT !.at = "lost"]
  /\ UNCHANGED <<mongo, minio, ai, api, banner, seen, banners, taggerVars>>

\* Mutant: a report with the status 503 is taken for a failure.
ShowStrict ==
  IF checks.at = "lost" \/ OverallStatus(checks.found) = "down"
    THEN [banner EXCEPT !.state = "failed"]
    ELSE [banner EXCEPT !.state = "rows", !.report = checks.found]

\* The banner shows the report whatever its status, and says so when none came.
Show ==
  IF checks.at = "lost" THEN [banner EXCEPT !.state = "failed"]
  ELSE [banner EXCEPT !.state = "rows", !.report = checks.found]

DeliverHealth ==
  /\ checks.at \in {"answered", "lost"}
  /\ banner' = Show /\ checks' = NoChecks
  /\ UNCHANGED <<mongo, minio, ai, api, seen, banners, taggerVars, outages>>

\* The profile is left.  cancelled: what is still to come is for nobody.
UnmountBanner ==
  /\ banner.state # "absent"
  /\ banner' = [state |-> "absent", report |-> NoReport] /\ checks' = NoChecks
  /\ seen' = [s \in Reported |-> {}]
  /\ UNCHANGED <<mongo, minio, ai, api, banners, taggerVars, outages>>

----------------------------------------------------------------------------
(***************************************************************************)
(* Tagging.                                                                *)
(***************************************************************************)
At(t, from, to) == pc[t] = from /\ pc' = [pc EXCEPT ![t] = to]

\* tagImage posts a photo, and a thread takes it.
Tag(t) ==
  /\ ai # "gone" /\ tags < MaxTags /\ tags' = tags + 1
  /\ call[t] # "waiting" /\ call' = [call EXCEPT ![t] = "waiting"]
  /\ At(t, "idle", "check")
  /\ UNCHANGED <<mongo, minio, ai, api, healthVars, bundle, lock, outages>>

\* load_classifier, outside the lock.
CheckBundle(t) ==
  /\ At(t, "check", IF bundle THEN "classify" ELSE "lock")
  /\ UNCHANGED <<mongo, minio, ai, api, healthVars, bundle, lock, call, tags, outages>>

AcquireLock(t) ==
  /\ lock = Free /\ lock' = t /\ At(t, "lock", "recheck")
  /\ UNCHANGED <<mongo, minio, ai, api, healthVars, bundle, call, tags, outages>>

\* Mutant: the bundle is not looked at again.
RecheckNot(t) ==
  /\ At(t, "recheck", "load") /\ UNCHANGED lock
  /\ UNCHANGED <<mongo, minio, ai, api, healthVars, bundle, call, tags, outages>>

\* Inside the lock the bundle is looked at again.
Recheck(t) ==
  /\ \/ bundle /\ At(t, "recheck", "classify") /\ lock' = Free
     \/ ~bundle /\ At(t, "recheck", "load") /\ UNCHANGED lock
  /\ UNCHANGED <<mongo, minio, ai, api, healthVars, bundle, call, tags, outages>>

Loaded(t) ==
  /\ At(t, "load", "classify") /\ bundle' = TRUE /\ lock' = Free
  /\ UNCHANGED <<mongo, minio, ai, api, healthVars, call, tags, outages>>

\* Mutant: only a load that succeeds gives the lock back.
LoadFailsHeld(t) ==
  /\ At(t, "load", "failed") /\ UNCHANGED lock
  /\ UNCHANGED <<mongo, minio, ai, api, healthVars, bundle, call, tags, outages>>

\* A load that raises leaves the lock free, and the next thread to load.
LoadFails(t) ==
  /\ At(t, "load", "failed") /\ lock' = Free
  /\ UNCHANGED <<mongo, minio, ai, api, healthVars, bundle, call, tags, outages>>

\* The answer: tags, or the refusal of what cannot be read.
Answer(t) ==
  /\ \/ At(t, "classify", "idle")
     \/ At(t, "failed", "idle")
  /\ call' = [call EXCEPT ![t] = IF @ # "waiting" THEN @
                                 ELSE IF pc[t] = "classify" THEN "tagged" ELSE "null"]
  /\ UNCHANGED <<mongo, minio, ai, api, healthVars, bundle, lock, tags, outages>>

\* A photo that cannot be read, or is too large, is refused before or after.
Refuse(t) ==
  /\ pc[t] \in {"check", "classify"} /\ pc' = [pc EXCEPT ![t] = "idle"]
  /\ call' = [call EXCEPT ![t] = IF @ = "waiting" THEN "null" ELSE @]
  /\ UNCHANGED <<mongo, minio, ai, api, healthVars, bundle, lock, tags, outages>>

\* TAG_TIMEOUT_MS: the API gives up; the thread does not know.
GiveUp(t) ==
  /\ call[t] = "waiting" /\ call' = [call EXCEPT ![t] = "null"]
  /\ UNCHANGED <<mongo, minio, ai, api, healthVars, bundle, lock, pc, tags, outages>>

\* The AI service dies, with its threads and the model, or is back, or ails.
ChangeAi ==
  /\ Outage /\ \E state \in {"up", "sick", "gone"} \ {ai} : ai' = state
  /\ IF ai' = "gone"
       THEN /\ bundle' = FALSE /\ lock' = Free /\ pc' = [t \in Threads |-> "idle"]
            /\ call' = [t \in Threads |-> IF call[t] = "waiting" THEN "null" ELSE call[t]]
       ELSE UNCHANGED <<bundle, lock, pc, call>>
  /\ UNCHANGED <<mongo, minio, api, banner, checks, banners, tags>> /\ Noted

StartNext ==
  \/ Connect \/ ChangeStores \/ RestartApi \/ ChangeAi
  \/ MountBanner \/ AnswerHealth \/ LoseHealth \/ DeliverHealth \/ UnmountBanner
  \/ \E s \in Reported : RunCheck(s) \/ MissCheck(s)

TaggingNext ==
  \/ RestartApi \/ ChangeAi
  \/ \E t \in Threads :
       \/ Tag(t) \/ CheckBundle(t) \/ AcquireLock(t) \/ Recheck(t) \/ Loaded(t)
       \/ LoadFails(t) \/ Answer(t) \/ Refuse(t) \/ GiveUp(t)

ThreadStep(t) ==
  CheckBundle(t) \/ AcquireLock(t) \/ Recheck(t) \/ Loaded(t) \/ Answer(t)

----------------------------------------------------------------------------
(***************************************************************************)
(* Properties                                                              *)
(***************************************************************************)

\* classifier.py:24-45: however many first callers come at once, at most one of
\* them loads the model, and none once it is loaded.
OneLoad ==
  LET loading == {t \in Threads : pc[t] = "load"}
  IN Cardinality(loading) <= 1 /\ (bundle => loading = {})

\* What a word of the report says of a service, read by who looks at it.
Says(status) ==
  CASE status = "ok" -> {"up"}
    [] status = "degraded" -> {"bare", "sick"}
    [] OTHER -> {"gone", "unanswered"}

\* app.ts:22-31, db.ts:8-17, storageCheck.ts:14-20, aiCheck.ts:3-12: what the
\* banner says of a service was so at some moment while the banner was
\* checking: "ok" of one that was well,
\* "degraded" of one that answered and was not (a bucket missing, an AI service
\* with an error), "down" of one that was gone, or that was up and did not
\* answer the check (a failed call, or the 3 s over).
ReportIsTrue ==
  banner.state = "rows" =>
    \A s \in Reported : Says(banner.report[s]) \cap seen[s] # {}

\* HealthBanner.tsx:26-46, app.ts:30: the server is called out of reach only
\* if no report came; one that tells of an outage, with its 503, is shown.
UnreachableIsTrue ==
  [][banner.state = "loading" /\ banner'.state = "failed" => checks.at = "lost"]_servicesVars
=============================================================================
