------------------------------- MODULE Health -------------------------------
(***************************************************************************)
(* Coming up in the order of compose.yaml: the import, then the API, whose *)
(* health (services/healthService.js) Docker probes and the build of the   *)
(* graph waits for, and at last OSRM, on which the API's health must       *)
(* therefore not depend.                                                   *)
(*                                                                         *)
(* A tick is a second.  Docker, supervisord and the three dependencies are *)
(* external: a dependency answers at once ("up"), fails at once ("down")   *)
(* or does not answer ("silent").  What the builds and imports do is in    *)
(* OsrmGraph and RoadImport.                                               *)
(***************************************************************************)
EXTENDS Naturals

CONSTANTS Deadline,      \* HEALTH_TIMEOUT_MS, 2 s
          Interval,      \* healthcheck of compose.yaml: interval, 30 s
          ProbeTimeout,  \* timeout, 5 s
          Retries,       \* retries, 10
          StartPeriod,   \* start_period, 60 min
          MaxOutages     \* bound on failures of the API and of its database

ASSUME TimesAssumption ==
    /\ Deadline \in Nat \ {0}
    /\ Interval \in Nat \ {0}
    /\ ProbeTimeout \in Nat
    /\ ProbeTimeout > Deadline
    /\ Retries \in Nat \ {0}
    /\ StartPeriod \in Nat
    /\ MaxOutages \in Nat

VARIABLES
    imported,  \* the entrypoint has got past the import
    api,       \* the API process runs
    state,     \* what each dependency does when it is asked
    answers,   \* what the checks of the request being handled came to
    probing,   \* Docker's probe is under way
    clock,     \* how long it has been, or how long Docker has rested
    booted,    \* age of the container, up to StartPeriod
    failures,  \* failed probes in a row
    health,    \* of the container
    compose,   \* how far docker compose up is
    since,     \* history: how long Serving has been what it is, up to Horizon
    outages    \* failures of the API or the database so far

requestVars == <<answers, probing, clock>>
dockerVars == <<booted, failures, health>>
vars == <<imported, api, state, requestVars, dockerVars, compose, since, outages>>

Dependencies == {"roads", "osrm", "updates"}

\* The API can do what it exists for.
Serving == api /\ state["roads"] = "up"

\* The longest the container may pass for healthy without, and be taken for
\* less than healthy with, an API that can do what it exists for.
Staleness == Deadline + Retries * (Interval + Deadline)
Recovery == Interval + 2 * Deadline
Horizon == Staleness + Recovery

TypeOK ==
    /\ imported \in BOOLEAN
    /\ api \in BOOLEAN
    /\ state \in [Dependencies -> {"up", "down", "silent"}]
    /\ answers \in [Dependencies -> {"pending", "yes", "no"}]
    /\ probing \in BOOLEAN
    /\ clock \in 0..(IF probing THEN ProbeTimeout ELSE Interval)
    /\ booted \in 0..StartPeriod
    /\ failures \in 0..Retries
    /\ health \in {"starting", "healthy", "unhealthy"}
    /\ compose \in {"waiting", "building", "routing", "failed"}
    /\ since \in 0..Horizon
    /\ outages \in 0..MaxOutages

NoAnswers == [d \in Dependencies |-> "pending"]

Init ==
    /\ imported = FALSE
    /\ api = FALSE
    /\ state = [d \in Dependencies |-> "down"]
    /\ answers = NoAnswers
    /\ probing = FALSE
    /\ clock = 0
    /\ booted = 0
    /\ failures = 0
    /\ health = "starting"
    /\ compose = "waiting"
    /\ since = 0
    /\ outages = 0

-----------------------------------------------------------------------------
(* A request to /api/health *)

\* Variant: each check's deadline begins with the end of the one before.
LateInTurn(d) ==
    clock >= Deadline * (CASE d = "roads" -> 1 [] d = "osrm" -> 2 [] d = "updates" -> 3)

\* Variant: the checks are not bounded.
LateNever(d) == FALSE

\* bounded: the timer of a check, set when all of them are started.
Late(d) == clock >= Deadline

\* Variant: a query that fails passes for one that found the roads.
SaysYes(d) == "yes"

\* Variant: a check that fails is an error instead of a no.
SaysOrFails(d) == IF state[d] = "up" THEN "yes" ELSE "error"

\* roadsAvailable, osrmAvailable, isAvailable.
Says(d) == IF state[d] = "up" THEN "yes" ELSE "no"

Asked(d) == probing /\ answers[d] = "pending"

CheckAnswers(d) ==
    /\ Asked(d)
    /\ state[d] # "silent"
    /\ answers' = [answers EXCEPT ![d] = Says(d)]
    /\ UNCHANGED <<imported, api, state, probing, clock, dockerVars, compose, since, outages>>

\* The timer wins the race: the answer is no, and a later one is dropped.
CheckTimesOut(d) ==
    /\ Asked(d)
    /\ state[d] = "silent"
    /\ Late(d)
    /\ answers' = [answers EXCEPT ![d] = "no"]
    /\ UNCHANGED <<imported, api, state, probing, clock, dockerVars, compose, since, outages>>

Answered == \A d \in Dependencies : answers[d] # "pending"

Status ==
    IF answers["roads"] = "yes" THEN IF answers["osrm"] = "yes" THEN "ok" ELSE "degraded"
    ELSE "unavailable"

\* Variant: whatever is not "ok" is answered 503.
SucceedsIfOk == Status = "ok"

\* The status code of healthController: 503 for "unavailable" only.
Succeeds == Status # "unavailable"

-----------------------------------------------------------------------------
(* Docker's healthcheck of the road-network container *)

Excused == health = "starting" /\ booted < StartPeriod

\* A probe is over; in the start period a failure does not count.  Retries bounds
\* the count here: Docker goes on counting, and health stays what it is.
Conclude(ok) ==
    /\ probing' = FALSE
    /\ answers' = NoAnswers
    /\ clock' = 0
    /\ \/ /\ ok
          /\ failures' = 0
          /\ health' = "healthy"
       \/ /\ ~ok
          /\ Excused
          /\ UNCHANGED <<failures, health>>
       \/ /\ ~ok
          /\ ~Excused
          /\ failures' = IF failures < Retries THEN failures + 1 ELSE failures
          /\ health' = IF failures' = Retries THEN "unhealthy" ELSE health
    /\ UNCHANGED booted

ProbeDue == ~probing /\ clock = Interval

Probe ==
    /\ ProbeDue
    /\ api
    /\ probing' = TRUE
    /\ clock' = 0
    /\ UNCHANGED <<imported, api, state, answers, dockerVars, compose, since, outages>>

\* Nobody listens on the port.
ProbeRefused ==
    /\ ProbeDue
    /\ ~api
    /\ Conclude(FALSE)
    /\ UNCHANGED <<imported, api, state, compose, since, outages>>

ProbeOver == probing /\ (Answered \/ clock = ProbeTimeout)

ProbeEnds ==
    /\ ProbeOver
    /\ Conclude(Answered /\ Succeeds)
    /\ UNCHANGED <<imported, api, state, compose, since, outages>>

-----------------------------------------------------------------------------
(* The container and its dependencies *)

\* Serving has or has not become another.
Track == since' = IF Serving' = Serving THEN since ELSE 0

\* The import is over, whatever starts it took (entrypoint.sh).
ImportEnds ==
    /\ ~imported
    /\ imported' = TRUE
    /\ UNCHANGED <<api, state, requestVars, dockerVars, compose, since, outages>>

\* supervisord starts the API after the import only, and again when it ended.
StartApi ==
    /\ imported
    /\ ~api
    /\ api' = TRUE
    /\ UNCHANGED <<imported, state, requestVars, dockerVars, compose, outages>>
    /\ Track

\* A probe under way loses its connection.
StopApi ==
    /\ api
    /\ outages < MaxOutages
    /\ outages' = outages + 1
    /\ api' = FALSE
    /\ IF probing THEN Conclude(FALSE) ELSE UNCHANGED <<requestVars, dockerVars>>
    /\ UNCHANGED <<imported, state, compose>>
    /\ Track

\* The database answers, with an import behind it.
DatabaseUp ==
    /\ imported
    /\ state["roads"] # "up"
    /\ state' = [state EXCEPT !["roads"] = "up"]
    /\ UNCHANGED <<imported, api, requestVars, dockerVars, compose, outages>>
    /\ Track

DatabaseFails ==
    /\ state["roads"] = "up"
    /\ outages < MaxOutages
    /\ outages' = outages + 1
    /\ \E s \in {"down", "silent"} : state' = [state EXCEPT !["roads"] = s]
    /\ UNCHANGED <<imported, api, requestVars, dockerVars, compose>>
    /\ Track

\* Redis, and the queue on it, come and go as they like (external).
RedisBecomes(s) ==
    /\ imported
    /\ state' = [state EXCEPT !["updates"] = s]
    /\ UNCHANGED <<imported, api, requestVars, dockerVars, compose, since, outages>>

\* So does OSRM, once there is a graph to start it with.
OsrmBecomes(s) ==
    /\ compose = "routing"
    /\ state' = [state EXCEPT !["osrm"] = s]
    /\ UNCHANGED <<imported, api, requestVars, dockerVars, compose, since, outages>>

-----------------------------------------------------------------------------
(* docker compose up *)

\* osrm-build: condition: service_healthy.
BuildWhenHealthy == compose = "waiting" /\ health = "healthy" /\ compose' = "building"

ComposeStep ==
    /\ \/ BuildWhenHealthy
       \/ compose = "building" /\ compose' = "routing"
       \/ compose = "waiting" /\ health = "unhealthy" /\ compose' = "failed"
    /\ UNCHANGED <<imported, api, state, requestVars, dockerVars, since, outages>>

\* The build fails; osrm-build does not restart.
BuildFails ==
    /\ compose = "building"
    /\ outages < MaxOutages
    /\ outages' = outages + 1
    /\ compose' = "failed"
    /\ UNCHANGED <<imported, api, state, requestVars, dockerVars, since>>

\* The operator runs it again; what is up stays up.
ComposeAgain ==
    /\ compose = "failed"
    /\ compose' = "waiting"
    /\ UNCHANGED <<imported, api, state, requestVars, dockerVars, since, outages>>

-----------------------------------------------------------------------------

\* Something is due, or can happen in no time, before the next second.
Pressing ==
    \/ ProbeDue
    \/ ProbeOver
    \/ \E d \in Dependencies : Asked(d) /\ (state[d] # "silent" \/ Late(d))

Tick ==
    /\ ~Pressing
    /\ clock' = IF probing \/ clock < Interval THEN clock + 1 ELSE clock
    /\ booted' = IF booted < StartPeriod THEN booted + 1 ELSE booted
    /\ since' = IF since < Horizon THEN since + 1 ELSE since
    /\ UNCHANGED <<imported, api, state, answers, probing, failures, health, compose, outages>>

CheckStep == \E d \in Dependencies : CheckAnswers(d) \/ CheckTimesOut(d)

ProbeStep == Probe \/ ProbeRefused \/ ProbeEnds

Next ==
    \/ CheckStep
    \/ ProbeStep
    \/ ImportEnds
    \/ StartApi
    \/ StopApi
    \/ DatabaseUp
    \/ DatabaseFails
    \/ \E s \in {"up", "down", "silent"} : RedisBecomes(s) \/ OsrmBecomes(s)
    \/ ComposeStep
    \/ BuildFails
    \/ ComposeAgain
    \/ Tick

\* The import completes (RoadImport), supervisord restarts what ended, Docker
\* probes, time passes, compose goes on or is run again, a router that has a
\* graph loads it.
Fairness ==
    /\ SF_vars(CheckStep)
    /\ WF_vars(ProbeStep)
    /\ WF_vars(ImportEnds)
    /\ WF_vars(StartApi)
    /\ WF_vars(DatabaseUp)
    /\ WF_vars(ComposeStep)
    /\ WF_vars(ComposeAgain)
    /\ WF_vars(state["osrm"] # "up" /\ OsrmBecomes("up"))
    /\ WF_vars(Tick)

Spec == Init /\ [][Next]_vars

FairSpec == Spec /\ Fairness

-----------------------------------------------------------------------------
(* Properties *)

\* A probe is answered within the deadline of the checks, however many of the
\* dependencies do not answer, which is sooner than Docker gives it up.
AnswersInTime == probing => clock <= Deadline

\* What OSRM and Redis do never makes the container unhealthy: an API that has
\* been serving for an interval and two deadlines has been found healthy.
HealthFollowsRoads == Serving /\ since > Recovery => health = "healthy"

\* An API that cannot serve does not pass for healthy for longer than the
\* retries last.
HealthIsFresh == health = "healthy" /\ ~Serving => since <= Staleness

\* The build of the graph, and the router after it, wait for an import through
\* the API and its health: osrm-build finds the PBF of a finished import.
BuildFollowsImport == compose \in {"building", "routing"} => imported

\* Nothing waits for what waits for it: the router is there in the end.
StackComesUp == <>(state["osrm"] = "up")

=============================================================================
