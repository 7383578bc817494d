----------------------------- MODULE RoadUpdates -----------------------------
(***************************************************************************)
(* Updating the road network: POST /api/admin/update compares the local    *)
(* replication state with Geofabrik's and queues a job; a BullMQ worker    *)
(* takes one job at a time, runs scripts/update-roads.sh as a child        *)
(* process, optionally rebuilds the OSRM graph, and smoke-tests the        *)
(* result.  The same script may be run by hand, and it outlives a worker   *)
(* that crashes or gives up on it.                                         *)
(*                                                                         *)
(* A version stands for a replication sequence number and its timestamp.   *)
(* Redis, BullMQ, osm2pgsql-replication and Geofabrik are external: they   *)
(* are modelled as the code in src/ relies on them.                        *)
(***************************************************************************)
EXTENDS Integers

CONSTANTS Keys,            \* Idempotency-Keys, each the name of one job
          Callers,         \* requests to POST /api/admin/update in progress
          Scripts,         \* runs of update-roads.sh that may be alive at once
          NoKey, NoScript, \* model values: none
          MaxVersion,      \* bound on what Geofabrik publishes
          Budget,          \* how many failures, crashes and runs by hand happen
          Overruns,        \* whether a script may outlast its time limit
          RebuildEnabled   \* ROAD_INDEX_OSRM_REBUILD_ENABLED

Faults == {"failure", "crash", "byHand"}

ASSUME BoundsAssumption ==
    /\ MaxVersion \in Nat
    /\ Budget \in [Faults -> Nat]
    /\ Overruns \in BOOLEAN
    /\ RebuildEnabled \in BOOLEAN
    /\ NoKey \notin Keys
    /\ NoScript \notin Scripts

VARIABLES
    published,  \* newest version in Geofabrik's state.txt
    recorded,   \* version in osm2pgsql_properties
    roads,      \* version every row of the roads table is at least at
    script,     \* runs of update-roads.sh
    job,        \* state of the job of each key
    stalls,     \* how often BullMQ has found the job of a key stalled
    worker,     \* the job processor
    caller,     \* requests to the create handler
    promised,   \* history: the remote version found by the check that queued the job
    left        \* what is left of the Budget

dbVars == <<recorded, roads>>
queueVars == <<job, stalls, promised>>
vars == <<published, dbVars, script, queueVars, worker, caller, left>>

Versions == 0..MaxVersion
Nothing == -1

Completed == {"no_changes", "updated"}
Settled == Completed \cup {"failed"}

FreeScript == [at |-> "none", target |-> 0, awaited |-> FALSE]
IdleWorker == [at |-> "idle", key |-> NoKey, script |-> NoScript, before |-> 0]
IdleCaller == [at |-> "idle", key |-> NoKey, local |-> Nothing, remote |-> Nothing]

TypeOK ==
    /\ published \in Versions
    /\ recorded \in Versions
    /\ roads \in Versions
    /\ script \in [Scripts -> [at : {"none", "fetching", "applying", "recording", "analyzing"},
                               target : Versions, awaited : BOOLEAN]]
    /\ job \in [Keys -> {"none", "waiting", "active"} \cup Settled]
    /\ stalls \in [Keys -> 0..1]
    /\ worker \in [at : {"down", "idle", "before", "starting", "updating", "after",
                         "rebuilding", "verifying"},
                   key : Keys \cup {NoKey}, script : Scripts \cup {NoScript}, before : Versions]
    /\ caller \in [Callers -> [at : {"idle", "checking", "looking", "adding"},
                               key : Keys \cup {NoKey},
                               local : Versions \cup {Nothing},
                               remote : Versions \cup {Nothing}]]
    /\ promised \in [Keys -> Versions]
    /\ left \in [Faults -> Nat]

\* A network imported at version 0.
Init ==
    /\ published = 0
    /\ recorded = 0
    /\ roads = 0
    /\ script = [p \in Scripts |-> FreeScript]
    /\ job = [k \in Keys |-> "none"]
    /\ stalls = [k \in Keys |-> 0]
    /\ worker = IdleWorker
    /\ caller = [c \in Callers |-> IdleCaller]
    /\ promised = [k \in Keys |-> 0]
    /\ left = Budget

Spend(fault) ==
    /\ left[fault] > 0
    /\ left' = [left EXCEPT ![fault] = @ - 1]

\* Geofabrik publishes a diff.
Publish ==
    /\ published < MaxVersion
    /\ published' = published + 1
    /\ UNCHANGED <<dbVars, script, queueVars, worker, caller, left>>

-----------------------------------------------------------------------------
(* The create handler: check, then enqueue *)

\* Variant: enqueue without the check.
RequestUnchecked(c, k) ==
    /\ caller[c].at = "idle"
    /\ caller' = [caller EXCEPT ![c] = [IdleCaller EXCEPT !.at = "looking", !.key = k]]
    /\ UNCHANGED <<published, dbVars, script, queueVars, worker, left>>

Request(c, k) ==
    /\ caller[c].at = "idle"
    /\ caller' = [caller EXCEPT ![c] = [IdleCaller EXCEPT !.at = "checking", !.key = k]]
    /\ UNCHANGED <<published, dbVars, script, queueVars, worker, left>>

\* check() reads the local state and Geofabrik's at the same time: the two
\* reads take effect in any order.
ReadLocal(c) ==
    /\ caller[c].at = "checking"
    /\ caller[c].local = Nothing
    /\ caller' = [caller EXCEPT ![c].local = recorded]
    /\ UNCHANGED <<published, dbVars, script, queueVars, worker, left>>

ReadRemote(c) ==
    /\ caller[c].at = "checking"
    /\ caller[c].remote = Nothing
    /\ caller' = [caller EXCEPT ![c].remote = published]
    /\ UNCHANGED <<published, dbVars, script, queueVars, worker, left>>

UpdateAvailable(c) == caller[c].remote > caller[c].local

\* Answered 200 "no_changes", or on to the queue.
Decide(c) ==
    /\ caller[c].at = "checking"
    /\ caller[c].local # Nothing
    /\ caller[c].remote # Nothing
    /\ caller' = [caller EXCEPT ![c] =
                    IF UpdateAvailable(c) THEN [@ EXCEPT !.at = "looking"] ELSE IdleCaller]
    /\ UNCHANGED <<published, dbVars, script, queueVars, worker, left>>

\* getJob: a job of that key is answered as it is, whatever its state.
Lookup(c) ==
    /\ caller[c].at = "looking"
    /\ caller' = [caller EXCEPT ![c] =
                    IF job[@.key] = "none" THEN [@ EXCEPT !.at = "adding"] ELSE IdleCaller]
    /\ UNCHANGED <<published, dbVars, script, queueVars, worker, left>>

\* queue.add, which leaves a job of the same id that got there first alone.
Add(c) ==
    /\ caller[c].at = "adding"
    /\ LET k == caller[c].key
       IN  IF job[k] = "none"
           THEN /\ job' = [job EXCEPT ![k] = "waiting"]
                /\ promised' = [promised EXCEPT ![k] = caller[c].remote]
           ELSE UNCHANGED <<job, promised>>
    /\ caller' = [caller EXCEPT ![c] = IdleCaller]
    /\ UNCHANGED <<published, dbVars, script, stalls, worker, left>>

\* The database, Geofabrik or Redis does not answer: 503.
Refuse(c) ==
    /\ caller[c].at # "idle"
    /\ caller' = [caller EXCEPT ![c] = IdleCaller]
    /\ UNCHANGED <<published, dbVars, script, queueVars, worker, left>>

-----------------------------------------------------------------------------
(* update-roads.sh *)

\* A run of the script begins.
Launch(p, awaited) ==
    /\ script[p] = FreeScript
    /\ script' = [script EXCEPT ![p] = [FreeScript EXCEPT !.at = "fetching", !.awaited = awaited]]

RunByHand(p) ==
    /\ Launch(p, FALSE)
    /\ Spend("byHand")
    /\ UNCHANGED <<published, dbVars, queueVars, worker, caller>>

\* osm2pgsql-replication downloads a batch of the diffs that follow the
\* recorded state, or finds none.
Fetch(p) ==
    /\ script[p].at = "fetching"
    /\ \/ /\ published > recorded
          /\ \E v \in (recorded + 1)..published :
                script' = [script EXCEPT ![p].at = "applying", ![p].target = v]
       \/ /\ published <= recorded
          /\ script' = [script EXCEPT ![p].at = "analyzing"]
    /\ UNCHANGED <<published, dbVars, queueVars, worker, caller, left>>

\* osm2pgsql --append writes the batch over whatever the rows are at.
Apply(p) ==
    /\ script[p].at = "applying"
    /\ roads' = script[p].target
    /\ script' = [script EXCEPT ![p].at = "recording"]
    /\ UNCHANGED <<published, recorded, queueVars, worker, caller, left>>

Record(p) ==
    /\ script[p].at = "recording"
    /\ recorded' = script[p].target
    /\ script' = [script EXCEPT ![p].at = "fetching"]
    /\ UNCHANGED <<published, roads, queueVars, worker, caller, left>>

\* ANALYZE roads, and exit 0 to whoever waits.
Analyze(p) ==
    /\ script[p].at = "analyzing"
    /\ script' = [script EXCEPT ![p] = FreeScript]
    /\ worker' = IF script[p].awaited THEN [worker EXCEPT !.at = "after"] ELSE worker
    /\ UNCHANGED <<published, dbVars, queueVars, caller, left>>

-----------------------------------------------------------------------------
(* The worker *)

\* The job throws or is done: BullMQ settles it and the worker is free.
Settle(outcome) ==
    /\ job' = [job EXCEPT ![worker.key] = outcome]
    /\ worker' = IdleWorker
    /\ UNCHANGED <<stalls, promised>>

\* Variant: the exit status of the script is ignored.
ScriptFailureIgnored(p) ==
    /\ script[p].at # "none"
    /\ Spend("failure")
    /\ script' = [script EXCEPT ![p] = FreeScript]
    /\ worker' = IF script[p].awaited THEN [worker EXCEPT !.at = "after"] ELSE worker
    /\ UNCHANGED <<published, dbVars, queueVars, caller>>

\* set -e ends the script at any of its commands.
ScriptFails(p) ==
    /\ script[p].at # "none"
    /\ Spend("failure")
    /\ script' = [script EXCEPT ![p] = FreeScript]
    /\ IF script[p].awaited THEN Settle("failed") ELSE UNCHANGED <<queueVars, worker>>
    /\ UNCHANGED <<published, dbVars, caller>>

\* concurrency: 1
TakeJob(k) ==
    /\ worker.at = "idle"
    /\ job[k] = "waiting"
    /\ job' = [job EXCEPT ![k] = "active"]
    /\ worker' = [IdleWorker EXCEPT !.at = "before", !.key = k]
    /\ UNCHANGED <<published, dbVars, script, stalls, promised, caller, left>>

ReadBefore ==
    /\ worker.at = "before"
    /\ worker' = [worker EXCEPT !.at = "starting", !.before = recorded]
    /\ UNCHANGED <<published, dbVars, script, queueVars, caller, left>>

\* Variant: the script is started and not awaited.
StartUpdateUnawaited(p) ==
    /\ worker.at = "starting"
    /\ Launch(p, FALSE)
    /\ worker' = [worker EXCEPT !.at = "after"]
    /\ UNCHANGED <<published, dbVars, queueVars, caller, left>>

StartUpdate(p) ==
    /\ worker.at = "starting"
    /\ Launch(p, TRUE)
    /\ worker' = [worker EXCEPT !.at = "updating", !.script = p]
    /\ UNCHANGED <<published, dbVars, queueVars, caller, left>>

\* Variant: execFile without a time limit.
NoTimeOut == worker.at = "never" /\ UNCHANGED vars

\* Variant: the exit of the script is still listened to after its time is up.
TimeOutListening ==
    /\ Overruns
    /\ worker.at = "updating"
    /\ Settle("failed")
    /\ UNCHANGED <<published, dbVars, script, caller, left>>

\* The time limit of execFile: the job fails and only the shell is killed;
\* the command it was running goes on by itself.
TimeOut ==
    /\ Overruns
    /\ worker.at = "updating"
    /\ script' = [script EXCEPT ![worker.script].awaited = FALSE]
    /\ Settle("failed")
    /\ UNCHANGED <<published, dbVars, caller, left>>

HasNewState == recorded > worker.before

ReadAfter ==
    /\ worker.at = "after"
    /\ IF HasNewState
       THEN /\ worker' = [worker EXCEPT !.at = IF RebuildEnabled THEN "rebuilding" ELSE "verifying"]
            /\ UNCHANGED queueVars
       ELSE Settle("no_changes")
    /\ UNCHANGED <<published, dbVars, script, caller, left>>

\* build-osrm.sh, whose work is in OsrmGraph; the roads are not touched.
Rebuild ==
    /\ worker.at = "rebuilding"
    /\ worker' = [worker EXCEPT !.at = "verifying"]
    /\ UNCHANGED <<published, dbVars, script, queueVars, caller, left>>

\* The smoke test finds a road near central Dhaka.
Verify ==
    /\ worker.at = "verifying"
    /\ Settle("updated")
    /\ UNCHANGED <<published, dbVars, script, caller, left>>

\* A query, the rebuild or the smoke test fails.
StepFails ==
    /\ worker.at \in {"before", "starting", "after", "rebuilding", "verifying"}
    /\ Spend("failure")
    /\ Settle("failed")
    /\ UNCHANGED <<published, dbVars, script, caller>>

\* The worker process dies; a script it started goes on.
Crash ==
    /\ worker.at # "down"
    /\ Spend("crash")
    /\ script' = [p \in Scripts |-> IF p = worker.script
                                    THEN [script[p] EXCEPT !.awaited = FALSE] ELSE script[p]]
    /\ worker' = [IdleWorker EXCEPT !.at = "down"]
    /\ UNCHANGED <<published, dbVars, queueVars, caller>>

\* supervisord starts the worker again.
Restart ==
    /\ worker.at = "down"
    /\ worker' = IdleWorker
    /\ UNCHANGED <<published, dbVars, script, queueVars, caller, left>>

\* BullMQ finds an active job nobody renews the lock of: back to waiting the
\* first time, failed the second.
Stalled(k) ==
    /\ worker.at # "down"
    /\ job[k] = "active"
    /\ worker.key # k
    /\ job' = [job EXCEPT ![k] = IF stalls[k] = 0 THEN "waiting" ELSE "failed"]
    /\ stalls' = [stalls EXCEPT ![k] = 1]
    /\ UNCHANGED <<published, dbVars, script, promised, worker, caller, left>>

-----------------------------------------------------------------------------
CallerStep(c) ==
    \/ \E k \in Keys : Request(c, k)
    \/ ReadLocal(c)
    \/ ReadRemote(c)
    \/ Decide(c)
    \/ Lookup(c)
    \/ Add(c)
    \/ Refuse(c)

ScriptStep(p) == Fetch(p) \/ Apply(p) \/ Record(p) \/ Analyze(p)

WorkerStep ==
    \/ \E k \in Keys : TakeJob(k)
    \/ ReadBefore
    \/ \E p \in Scripts : StartUpdate(p)
    \/ TimeOut
    \/ ReadAfter
    \/ Rebuild
    \/ Verify

Next ==
    \/ Publish
    \/ \E c \in Callers : CallerStep(c)
    \/ \E p \in Scripts : ScriptStep(p) \/ ScriptFails(p) \/ RunByHand(p)
    \/ WorkerStep
    \/ StepFails
    \/ Crash
    \/ Restart
    \/ \E k \in Keys : Stalled(k)

\* The worker's event loop runs on, its child's time limit included; supervisord
\* restarts it; BullMQ looks for stalled jobs.  A script is under no obligation.
Fairness ==
    /\ WF_vars(WorkerStep)
    /\ WF_vars(Restart)
    /\ \A k \in Keys : WF_vars(Stalled(k))

Spec == Init /\ [][Next]_vars

FairSpec == Spec /\ Fairness

-----------------------------------------------------------------------------
(* Properties *)

\* No two runs of update-roads.sh are alive at once, whoever started them: by
\* itself the code keeps only two jobs of a worker that stays up apart.
OneRun ==
    \A p, q \in Scripts : script[p].at # "none" /\ script[q].at # "none" => p = q

\* What is recorded as applied has been applied: an updater that resumes from
\* the recorded state skips no diff.  Holds while no two runs of the script
\* overlap, which the worker's concurrency of 1 and its awaiting the script see to.
RecordedIsApplied == recorded <= roads

\* The roads table is a replica of the feed in the sense of FeedReplica.
Replica == INSTANCE FeedReplica WITH feed <- published, rows <- roads, position <- recorded

ReplicaSpec == Replica!Spec

\* A job that completes, by whichever outcome, has brought the database to the
\* version that was found at Geofabrik when the job was queued: its 202 promises
\* an update to that version, though it does not name it.
JobDelivers ==
    \A k \in Keys : job[k] \in Completed => recorded >= promised[k]

\* What can become of the job of a key: it is queued once, taken by the worker,
\* ended, and queued again at most once, when it has stalled.
JobMoves(k) ==
    \/ UNCHANGED <<job[k], promised[k], stalls[k]>>
    \/ job[k] = "none" /\ job'[k] = "waiting" /\ UNCHANGED stalls[k]
    \/ job[k] = "waiting" /\ job'[k] = "active" /\ UNCHANGED <<promised[k], stalls[k]>>
    \/ job[k] = "active" /\ job'[k] \in Settled /\ UNCHANGED promised[k]
    \/ job[k] = "active" /\ job'[k] = "waiting" /\ UNCHANGED promised[k] /\ stalls[k] < stalls'[k]

\* How a run of the script ends is news to the worker, whose job then goes on or
\* fails, only if it is the run that the worker has started and waits for.
EndIsNews(p) ==
    script[p].at # "none" /\ script'[p].at = "none" /\ worker' # worker
        => worker.at = "updating" /\ worker.script = p

\* A job that has ended stays as it ended and as it was promised, and no job is
\* taken a third time.  A run of the script that outlives its job, its time limit
\* or its worker is never taken for the run of a later job or attempt.
JobsMoveOn ==
    [][(\A k \in Keys : JobMoves(k)) /\ (\A p \in Scripts : EndIsNews(p))]_vars

\* Neither the recorded state nor the rows are ever ahead of Geofabrik's feed,
\* even when runs of the script overlap and overwrite each other.
WithinFeed == recorded <= published /\ roads <= published

\* Every queued job ends, though scripts may hang and the worker may crash.
JobsSettle ==
    \A k \in Keys : (job[k] \in {"waiting", "active"}) ~> (job[k] \in Settled)

=============================================================================
