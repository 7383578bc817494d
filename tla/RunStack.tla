------------------------------ MODULE RunStack ------------------------------
(***************************************************************************)
(* scripts/run-stack.sh, which runs OSRM (through scripts/run-osrm.sh),    *)
(* the API and the update worker as background jobs of one shell, waits    *)
(* for the first of them to end, and then takes down the rest.             *)
(***************************************************************************)
EXTENDS Naturals

CONSTANTS GraphMayBeMissing, \* the OSRM data directory may hold no graph
          Privileged         \* the shell may signal sudo, which runs as root

ASSUME SettingsAssumption ==
    /\ GraphMayBeMissing \in BOOLEAN
    /\ Privileged \in BOOLEAN

VARIABLES
    shell,     \* where the script is
    trapped,   \* its traps are set
    resume,    \* where it goes on after a signal handler
    dataDir,   \* $OSRM_HOME/data exists
    graph,     \* and holds a customized graph
    service,   \* the background jobs
    pids,      \* those in PIDS
    reaped,    \* those that a wait has returned for, which wait -n ignores
    told,      \* jobs a SIGTERM has reached
    container, \* a container named bpo-osrm: none, one left over, or this one's
    signalled  \* history: whether a signal came, and whether one came while
               \* jobs were being started or taken down

vars == <<shell, trapped, resume, dataDir, graph, service, pids, reaped, told, container, signalled>>
settings == <<dataDir, graph>>
jobs == <<pids, reaped, told>>

Services == {"osrm", "api", "worker"}
Starting == {"startOsrm", "recordOsrm", "startApi", "recordApi", "startWorker", "recordWorker"}

TypeOK ==
    /\ shell \in {"checking", "waiting", "removing", "killing", "reaping", "ended"} \cup Starting
    /\ trapped \in BOOLEAN
    /\ resume \in {"ended"} \cup Starting
    /\ dataDir \in BOOLEAN
    /\ graph \in BOOLEAN
    /\ service \in [Services -> {"none", "launched", "running", "ended"}]
    /\ pids \in SUBSET Services
    /\ reaped \in SUBSET Services
    /\ told \in SUBSET Services
    /\ container \in {"none", "stale", "ours"}
    /\ signalled \in {"no", "waiting", "hurried"}

Init ==
    /\ shell = "checking"
    /\ trapped = FALSE
    /\ resume = "ended"
    /\ dataDir \in BOOLEAN
    /\ graph \in IF GraphMayBeMissing THEN BOOLEAN ELSE {dataDir}
    /\ graph => dataDir
    /\ service = [s \in Services |-> "none"]
    /\ pids = {}
    /\ reaped = {}
    /\ told = {}
    /\ container \in {"none", "stale"}
    /\ signalled = "no"

Alive(s) == service[s] \in {"launched", "running"}

-----------------------------------------------------------------------------
(* The shell *)

\* redis-cli ping: without a PONG the script ends before its traps are set.
CheckRedis ==
    /\ shell = "checking"
    /\ \/ shell' = "ended" /\ UNCHANGED trapped
       \/ shell' = "startOsrm" /\ trapped' = TRUE
    /\ UNCHANGED <<resume, settings, service, jobs, container, signalled>>

Launch(s) == service' = [service EXCEPT ![s] = "launched"]

\* Each job is started and then recorded, and a signal may come between.
StartOsrm ==
    /\ shell = "startOsrm"
    /\ IF dataDir
       THEN shell' = "recordOsrm" /\ Launch("osrm")
       ELSE shell' = "startApi" /\ UNCHANGED service
    /\ UNCHANGED <<trapped, resume, settings, jobs, container, signalled>>

StartApi ==
    /\ shell = "startApi"
    /\ shell' = "recordApi"
    /\ Launch("api")
    /\ UNCHANGED <<trapped, resume, settings, jobs, container, signalled>>

StartWorker ==
    /\ shell = "startWorker"
    /\ shell' = "recordWorker"
    /\ Launch("worker")
    /\ UNCHANGED <<trapped, resume, settings, jobs, container, signalled>>

\* PIDS+=("$!")
Record(s, at, next) ==
    /\ shell = at
    /\ shell' = next
    /\ pids' = pids \cup {s}
    /\ UNCHANGED <<trapped, resume, settings, service, reaped, told, container, signalled>>

RecordOsrm == Record("osrm", "recordOsrm", "startApi")
RecordApi == Record("api", "recordApi", "startWorker")
RecordWorker == Record("worker", "recordWorker", "waiting")

\* Variant: the script waits again after a signal.
CleanupAndWait(next) ==
    /\ shell' = "removing"
    /\ trapped' = FALSE
    /\ resume' = "waiting"

\* cleanup, from the EXIT trap or from that of a signal; it clears the traps.
Cleanup(next) ==
    /\ shell' = "removing"
    /\ trapped' = FALSE
    /\ resume' = next

\* Variant: wait for all jobs.
WaitReturnsLast ==
    /\ shell = "waiting"
    /\ \A s \in pids : ~Alive(s)
    /\ IF trapped THEN Cleanup("ended") ELSE shell' = "ended" /\ UNCHANGED <<trapped, resume>>
    /\ UNCHANGED <<settings, service, jobs, container, signalled>>

\* wait -n "${PIDS[@]}", then exit 1, whose trap may be gone.
WaitReturns ==
    /\ shell = "waiting"
    /\ \E s \in pids \ reaped : service[s] = "ended"
    /\ IF trapped THEN Cleanup("ended") ELSE shell' = "ended" /\ UNCHANGED <<trapped, resume>>
    /\ UNCHANGED <<settings, service, jobs, container, signalled>>

\* SIGINT or SIGTERM.  The handler does not exit: a script that was waiting
\* goes on to its exit, one that was still starting jobs goes on starting them.
\* Without a trap, during the cleanup for one, the script is over at once.
Signal ==
    /\ shell # "ended"
    /\ signalled' = IF shell \in {"checking", "waiting"} /\ signalled = "no"
                    THEN "waiting" ELSE "hurried"
    /\ IF trapped
       THEN Cleanup(IF shell = "waiting" THEN "ended" ELSE shell)
       ELSE shell' = "ended" /\ UNCHANGED <<trapped, resume>>
    /\ UNCHANGED <<settings, service, jobs, container>>

\* docker rm -f bpo-osrm
Remove ==
    /\ shell = "removing"
    /\ shell' = "killing"
    /\ container' = "none"
    /\ service' = [service EXCEPT !["osrm"] = IF @ = "running" THEN "ended" ELSE @]
    /\ UNCHANGED <<trapped, resume, settings, jobs, signalled>>

\* Variant: cleanup does not wait.
KillOnly ==
    /\ shell = "killing"
    /\ shell' = resume
    /\ told' = {s \in pids : Alive(s) /\ (s = "worker" => Privileged)}
    /\ UNCHANGED <<trapped, resume, settings, service, pids, reaped, container, signalled>>

\* kill "${PIDS[@]}" || true: the job that is sudo takes signals from root only.
Kill ==
    /\ shell = "killing"
    /\ shell' = "reaping"
    /\ told' = {s \in pids : Alive(s) /\ (s = "worker" => Privileged)}
    /\ UNCHANGED <<trapped, resume, settings, service, pids, reaped, container, signalled>>

\* Variant: wait without arguments.
WaitedAll == Services

\* What wait "${PIDS[@]}" waits for: without arguments, all jobs.
Waited == IF pids = {} THEN Services ELSE pids

Reap ==
    /\ shell = "reaping"
    /\ \A s \in Waited : ~Alive(s)
    /\ shell' = resume
    /\ reaped' = {s \in Waited : service[s] = "ended"}
    /\ UNCHANGED <<trapped, resume, settings, service, pids, told, container, signalled>>

-----------------------------------------------------------------------------
(* The jobs *)

\* run-osrm.sh: no graph is an error, and so is a container of that name.
RunOsrm ==
    /\ service["osrm"] = "launched"
    /\ IF graph /\ container = "none"
       THEN /\ container' = "ours"
            /\ service' = [service EXCEPT !["osrm"] = "running"]
       ELSE /\ service' = [service EXCEPT !["osrm"] = "ended"]
            /\ UNCHANGED container
    /\ UNCHANGED <<shell, trapped, resume, settings, jobs, signalled>>

Come(s) ==
    /\ s # "osrm"
    /\ service[s] = "launched"
    /\ service' = [service EXCEPT ![s] = "running"]
    /\ UNCHANGED <<shell, trapped, resume, settings, jobs, container, signalled>>

\* A job ends, by itself or because it was told to.
End(s) ==
    /\ Alive(s)
    /\ service' = [service EXCEPT ![s] = "ended"]
    /\ container' = IF s = "osrm" /\ container = "ours" THEN "none" ELSE container
    /\ UNCHANGED <<shell, trapped, resume, settings, jobs, signalled>>

ShellStep ==
    \/ CheckRedis
    \/ StartOsrm
    \/ StartApi
    \/ StartWorker
    \/ RecordOsrm
    \/ RecordApi
    \/ RecordWorker
    \/ WaitReturns
    \/ Remove
    \/ Kill
    \/ Reap

Next ==
    \/ ShellStep
    \/ Signal
    \/ RunOsrm
    \/ \E s \in Services : Come(s) \/ End(s)

\* The shell and run-osrm.sh run on; a job that got SIGTERM ends.
Fairness ==
    /\ WF_vars(ShellStep)
    /\ WF_vars(RunOsrm)
    /\ \A s \in Services : WF_vars(s \in told /\ End(s))

Spec == Init /\ [][Next]_vars

FairSpec == Spec /\ Fairness

-----------------------------------------------------------------------------
(* Properties *)

\* When the script has ended, no job of it and no container is left running,
\* unless a signal came while it was starting its jobs or taking them down.
NothingLeftBehind ==
    shell = "ended" /\ signalled # "hurried"
        => container # "ours" /\ \A s \in Services : ~Alive(s)

\* "A service stopped; shutting down the remaining services": once one job has
\* ended all of them end, and the script with them, with the same exception.
EndTogether ==
    (\E s \in Services : service[s] = "ended")
        ~> \/ shell = "ended" /\ \A s \in Services : ~Alive(s)
           \/ signalled = "hurried"

\* "OSRM is optional: the stack stays useful without it, so a failure here is
\* logged rather than fatal": the shell takes the stack down only because
\* somebody asked it to or because the API or the worker ended.
OsrmIsOptional ==
    shell = "removing" => signalled # "no" \/ \E s \in {"api", "worker"} : service[s] = "ended"

\* A cleanup waits only for jobs that its SIGTERM reached: for none that a signal
\* found started and not yet recorded, and for none that is started after it.
\* There are two exceptions, in which the script may hang: the shell may not
\* signal sudo, or the signal came before any job was recorded.
CleanupWaitsForTold ==
    shell = "reaping" /\ pids # {} =>
        \A s \in Waited : Alive(s) => s \in told \/ (s = "worker" /\ ~Privileged)

\* Wherever a signal's handler returns to, each job is started at most once,
\* and one that has ended stays so.
JobMovesOn(s) ==
    \/ service'[s] = service[s]
    \/ service[s] = "none" /\ service'[s] = "launched"
    \/ service[s] = "launched" /\ service'[s] \in {"running", "ended"}
    \/ service[s] = "running" /\ service'[s] = "ended"

JobsStartOnce == [][\A s \in Services : JobMovesOn(s)]_vars

=============================================================================
