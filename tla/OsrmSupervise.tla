---------------------------- MODULE OsrmSupervise ----------------------------
(***************************************************************************)
(* The OSRM container: docker/osrm-supervise.sh starts osrm-routed and a   *)
(* watchdog that probes it (docker/osrm-probe.sh), and ends when the       *)
(* router ends or the watchdog or Docker sends it SIGTERM; Docker then     *)
(* starts the container again, unless it was asked to stop it (restart:    *)
(* unless-stopped).                                                        *)
(*                                                                         *)
(* A tick is a second.  The router is external: it loads its graph, may    *)
(* become unresponsive when all its workers compute and recover from it,   *)
(* and may exit by itself at any time.                                     *)
(***************************************************************************)
EXTENDS Naturals

CONSTANTS StartSeconds,  \* OSRM_WATCHDOG_START_SECONDS, 60
          ProbeSeconds,  \* timeout of a probe, 3
          Interval,      \* pause between two probes, 10
          MaxFailures,   \* failed probes in a row that end the container, 3
          Patience,      \* seconds the router gets to obey SIGTERM, 5
          LoadSeconds,   \* longest the router takes to load (external)
          StopGrace      \* stop_grace_period of compose.yaml, 10

ASSUME TimingAssumption ==
    /\ StartSeconds \in Nat
    /\ ProbeSeconds \in Nat \ {0}
    /\ Interval \in Nat \ {0}
    /\ MaxFailures \in Nat \ {0}
    /\ Patience \in Nat
    /\ LoadSeconds \in Nat
    /\ StopGrace \in Nat

VARIABLES
    router,    \* the osrm-routed process
    loading,   \* how long it has been loading
    main,      \* the supervising shell
    term,      \* a SIGTERM to it is pending
    grace,     \* what is left of the router's time to obey
    watchdog,  \* the watchdog subshell
    timer,     \* what is left of its sleep or probe
    failures,  \* its count of failed probes
    stuckFor,  \* history: how long the router has been unresponsive, capped
    silentFor, \* history: time since a probe succeeded or probing began, capped
    stopFor    \* whether Docker was asked to stop the container, and how long ago

vars == <<router, loading, main, term, grace, watchdog, timer, failures,
          stuckFor, silentFor, stopFor>>

\* Failed probes are this far apart at least, first to last.
Silence == (MaxFailures - 1) * Interval

Larger(m, n) == IF m > n THEN m ELSE n

\* The longest a router is to be unresponsive: the grace period or one pause
\* before the first probe that fails, the failed probes, the pauses between
\* them, and the shutdown.
StuckBound ==
    Larger(StartSeconds, Interval) + MaxFailures * ProbeSeconds + Silence + Patience

Later(n) == IF n > 0 THEN n - 1 ELSE 0

TypeOK ==
    /\ router \in {"loading", "up", "stuck", "gone"}
    /\ loading \in 0..LoadSeconds
    /\ main \in {"waiting", "cleaning", "exited"}
    /\ term \in BOOLEAN
    /\ grace \in 0..Patience
    /\ watchdog \in {"starting", "testing", "probing", "sleeping", "done"}
    /\ timer \in 0..Larger(StartSeconds, Larger(ProbeSeconds, Interval))
    /\ failures \in 0..MaxFailures
    /\ stuckFor \in 0..(StuckBound + 1)
    /\ silentFor \in 0..Silence
    /\ stopFor \in [asked : BOOLEAN, for : Nat]

NotAsked == [asked |-> FALSE, for |-> 0]

\* The container starts.
Start ==
    /\ router' = "loading"
    /\ loading' = 0
    /\ main' = "waiting"
    /\ term' = FALSE
    /\ grace' = 0
    /\ watchdog' = "starting"
    /\ timer' = StartSeconds
    /\ failures' = 0
    /\ stuckFor' = 0
    /\ silentFor' = 0
    /\ stopFor' = NotAsked

Init ==
    /\ router = "loading"
    /\ loading = 0
    /\ main = "waiting"
    /\ term = FALSE
    /\ grace = 0
    /\ watchdog = "starting"
    /\ timer = StartSeconds
    /\ failures = 0
    /\ stuckFor = 0
    /\ silentFor = 0
    /\ stopFor = NotAsked

Alive == main # "exited"

-----------------------------------------------------------------------------
(* The router (external) *)

RouterBecomes(from, to) ==
    /\ Alive
    /\ router \in from
    /\ router' = to
    /\ stuckFor' = 0
    /\ UNCHANGED <<loading, main, term, grace, watchdog, timer, failures, silentFor, stopFor>>

Loaded == RouterBecomes({"loading"}, "up")
Stick == RouterBecomes({"up"}, "stuck")
Recover == RouterBecomes({"stuck"}, "up")
Die == RouterBecomes({"loading", "up", "stuck"}, "gone")

\* A responsive router obeys the SIGTERM of cleanup.
Obey ==
    /\ main = "cleaning"
    /\ RouterBecomes({"loading", "up"}, "gone")

-----------------------------------------------------------------------------
(* The watchdog *)

WatchdogSleeps(seconds) ==
    /\ watchdog' = "sleeping"
    /\ timer' = seconds

\* Its grace period, or a pause, is over.
Wake ==
    /\ watchdog \in {"starting", "sleeping"}
    /\ timer = 0
    /\ watchdog' = "testing"
    /\ silentFor' = IF watchdog = "starting" THEN 0 ELSE silentFor
    /\ UNCHANGED <<router, loading, main, term, grace, timer, failures, stuckFor, stopFor>>

\* kill -0
Test ==
    /\ watchdog = "testing"
    /\ IF router = "gone"
       THEN watchdog' = "done" /\ timer' = 0
       ELSE watchdog' = "probing" /\ timer' = ProbeSeconds
    /\ UNCHANGED <<router, loading, main, term, grace, failures, stuckFor, silentFor, stopFor>>

\* Variant: a success does not reset the count.
ProbeSucceedsUncounted ==
    /\ watchdog = "probing"
    /\ router = "up"
    /\ silentFor' = 0
    /\ WatchdogSleeps(Interval)
    /\ UNCHANGED <<router, loading, main, term, grace, failures, stuckFor, stopFor>>

ProbeSucceeds ==
    /\ watchdog = "probing"
    /\ router = "up"
    /\ failures' = 0
    /\ silentFor' = 0
    /\ WatchdogSleeps(Interval)
    /\ UNCHANGED <<router, loading, main, term, grace, stuckFor, stopFor>>

\* The port refuses the connection, the answer is not a 200 (nothing to snap the
\* probe's point to), or the time of the probe is up.
ProbeMayFail ==
    \/ router \in {"loading", "up", "gone"}
    \/ router = "stuck" /\ timer = 0

\* Variant: one failure more than allowed.
ProbeFailsLate ==
    /\ watchdog = "probing"
    /\ ProbeMayFail
    /\ failures' = failures + 1
    /\ IF failures' > MaxFailures
       THEN watchdog' = "done" /\ timer' = 0 /\ term' = TRUE
       ELSE WatchdogSleeps(Interval) /\ UNCHANGED term
    /\ UNCHANGED <<router, loading, main, grace, stuckFor, silentFor, stopFor>>

\* Variant: kill -TERM "$BASHPID", the watchdog's own subshell.
ProbeFailsOnItself ==
    /\ watchdog = "probing"
    /\ ProbeMayFail
    /\ failures' = failures + 1
    /\ IF failures' >= MaxFailures
       THEN watchdog' = "done" /\ timer' = 0
       ELSE WatchdogSleeps(Interval)
    /\ UNCHANGED <<router, loading, main, term, grace, stuckFor, silentFor, stopFor>>

ProbeFails ==
    /\ watchdog = "probing"
    /\ ProbeMayFail
    /\ failures' = failures + 1
    /\ IF failures' >= MaxFailures
       THEN watchdog' = "done" /\ timer' = 0 /\ term' = TRUE
       ELSE WatchdogSleeps(Interval) /\ UNCHANGED term
    /\ UNCHANGED <<router, loading, main, grace, stuckFor, silentFor, stopFor>>

-----------------------------------------------------------------------------
(* The shell *)

\* Variant: the router runs in the foreground, and traps wait for it.
TermDeferred == term /\ router = "gone"

\* The shell is in wait, which a signal interrupts.
TermHandled == term

\* Variant: cleanup waits for the router without a limit.
PatienceEndless == router = "gone"

\* The five tries of one second.
PatienceOver == grace = 0

\* Its EXIT trap: no more signal handlers, the watchdog is killed, and the
\* router is told to end.
BeginCleanup ==
    /\ main = "waiting"
    /\ main' = "cleaning"
    /\ watchdog' = "done"
    /\ timer' = 0
    /\ grace' = Patience
    /\ UNCHANGED <<router, loading, failures, stuckFor, silentFor, stopFor>>

\* trap 'exit 143' TERM
OnTerm ==
    /\ TermHandled
    /\ term' = FALSE
    /\ BeginCleanup

\* wait "$router_pid" returns.
OnRouterGone ==
    /\ router = "gone"
    /\ BeginCleanup
    /\ UNCHANGED term

Exit ==
    /\ main' = "exited"
    /\ router' = "gone"
    /\ stuckFor' = 0
    /\ UNCHANGED <<loading, term, grace, watchdog, timer, failures, silentFor, stopFor>>

\* The router has ended, or its time is up and it gets SIGKILL.
EndCleanup ==
    /\ main = "cleaning"
    /\ router = "gone" \/ PatienceOver
    /\ Exit

\* A SIGTERM during cleanup finds no handler; the container ends with the
\* shell, and the router with the container.
Abrupt ==
    /\ main = "cleaning"
    /\ term
    /\ Exit

-----------------------------------------------------------------------------
(* Docker and time *)

\* docker stop, also of a container that Docker is about to start again.
DockerStop ==
    /\ ~stopFor.asked
    /\ term' = (Alive \/ term)
    /\ stopFor' = [asked |-> TRUE, for |-> 0]
    /\ UNCHANGED <<router, loading, main, grace, watchdog, timer, failures, stuckFor, silentFor>>

\* restart: unless-stopped
Restart ==
    /\ main = "exited"
    /\ ~stopFor.asked
    /\ Start

\* The operator starts what was stopped, or never does.
StartAgain ==
    /\ main = "exited"
    /\ stopFor.asked
    /\ Start

\* A second passes; shells do what they can do at once first.
Tick ==
    /\ Alive
    /\ ~(main = "waiting" /\ (TermHandled \/ router = "gone"))
    /\ ~(main = "cleaning" /\ (term \/ router = "gone" \/ PatienceOver))
    /\ watchdog \in {"starting", "sleeping"} => timer > 0
    /\ watchdog # "testing"
    /\ watchdog = "probing" => router = "stuck" /\ timer > 0
    /\ router = "loading" => loading < LoadSeconds
    /\ loading' = IF router = "loading" THEN loading + 1 ELSE 0
    /\ grace' = Later(grace)
    /\ timer' = Later(timer)
    /\ stuckFor' = CASE router # "stuck" -> 0
                      [] stuckFor > StuckBound -> stuckFor
                      [] OTHER -> stuckFor + 1
    /\ silentFor' = IF silentFor < Silence THEN silentFor + 1 ELSE silentFor
    /\ stopFor' = IF stopFor.asked THEN [stopFor EXCEPT !.for = @ + 1] ELSE stopFor
    /\ UNCHANGED <<router, main, term, watchdog, failures>>

Watch == Wake \/ Test \/ ProbeSucceeds \/ ProbeFails

Shell == OnTerm \/ OnRouterGone \/ EndCleanup \/ Abrupt

Next ==
    \/ Loaded
    \/ Stick
    \/ Recover
    \/ Die
    \/ Obey
    \/ Watch
    \/ Shell
    \/ DockerStop
    \/ Restart
    \/ StartAgain
    \/ Tick

\* Processes run, time passes, a router loads, and Docker restarts what it was
\* not asked to stop.
Fairness ==
    /\ WF_vars(Watch)
    /\ WF_vars(Shell)
    /\ WF_vars(Loaded)
    /\ WF_vars(Restart)
    /\ WF_vars(Tick)

Spec == Init /\ [][Next]_vars

FairSpec == Spec /\ Fairness

-----------------------------------------------------------------------------
(* Properties *)

\* However the watchdog's probes fall, an unresponsive router is replaced
\* within a bounded time, also when it ignores SIGTERM.
StuckIsBounded == stuckFor <= StuckBound

\* "Three consecutive failed probes stop the routing process": the watchdog
\* never ends a container whose router passed a probe more recently than the
\* failed ones are apart, nor one it has only begun to probe.
RestartNeedsSilence ==
    (watchdog = "done" /\ failures >= MaxFailures) => silentFor >= Silence

\* "Bound shutdown even when all OSRM workers are stuck computing": the shell
\* is done before Docker loses patience and kills it.
StopsInTime == stopFor.for <= StopGrace

\* A router that is stuck for good, or gone, is replaced by a new one sooner or
\* later, unless Docker is asked to stop its container.
RouterReturns ==
    router \in {"stuck", "gone"} ~> router \in {"loading", "up"} \/ stopFor.asked

=============================================================================
