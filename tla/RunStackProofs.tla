--------------------------- MODULE RunStackProofs ---------------------------
(***************************************************************************)
(* Proofs about RunStack, whether or not there is a graph and whether or   *)
(* not the shell may signal sudo.                                          *)
(***************************************************************************)
EXTENDS RunStack, TLAPS

\* Where the script starts jobs from, now or when the cleanup under way is over.
Place == IF shell \in {"removing", "killing", "reaping"} THEN resume ELSE shell

\* The jobs ahead of that place have not been started.
AheadIsUnstarted ==
    /\ Place \in {"checking", "startOsrm"} => service["osrm"] = "none"
    /\ Place \in {"checking", "startOsrm", "recordOsrm", "startApi"} => service["api"] = "none"
    /\ Place \in ({"checking"} \cup Starting) \ {"recordWorker"} => service["worker"] = "none"

\* A job that is not in PIDS has not been started, or is about to be recorded.
OthersAreUnstarted ==
    /\ Place = "recordOsrm" => service["osrm"] # "none"
    /\ Place = "recordApi" => service["api"] # "none"
    /\ Place = "recordWorker" => service["worker"] # "none"
    /\ \A s \in pids : service[s] # "none"
    /\ service["osrm"] # "none" /\ "osrm" \notin pids => Place = "recordOsrm" \/ shell = "ended"
    /\ service["api"] # "none" /\ "api" \notin pids => Place = "recordApi" \/ shell = "ended"
    /\ service["worker"] # "none" /\ "worker" \notin pids => Place = "recordWorker" \/ shell = "ended"

\* The container is there only beside the job that runs it.
ContainerHasJob == container = "ours" => service["osrm"] = "running"

\* While no signal came in a hurry, the script runs under its traps until one
\* cleanup, which goes on to the end.
OneCleanup ==
    /\ trapped => shell \in Starting \cup {"waiting"}
    /\ signalled # "hurried" =>
          /\ shell = "checking" => \A s \in Services : service[s] = "none"
          /\ shell \in Starting \cup {"waiting"} => trapped
          /\ shell \in {"removing", "killing", "reaping"} => resume = "ended"

IInv ==
    /\ TypeOK
    /\ AheadIsUnstarted
    /\ OthersAreUnstarted
    /\ ContainerHasJob
    /\ OneCleanup
    /\ NothingLeftBehind
    /\ CleanupWaitsForTold

LEMMA InitInv == Init => IInv
  BY SettingsAssumption DEF Init, IInv, TypeOK, AheadIsUnstarted, OthersAreUnstarted, Place, ContainerHasJob, OneCleanup,
     NothingLeftBehind, CleanupWaitsForTold, Waited, Starting, Services, Alive

\* The shell's own steps.
LEMMA ShellInv == IInv /\ ShellStep => IInv'
  <1> SUFFICES ASSUME IInv, ShellStep PROVE IInv'
    OBVIOUS
  <1> USE DEF IInv, TypeOK, AheadIsUnstarted, OthersAreUnstarted, Place, ContainerHasJob, OneCleanup, NothingLeftBehind,
      CleanupWaitsForTold, Waited, Alive, settings, jobs
  <1>1. CASE CheckRedis
    <2>1. ~trapped
      BY <1>1 DEF CheckRedis, Starting
    <2>2. CASE shell' = "ended" /\ UNCHANGED trapped
      BY <1>1, <2>1, <2>2 DEF CheckRedis, Starting, Services
    <2>3. CASE shell' = "startOsrm" /\ trapped' = TRUE
      BY <1>1, <2>3 DEF CheckRedis, Starting, Services
    <2> QED
      BY <1>1, <2>2, <2>3 DEF CheckRedis
  <1>2. CASE StartOsrm
    BY <1>2 DEF StartOsrm, Launch, Starting, Services
  <1>3. CASE StartApi
    BY <1>3 DEF StartApi, Launch, Starting, Services
  <1>4. CASE StartWorker
    BY <1>4 DEF StartWorker, Launch, Starting, Services
  <1>5. CASE WaitReturns
    <2>1. shell = "waiting" /\ UNCHANGED <<dataDir, graph, service, pids, reaped, told, container, signalled>>
      BY <1>5 DEF WaitReturns
    <2>2. CASE trapped
      <3>1. shell' = "removing" /\ trapped' = FALSE /\ resume' = "ended"
        BY <1>5, <2>2 DEF WaitReturns, Cleanup
      <3>2. (TypeOK /\ AheadIsUnstarted /\ ContainerHasJob)'
        BY <2>1, <3>1 DEF Starting
      <3>3. OthersAreUnstarted'
        BY <2>1, <3>1 DEF Starting
      <3>4. (OneCleanup /\ NothingLeftBehind /\ CleanupWaitsForTold)'
        BY <2>1, <3>1 DEF Starting
      <3> QED
        BY <3>2, <3>3, <3>4
    <2>3. CASE ~trapped
      <3>1. shell' = "ended" /\ UNCHANGED <<trapped, resume>>
        BY <1>5, <2>3 DEF WaitReturns
      <3>2. signalled = "hurried"
        BY <2>1, <2>3
      <3>3. (TypeOK /\ AheadIsUnstarted /\ ContainerHasJob)'
        BY <2>1, <3>1 DEF Starting
      <3>4. OthersAreUnstarted'
        BY <2>1, <3>1 DEF Starting
      <3>5. (OneCleanup /\ NothingLeftBehind /\ CleanupWaitsForTold)'
        BY <2>1, <2>3, <3>1, <3>2 DEF Starting
      <3> QED
        BY <3>3, <3>4, <3>5
    <2> QED
      BY <2>2, <2>3
  <1>6. CASE Remove
    BY <1>6 DEF Remove, Starting, Services
  <1>7. CASE Kill
    BY <1>7 DEF Kill, Starting
  <1>8. CASE Reap
    <2>1. /\ shell = "reaping" /\ shell' = resume /\ ~trapped
          /\ reaped' = {s \in Waited : service[s] = "ended"}
          /\ UNCHANGED <<trapped, resume, dataDir, graph, service, pids, told, container, signalled>>
      BY <1>8 DEF Reap, Starting
    <2>2. (TypeOK /\ AheadIsUnstarted /\ OthersAreUnstarted /\ ContainerHasJob)'
      <3>1. Place' = Place
        BY <2>1 DEF Starting
      <3>2. reaped' \in SUBSET Services
        BY <2>1
      <3>3. TypeOK'
        BY <2>1, <3>2 DEF Starting
      <3>4. AheadIsUnstarted' /\ ContainerHasJob'
        BY <2>1, <3>1
      <3>5. OthersAreUnstarted'
        BY <2>1, <3>1 DEF Starting
      <3> QED
        BY <3>3, <3>4, <3>5
    <2>3. (OneCleanup /\ CleanupWaitsForTold)'
      BY <2>1 DEF Starting, Services
    <2>4. NothingLeftBehind'
      <3> SUFFICES ASSUME resume = "ended" PROVE \A s \in Services : ~Alive(s)
        BY <2>1
      <3>1. \A s \in Services : s \notin pids => service[s] = "none"
        BY <2>1 DEF Services
      <3>2. \A s \in Waited : ~Alive(s)
        BY <1>8 DEF Reap
      <3> QED
        BY <3>1, <3>2 DEF Services
    <2> QED
      BY <2>2, <2>3, <2>4
  <1>9. CASE RecordOsrm
    BY <1>9 DEF RecordOsrm, Record, Starting, Services
  <1>10. CASE RecordApi
    BY <1>10 DEF RecordApi, Record, Starting, Services
  <1>11. CASE RecordWorker
    BY <1>11 DEF RecordWorker, Record, Starting, Services
  <1> QED
    BY <1>1, <1>2, <1>3, <1>4, <1>5, <1>6, <1>7, <1>8, <1>9, <1>10, <1>11 DEF ShellStep

\* The steps of jobs, and signals.
LEMMA OtherInv == IInv /\ [Next]_vars /\ ~ShellStep => IInv'
  <1> SUFFICES ASSUME IInv, [Next]_vars, ~ShellStep PROVE IInv'
    OBVIOUS
  <1> USE DEF IInv, TypeOK, AheadIsUnstarted, OthersAreUnstarted, Place, ContainerHasJob, OneCleanup, NothingLeftBehind,
      CleanupWaitsForTold, Waited, Alive, settings, jobs
  <1>1. CASE Signal
    <2>1. /\ signalled' \in {"waiting", "hurried"}
          /\ UNCHANGED <<dataDir, graph, service, pids, reaped, told, container>>
      BY <1>1 DEF Signal
    <2>2. CASE trapped
      <3>1. /\ shell \in Starting \cup {"waiting"}
            /\ shell' = "removing" /\ trapped' = FALSE
            /\ resume' = IF shell = "waiting" THEN "ended" ELSE shell
        BY <1>1, <2>2 DEF Signal, Cleanup
      <3>2. shell # "waiting" => signalled' = "hurried"
        BY <1>1, <3>1 DEF Signal, Starting
      <3>3. (TypeOK /\ ContainerHasJob)'
        <4>1. shell' \in {"removing"} /\ resume' \in {"ended"} \cup Starting
          BY <3>1
        <4> QED
          BY <2>1, <3>1, <4>1
      <3>4. AheadIsUnstarted'
        <4>1. Place' = IF shell = "waiting" THEN "ended" ELSE shell
          BY <3>1
        <4>2. Place = shell
          BY <3>1 DEF Starting
        <4> QED
          BY <2>1, <4>1, <4>2 DEF Starting
      <3>5. OthersAreUnstarted'
        BY <2>1, <3>1 DEF Starting, Services
      <3>6. (OneCleanup /\ NothingLeftBehind /\ CleanupWaitsForTold)'
        BY <2>1, <3>1, <3>2 DEF Starting
      <3> QED
        BY <3>3, <3>4, <3>5, <3>6
    <2>3. CASE ~trapped
      <3>1. shell # "ended" /\ shell' = "ended" /\ UNCHANGED <<trapped, resume>>
        BY <1>1, <2>3 DEF Signal
      <3>2. signalled' # "hurried" => signalled = "no" /\ shell = "checking"
        BY <1>1, <2>3 DEF Signal, Starting
      <3>3. (TypeOK /\ AheadIsUnstarted /\ OthersAreUnstarted /\ ContainerHasJob)'
        BY <2>1, <3>1 DEF Starting, Services
      <3>4. (OneCleanup /\ NothingLeftBehind /\ CleanupWaitsForTold)'
        BY <2>1, <2>3, <3>1, <3>2 DEF Starting, Services
      <3> QED
        BY <3>3, <3>4
    <2> QED
      BY <2>2, <2>3
  <1>2. CASE RunOsrm
    BY <1>2 DEF RunOsrm, Services
  <1>3. ASSUME NEW s \in Services, Come(s) PROVE IInv'
    BY <1>3 DEF Come, Services
  <1>4. ASSUME NEW s \in Services, End(s) PROVE IInv'
    BY <1>4 DEF End, Services
  <1>5. CASE UNCHANGED vars
    BY <1>5 DEF vars
  <1> QED
    BY <1>1, <1>2, <1>3, <1>4, <1>5 DEF Next

LEMMA Invariant == Spec => []IInv
  BY InitInv, ShellInv, OtherInv, PTL DEF Spec

\* The variables of run-stack.sh have their types.
THEOREM TypeCorrect == Spec => []TypeOK
  BY Invariant, PTL DEF IInv

\* A script that ended leaves no job and no container behind.
THEOREM NothingIsLeft == Spec => []NothingLeftBehind
  BY Invariant, PTL DEF IInv

\* cleanup's wait is for jobs its kill reached, unless the shell may not signal
\* sudo or no job was recorded yet: nothing that is started later is among them.
THEOREM WaitIsForTold == Spec => []CleanupWaitsForTold
  BY Invariant, PTL DEF IInv

LEMMA StepMovesOn ==
    ASSUME IInv, [Next]_vars, NEW s \in Services
    PROVE  JobMovesOn(s)
  <1> USE DEF JobMovesOn, IInv, TypeOK, Services
  <1>1. CASE StartOsrm \/ StartApi \/ StartWorker
    BY <1>1 DEF StartOsrm, StartApi, StartWorker, Launch, AheadIsUnstarted, Place, Starting
  <1>2. CASE Remove
    BY <1>2 DEF Remove
  <1>3. CASE CheckRedis \/ RecordOsrm \/ RecordApi \/ RecordWorker \/ WaitReturns \/ Kill \/ Reap
           \/ Signal \/ UNCHANGED vars
    BY <1>3 DEF CheckRedis, RecordOsrm, RecordApi, RecordWorker, Record, WaitReturns, Kill, Reap, Signal, vars
  <1>4. CASE RunOsrm
    BY <1>4 DEF RunOsrm
  <1>5. ASSUME NEW t \in Services, Come(t) \/ End(t) PROVE JobMovesOn(s)
    BY <1>5 DEF Come, End, Alive
  <1> QED
    BY <1>1, <1>2, <1>3, <1>4, <1>5 DEF Next, ShellStep

\* No signal, however it falls among the starts, makes run-stack.sh start a job
\* twice or go on with one that has ended.
THEOREM EachJobStartsOnce == Spec => JobsStartOnce
  <1>1. IInv /\ [Next]_vars => [\A s \in Services : JobMovesOn(s)]_vars
    BY StepMovesOn
  <1> QED
    BY <1>1, Invariant, PTL DEF Spec, JobsStartOnce

=============================================================================
