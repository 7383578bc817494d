------------------------ MODULE OsrmSuperviseProofs ------------------------
(***************************************************************************)
(* Proofs about OsrmSupervise, for every setting of the watchdog.          *)
(***************************************************************************)
EXTENDS OsrmSupervise, TLAPS

\* A probe and a pause.
Round == ProbeSeconds + Interval

\* The longest the router is stuck before the shell begins to clean up.
Noticed == Larger(StartSeconds, Interval) + MaxFailures * ProbeSeconds + Silence

\* What the processes say of one another.
Processes ==
    /\ router # "stuck" => stuckFor = 0
    /\ main = "exited" => router = "gone"
    /\ main = "waiting" /\ watchdog = "done" => term \/ router = "gone"
    /\ main # "waiting" => watchdog = "done"
    /\ watchdog # "done" => failures < MaxFailures
    /\ watchdog = "starting" => failures = 0
    /\ watchdog = "testing" => timer = 0

\* Each round that a stuck router has outlived was a failure.
StuckIsCounted ==
    /\ main = "waiting" =>
          /\ watchdog \in {"starting", "testing", "sleeping"} =>
                stuckFor + timer <= Larger(StartSeconds, Interval) + failures * Round
          /\ watchdog = "probing" =>
                stuckFor + timer <= Larger(StartSeconds, Interval) + failures * Round + ProbeSeconds
          /\ stuckFor <= Noticed
    /\ main = "cleaning" => stuckFor + grace <= StuckBound

\* Failures are a pause apart.
SilenceIsCounted ==
    /\ watchdog \in {"testing", "probing"} => silentFor >= failures * Interval
    /\ watchdog = "sleeping" => silentFor + timer >= failures * Interval
    /\ watchdog = "done" /\ failures >= MaxFailures => silentFor >= Silence

\* A stop that was asked for is under way, and the router's time runs.
StopIsUnderWay ==
    /\ ~stopFor.asked => stopFor.for = 0
    /\ main = "waiting" /\ stopFor.asked => term /\ stopFor.for = 0
    /\ main = "cleaning" => stopFor.for + grace <= Patience
    /\ main = "exited" => stopFor.for <= Patience

IInv == TypeOK /\ Processes /\ StuckIsCounted /\ SilenceIsCounted /\ StopIsUnderWay

-----------------------------------------------------------------------------
(* Arithmetic *)

LEMMA TimeTypes ==
    /\ Round \in Nat /\ Silence \in Nat /\ Noticed \in Nat
    /\ Larger(StartSeconds, Interval) \in Nat
    /\ StuckBound \in Nat /\ StuckBound = Noticed + Patience
  <1>1. Round \in Nat /\ Larger(StartSeconds, Interval) \in Nat
    BY TimingAssumption DEF Round, Larger
  <1>2. Silence \in Nat
    BY TimingAssumption DEF Silence
  <1>3. MaxFailures * ProbeSeconds \in Nat
    BY TimingAssumption
  <1>4. Noticed \in Nat
    BY <1>1, <1>2, <1>3 DEF Noticed
  <1>5. StuckBound = Noticed + Patience
    BY <1>1, <1>2, <1>3, TimingAssumption DEF Noticed, StuckBound
  <1> QED
    BY <1>1, <1>2, <1>4, <1>5, TimingAssumption

\* Products of counts and times.
LEMMA Products ==
    ASSUME NEW f \in Nat, NEW t \in Nat
    PROVE  f * t \in Nat /\ (f + 1) * t = f * t + t
  OBVIOUS

\* A tick takes from a timer what it gives to a clock.
LEMMA TickKeepsSum ==
    ASSUME NEW a \in Nat, NEW b \in Nat, NEW c \in Nat, NEW d \in Nat, c <= a + 1, d = b - 1
    PROVE  c + d <= a + b
  OBVIOUS

\* What is still allowed before the last failure is noticed in time.
LEMMA Rounds ==
    ASSUME NEW f \in Nat, f < MaxFailures
    PROVE  /\ f * Round \in Nat /\ f * Interval \in Nat
           /\ Larger(StartSeconds, Interval) + f * Round + ProbeSeconds <= Noticed
           /\ f * Interval <= Silence
  <1>1. MaxFailures \in Nat /\ ProbeSeconds \in Nat /\ Interval \in Nat
    BY TimingAssumption
  <1>2. PICK k \in Nat : MaxFailures = f + 1 + k
    <2>1. MaxFailures - (f + 1) \in Nat
      BY <1>1
    <2> QED
      BY <1>1, <2>1
  <1>3. f * Round = f * ProbeSeconds + f * Interval
    BY <1>1 DEF Round
  <1>4. MaxFailures * ProbeSeconds = f * ProbeSeconds + ProbeSeconds + k * ProbeSeconds
    BY <1>1, <1>2
  <1>5. Silence = f * Interval + k * Interval
    BY <1>1, <1>2 DEF Silence
  <1>6. /\ f * ProbeSeconds \in Nat /\ f * Interval \in Nat
        /\ k * ProbeSeconds \in Nat /\ k * Interval \in Nat
    BY <1>1, Products
  <1> HIDE DEF Round
  <1> QED
    BY <1>1, <1>3, <1>4, <1>5, <1>6, TimeTypes DEF Noticed

-----------------------------------------------------------------------------
(* The invariant, step by step *)

LEMMA InitInv == Init => IInv
  <1> SUFFICES ASSUME Init PROVE IInv
    OBVIOUS
  <1> USE DEF Init
  <1>1. TypeOK
    <2>1. /\ timer \in 0..Larger(StartSeconds, Larger(ProbeSeconds, Interval))
          /\ failures \in 0..MaxFailures /\ loading \in 0..LoadSeconds /\ grace \in 0..Patience
      BY TimingAssumption DEF Larger
    <2>2. stuckFor \in 0..(StuckBound + 1) /\ silentFor \in 0..Silence
      BY TimeTypes
    <2> QED
      BY <2>1, <2>2 DEF TypeOK, NotAsked
  <1>2. Processes
    BY TimingAssumption DEF Processes
  <1>3. StuckIsCounted
    <2>1. StartSeconds <= Larger(StartSeconds, Interval) + 0 * Round /\ 0 <= Noticed
      BY TimingAssumption, TimeTypes DEF Larger
    <2> QED
      BY <2>1, TimingAssumption DEF StuckIsCounted
  <1>4. SilenceIsCounted
    BY TimingAssumption DEF SilenceIsCounted
  <1>5. StopIsUnderWay
    BY DEF StopIsUnderWay, NotAsked
  <1> QED
    BY <1>1, <1>2, <1>3, <1>4, <1>5 DEF IInv

\* Another router is not stuck for longer, and one that is gone stays so.
LEMMA RouterInv ==
    ASSUME IInv, Loaded \/ Stick \/ Recover \/ Die \/ Obey
    PROVE  IInv'
  <1>1. /\ main # "exited" /\ router # "gone" /\ router' \in {"up", "stuck", "gone"} /\ stuckFor' = 0
        /\ UNCHANGED <<loading, main, term, grace, watchdog, timer, failures, silentFor, stopFor>>
    BY DEF Loaded, Stick, Recover, Die, Obey, RouterBecomes, Alive
  <1>2. TypeOK'
    BY <1>1, TimeTypes DEF IInv, TypeOK
  <1>3. Processes' /\ SilenceIsCounted' /\ StopIsUnderWay'
    BY <1>1 DEF IInv, Processes, SilenceIsCounted, StopIsUnderWay
  <1>4. StuckIsCounted'
    <2>1. 0 <= stuckFor /\ stuckFor \in Nat /\ timer \in Nat /\ grace \in Nat /\ failures \in Nat
      BY TimingAssumption, TimeTypes DEF IInv, TypeOK, Larger
    <2>2. failures * Round \in Nat
      BY <2>1, TimeTypes, Products
    <2> QED
      BY <1>1, <2>1, <2>2, TimeTypes, TimingAssumption DEF IInv, StuckIsCounted
  <1> QED
    BY <1>2, <1>3, <1>4 DEF IInv

LEMMA WakeInv ==
    ASSUME IInv, Wake \/ Test
    PROVE  IInv'
  <1>1. UNCHANGED <<router, loading, main, term, grace, failures, stuckFor, stopFor>>
    BY DEF Wake, Test
  <1>2. failures \in Nat /\ failures < MaxFailures /\ failures * Round \in Nat /\ failures * Interval \in Nat
    BY Rounds, TimingAssumption DEF Wake, Test, IInv, Processes, TypeOK
  <1>3. TypeOK'
    BY <1>1, TimingAssumption, TimeTypes DEF Wake, Test, IInv, TypeOK, Larger
  <1>4. Processes' /\ StopIsUnderWay'
    BY <1>1, TimingAssumption DEF Wake, Test, IInv, Processes, StopIsUnderWay
  <1>5. StuckIsCounted'
    BY <1>1, <1>2, TimingAssumption, TimeTypes DEF Wake, Test, IInv, Processes, StuckIsCounted, TypeOK
  <1>6. SilenceIsCounted'
    BY <1>1, <1>2, TimingAssumption, TimeTypes DEF Wake, Test, IInv, Processes, SilenceIsCounted, TypeOK
  <1> QED
    BY <1>3, <1>4, <1>5, <1>6 DEF IInv

LEMMA ProbeSucceedsInv ==
    ASSUME IInv, ProbeSucceeds
    PROVE  IInv'
  <1>1. /\ watchdog = "probing" /\ stuckFor = 0 /\ main = "waiting"
        /\ failures' = 0 /\ silentFor' = 0 /\ watchdog' = "sleeping" /\ timer' = Interval
        /\ UNCHANGED <<router, loading, main, term, grace, stuckFor, stopFor>>
    BY DEF ProbeSucceeds, WatchdogSleeps, IInv, Processes, TypeOK
  <1>2. TypeOK'
    BY <1>1, TimingAssumption, TimeTypes DEF IInv, TypeOK, Larger
  <1>3. Processes' /\ StopIsUnderWay' /\ SilenceIsCounted'
    BY <1>1, TimingAssumption DEF IInv, Processes, StopIsUnderWay, SilenceIsCounted
  <1>4. Interval <= Larger(StartSeconds, Interval) + 0 * Round
    BY TimingAssumption, TimeTypes DEF Larger
  <1>5. StuckIsCounted'
    BY <1>1, <1>4, TimingAssumption, TimeTypes DEF IInv, StuckIsCounted
  <1> QED
    BY <1>2, <1>3, <1>5 DEF IInv

\* A failure leaves its round behind; the last one, less than was allowed.
LEMMA ProbeFailsInv ==
    ASSUME IInv, ProbeFails
    PROVE  IInv'
  <1> DEFINE L == Larger(StartSeconds, Interval)
  <1>1. /\ watchdog = "probing" /\ main = "waiting" /\ failures' = failures + 1
        /\ UNCHANGED <<router, loading, main, grace, stuckFor, silentFor, stopFor>>
        /\ failures \in Nat /\ failures < MaxFailures
        /\ stuckFor \in Nat /\ timer \in Nat /\ silentFor \in Nat
    BY TimingAssumption, TimeTypes DEF ProbeFails, IInv, Processes, TypeOK
  <1>2. /\ failures * Round \in Nat /\ failures * Interval \in Nat
        /\ (failures + 1) * Round = failures * Round + Round
        /\ (failures + 1) * Interval = failures * Interval + Interval
        /\ L + failures * Round + ProbeSeconds <= Noticed
    BY <1>1, Rounds, Products, TimeTypes, TimingAssumption
  <1>3. stuckFor <= L + failures * Round + ProbeSeconds
    BY <1>1, TimingAssumption, TimeTypes DEF IInv, StuckIsCounted
  <1>4. stuckFor <= L + failures * Round + ProbeSeconds /\ silentFor >= failures * Interval
    BY <1>1, <1>3 DEF IInv, SilenceIsCounted
  <1>5. CASE failures + 1 >= MaxFailures
    <2>1. watchdog' = "done" /\ timer' = 0 /\ term' = TRUE /\ failures + 1 = MaxFailures
      BY <1>1, <1>5, TimingAssumption DEF ProbeFails
    <2>2. TypeOK'
      BY <1>1, <2>1, TimingAssumption DEF IInv, TypeOK, Larger
    <2>3. Processes' /\ StopIsUnderWay'
      BY <1>1, <2>1 DEF IInv, Processes, StopIsUnderWay
    <2>4. Silence = failures * Interval
      BY <1>1, <2>1, TimingAssumption DEF Silence
    <2>5. StuckIsCounted' /\ SilenceIsCounted'
      BY <1>1, <1>2, <1>4, <2>1, <2>4 DEF IInv, StuckIsCounted, SilenceIsCounted
    <2> QED
      BY <2>2, <2>3, <2>5 DEF IInv
  <1>6. CASE ~(failures + 1 >= MaxFailures)
    <2>1. watchdog' = "sleeping" /\ timer' = Interval /\ UNCHANGED term /\ failures + 1 < MaxFailures
      BY <1>1, <1>6, TimingAssumption DEF ProbeFails, WatchdogSleeps
    <2>2. TypeOK'
      BY <1>1, <2>1, TimingAssumption DEF IInv, TypeOK, Larger
    <2>3. Processes' /\ StopIsUnderWay'
      BY <1>1, <2>1 DEF IInv, Processes, StopIsUnderWay
    <2>4. stuckFor + Interval <= L + (failures + 1) * Round
      BY <1>1, <1>2, <1>4, TimingAssumption, TimeTypes DEF Round
    <2>5. StuckIsCounted'
      BY <1>1, <2>1, <2>4 DEF IInv, StuckIsCounted
    <2>6. SilenceIsCounted'
      BY <1>1, <1>2, <1>4, <2>1, TimingAssumption DEF SilenceIsCounted
    <2> QED
      BY <2>2, <2>3, <2>5, <2>6 DEF IInv
  <1> QED
    BY <1>5, <1>6

LEMMA CleanupInv ==
    ASSUME IInv, OnTerm \/ OnRouterGone
    PROVE  IInv'
  <1>1. /\ main = "waiting" /\ main' = "cleaning" /\ watchdog' = "done" /\ timer' = 0 /\ grace' = Patience
        /\ UNCHANGED <<router, loading, failures, stuckFor, silentFor, stopFor>>
        /\ term' \in BOOLEAN /\ (term' = FALSE \/ term' = term)
    BY DEF OnTerm, OnRouterGone, BeginCleanup, IInv, TypeOK
  <1>2. TypeOK'
    BY <1>1, TimingAssumption DEF IInv, TypeOK, Larger
  <1>3. Processes'
    BY <1>1 DEF IInv, Processes
  <1>4. StuckIsCounted'
    BY <1>1, TimeTypes, TimingAssumption DEF IInv, TypeOK, StuckIsCounted
  <1>5. SilenceIsCounted'
    BY <1>1, TimingAssumption DEF IInv, TypeOK, Processes, SilenceIsCounted
  <1>6. StopIsUnderWay'
    BY <1>1, TimingAssumption DEF IInv, TypeOK, StopIsUnderWay
  <1> QED
    BY <1>2, <1>3, <1>4, <1>5, <1>6 DEF IInv

LEMMA ExitInv ==
    ASSUME IInv, EndCleanup \/ Abrupt
    PROVE  IInv'
  <1>1. /\ main = "cleaning" /\ main' = "exited" /\ router' = "gone" /\ stuckFor' = 0
        /\ UNCHANGED <<loading, term, grace, watchdog, timer, failures, silentFor, stopFor>>
    BY DEF EndCleanup, Abrupt, Exit
  <1>2. TypeOK'
    BY <1>1, TimeTypes DEF IInv, TypeOK
  <1>3. StopIsUnderWay'
    BY <1>1, TimingAssumption DEF IInv, TypeOK, StopIsUnderWay
  <1> QED
    BY <1>1, <1>2, <1>3 DEF IInv, Processes, StuckIsCounted, SilenceIsCounted

LEMMA DockerStopInv ==
    ASSUME IInv, DockerStop
    PROVE  IInv'
  <1>1. /\ term' \in BOOLEAN /\ (term => term') /\ (main # "exited" => term')
        /\ stopFor' = [asked |-> TRUE, for |-> 0]
        /\ UNCHANGED <<router, loading, main, grace, watchdog, timer, failures, stuckFor, silentFor>>
    BY DEF DockerStop, Alive, IInv, TypeOK
  <1>2. TypeOK'
    BY <1>1 DEF IInv, TypeOK
  <1>3. StopIsUnderWay'
    BY <1>1, TimingAssumption DEF IInv, TypeOK, StopIsUnderWay
  <1> QED
    BY <1>1, <1>2, <1>3 DEF IInv, Processes, StuckIsCounted, SilenceIsCounted

\* A second is one of the router's, and of the timer's or of the grace.
LEMMA TickInv ==
    ASSUME IInv, Tick
    PROVE  IInv'
  <1>1. /\ main # "exited"
        /\ ~(main = "waiting" /\ (term \/ router = "gone"))
        /\ ~(main = "cleaning" /\ (term \/ router = "gone" \/ grace = 0))
        /\ watchdog \in {"starting", "sleeping"} => timer > 0
        /\ watchdog # "testing"
        /\ watchdog = "probing" => timer > 0
        /\ loading' \in 0..LoadSeconds
        /\ grace' = Later(grace) /\ timer' = Later(timer)
        /\ UNCHANGED <<router, main, term, watchdog, failures>>
    BY TimingAssumption DEF Tick, Alive, TermHandled, PatienceOver, IInv, TypeOK
  <1>2. /\ stuckFor \in Nat /\ timer \in Nat /\ grace \in Nat /\ failures \in Nat /\ silentFor \in Nat
        /\ silentFor <= Silence /\ stopFor \in [asked : BOOLEAN, for : Nat]
    BY TimingAssumption, TimeTypes DEF IInv, TypeOK, Larger
  <1>3. /\ stuckFor' \in Nat /\ stuckFor' <= stuckFor + 1 /\ stuckFor' <= StuckBound + 1
        /\ router # "stuck" => stuckFor' = 0
    <2>1. stuckFor' = CASE router # "stuck" -> 0
                        [] stuckFor > StuckBound -> stuckFor
                        [] OTHER -> stuckFor + 1
      BY DEF Tick
    <2>2. stuckFor \in Nat /\ stuckFor <= StuckBound + 1 /\ StuckBound \in Nat
      BY TimeTypes DEF IInv, TypeOK
    <2>3. CASE router # "stuck"
      <3>1. stuckFor = 0 /\ ~(stuckFor > StuckBound)
        BY <2>2, <2>3 DEF IInv, Processes
      <3> QED
        BY <2>1, <2>2, <2>3, <3>1
    <2>4. CASE router = "stuck" /\ stuckFor > StuckBound
      BY <2>1, <2>2, <2>4
    <2>5. CASE router = "stuck" /\ ~(stuckFor > StuckBound)
      BY <2>1, <2>2, <2>5
    <2> QED
      BY <2>3, <2>4, <2>5
  <1>4. /\ silentFor' \in Nat /\ silentFor' <= Silence
        /\ silentFor' = silentFor + 1 \/ (silentFor' = silentFor /\ silentFor = Silence)
    BY <1>2, TimeTypes DEF Tick
  <1>5. /\ stopFor' \in [asked : BOOLEAN, for : Nat] /\ stopFor'.asked = stopFor.asked
        /\ stopFor'.for = IF stopFor.asked THEN stopFor.for + 1 ELSE stopFor.for
    BY <1>2 DEF Tick
  <1>6. TypeOK'
    BY <1>1, <1>2, <1>3, <1>4, <1>5, TimingAssumption, TimeTypes DEF IInv, TypeOK, Later, Larger
  <1>7. Processes'
    BY <1>1, <1>3 DEF IInv, Processes
  <1>8. StuckIsCounted'
    <2>1. CASE main = "waiting"
      <3>1. watchdog \in {"starting", "probing", "sleeping"} /\ timer' = timer - 1 /\ timer' \in Nat
        BY <1>1, <1>2, <2>1 DEF IInv, Processes, TypeOK, Later
      <3>2. stuckFor' + timer' <= stuckFor + timer
        <4>1. timer \in Nat /\ timer' \in Nat /\ timer' = timer - 1
          BY <1>2, <3>1
        <4>2. stuckFor \in Nat /\ stuckFor' \in Nat /\ stuckFor' <= stuckFor + 1
          BY <1>2, <1>3
        <4> QED
          BY <4>1, <4>2, TickKeepsSum
      <3>3. /\ failures * Round \in Nat
            /\ Larger(StartSeconds, Interval) + failures * Round + ProbeSeconds <= Noticed
        BY <1>2, <3>1, Rounds DEF IInv, Processes
      <3>4. stuckFor + timer <= Larger(StartSeconds, Interval) + failures * Round + ProbeSeconds
        BY <1>2, <2>1, <3>1, <3>3, TimingAssumption, TimeTypes DEF IInv, StuckIsCounted
      <3>5. stuckFor' <= Noticed
        BY <1>2, <1>3, <3>1, <3>2, <3>3, <3>4, TimingAssumption, TimeTypes
      <3> QED
        BY <1>1, <1>2, <1>3, <2>1, <3>1, <3>2, <3>3, <3>5, TimingAssumption, TimeTypes DEF IInv, StuckIsCounted
    <2>2. CASE main # "waiting"
      BY <1>1, <1>2, <1>3, <2>2, TimeTypes DEF IInv, StuckIsCounted, Later
    <2> QED
      BY <2>1, <2>2
  <1>9. SilenceIsCounted'
    <2>1. CASE watchdog # "done"
      <3>1. failures * Interval \in Nat /\ failures * Interval <= Silence
        BY <1>2, <2>1, Rounds DEF IInv, Processes
      <3> QED
        BY <1>1, <1>2, <1>4, <2>1, <3>1, TimeTypes DEF IInv, SilenceIsCounted, Later
    <2>2. CASE watchdog = "done"
      BY <1>1, <1>2, <1>4, <2>2, TimeTypes DEF IInv, SilenceIsCounted
    <2> QED
      BY <2>1, <2>2
  <1>10. StopIsUnderWay'
    BY <1>1, <1>2, <1>5, TimingAssumption DEF IInv, StopIsUnderWay, Later
  <1> QED
    BY <1>6, <1>7, <1>8, <1>9, <1>10 DEF IInv

LEMMA Invariant == Spec => []IInv
  <1>1. Restart \/ StartAgain => IInv'
    <2>1. Restart \/ StartAgain => Init'
      BY DEF Restart, StartAgain, Start, Init
    <2> QED
      BY <2>1, InitInv, PTL
  <1>2. ASSUME IInv, [Next]_vars PROVE IInv'
    <2>1. CASE Restart \/ StartAgain
      BY <1>1, <2>1
    <2>2. CASE UNCHANGED vars
      BY <1>2, <2>2 DEF vars, IInv, TypeOK, Processes, StuckIsCounted, SilenceIsCounted, StopIsUnderWay
    <2> QED
      BY <1>2, <2>1, <2>2, RouterInv, WakeInv, ProbeSucceedsInv, ProbeFailsInv, CleanupInv, ExitInv,
         DockerStopInv, TickInv DEF Next, Watch, Shell
  <1> QED
    BY InitInv, <1>2, PTL DEF Spec

-----------------------------------------------------------------------------
(* Theorems *)

\* The processes of the container and the watchdog's counts have their types.
THEOREM TypeCorrect == Spec => []TypeOK
  BY Invariant, PTL DEF IInv

\* A stuck router is replaced in time, however the probes fall.
THEOREM StuckRouterEnds == Spec => []StuckIsBounded
  <1>1. IInv => StuckIsBounded
    BY TimingAssumption, TimeTypes DEF IInv, TypeOK, Processes, StuckIsCounted, StuckIsBounded
  <1> QED
    BY <1>1, Invariant, PTL

\* The watchdog ends no container whose router has answered lately.
THEOREM AnswersProtect == Spec => []RestartNeedsSilence
  <1>1. IInv => RestartNeedsSilence
    BY DEF IInv, SilenceIsCounted, RestartNeedsSilence
  <1> QED
    BY <1>1, Invariant, PTL

\* With less patience than Docker has, the shell is done before Docker kills it.
THEOREM ShutdownIsBounded ==
    ASSUME Patience <= StopGrace
    PROVE  Spec => []StopsInTime
  <1>1. IInv => StopsInTime
    BY TimingAssumption DEF IInv, TypeOK, StopIsUnderWay, StopsInTime
  <1> QED
    BY <1>1, Invariant, PTL

=============================================================================
