---------------------------- MODULE HealthProofs ----------------------------
(***************************************************************************)
(* Proofs about Health, for every deadline, interval, number of retries    *)
(* and start period in the order of compose.yaml, and any outages.         *)
(***************************************************************************)
EXTENDS Health, TLAPS

\* A probe needs the API, and answers belong to the probe under way.
ProbesAsk ==
    /\ probing => api
    /\ ~probing => answers = NoAnswers

\* While the API serves: a probe that was told otherwise was told before, and
\* any other is followed or preceded by a rest of one interval.
FoundSoon ==
    Serving =>
        /\ probing /\ answers["roads"] = "no" => since <= clock
        /\ health # "healthy" =>
              /\ ~probing => since <= Deadline + clock
              /\ probing /\ answers["roads"] # "no" => since <= Deadline + Interval + clock

\* An interval and a probe.
Round == Interval + Deadline

\* While it does not: a probe that was told otherwise was told before; and if it
\* passes for healthy, each round since then failed.
LostSoon ==
    /\ ~Serving /\ probing /\ answers["roads"] = "yes" => since <= clock
    /\ health = "healthy" => failures < Retries
    /\ health = "healthy" /\ ~Serving =>
          /\ ~probing => since <= Deadline + failures * Round + clock
          /\ probing => since <= Deadline + failures * Round + Interval + clock

IInv == TypeOK /\ AnswersInTime /\ ProbesAsk /\ FoundSoon /\ LostSoon

-----------------------------------------------------------------------------
(* Arithmetic *)

LEMMA RoundsType ==
    /\ Round \in Nat
    /\ \A f \in Nat : f * Round \in Nat
  <1>1. Round \in Nat
    BY TimesAssumption DEF Round
  <1> QED
    BY <1>1

LEMMA TimeTypes == Staleness \in Nat /\ Recovery \in Nat /\ Horizon \in Nat
  <1>1. Retries * (Interval + Deadline) \in Nat
    BY RoundsType, TimesAssumption DEF Round
  <1> QED
    BY <1>1, TimesAssumption DEF Staleness, Recovery, Horizon

\* One round more, and never more than there are retries.
LEMMA Rounds ==
    ASSUME NEW f \in Nat, f < Retries
    PROVE  /\ (f + 1) * Round = f * Round + Round
           /\ (f + 1) * Round <= Retries * Round
  <1>1. Round \in Nat /\ Retries \in Nat
    BY TimesAssumption, RoundsType
  <1>2. (f + 1) * Round = f * Round + Round
    BY <1>1
  <1>3. PICK k \in Nat : Retries = f + 1 + k
    <2>1. Retries - (f + 1) \in Nat
      BY <1>1
    <2> QED
      BY <1>1, <2>1
  <1>4. Retries * Round = (f + 1) * Round + k * Round /\ k * Round >= 0
    BY <1>1, <1>3
  <1> QED
    BY <1>1, <1>2, <1>4

-----------------------------------------------------------------------------
(* The invariant, step by step *)

LEMMA InitInv == Init => IInv
  <1> SUFFICES ASSUME Init PROVE IInv
    OBVIOUS
  <1>1. TypeOK
    <2>1. clock \in 0..(IF probing THEN ProbeTimeout ELSE Interval)
      BY TimesAssumption DEF Init
    <2>2. /\ booted \in 0..StartPeriod /\ failures \in 0..Retries
          /\ since \in 0..Horizon /\ outages \in 0..MaxOutages
      BY TimesAssumption, TimeTypes DEF Init
    <2> QED
      BY <2>1, <2>2 DEF Init, TypeOK, NoAnswers
  <1>2. AnswersInTime /\ ProbesAsk /\ FoundSoon /\ LostSoon
    BY DEF Init, AnswersInTime, ProbesAsk, FoundSoon, LostSoon, Serving
  <1> QED
    BY <1>1, <1>2 DEF IInv

\* A conclusion keeps the types, and makes a failed probe count or excuses it.
LEMMA ConcludeType ==
    ASSUME TypeOK, NEW ok \in BOOLEAN, Conclude(ok)
    PROVE  /\ probing' = FALSE /\ clock' = 0 /\ answers' = NoAnswers
           /\ clock' \in 0..(IF probing' THEN ProbeTimeout ELSE Interval)
           /\ answers' \in [Dependencies -> {"pending", "yes", "no"}]
           /\ booted' \in 0..StartPeriod /\ failures' \in 0..Retries
           /\ health' \in {"starting", "healthy", "unhealthy"}
  BY TimesAssumption DEF TypeOK, Conclude, NoAnswers, Dependencies

\* Steps of others than the request and Docker.
Elsewhere ==
    \/ ImportEnds \/ StartApi \/ DatabaseUp \/ DatabaseFails
    \/ \E s \in {"up", "down", "silent"} : RedisBecomes(s) \/ OsrmBecomes(s)
    \/ ComposeStep \/ BuildFails \/ ComposeAgain
    \/ UNCHANGED vars

LEMMA ElsewhereInv ==
    ASSUME IInv, Elsewhere
    PROVE  IInv'
  <1> USE DEF requestVars, dockerVars
  <1>1. TypeOK' /\ UNCHANGED <<requestVars, dockerVars>> /\ Track /\ (probing => api')
    <2> USE DEF IInv, TypeOK, ProbesAsk
    <2>1. CASE ImportEnds
      BY <2>1 DEF ImportEnds, Track, Serving
    <2>2. CASE StartApi
      BY <2>2, TimeTypes DEF StartApi, Track
    <2>3. CASE DatabaseUp
      BY <2>3, TimeTypes DEF DatabaseUp, Track, Dependencies
    <2>4. CASE DatabaseFails
      BY <2>4, TimeTypes, TimesAssumption DEF DatabaseFails, Track, Dependencies
    <2>5. ASSUME NEW s \in {"up", "down", "silent"}, RedisBecomes(s) \/ OsrmBecomes(s)
          PROVE  TypeOK' /\ UNCHANGED <<requestVars, dockerVars>> /\ Track /\ (probing => api')
      BY <2>5 DEF RedisBecomes, OsrmBecomes, Track, Serving, Dependencies
    <2>6. CASE ComposeStep \/ ComposeAgain
      BY <2>6 DEF ComposeStep, ComposeAgain, BuildWhenHealthy, Track, Serving
    <2>7. CASE BuildFails
      BY <2>7, TimesAssumption DEF BuildFails, Track, Serving
    <2>8. CASE UNCHANGED vars
      BY <2>8 DEF vars, Track, Serving
    <2> QED
      BY <2>1, <2>2, <2>3, <2>4, <2>5, <2>6, <2>7, <2>8 DEF Elsewhere
  <1>2. AnswersInTime' /\ ProbesAsk'
    BY <1>1 DEF IInv, AnswersInTime, ProbesAsk
  <1>3. FoundSoon'
    <2>1. CASE Serving' = Serving
      BY <1>1, <2>1 DEF Track, IInv, FoundSoon
    <2>2. CASE Serving' # Serving
      BY <1>1, <2>2, TimesAssumption DEF Track, IInv, FoundSoon, TypeOK
    <2> QED
      BY <2>1, <2>2
  <1>4. LostSoon'
    <2>1. CASE Serving' = Serving
      BY <1>1, <2>1 DEF Track, IInv, LostSoon
    <2>2. CASE Serving' # Serving
      BY <1>1, <2>2, TimesAssumption, RoundsType DEF Track, IInv, LostSoon, TypeOK
    <2> QED
      BY <2>1, <2>2
  <1> QED
    BY <1>1, <1>2, <1>3, <1>4 DEF IInv

\* A check answers yes only while its dependency is up, and no only while not.
LEMMA CheckInv ==
    ASSUME IInv, NEW d \in Dependencies, CheckAnswers(d) \/ CheckTimesOut(d)
    PROVE  IInv'
  <1>1. /\ UNCHANGED <<imported, api, state, probing, clock, booted, failures, health, compose, since, outages>>
        /\ probing /\ answers[d] = "pending"
        /\ answers' = [answers EXCEPT ![d] = Says(d)]
    BY DEF CheckAnswers, CheckTimesOut, Asked, dockerVars, Says
  <1>2. TypeOK'
    BY <1>1 DEF IInv, TypeOK, Says
  <1>3. AnswersInTime' /\ ProbesAsk'
    BY <1>1 DEF IInv, AnswersInTime, ProbesAsk
  <1>4. Serving' = Serving
    BY <1>1 DEF Serving
  <1>5. FoundSoon'
    <2>1. CASE d = "roads"
      BY <1>1, <1>4, <2>1 DEF IInv, TypeOK, FoundSoon, Says, Serving
    <2>2. CASE d # "roads"
      BY <1>1, <1>4, <2>2 DEF IInv, TypeOK, FoundSoon
    <2> QED
      BY <2>1, <2>2
  <1>6. LostSoon'
    <2>1. CASE d = "roads"
      BY <1>1, <1>4, <2>1 DEF IInv, TypeOK, LostSoon, Says, Serving, ProbesAsk
    <2>2. CASE d # "roads"
      BY <1>1, <1>4, <2>2 DEF IInv, TypeOK, LostSoon
    <2> QED
      BY <2>1, <2>2
  <1> QED
    BY <1>2, <1>3, <1>5, <1>6 DEF IInv

LEMMA ProbeInv ==
    ASSUME IInv, Probe
    PROVE  IInv'
  <1>1. /\ ~probing /\ clock = Interval /\ api /\ answers = NoAnswers
        /\ probing' = TRUE /\ clock' = 0
        /\ UNCHANGED <<imported, api, state, answers, booted, failures, health, compose, since, outages>>
    BY DEF Probe, ProbeDue, dockerVars, IInv, ProbesAsk
  <1>2. TypeOK' /\ AnswersInTime' /\ ProbesAsk'
    BY <1>1, TimesAssumption DEF IInv, TypeOK, AnswersInTime, ProbesAsk
  <1>3. answers["roads"] = "pending" /\ Serving' = Serving
    BY <1>1 DEF NoAnswers, Dependencies, Serving
  <1>4. FoundSoon'
    BY <1>1, <1>3, TimesAssumption DEF IInv, TypeOK, FoundSoon
  <1>5. LostSoon'
    BY <1>1, <1>3, TimesAssumption, RoundsType DEF IInv, TypeOK, LostSoon
  <1> QED
    BY <1>2, <1>4, <1>5 DEF IInv

\* A failed probe that may count leaves its round behind.
LEMMA FailureInv ==
    ASSUME IInv, Conclude(FALSE), ~Serving, UNCHANGED since, ~Serving',
           probing \/ clock = Interval
    PROVE  LostSoon'
  <1>1. /\ probing' = FALSE /\ clock' = 0
        /\ health' = "healthy" => health = "healthy" /\ failures' = failures + 1 /\ failures' # Retries
    BY TimesAssumption DEF Conclude, Excused, IInv, TypeOK, LostSoon
  <1>2. CASE health' = "healthy"
    <2>1. failures < Retries /\ failures \in Nat /\ failures' = failures + 1 /\ failures' < Retries
      BY <1>1, <1>2, TimesAssumption DEF IInv, TypeOK, LostSoon
    <2>2. failures' * Round = failures * Round + Round /\ failures * Round \in Nat
      BY <2>1, Rounds, RoundsType
    <2>3. since <= Deadline + failures * Round + Interval + Deadline
      <3>1. CASE probing
        <4>1. clock <= Deadline /\ clock \in Nat
          BY <3>1, TimesAssumption DEF IInv, TypeOK, AnswersInTime
        <4> QED
          BY <1>1, <1>2, <2>2, <3>1, <4>1, TimesAssumption DEF IInv, LostSoon, TypeOK
      <3>2. CASE ~probing
        BY <1>1, <1>2, <2>2, <3>2, TimesAssumption DEF IInv, LostSoon, TypeOK
      <3> QED
        BY <3>1, <3>2
    <2> QED
      BY <1>1, <2>1, <2>2, <2>3, TimesAssumption DEF LostSoon, Round, IInv, TypeOK
  <1> QED
    BY <1>1, <1>2 DEF LostSoon

LEMMA ProbeRefusedInv ==
    ASSUME IInv, ProbeRefused
    PROVE  IInv'
  <1>1. /\ ~api /\ ~probing /\ clock = Interval /\ Conclude(FALSE)
        /\ UNCHANGED <<imported, api, state, compose, since, outages>>
    BY DEF ProbeRefused, ProbeDue
  <1>2. TypeOK' /\ AnswersInTime' /\ ProbesAsk'
    BY <1>1, ConcludeType DEF IInv, TypeOK, AnswersInTime, ProbesAsk
  <1>3. ~Serving /\ ~Serving'
    BY <1>1 DEF Serving
  <1> QED
    BY <1>1, <1>2, <1>3, FailureInv DEF IInv, FoundSoon

\* A probe that is over was answered, and succeeds if the roads were found.
LEMMA ProbeEndsInv ==
    ASSUME IInv, ProbeEnds
    PROVE  IInv'
  <1>1. /\ probing /\ Answered /\ Conclude(Answered /\ Succeeds)
        /\ UNCHANGED <<imported, api, state, compose, since, outages>>
    BY TimesAssumption DEF ProbeEnds, ProbeOver, IInv, TypeOK, AnswersInTime
  <1>2. Serving' = Serving
    BY <1>1 DEF Serving
  <1>3. Succeeds <=> answers["roads"] = "yes"
    BY DEF Succeeds, Status
  <1>4. answers["roads"] \in {"yes", "no"}
    BY <1>1 DEF Answered, IInv, TypeOK, Dependencies
  <1>5. clock \in 0..Deadline /\ since \in Nat
    BY <1>1, TimesAssumption, TimeTypes DEF IInv, TypeOK, AnswersInTime
  <1>6. TypeOK' /\ AnswersInTime' /\ ProbesAsk' /\ probing' = FALSE /\ clock' = 0
    BY <1>1, ConcludeType DEF IInv, TypeOK, AnswersInTime, ProbesAsk
  <1>7. CASE answers["roads"] = "yes"
    <2>1. health' = "healthy" /\ failures' = 0
      BY <1>1, <1>3, <1>7 DEF Conclude
    <2>2. FoundSoon'
      BY <1>6, <2>1 DEF FoundSoon
    <2>3. ~Serving => since <= Deadline + 0 * Round + 0
      BY <1>1, <1>5, <1>7, TimesAssumption, RoundsType DEF IInv, LostSoon
    <2>4. LostSoon'
      BY <1>1, <1>2, <1>6, <2>1, <2>3, TimesAssumption DEF LostSoon
    <2> QED
      BY <1>6, <2>2, <2>4 DEF IInv
  <1>8. CASE answers["roads"] = "no"
    <2>1. Conclude(FALSE)
      BY <1>1, <1>3, <1>8
    <2>2. FoundSoon'
      BY <1>1, <1>2, <1>5, <1>6, <1>8, TimesAssumption DEF IInv, FoundSoon
    <2>3. LostSoon'
      <3>1. CASE Serving
        BY <1>2, <1>6, <2>1, <3>1, TimesAssumption DEF IInv, TypeOK, LostSoon, Conclude
      <3>2. CASE ~Serving
        BY <1>1, <1>2, <2>1, <3>2, FailureInv
      <3> QED
        BY <3>1, <3>2
    <2> QED
      BY <1>6, <2>2, <2>3 DEF IInv
  <1> QED
    BY <1>4, <1>7, <1>8

LEMMA StopApiInv ==
    ASSUME IInv, StopApi
    PROVE  IInv'
  <1>1. /\ api /\ api' = FALSE /\ outages' = outages + 1 /\ outages < MaxOutages
        /\ UNCHANGED <<imported, state, compose>> /\ Track
        /\ IF probing THEN Conclude(FALSE) ELSE UNCHANGED <<requestVars, dockerVars>>
    BY DEF StopApi
  <1>2. ~Serving' /\ since' \in 0..Horizon /\ outages' \in 0..MaxOutages
    BY <1>1, TimesAssumption, TimeTypes DEF Track, Serving, IInv, TypeOK
  <1>3. TypeOK' /\ AnswersInTime' /\ ProbesAsk' /\ probing' = FALSE
    <2>1. CASE probing
      BY <1>1, <1>2, <2>1, ConcludeType DEF IInv, TypeOK, AnswersInTime, ProbesAsk
    <2>2. CASE ~probing
      BY <1>1, <1>2, <2>2 DEF IInv, TypeOK, AnswersInTime, ProbesAsk, requestVars, dockerVars
    <2> QED
      BY <2>1, <2>2
  <1>4. FoundSoon'
    BY <1>2 DEF FoundSoon
  <1>5. LostSoon'
    <2>1. CASE Serving
      <3>1. since' = 0
        BY <1>1, <1>2, <2>1 DEF Track
      <3>2. health' = "healthy" => failures' < Retries
        BY <1>1, <1>3, TimesAssumption DEF IInv, LostSoon, TypeOK, Conclude, requestVars, dockerVars
      <3>3. clock' \in Nat /\ failures' \in Nat
        BY <1>3, TimesAssumption DEF TypeOK
      <3>4. failures' * Round \in Nat
        BY <3>3, RoundsType
      <3> QED
        BY <1>3, <3>1, <3>2, <3>3, <3>4, TimesAssumption DEF LostSoon
    <2>2. CASE ~Serving
      <3>1. since' = since
        BY <1>1, <1>2, <2>2 DEF Track, Serving
      <3>2. CASE probing
        BY <1>1, <1>2, <2>2, <3>1, <3>2, FailureInv
      <3>3. CASE ~probing
        BY <1>1, <1>2, <2>2, <3>1, <3>3 DEF IInv, LostSoon, requestVars, dockerVars
      <3> QED
        BY <3>2, <3>3
    <2> QED
      BY <2>1, <2>2
  <1> QED
    BY <1>3, <1>4, <1>5 DEF IInv

\* A second passes only while nothing is due, so never beyond the deadline.
LEMMA TickInv ==
    ASSUME IInv, Tick
    PROVE  IInv'
  <1>1. /\ ~ProbeDue /\ ~ProbeOver
        /\ \A d \in Dependencies : ~(Asked(d) /\ (state[d] # "silent" \/ Late(d)))
        /\ clock' = IF probing \/ clock < Interval THEN clock + 1 ELSE clock
        /\ booted' = IF booted < StartPeriod THEN booted + 1 ELSE booted
        /\ since' = IF since < Horizon THEN since + 1 ELSE since
        /\ UNCHANGED <<imported, api, state, answers, probing, failures, health, compose, outages>>
    BY DEF Tick, Pressing
  <1>2. probing => clock < Deadline
    <2> SUFFICES ASSUME probing PROVE clock < Deadline
      OBVIOUS
    <2>1. PICK d \in Dependencies : answers[d] = "pending"
      BY <1>1 DEF ProbeOver, Answered
    <2>2. ~(clock >= Deadline)
      BY <1>1, <2>1 DEF Asked, Late
    <2> QED
      BY <2>2, TimesAssumption DEF IInv, TypeOK
  <1>3. ~probing => clock < Interval /\ clock' = clock + 1
    BY <1>1, TimesAssumption DEF ProbeDue, IInv, TypeOK
  <1>4. clock' = clock + 1 /\ since' <= since + 1 /\ clock \in Nat /\ since \in Nat
    BY <1>1, <1>3, TimesAssumption, TimeTypes DEF IInv, TypeOK
  <1>5. TypeOK'
    BY <1>1, <1>2, <1>3, <1>4, TimesAssumption, TimeTypes DEF IInv, TypeOK
  <1>6. AnswersInTime' /\ ProbesAsk' /\ Serving' = Serving
    BY <1>1, <1>2, <1>4, TimesAssumption DEF IInv, AnswersInTime, ProbesAsk, Serving
  <1>7. since' \in Nat /\ failures * Round \in Nat
    <2>1. since' \in Nat /\ failures \in Nat
      BY <1>5, TimesAssumption, TimeTypes DEF TypeOK, IInv
    <2> QED
      BY <2>1, RoundsType
  <1>8. FoundSoon'
    BY <1>1, <1>4, <1>6, <1>7, TimesAssumption DEF IInv, FoundSoon
  <1>9. LostSoon'
    BY <1>1, <1>4, <1>6, <1>7, TimesAssumption DEF IInv, LostSoon
  <1> QED
    BY <1>5, <1>6, <1>8, <1>9 DEF IInv

LEMMA Invariant == Spec => []IInv
  <1>1. ASSUME IInv, [Next]_vars PROVE IInv'
    BY <1>1, ElsewhereInv, CheckInv, ProbeInv, ProbeRefusedInv, ProbeEndsInv, StopApiInv, TickInv
       DEF Next, Elsewhere, CheckStep, ProbeStep
  <1> QED
    BY InitInv, <1>1, PTL DEF Spec

-----------------------------------------------------------------------------
(* Theorems *)

\* Every variable keeps its type, and the times their bounds.
THEOREM TypeCorrect == Spec => []TypeOK
  BY Invariant, PTL DEF IInv

\* The checks of a probe are over by their deadline, whatever is silent.
THEOREM ChecksEndInTime == Spec => []AnswersInTime
  BY Invariant, PTL DEF IInv

\* An API that serves is found healthy, whatever OSRM and Redis do.
THEOREM ServingIsFound == Spec => []HealthFollowsRoads
  <1>1. IInv => HealthFollowsRoads
    BY TimesAssumption, TimeTypes DEF IInv, TypeOK, AnswersInTime, FoundSoon, HealthFollowsRoads, Recovery
  <1> QED
    BY <1>1, Invariant, PTL

\* An API that cannot serve does not pass for healthy for long.
THEOREM FailureIsFound == Spec => []HealthIsFresh
  <1>1. IInv => HealthIsFresh
    <2> SUFFICES ASSUME IInv, health = "healthy", ~Serving PROVE since <= Staleness
      BY DEF HealthIsFresh
    <2>1. /\ failures \in Nat /\ failures < Retries /\ clock \in Nat /\ since \in Nat
      BY TimesAssumption, TimeTypes DEF IInv, TypeOK, LostSoon
    <2>2. /\ failures * Round + Round <= Retries * Round
          /\ failures * Round \in Nat /\ Retries * Round \in Nat
      BY <2>1, Rounds, RoundsType, TimesAssumption
    <2>3. since <= Deadline + failures * Round + Interval + Deadline
      BY <2>1, <2>2, TimesAssumption DEF IInv, TypeOK, AnswersInTime, LostSoon
    <2> QED
      BY <2>1, <2>2, <2>3, TimesAssumption DEF Round, Staleness
  <1> QED
    BY <1>1, Invariant, PTL

-----------------------------------------------------------------------------
(* The order of start-up *)

\* What stands between the import and the build, each link behind the one before.
HealthNeedsImport ==
    /\ api => imported
    /\ state["roads"] = "up" => imported
    /\ answers["roads"] = "yes" => imported
    /\ health = "healthy" => imported
    /\ BuildFollowsImport

\* A probe's end makes a container healthy that found the roads.
LEMMA ConcludeNeedsImport ==
    ASSUME HealthNeedsImport, NEW ok \in BOOLEAN, Conclude(ok), ok => imported,
           UNCHANGED <<imported, state, compose>>, api' => imported
    PROVE  HealthNeedsImport'
  <1>1. answers'["roads"] = "pending"
    BY DEF Conclude, NoAnswers, Dependencies
  <1>2. health' = "healthy" => imported
    BY DEF Conclude, HealthNeedsImport
  <1> QED
    BY <1>1, <1>2 DEF HealthNeedsImport, BuildFollowsImport

LEMMA NeedsImport ==
    ASSUME TypeOK, HealthNeedsImport, [Next]_vars
    PROVE  HealthNeedsImport'
  <1> USE DEF requestVars, dockerVars
  <1>1. CASE CheckStep
    <2>1. PICK d \in Dependencies : CheckAnswers(d) \/ CheckTimesOut(d)
      BY <1>1 DEF CheckStep
    <2>2. /\ UNCHANGED <<imported, api, state, health, compose>>
          /\ answers' = [answers EXCEPT ![d] = Says(d)]
      BY <2>1 DEF CheckAnswers, CheckTimesOut, Says
    <2>3. answers'["roads"] = "yes" => answers["roads"] = "yes" \/ state["roads"] = "up"
      BY <2>2 DEF TypeOK, Says, Dependencies
    <2> QED
      BY <2>2, <2>3 DEF HealthNeedsImport, BuildFollowsImport
  <1>2. CASE Probe
    BY <1>2 DEF Probe, HealthNeedsImport, BuildFollowsImport
  <1>3. CASE ProbeRefused
    BY <1>3, ConcludeNeedsImport DEF ProbeRefused, HealthNeedsImport
  <1>4. CASE ProbeEnds
    <2>1. Answered /\ Succeeds => answers["roads"] = "yes"
      BY DEF Succeeds, Status
    <2> QED
      BY <1>4, <2>1, ConcludeNeedsImport DEF ProbeEnds, HealthNeedsImport
  <1>5. CASE StopApi
    BY <1>5, ConcludeNeedsImport DEF StopApi, HealthNeedsImport, BuildFollowsImport
  <1>6. CASE \/ ImportEnds \/ StartApi \/ DatabaseUp \/ ComposeStep
             \/ BuildFails \/ ComposeAgain \/ Tick \/ UNCHANGED vars
    BY <1>6 DEF ImportEnds, StartApi, DatabaseUp, ComposeStep, BuildWhenHealthy, BuildFails,
       ComposeAgain, Tick, vars, HealthNeedsImport, BuildFollowsImport
  <1>7. CASE DatabaseFails
    BY <1>7 DEF DatabaseFails, TypeOK, Dependencies, HealthNeedsImport, BuildFollowsImport
  <1>8. ASSUME NEW s \in {"up", "down", "silent"}, RedisBecomes(s) \/ OsrmBecomes(s)
        PROVE  HealthNeedsImport'
    BY <1>8 DEF RedisBecomes, OsrmBecomes, TypeOK, Dependencies, HealthNeedsImport, BuildFollowsImport
  <1> QED
    BY <1>1, <1>2, <1>3, <1>4, <1>5, <1>6, <1>7, <1>8 DEF Next, ProbeStep

\* The graph is built, and a router started on it, only behind a finished import:
\* what OsrmGraph assumes of Compose.
THEOREM BuildWaitsForImport == Spec => []BuildFollowsImport
  <1>1. Init => HealthNeedsImport
    BY DEF Init, NoAnswers, Dependencies, HealthNeedsImport, BuildFollowsImport
  <1>2. HealthNeedsImport => BuildFollowsImport
    BY DEF HealthNeedsImport
  <1> QED
    BY <1>1, <1>2, NeedsImport, TypeCorrect, PTL DEF Spec

=============================================================================
