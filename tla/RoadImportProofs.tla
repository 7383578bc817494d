-------------------------- MODULE RoadImportProofs --------------------------
(***************************************************************************)
(* Proofs of the safety properties of RoadImport, for every number of      *)
(* releases, interruptions and missing checksums, with --force allowed;    *)
(* and when a start that finds the marker is right to skip the import.     *)
(***************************************************************************)
EXTENDS RoadImport, TLAPS

\* What the steps that are over have achieved is still there: nothing but
\* osm2pgsql --create undoes any of it, and the steps come in one order.
StepsBuildUp ==
    /\ step \in {"loading", "indexing", "granting", "initializing", "marking"}
         => "roads" \in tables
    /\ step \in {"indexing", "granting", "initializing", "marking"} => roads = "full"
    /\ step \in {"granting", "initializing", "marking"} => indexed
    /\ step \in {"initializing", "marking"} => "roads" \in readable
    /\ step = "marking" => replicating

\* Nobody writes to the PBF between its checksum and the end of the import.
CheckedIsLoaded ==
    step \in {"creating", "loading"} /\ ~unverified
        => \A v, w \in pbf.from : v = w

\* The replication state of an osm2pgsql since 1.9 is readable from the grants
\* on, and its table is there from --create on.
GrantsLast ==
    ~Legacy =>
        /\ step \in {"loading", "indexing", "granting", "initializing", "marking"}
             => "state" \in tables
        /\ step \in {"initializing", "marking"} => "state" \in readable
        /\ marker => "state" \in readable

IInv ==
    /\ TypeOK
    /\ StepsBuildUp
    /\ MarkerMeansImported
    /\ CheckedIsLoaded
    /\ LoadedIsOneRelease
    /\ GrantsLast

-----------------------------------------------------------------------------
(* The invariant, step by step *)

\* wget makes a file that has a type out of one.
LEMMA ContinuedType ==
    ASSUME TypeOK, NEW c \in BOOLEAN, NEW f \in Continued(pbf, c)
    PROVE  f \in {NoFile} \cup [from : (SUBSET Releases) \ {{}}, complete : BOOLEAN]
  <1>1. CASE f = [from |-> pbf.from \cup {release}, complete |-> c]
    <2>1. pbf.from \in SUBSET Releases
      BY DEF TypeOK, NoFile
    <2>2. pbf.from \cup {release} \in (SUBSET Releases) \ {{}}
      BY <2>1 DEF TypeOK
    <2> QED
      BY <1>1, <2>2
  <1>2. CASE f = pbf
    BY <1>2 DEF TypeOK
  <1> QED
    BY <1>1, <1>2 DEF Continued

\* Nothing has been imported at first, and nothing is marked.
LEMMA InitInv == Init => IInv
  <1> SUFFICES ASSUME Init PROVE IInv
    OBVIOUS
  <1> USE DEF Init
  <1>1. TypeOK
    <2>1. release \in Releases
      BY SettingsAssumption DEF Releases
    <2>2. stops \in 0..MaxStops /\ unsummed \in 0..MaxUnsummed
      BY SettingsAssumption
    <2> QED
      BY <2>1, <2>2 DEF TypeOK
  <1>2. StepsBuildUp /\ MarkerMeansImported
    BY DEF StepsBuildUp, MarkerMeansImported
  <1>3. CheckedIsLoaded /\ LoadedIsOneRelease
    BY DEF CheckedIsLoaded, LoadedIsOneRelease
  <1>4. GrantsLast
    BY DEF GrantsLast
  <1> QED
    BY <1>1, <1>2, <1>3, <1>4 DEF IInv

\* What leaves the step alone and touches neither the file nor the tables.
LEMMA QuietInv ==
    ASSUME IInv, Publish \/ Run \/ RunForced \/ Prepare \/ Interrupt \/ Check \/ SkipCheck
    PROVE  IInv'
  <1> USE DEF IInv, TypeOK, Steps, Go, Stop
  <1>1. CASE Publish
    <2>1. release' \in Releases
      BY <1>1, SettingsAssumption DEF Publish, Releases
    <2> QED
      BY <1>1, <2>1 DEF Publish, StepsBuildUp, MarkerMeansImported, Complete,
         CheckedIsLoaded, LoadedIsOneRelease, GrantsLast, fileVars, dbVars, markVars, boundVars
  <1>2. CASE Run \/ RunForced
    <2>1. step' = "preparing" /\ force' \in BOOLEAN
      BY <1>2 DEF Run, RunForced
    <2>2. UNCHANGED <<release, fileVars, dbVars, markVars, unverified, boundVars>>
      BY <1>2 DEF Run, RunForced
    <2> QED
      BY <2>1, <2>2 DEF StepsBuildUp, MarkerMeansImported, Complete, CheckedIsLoaded,
         LoadedIsOneRelease, GrantsLast, fileVars, dbVars, markVars, boundVars
  <1>3. CASE Prepare
    BY <1>3 DEF Prepare, StepsBuildUp, MarkerMeansImported, Complete,
       CheckedIsLoaded, LoadedIsOneRelease, GrantsLast, fileVars, dbVars, markVars, boundVars
  <1>4. CASE Interrupt
    BY <1>4, SettingsAssumption DEF Interrupt, StepsBuildUp, MarkerMeansImported, Complete,
       CheckedIsLoaded, LoadedIsOneRelease, GrantsLast, fileVars, dbVars, markVars
  <1>5. CASE Check
    BY <1>5 DEF Check, SumMatches, StepsBuildUp, MarkerMeansImported, Complete,
       CheckedIsLoaded, LoadedIsOneRelease, GrantsLast, dbVars, markVars, boundVars
  <1>6. CASE SkipCheck
    BY <1>6, SettingsAssumption DEF SkipCheck, StepsBuildUp, MarkerMeansImported, Complete,
       CheckedIsLoaded, LoadedIsOneRelease, GrantsLast, fileVars, dbVars, markVars
  <1> QED
    BY <1>1, <1>2, <1>3, <1>4, <1>5, <1>6

\* What changes the file happens before it is checked or while nothing runs.
LEMMA FileInv ==
    ASSUME IInv, Download \/ DownloadBreaks \/ DeletePbf
    PROVE  IInv'
  <1> USE DEF IInv, Steps, Go, Stop, StepsBuildUp, MarkerMeansImported, Complete,
              CheckedIsLoaded, LoadedIsOneRelease, GrantsLast, dbVars, markVars
  <1>1. CASE Download
    <2>1. pbf' \in {NoFile} \cup [from : (SUBSET Releases) \ {{}}, complete : BOOLEAN]
      BY <1>1, ContinuedType DEF Download
    <2> QED
      BY <1>1, <2>1 DEF Download, TypeOK, boundVars
  <1>2. CASE DownloadBreaks
    <2>1. pbf' \in {NoFile} \cup [from : (SUBSET Releases) \ {{}}, complete : BOOLEAN]
      BY <1>2, ContinuedType DEF DownloadBreaks
    <2> QED
      BY <1>2, <2>1, SettingsAssumption DEF DownloadBreaks, TypeOK
  <1>3. CASE DeletePbf
    BY <1>3 DEF DeletePbf, TypeOK, boundVars
  <1> QED
    BY <1>1, <1>2, <1>3

\* --create is what undoes an earlier import, and says so by redoing.
LEMMA CreateInv ==
    ASSUME IInv, Create
    PROVE  IInv'
  <1> USE DEF IInv, Create, Go, fileVars, boundVars
  <1>1. TypeOK'
    BY DEF TypeOK, Steps
  <1>2. StepsBuildUp' /\ MarkerMeansImported'
    BY DEF StepsBuildUp, MarkerMeansImported
  <1>3. CheckedIsLoaded' /\ LoadedIsOneRelease'
    BY DEF CheckedIsLoaded, LoadedIsOneRelease
  <1>4. GrantsLast'
    BY DEF GrantsLast
  <1> QED
    BY <1>1, <1>2, <1>3, <1>4

\* The later steps add to what is there.
LEMMA BuildInv ==
    ASSUME IInv, Load \/ Index \/ Grant \/ Initialize \/ Mark
    PROVE  IInv'
  <1> USE DEF IInv, Steps, Go, fileVars, dbVars, boundVars, TypeOK, StepsBuildUp,
              MarkerMeansImported, Complete, CheckedIsLoaded, LoadedIsOneRelease, GrantsLast
  <1>1. CASE Load
    <2>1. pbf.from \in SUBSET Releases
      BY DEF NoFile
    <2>2. TypeOK'
      BY <1>1, <2>1 DEF Load, markVars
    <2>3. LoadedIsOneRelease' /\ CheckedIsLoaded'
      BY <1>1 DEF Load
    <2>4. StepsBuildUp' /\ MarkerMeansImported' /\ GrantsLast'
      BY <1>1 DEF Load, markVars
    <2> QED
      BY <2>2, <2>3, <2>4
  <1>2. CASE Index
    BY <1>2 DEF Index, markVars
  <1>3. CASE Grant
    BY <1>3 DEF Grant, markVars
  <1>4. CASE Initialize
    BY <1>4 DEF Initialize, markVars
  <1>5. CASE Mark
    BY <1>5 DEF Mark
  <1> QED
    BY <1>1, <1>2, <1>3, <1>4, <1>5

\* Every step of the script, of Geofabrik and of the operator keeps the invariant.
LEMMA NextInv == IInv /\ [Next]_vars => IInv'
  <1> SUFFICES ASSUME IInv, [Next]_vars PROVE IInv'
    OBVIOUS
  <1>1. CASE Next
    BY <1>1, QuietInv, FileInv, CreateInv, BuildInv DEF Next, ScriptStep
  <1>2. CASE UNCHANGED vars
    BY <1>2 DEF vars, fileVars, dbVars, markVars, boundVars, IInv, TypeOK, StepsBuildUp,
       MarkerMeansImported, Complete, CheckedIsLoaded, LoadedIsOneRelease, GrantsLast
  <1> QED
    BY <1>1, <1>2

\* The invariant holds in every reachable state of the import.
LEMMA Invariance == Spec => []IInv
  BY InitInv, NextInv, PTL DEF Spec

-----------------------------------------------------------------------------
(* The theorems *)

\* The files, tables and grants of the import keep their types; in particular
\* the API role never has rights on a table that does not exist.
THEOREM TypeCorrect == Spec => []TypeOK
  <1>1. IInv => TypeOK
    BY DEF IInv
  <1> QED
    BY <1>1, Invariance, PTL

\* At whatever steps imports are interrupted and however often they are run
\* again, the marker is only there when the import is complete, but for one
\* that --force is doing over.
THEOREM MarkerIsHonest == Spec => []MarkerMeansImported
  <1>1. IInv => MarkerMeansImported
    BY DEF IInv
  <1> QED
    BY <1>1, Invariance, PTL

\* The checksum keeps mixtures of releases out of the database, whenever
\* releases appear.
THEOREM LoadedIsClean == Spec => []LoadedIsOneRelease
  <1>1. IInv => LoadedIsOneRelease
    BY DEF IInv
  <1> QED
    BY <1>1, Invariance, PTL

\* With an osm2pgsql since 1.9 the API can read the replication state of every
\* marked import, also while it is done over.
THEOREM StateStaysReadable ==
    ASSUME Legacy = FALSE
    PROVE  Spec => []StateIsReadable
  <1>1. IInv => StateIsReadable
    BY DEF IInv, GrantsLast, StateIsReadable
  <1> QED
    BY <1>1, Invariance, PTL

-----------------------------------------------------------------------------
(* What the marker lets a later start skip *)

\* A run without --force does not get past a marker, ...
SkipsAtMarker == marker /\ ~force => step \in {"idle", "preparing"}

LEMMA NextSkips == SkipsAtMarker /\ [Next]_vars => SkipsAtMarker'
  <1> SUFFICES ASSUME SkipsAtMarker, [Next]_vars PROVE SkipsAtMarker'
    OBVIOUS
  <1> USE DEF SkipsAtMarker, Go, Stop, markVars
  <1>1. CASE Publish \/ Run \/ RunForced \/ DeletePbf \/ UNCHANGED vars
    BY <1>1 DEF Publish, Run, RunForced, DeletePbf, vars
  <1>2. CASE Prepare
    <2>1. marker' = marker /\ force' = force
      BY <1>2 DEF Prepare
    <2>2. step' = "idle" \/ ~(marker /\ ~force)
      BY <1>2 DEF Prepare
    <2> QED
      BY <2>1, <2>2
  <1>3. CASE Interrupt \/ DownloadBreaks
    BY <1>3 DEF Interrupt, DownloadBreaks
  <1>4. CASE Download \/ Check \/ SkipCheck \/ Create
    BY <1>4 DEF Download, Check, SkipCheck, Create
  <1>5. CASE Load \/ Index \/ Grant
    BY <1>5 DEF Load, Index, Grant
  <1>6. CASE Initialize \/ Mark
    BY <1>6 DEF Initialize, Mark
  <1> QED
    BY <1>1, <1>2, <1>3, <1>4, <1>5, <1>6 DEF Next, ScriptStep

\* ... which is before the first step that writes to the database.
LEMMA SkipChangesNothing ==
    SkipsAtMarker /\ [Next]_vars => (marker /\ ~force => UNCHANGED <<dbVars, marker>>)
  <1> SUFFICES ASSUME SkipsAtMarker, [Next]_vars, marker, ~force PROVE UNCHANGED <<dbVars, marker>>
    OBVIOUS
  <1>1. step \in {"idle", "preparing"}
    BY DEF SkipsAtMarker
  <1>2. CASE Publish \/ Run \/ RunForced \/ DeletePbf \/ Interrupt \/ UNCHANGED vars
    BY <1>2 DEF Publish, Run, RunForced, DeletePbf, Interrupt, vars, markVars
  <1>3. CASE ScriptStep \/ DownloadBreaks
    BY <1>1, <1>3 DEF ScriptStep, Prepare, Download, Check, SkipCheck, Create, Load, Index, Grant,
                      Initialize, Mark, DownloadBreaks, Go, markVars
  <1> QED
    BY <1>2, <1>3 DEF Next

\* Whatever was interrupted before and whatever Geofabrik publishes, a run
\* without --force that finds the marker leaves database and marker alone.
THEOREM CompletedImportIsSkipped == Spec => CompletedIsSkipped
  <1>1. Init => SkipsAtMarker
    BY DEF Init, SkipsAtMarker
  <1>2. SkipsAtMarker /\ [Next]_vars => SkipsAtMarker'
    BY NextSkips
  <1>3. SkipsAtMarker /\ [Next]_vars => (marker /\ ~force => UNCHANGED <<dbVars, marker>>)
    BY SkipChangesNothing
  <1> QED
    BY <1>1, <1>2, <1>3, PTL DEF Spec, CompletedIsSkipped

\* An import that does a complete one over is under way.
RedoRuns == redoing => step \in {"loading", "indexing", "granting", "initializing", "marking"}

LEMMA NextRedo == RedoRuns /\ [Next]_vars /\ [redoing => ~Interrupt]_vars => RedoRuns'
  <1> SUFFICES ASSUME RedoRuns, [Next]_vars, [redoing => ~Interrupt]_vars PROVE RedoRuns'
    OBVIOUS
  <1> USE DEF RedoRuns, Go, Stop, markVars
  <1>1. CASE Publish \/ Run \/ RunForced \/ DeletePbf \/ UNCHANGED vars
    BY <1>1 DEF Publish, Run, RunForced, DeletePbf, vars
  <1>2. CASE Prepare \/ DownloadBreaks \/ Download \/ Check \/ SkipCheck \/ Create
    BY <1>2 DEF Prepare, DownloadBreaks, Download, Check, SkipCheck, Create
  <1>3. CASE Load \/ Index \/ Grant \/ Initialize \/ Mark
    BY <1>3 DEF Load, Index, Grant, Initialize, Mark
  <1>4. CASE Interrupt /\ redoing
    BY <1>4 DEF vars, markVars
  <1>5. CASE Interrupt /\ ~redoing
    BY <1>5 DEF Interrupt
  <1> QED
    BY <1>1, <1>2, <1>3, <1>4, <1>5 DEF Next, ScriptStep

\* An interrupted --force import is the only way to skip an import that is not
\* complete: in a behaviour without one, wherever else imports are interrupted,
\* what later starts skip is a completed import.
THEOREM OnlyForceBreaksSkip == Spec /\ RedoesEnd => []SkippedIsImported
  <1>1. Init => RedoRuns
    BY DEF Init, RedoRuns
  <1>2. RedoRuns /\ [Next]_vars /\ [redoing => ~Interrupt]_vars => RedoRuns'
    BY NextRedo
  <1>3. RedoRuns /\ MarkerMeansImported => SkippedIsImported
    BY DEF RedoRuns, MarkerMeansImported, SkippedIsImported
  <1> QED
    BY <1>1, <1>2, <1>3, MarkerIsHonest, PTL DEF Spec, RedoesEnd

\* In particular where nobody passes --force, however often imports are
\* interrupted: there is nothing that is done over.
THEOREM SkipIsHonestUnforced == ASSUME MayForce = FALSE PROVE Spec => []SkippedIsImported
  <1> DEFINE Unforced == SkipsAtMarker /\ ~force /\ ~redoing
  <1>1. Init => Unforced
    BY DEF Init, SkipsAtMarker
  <1>2. Unforced /\ [Next]_vars => Unforced'
    <2>1. ASSUME Unforced, Create PROVE ~force' /\ ~redoing'
      BY <2>1 DEF SkipsAtMarker, Create, Go
    <2>2. ASSUME Unforced, [Next]_vars, ~Create PROVE ~force' /\ ~redoing'
      <3>1. CASE Publish \/ Run \/ RunForced \/ DeletePbf \/ Interrupt \/ UNCHANGED vars
        BY <2>2, <3>1 DEF Publish, Run, RunForced, DeletePbf, Interrupt, vars, markVars
      <3>2. CASE Prepare \/ DownloadBreaks \/ Download \/ Check \/ SkipCheck
        <4>1. force' = force /\ redoing' = redoing
          BY <3>2 DEF Prepare, DownloadBreaks, Download, Check, SkipCheck, markVars
        <4> QED
          BY <2>2, <4>1
      <3>3. CASE Load \/ Index \/ Grant \/ Initialize \/ Mark
        BY <2>2, <3>3 DEF Load, Index, Grant, Initialize, Mark, markVars
      <3> QED
        BY <2>2, <3>1, <3>2, <3>3 DEF Next, ScriptStep
    <2> QED
      BY <2>1, <2>2, NextSkips
  <1>3. Unforced => (redoing => ~Interrupt)
    OBVIOUS
  <1>4. Spec => RedoesEnd
    BY <1>1, <1>2, <1>3, PTL DEF Spec, RedoesEnd
  <1> QED
    BY <1>4, OnlyForceBreaksSkip, PTL

=============================================================================
