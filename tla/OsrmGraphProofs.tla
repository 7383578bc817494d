-------------------------- MODULE OsrmGraphProofs --------------------------
(***************************************************************************)
(* Proofs about OsrmGraph, on the invariant of the import it is beside:    *)
(* that it implements the import, its types for every setup; for Compose,  *)
(* that the router gets the files of one build, which stay; and, while     *)
(* nobody forces a second import, of which PBF they are.                   *)
(***************************************************************************)
EXTENDS OsrmGraph, RoadImportProofs

\* The file is whole, and of one release if there was a checksum.
Good(file) == file.complete /\ (~unverified => OneRelease(file.from))

\* A link is to a file that is there; osrm-build makes none.
LinksAreFiles ==
    /\ linked => pbf # NoFile
    /\ setup = "compose" => ~linked

\* A file that was checked is not written again: the marker ends all imports.
MarkerKeepsFile ==
    /\ ~force
    /\ step = "checking" => pbf.complete /\ ~mismatch
    /\ step \in {"creating", "loading", "indexing", "granting", "initializing", "marking"}
         => Good(pbf) /\ ~mismatch
    /\ marker => Good(pbf) /\ ~mismatch /\ step \in {"idle", "preparing"}

\* What the tools have left, in the order they run, is of the file of the
\* marker; there is one build that gets to the end.
ToolsFollow ==
    setup = "compose" =>
        /\ build # "idle" => marker
        /\ build \in {"fetching"} \cup Tools => ~Built
        /\ build = "extract" => own = pbf
        /\ build \in {"partition", "customize"} => graph["extract"] = pbf.from
        /\ build = "customize" => graph["partition"] = pbf.from
        /\ Built => marker /\ \A t \in Tools : graph[t] = pbf.from

\* The router has nothing, or that.
ServedIsBuilt ==
    setup = "compose" =>
        served = NoGraph \/ (marker /\ \A t \in Tools : served[t] = pbf.from)

TypeInv == IInv /\ GraphTypeOK /\ LinksAreFiles

GraphInv == TypeInv /\ MarkerKeepsFile /\ ToolsFollow /\ ServedIsBuilt

-----------------------------------------------------------------------------
(* Types *)

\* Every step here is one of the import or leaves it alone.
LEMMA StepIsImports == [GraphNext]_allVars => [Next]_vars
  BY DEF GraphNext, ImportStep, Build, BuildStep, Copy, Obtain, Extract, Partition, Customize, Refuse,
     Leave, Advance, FetchBreaks, ToolBreaks, StopBuild, StartRouter, allVars

LEMMA TypeInit == GraphInit => TypeInv
  <1> SUFFICES ASSUME GraphInit PROVE TypeInv
    OBVIOUS
  <1>1. IInv
    BY InitInv DEF GraphInit
  <1>2. GraphTypeOK
    <2>1. TypeOK
      BY <1>1 DEF IInv
    <2>2. NoGraph \in [Tools -> SUBSET (Releases \cup Unusable)]
      BY DEF NoGraph
    <2>3. buildStops \in 0..MaxBuildStops
      BY BuildsAssumption DEF GraphInit
    <2> QED
      BY <2>1, <2>2, <2>3 DEF GraphInit, GraphTypeOK
  <1> QED
    BY <1>1, <1>2 DEF TypeInv, LinksAreFiles, GraphInit

LEMMA TypeNext == TypeInv /\ [GraphNext]_allVars => TypeInv'
  <1> SUFFICES ASSUME TypeInv, [GraphNext]_allVars PROVE TypeInv'
    OBVIOUS
  <1>1. IInv'
    BY NextInv, StepIsImports DEF TypeInv
  <1>2. TypeOK'
    BY <1>1 DEF IInv
  <1>3. /\ pbf \in {NoFile} \cup [from : (SUBSET Releases) \ {{}}, complete : BOOLEAN]
        /\ own \in {NoFile} \cup [from : (SUBSET Releases) \ {{}}, complete : BOOLEAN]
        /\ release \in Releases
    BY DEF TypeInv, GraphTypeOK, TypeOK
  <1> USE DEF TypeInv, GraphTypeOK, LinksAreFiles, buildVars, fileOfBuild
  <1>4. CASE ImportStep
    BY <1>1, <1>2, <1>4 DEF ImportStep, Follow, TypeOK
  <1>5. CASE UNCHANGED <<pbf, own, linked>> /\ UNCHANGED <<setup, graph, served>>
             /\ build' \in {"idle", "fetching", "ended"} \cup Tools /\ buildStops' \in 0..MaxBuildStops
    BY <1>1, <1>2, <1>5
  <1>6. CASE Copy
    BY <1>1, <1>2, <1>3, <1>6 DEF Copy, Advance, Tools, vars, fileVars
  <1>7. CASE Obtain
    <2>1. [from |-> {release}, complete |-> TRUE] \in [from : (SUBSET Releases) \ {{}}, complete : BOOLEAN]
      BY <1>3
    <2>2. /\ own' \in {NoFile} \cup [from : (SUBSET Releases) \ {{}}, complete : BOOLEAN]
          /\ linked' \in BOOLEAN
          /\ linked' => own' = pbf /\ pbf # NoFile
          /\ setup = "metal"
      <3>1. CASE UNCHANGED fileOfBuild
        BY <1>3, <1>7, <3>1 DEF Obtain
      <3>2. CASE own = NoFile /\ pbf # NoFile /\ own' = pbf /\ linked' \in BOOLEAN
        BY <1>3, <1>7, <3>2 DEF Obtain
      <3>3. CASE own = NoFile /\ pbf = NoFile /\ own' = [from |-> {release}, complete |-> TRUE]
                 /\ UNCHANGED linked
        BY <1>3, <1>7, <2>1, <3>3 DEF Obtain
      <3> QED
        BY <1>7, <3>1, <3>2, <3>3 DEF Obtain
    <2>3. UNCHANGED <<pbf, setup, graph, served, buildStops>> /\ build' \in Tools
      BY <1>7 DEF Obtain, Advance, vars, fileVars, Tools
    <2> QED
      BY <1>1, <1>2, <2>2, <2>3
  <1>8. CASE Extract
    <2>1. own.from \in SUBSET (Releases \cup Unusable)
      BY <1>3, <1>8 DEF Extract, NoFile
    <2> QED
      BY <1>1, <1>2, <1>8, <2>1 DEF Extract, Advance, Tools, vars, fileVars
  <1>9. CASE Partition \/ Customize
    BY <1>1, <1>2, <1>9 DEF Partition, Customize, Advance, Tools, vars, fileVars
  <1>10. CASE FetchBreaks
    <2>1. own' \in [from : (SUBSET Releases) \ {{}}, complete : BOOLEAN]
      BY <1>3, <1>10 DEF FetchBreaks, NoFile
    <2>2. ~linked
      BY <1>10, BuildsAssumption DEF FetchBreaks
    <2> QED
      BY <1>1, <1>2, <1>10, <2>1, <2>2, BuildsAssumption DEF FetchBreaks, StopBuild, Tools
  <1>11. CASE ToolBreaks
    BY <1>1, <1>2, <1>11, BuildsAssumption DEF ToolBreaks, StopBuild, Tools, Unusable, vars, fileVars
  <1>12. CASE StartRouter
    BY <1>1, <1>2, <1>12 DEF StartRouter, vars, fileVars
  <1> QED
    BY <1>4, <1>5, <1>6, <1>7, <1>8, <1>9, <1>10, <1>11, <1>12
       DEF GraphNext, BuildStep, Build, Refuse, Leave, Advance, allVars, graphVars, vars, fileVars, Tools

LEMMA TypeInvariance == GraphSpec => []TypeInv
  BY TypeInit, TypeNext, PTL DEF GraphSpec

\* The files of both builds have their types, and a link is the import's file,
\* for every setup, with --force as well.
THEOREM GraphTypeCorrect == GraphSpec => []GraphTypeOK
  BY TypeInvariance, PTL DEF TypeInv

\* Whatever is proved of RoadImport is true beside builds and routers as well.
THEOREM ImplementsImport == GraphSpec => ImportSpec
  <1>1. GraphInit => Init
    BY DEF GraphInit
  <1>2. [GraphNext]_allVars => [Next]_vars
    BY StepIsImports
  <1> QED
    BY <1>1, <1>2, PTL DEF GraphSpec, ImportSpec, Spec

-----------------------------------------------------------------------------
(* Compose, with --force as well *)

\* A file that a tool wrote from the one before it, or all of them.
Whole(releases) == releases \in (SUBSET Releases) \ {{}}

\* The tools of the one build that gets to the end follow each other, whatever
\* the import does to its PBF meanwhile, and no build runs after it.
FilesFit ==
    setup = "compose" =>
        /\ build \in {"fetching"} \cup Tools => ~Built
        /\ build \in {"partition", "customize"} => Whole(graph["extract"])
        /\ build = "customize" => graph["partition"] = graph["extract"]
        /\ Built => Whole(graph["extract"]) /\ \A t \in Tools : graph[t] = graph["extract"]
        /\ served = NoGraph \/ (Whole(served["extract"]) /\ \A t \in Tools : served[t] = served["extract"])

LEMMA FilesInit == GraphInit => FilesFit
  BY DEF GraphInit, FilesFit, Built, NoGraph, Tools

\* osrm-extract leaves files of releases, as it takes whole PBFs only.
LEMMA ExtractIsWhole ==
    ASSUME TypeInv, Extract
    PROVE  Whole(graph'["extract"]) /\ \A t \in Tools \ {"extract"} : graph'[t] = graph[t]
  <1>1. own \in [from : (SUBSET Releases) \ {{}}, complete : BOOLEAN]
    BY DEF Extract, TypeInv, GraphTypeOK, NoFile
  <1> QED
    BY <1>1 DEF Extract, Whole, TypeInv, GraphTypeOK, Tools

\* Every step keeps the files together, and changes none once there is a graph.
LEMMA FilesNext ==
    ASSUME TypeInv, FilesFit, [GraphNext]_allVars
    PROVE  FilesFit' /\ (setup = "compose" /\ Built => UNCHANGED graph)
  <1>1. setup' = setup
    BY DEF GraphNext, ImportStep, Follow, Build, BuildStep, Copy, Obtain, Extract, Partition,
           Customize, Refuse, Leave, Advance, FetchBreaks, ToolBreaks, StopBuild, StartRouter,
           allVars, graphVars
  <1> SUFFICES ASSUME setup = "compose", setup' = "compose"
               PROVE  FilesFit' /\ (Built => UNCHANGED graph)
    BY <1>1 DEF FilesFit
  <1>2. graph \in [Tools -> SUBSET (Releases \cup Unusable)]
    BY DEF TypeInv, GraphTypeOK
  <1> USE DEF FilesFit, Built, Tools
  <1>3. CASE ImportStep
    BY <1>3 DEF ImportStep, Follow, buildVars
  <1>4. CASE Build \/ Refuse \/ Leave
    BY <1>4 DEF Build, Skips, Refuse, Leave
  <1>5. CASE Copy \/ Obtain
    BY <1>5 DEF Copy, Obtain, Advance
  <1>6. CASE Extract
    BY <1>2, <1>6, ExtractIsWhole DEF Extract, Advance
  <1>7. CASE Partition \/ Customize
    BY <1>2, <1>7 DEF Partition, Customize, Advance
  <1>8. CASE FetchBreaks
    BY <1>8 DEF FetchBreaks, StopBuild
  <1>9. CASE ToolBreaks
    BY <1>2, <1>9 DEF ToolBreaks, StopBuild
  <1>10. CASE StartRouter
    BY <1>10 DEF StartRouter, buildVars
  <1>11. CASE UNCHANGED allVars
    BY <1>11 DEF allVars, graphVars, buildVars
  <1> QED
    BY <1>3, <1>4, <1>5, <1>6, <1>7, <1>8, <1>9, <1>10, <1>11 DEF GraphNext, BuildStep

\* In Compose the router never loads files of two builds or of a tool that was
\* stopped, also when the PBF is replaced under the build by --force.
THEOREM RouterFilesFit == GraphSpec => []ServedFitsTogether
  <1>1. GraphInit => TypeInv /\ FilesFit
    BY TypeInit, FilesInit
  <1>2. TypeInv /\ FilesFit /\ [GraphNext]_allVars => TypeInv' /\ FilesFit'
    BY TypeNext, FilesNext
  <1>3. FilesFit => ServedFitsTogether
    <2> SUFFICES ASSUME FilesFit, setup = "compose"
                 PROVE  (\A t, u \in Tools : served[t] = served[u]) /\ served["extract"] # Unusable
      BY DEF ServedFitsTogether
    <2>1. CASE served = NoGraph
      BY <2>1 DEF NoGraph, Tools, Unusable
    <2>2. CASE Whole(served["extract"]) /\ \A t \in Tools : served[t] = served["extract"]
      <3>1. 0 \notin Releases
        BY SettingsAssumption DEF Releases
      <3> QED
        BY <2>2, <3>1 DEF Whole, Unusable
    <2> QED
      BY <2>1, <2>2 DEF FilesFit
  <1> QED
    BY <1>1, <1>2, <1>3, PTL DEF GraphSpec

\* And the graph it loads first is the one it loads for good: in Compose no run
\* of osrm-build refreshes it.
THEOREM GraphIsForGood == GraphSpec => FirstGraphStays
  <1>1. GraphInit => TypeInv /\ FilesFit
    BY TypeInit, FilesInit
  <1>2. TypeInv /\ FilesFit /\ [GraphNext]_allVars
          => TypeInv' /\ FilesFit' /\ (setup = "compose" /\ Built => UNCHANGED graph)
    BY TypeNext, FilesNext
  <1> QED
    BY <1>1, <1>2, PTL DEF GraphSpec, FirstGraphStays

-----------------------------------------------------------------------------
(* Compose, without --force *)

LEMMA ComposeInit == GraphInit => MarkerKeepsFile /\ ToolsFollow /\ ServedIsBuilt
  BY DEF GraphInit, Init, MarkerKeepsFile, ToolsFollow, ServedIsBuilt, Built, NoGraph, Tools

\* The import writes and deletes its file before the marker only.
LEMMA FileKept ==
    ASSUME MayForce = FALSE, TypeOK, MarkerKeepsFile, [Next]_vars
    PROVE  /\ MarkerKeepsFile'
           /\ marker => marker' /\ pbf' = pbf
  <1> USE DEF MarkerKeepsFile, Good, OneRelease, Go, Stop, fileVars, markVars
  <1>1. CASE Publish \/ Run \/ RunForced
    BY <1>1 DEF Publish, Run, RunForced
  <1>2. CASE Prepare \/ Interrupt
    BY <1>2 DEF Prepare, Interrupt
  <1>3. CASE Download
    <2>1. pbf'.complete
      BY <1>3 DEF Download, Continued
    <2> QED
      BY <1>3, <2>1 DEF Download
  <1>4. CASE Check
    BY <1>4 DEF Check, SumMatches
  <1>5. CASE SkipCheck
    BY <1>5 DEF SkipCheck
  <1>6. CASE Create \/ Load \/ Index \/ Grant \/ Initialize
    BY <1>6 DEF Create, Load, Index, Grant, Initialize
  <1>7. CASE Mark
    BY <1>7 DEF Mark
  <1>8. CASE DownloadBreaks \/ DeletePbf
    <2>1. ~marker /\ UNCHANGED <<force, marker>> /\ step' = "idle"
      <3>1. CASE DownloadBreaks
        BY <3>1 DEF DownloadBreaks
      <3>2. CASE DeletePbf
        BY <3>2 DEF DeletePbf
      <3> QED
        BY <1>8, <3>1, <3>2
    <2> QED
      BY <2>1
  <1>9. CASE UNCHANGED vars
    BY <1>9 DEF vars
  <1> QED
    BY <1>1, <1>2, <1>3, <1>4, <1>5, <1>6, <1>7, <1>8, <1>9 DEF Next, ScriptStep

\* So every tool of a build, and of the next one after a build that was stopped,
\* works on that file.
LEMMA BuildKept ==
    ASSUME TypeInv, MarkerKeepsFile, ToolsFollow, ServedIsBuilt, [GraphNext]_allVars,
           marker => marker' /\ pbf' = pbf
    PROVE  ToolsFollow' /\ ServedIsBuilt'
  <1> SUFFICES ASSUME setup = "compose", setup' = "compose" PROVE ToolsFollow' /\ ServedIsBuilt'
    BY DEF GraphNext, ImportStep, Follow, Build, BuildStep, Copy, Obtain, Extract, Partition,
           Customize, Refuse, Leave, Advance, FetchBreaks, ToolBreaks, StopBuild, StartRouter,
           allVars, graphVars, ToolsFollow, ServedIsBuilt
  <1>1. ~linked /\ graph \in [Tools -> SUBSET (Releases \cup Unusable)]
    BY DEF TypeInv, LinksAreFiles, GraphTypeOK
  <1>2. marker => pbf.from \in (SUBSET Releases) \ {{}}
    BY DEF TypeInv, GraphTypeOK, TypeOK, MarkerKeepsFile, Good, NoFile
  <1> USE DEF ToolsFollow, ServedIsBuilt, Built, Tools
  <1>3. CASE ImportStep
    BY <1>1, <1>3 DEF ImportStep, Follow, buildVars
  <1>4. CASE Build
    BY <1>4 DEF Build, Skips, vars, fileVars, markVars
  <1>5. CASE Copy
    BY <1>5 DEF Copy, Advance, vars, fileVars, markVars
  <1>6. CASE Obtain
    BY <1>6 DEF Obtain
  <1>7. CASE Extract
    BY <1>1, <1>7 DEF Extract, Advance, fileOfBuild, vars, fileVars, markVars
  <1>8. CASE Partition
    BY <1>1, <1>8 DEF Partition, Advance, fileOfBuild, vars, fileVars, markVars
  <1>9. CASE Customize
    BY <1>1, <1>9 DEF Customize, Advance, vars, fileVars, markVars
  <1>10. CASE Refuse \/ Leave
    BY <1>10 DEF Refuse, Leave, vars, fileVars, markVars
  <1>11. CASE FetchBreaks
    BY <1>11 DEF FetchBreaks, StopBuild, vars, fileVars, markVars
  <1>12. CASE ToolBreaks
    BY <1>1, <1>12 DEF ToolBreaks, StopBuild, vars, fileVars, markVars
  <1>13. CASE StartRouter
    BY <1>1, <1>13 DEF StartRouter, buildVars, vars, fileVars, markVars
  <1>14. CASE UNCHANGED allVars
    BY <1>14 DEF allVars, graphVars, buildVars, fileOfBuild, vars, fileVars, markVars
  <1> QED
    BY <1>3, <1>4, <1>5, <1>6, <1>7, <1>8, <1>9, <1>10, <1>11, <1>12, <1>13, <1>14
       DEF GraphNext, BuildStep

LEMMA GraphInvariance ==
    ASSUME MayForce = FALSE
    PROVE  GraphSpec => []GraphInv
  <1>1. GraphInit => GraphInv
    BY TypeInit, ComposeInit DEF GraphInv
  <1>2. GraphInv /\ [GraphNext]_allVars => GraphInv'
    <2> SUFFICES ASSUME GraphInv, [GraphNext]_allVars PROVE GraphInv'
      OBVIOUS
    <2>1. TypeInv'
      BY TypeNext DEF GraphInv
    <2>2. MarkerKeepsFile' /\ (marker => marker' /\ pbf' = pbf)
      BY FileKept, StepIsImports DEF GraphInv, TypeInv, IInv
    <2>3. ToolsFollow' /\ ServedIsBuilt'
      BY <2>2, BuildKept DEF GraphInv
    <2> QED
      BY <2>1, <2>2, <2>3 DEF GraphInv
  <1> QED
    BY <1>1, <1>2, PTL DEF GraphSpec

\* osrm-build, which depends_on the healthy API, finds a whole PBF of one
\* release, however many imports were interrupted before.
THEOREM BuildFindsWholePbf ==
    ASSUME MayForce = FALSE
    PROVE  GraphSpec => []BuildFindsPbf
  <1>1. GraphInv => BuildFindsPbf
    BY DEF GraphInv, MarkerKeepsFile, ToolsFollow, BuildFindsPbf, Good
  <1> QED
    BY <1>1, GraphInvariance, PTL

\* The osrm service never loads the files of two builds or of a tool that was
\* stopped, wherever builds are stopped and however often they are run again.
THEOREM RouterGetsOneBuild ==
    ASSUME MayForce = FALSE
    PROVE  GraphSpec => []ServedIsOneBuild
  <1>1. GraphInv /\ ServedFitsTogether => ServedIsOneBuild
    <2> SUFFICES ASSUME GraphInv, setup = "compose"
                 PROVE  ~unverified => OneRelease(served["extract"])
      BY DEF ServedIsOneBuild
    <2>1. CASE served = NoGraph
      BY <2>1 DEF NoGraph, Tools, OneRelease
    <2>2. CASE marker /\ \A t \in Tools : served[t] = pbf.from
      <3>1. Good(pbf)
        BY <2>2 DEF GraphInv, MarkerKeepsFile
      <3> QED
        BY <2>2, <3>1 DEF Tools, Good
    <2> QED
      BY <2>1, <2>2 DEF GraphInv, ServedIsBuilt
  <1> QED
    BY <1>1, GraphInvariance, RouterFilesFit, PTL

=============================================================================
