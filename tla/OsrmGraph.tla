------------------------------ MODULE OsrmGraph ------------------------------
(***************************************************************************)
(* Building the OSRM graph beside the import: the osrm-build service of    *)
(* compose.yaml, or scripts/build-osrm.sh on bare metal, which takes the   *)
(* PBF the import downloaded.  On bare metal it may take it as a hard      *)
(* link, and then what wget later writes to the one it writes to both.     *)
(* The router (the osrm service, or scripts/run-osrm.sh) loads whatever    *)
(* the data directory holds once .osrm.mldgr is there.                     *)
(*                                                                         *)
(* The OSRM tools, wget and Docker are external.  osrm-extract refuses a   *)
(* PBF that is cut off; a tool that is stopped leaves its files unusable,  *)
(* except that .osrm.mldgr appears when osrm-customize is done.            *)
(***************************************************************************)
EXTENDS RoadImport

CONSTANTS Setups,        \* which of "compose" and "metal" are considered
          MaxBuildStops  \* bound on builds that are stopped

ASSUME BuildsAssumption ==
    /\ Setups \subseteq {"compose", "metal"}
    /\ MaxBuildStops \in Nat

VARIABLES
    setup,   \* how this host is set up
    build,   \* where the build is, "idle" when none runs
    own,     \* the PBF in the OSRM data directory
    linked,  \* it is the file of the import
    graph,   \* the files each tool leaves: the releases they are made from
    served,  \* the files the router has loaded
    buildStops

buildVars == <<build, buildStops>>
fileOfBuild == <<own, linked>>
graphVars == <<setup, buildVars, fileOfBuild, graph, served>>
allVars == <<vars, graphVars>>

Tools == {"extract", "partition", "customize"}
NoGraph == [t \in Tools |-> {}]
Unusable == {0}

GraphTypeOK ==
    /\ TypeOK
    /\ setup \in Setups
    /\ build \in {"idle", "fetching", "ended"} \cup Tools
    /\ own \in {NoFile} \cup [from : (SUBSET Releases) \ {{}}, complete : BOOLEAN]
    /\ linked \in BOOLEAN
    /\ linked => own = pbf
    /\ graph \in [Tools -> SUBSET (Releases \cup Unusable)]
    /\ served \in [Tools -> SUBSET (Releases \cup Unusable)]
    /\ buildStops \in 0..MaxBuildStops

GraphInit ==
    /\ Init
    /\ setup \in Setups
    /\ build = "idle"
    /\ own = NoFile
    /\ linked = FALSE
    /\ graph = NoGraph
    /\ served = NoGraph
    /\ buildStops = 0

-----------------------------------------------------------------------------
(* The import, seen from here *)

\* Variant: what the import writes leaves a link of its file alone.
FollowNothing == UNCHANGED graphVars

\* A write to the PBF is one to its hard link; a deletion is not.
Follow ==
    /\ own' = IF linked /\ pbf' # NoFile THEN pbf' ELSE own
    /\ linked' = (linked /\ pbf' # NoFile)
    /\ UNCHANGED <<setup, buildVars, graph, served>>

ImportStep == Next /\ Follow

-----------------------------------------------------------------------------
(* The build *)

\* [ -f /data/$BASE.osrm.mldgr ]
Built == graph["customize"] # {}

\* Variant: every run of osrm-build builds.
NeverSkips == FALSE

\* osrm-build has nothing to do for a graph that is there; build-osrm.sh does
\* not look.
Skips == setup = "compose" /\ Built

\* Variant: osrm-build does not depend on road-network.
BuildUnasked ==
    /\ build = "idle"
    /\ build' = IF Skips THEN "ended" ELSE "fetching"
    /\ UNCHANGED <<vars, setup, buildStops, fileOfBuild, graph, served>>

\* osrm-build waits for the API to be healthy, which an import precedes.
Build ==
    /\ build = "idle"
    /\ setup = "compose" => marker
    /\ build' = IF Skips THEN "ended" ELSE "fetching"
    /\ UNCHANGED <<vars, setup, buildStops, fileOfBuild, graph, served>>

Advance(to) ==
    /\ build' = to
    /\ UNCHANGED <<vars, setup, buildStops, served>>

\* Variant: osrm-build keeps the copy it finds.
CopyOnce ==
    /\ build = "fetching"
    /\ setup = "compose"
    /\ Advance("extract")
    /\ own' = IF own = NoFile THEN pbf ELSE own
    /\ UNCHANGED <<linked, graph>>

\* cp /pbf/$OSM_PBF_NAME /data/
Copy ==
    /\ build = "fetching"
    /\ setup = "compose"
    /\ Advance("extract")
    /\ own' = pbf
    /\ UNCHANGED <<linked, graph>>

\* build-osrm.sh takes the file it has; else a link to or a copy of the
\* import's; else what Geofabrik serves.
Obtain ==
    /\ build = "fetching"
    /\ setup = "metal"
    /\ Advance("extract")
    /\ \/ own # NoFile /\ UNCHANGED fileOfBuild
       \/ own = NoFile /\ pbf # NoFile /\ own' = pbf /\ linked' \in BOOLEAN
       \/ own = NoFile /\ pbf = NoFile
            /\ own' = [from |-> {release}, complete |-> TRUE]
            /\ UNCHANGED linked
    /\ UNCHANGED graph

\* A tool that is done hands over to the next.
Extract ==
    /\ build = "extract"
    /\ own.complete
    /\ Advance("partition")
    /\ graph' = [graph EXCEPT !["extract"] = own.from]
    /\ UNCHANGED fileOfBuild

Partition ==
    /\ build = "partition"
    /\ Advance("customize")
    /\ graph' = [graph EXCEPT !["partition"] = graph["extract"]]
    /\ UNCHANGED fileOfBuild

\* In Compose the copy of the PBF goes with it.
Customize ==
    /\ build = "customize"
    /\ Advance("ended")
    /\ graph' = [graph EXCEPT !["customize"] = graph["partition"]]
    /\ own' = IF setup = "compose" THEN NoFile ELSE own
    /\ UNCHANGED linked

\* osrm-extract finds the PBF cut off, or no PBF at all, and set -e ends the build.
Refuse ==
    /\ build = "extract"
    /\ ~own.complete
    /\ build' = "idle"
    /\ UNCHANGED <<vars, setup, buildStops, fileOfBuild, graph, served>>

\* A build that succeeded leaves.
Leave ==
    /\ build = "ended"
    /\ build' = "idle"
    /\ UNCHANGED <<vars, setup, buildStops, fileOfBuild, graph, served>>

StopBuild ==
    /\ buildStops < MaxBuildStops
    /\ buildStops' = buildStops + 1
    /\ build' = "idle"
    /\ UNCHANGED <<vars, setup, served>>

\* The build is stopped in cp or wget, which leave what they have written.
FetchBreaks ==
    /\ build = "fetching"
    /\ IF setup = "metal" THEN own = NoFile ELSE pbf # NoFile
    /\ own' = [from |-> IF pbf = NoFile THEN {release} ELSE pbf.from, complete |-> FALSE]
    /\ StopBuild
    /\ UNCHANGED <<linked, graph>>

\* It is stopped in a tool.
ToolBreaks ==
    /\ build \in Tools
    /\ graph' = IF build = "customize" THEN graph ELSE [graph EXCEPT ![build] = Unusable]
    /\ StopBuild
    /\ UNCHANGED fileOfBuild

BuildStep == Copy \/ Obtain \/ Extract \/ Partition \/ Customize \/ Refuse \/ Leave

-----------------------------------------------------------------------------
(* The router *)

\* The osrm service starts when osrm-build has succeeded, and again at any time
\* from then on; run-osrm.sh looks for .osrm.mldgr.
StartRouter ==
    /\ Built
    /\ served' = graph
    /\ UNCHANGED <<vars, setup, buildVars, fileOfBuild, graph>>

GraphNext ==
    \/ ImportStep
    \/ Build
    \/ BuildStep
    \/ FetchBreaks
    \/ ToolBreaks
    \/ StartRouter

\* The import as in RoadImport; a build runs on, and somebody runs it again for
\* as long as there is no graph.
GraphFairness ==
    /\ WF_allVars(ScriptStep /\ Follow)
    /\ WF_allVars(~marker /\ Run /\ Follow)
    /\ SF_allVars(DeletePbf /\ Follow)
    /\ WF_allVars(BuildStep)
    /\ WF_allVars(~Built /\ Build)

GraphSpec == GraphInit /\ [][GraphNext]_allVars /\ GraphFairness

-----------------------------------------------------------------------------
(* Properties *)

OneRelease(releases) == \A v, w \in releases : v = w

\* "osrm-build waits for road-network to become healthy, so the PBF it needs has
\* already been downloaded": all of it, and, where a checksum was to be had,
\* from one release.  Holds while nobody forces a second import.
BuildFindsPbf ==
    setup = "compose" /\ build = "fetching"
        => pbf.complete /\ (~unverified => OneRelease(pbf.from))

\* In Compose the router never loads the files of two builds or of a build that
\* was stopped, however often builds are stopped and run again, ...
ServedFitsTogether ==
    setup = "compose" =>
        /\ \A t, u \in Tools : served[t] = served[u]
        /\ served["extract"] # Unusable

\* ... and never a graph of a PBF that a checksum would have refused.
ServedIsOneBuild ==
    /\ ServedFitsTogether
    /\ setup = "compose" /\ ~unverified => OneRelease(served["extract"])

\* In Compose the first graph is the last: no later import and no later run of
\* osrm-build changes a file of it, though README.md:214-217 has one rebuild it.
FirstGraphStays == [][setup = "compose" /\ Built => UNCHANGED graph]_allVars

\* The build and the router beside it take nothing from the import: each of
\* their steps leaves it alone, though on bare metal a build may hold its file.
ImportSpec == Spec

\* In Compose there is a graph in the end, however the import and the builds
\* are interrupted.
ComposeBuilds == (setup = "compose") ~> Built

=============================================================================
