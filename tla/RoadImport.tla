----------------------------- MODULE RoadImport -----------------------------
(***************************************************************************)
(* Importing the road network (scripts/setup-road-network.sh, with         *)
(* scripts/grant-roads-access.sh), run by hand or by docker/entrypoint.sh  *)
(* at every start of the container that finds no marker.  Any step may     *)
(* fail and the host may stop at any moment; what a step has left behind   *)
(* is what the next run finds.                                             *)
(*                                                                         *)
(* wget, osm2pgsql and PostgreSQL are external.  A release of the PBF is   *)
(* a number; a file is the set of releases its bytes come from.            *)
(***************************************************************************)
EXTENDS Naturals

CONSTANTS MaxRelease,  \* bound on the PBFs Geofabrik publishes
          MaxStops,    \* bound on failed and interrupted runs
          MaxUnsummed, \* bound on checksums that cannot be fetched
          MayForce,    \* whether someone passes --force
          Legacy       \* osm2pgsql before 1.9, without osm2pgsql_properties

ASSUME SettingsAssumption ==
    /\ MaxRelease \in Nat \ {0}
    /\ MaxStops \in Nat
    /\ MaxUnsummed \in Nat
    /\ MayForce \in BOOLEAN
    /\ Legacy \in BOOLEAN

VARIABLES
    release,    \* the release Geofabrik serves
    step,       \* where the script is, "idle" when it does not run
    force,      \* $FORCE of the run
    pbf,        \* $PBF_FILE
    mismatch,   \* history: the operator has been told to delete the file
    roads,      \* the roads table
    loaded,     \* releases the rows of the roads table come from
    indexed,    \* sql/indexes.sql has been applied to it
    tables,     \* which of roads and the replication state exist
    readable,   \* which of them the API role may read
    replicating,\* osm2pgsql-replication init has recorded a state
    marker,     \* .import-complete exists
    unverified, \* history: some import went without a checksum
    redoing,    \* history: an import over a complete one has begun and not ended
    stops, unsummed \* what has happened of the bounded faults

fileVars == <<pbf, mismatch>>
dbVars == <<roads, loaded, indexed, tables, readable, replicating>>
markVars == <<marker, redoing>>
boundVars == <<stops, unsummed>>
vars == <<release, step, force, fileVars, dbVars, markVars, unverified, boundVars>>

Releases == 1..MaxRelease
NoFile == [from |-> {}, complete |-> FALSE]
Steps == {"preparing", "downloading", "checking", "creating", "loading",
          "indexing", "granting", "initializing", "marking"}

TypeOK ==
    /\ release \in Releases
    /\ step \in Steps \cup {"idle"}
    /\ force \in BOOLEAN
    /\ pbf \in {NoFile} \cup [from : (SUBSET Releases) \ {{}}, complete : BOOLEAN]
    /\ mismatch \in BOOLEAN
    /\ roads \in {"none", "partial", "full"}
    /\ loaded \in SUBSET Releases
    /\ indexed \in BOOLEAN
    /\ tables \in SUBSET {"roads", "state"}
    /\ readable \in SUBSET tables
    /\ replicating \in BOOLEAN
    /\ marker \in BOOLEAN
    /\ unverified \in BOOLEAN
    /\ redoing \in BOOLEAN
    /\ stops \in 0..MaxStops
    /\ unsummed \in 0..MaxUnsummed

Init ==
    /\ release = 1
    /\ step = "idle"
    /\ force = FALSE
    /\ pbf = NoFile
    /\ mismatch = FALSE
    /\ roads = "none"
    /\ loaded = {}
    /\ indexed = FALSE
    /\ tables = {}
    /\ readable = {}
    /\ replicating = FALSE
    /\ marker = FALSE
    /\ unverified = FALSE
    /\ redoing = FALSE
    /\ stops = 0
    /\ unsummed = 0

Go(from, to) == step = from /\ step' = to

\* Geofabrik replaces bangladesh-latest.osm.pbf.
Publish ==
    /\ release < MaxRelease
    /\ release' = release + 1
    /\ UNCHANGED <<step, force, fileVars, dbVars, markVars, unverified, boundVars>>

\* By the entrypoint or by hand.
Run ==
    /\ Go("idle", "preparing")
    /\ force' = FALSE
    /\ UNCHANGED <<release, fileVars, dbVars, markVars, unverified, boundVars>>

RunForced ==
    /\ MayForce
    /\ Go("idle", "preparing")
    /\ force' = TRUE
    /\ UNCHANGED <<release, fileVars, dbVars, markVars, unverified, boundVars>>

\* Packages, roles, database and .pgpass files, all of which a second run
\* leaves as they are; then the marker decides.
Prepare ==
    /\ Go("preparing", IF marker /\ ~force THEN "idle" ELSE "downloading")
    /\ UNCHANGED <<release, force, fileVars, dbVars, markVars, unverified, boundVars>>

\* Variant: the file there is is taken for the file to fetch.
ContinuedAsIs(f, complete) == {[f EXCEPT !.complete = complete]}

\* What wget --continue can make of the file there is: it goes on from the
\* end of it, whichever release that was, and leaves a file alone that is
\* already as long as the one it would fetch.
Continued(f, complete) ==
    {[from |-> f.from \cup {release}, complete |-> complete]}
        \cup (IF f.complete THEN {f} ELSE {})

Download ==
    /\ Go("downloading", "checking")
    /\ pbf' \in Continued(pbf, TRUE)
    /\ mismatch' = FALSE
    /\ UNCHANGED <<release, force, dbVars, markVars, unverified, boundVars>>

Stop ==
    /\ stops < MaxStops
    /\ stops' = stops + 1
    /\ step' = "idle"

\* The download breaks off, and the script ends with it.
DownloadBreaks ==
    /\ step = "downloading"
    /\ Stop
    /\ pbf' \in Continued(pbf, FALSE)
    /\ UNCHANGED <<release, force, mismatch, dbVars, markVars, unverified, unsummed>>

\* Variant: a mismatch is not looked at.
SumIgnored == TRUE

\* The checksum is that of the release served now.
SumMatches == pbf.from = {release}

Check ==
    /\ Go("checking", IF SumMatches THEN "creating" ELSE "idle")
    /\ mismatch' = ~SumMatches
    /\ UNCHANGED <<release, force, pbf, dbVars, markVars, unverified, boundVars>>

\* No checksum to be had: a warning.
SkipCheck ==
    /\ Go("checking", "creating")
    /\ unsummed < MaxUnsummed
    /\ unsummed' = unsummed + 1
    /\ unverified' = TRUE
    /\ UNCHANGED <<release, force, fileVars, dbVars, markVars, stops>>

\* Variant: the marker is made before the import.
CreateMarked ==
    /\ Go("creating", "loading")
    /\ roads' = "partial"
    /\ loaded' = {}
    /\ indexed' = FALSE
    /\ tables' = tables \cup {"roads"} \cup (IF Legacy THEN {} ELSE {"state"})
    /\ readable' = readable \ {"roads"}
    /\ replicating' = (Legacy /\ replicating)
    /\ marker' = TRUE
    /\ UNCHANGED <<release, force, fileVars, redoing, unverified, boundVars>>

\* Variant: tables are created without dropping those of an earlier attempt,
\* and the script ends at the error.
CreateOnce ==
    /\ Go("creating", IF roads = "none" THEN "loading" ELSE "idle")
    /\ roads' = "partial"
    /\ tables' = {"roads", "state"}
    /\ UNCHANGED <<release, force, fileVars, loaded, indexed, readable, replicating, markVars,
                   unverified, boundVars>>

\* osm2pgsql --create drops the roads table, its indexes and grants with it,
\* and creates it anew; its own properties start empty, under their old grants.
Create ==
    /\ Go("creating", "loading")
    /\ roads' = "partial"
    /\ loaded' = {}
    /\ indexed' = FALSE
    /\ tables' = tables \cup {"roads"} \cup (IF Legacy THEN {} ELSE {"state"})
    /\ readable' = readable \ {"roads"}
    /\ replicating' = (Legacy /\ replicating)
    /\ redoing' = marker
    /\ UNCHANGED <<release, force, fileVars, marker, unverified, boundVars>>

\* osm2pgsql has read the whole file, if nothing in it made it stop.
Load ==
    /\ Go("loading", "indexing")
    /\ roads' = "full"
    /\ loaded' = pbf.from
    /\ UNCHANGED <<release, force, fileVars, indexed, tables, readable, replicating, markVars,
                   unverified, boundVars>>

Index ==
    /\ Go("indexing", "granting")
    /\ indexed' = TRUE
    /\ UNCHANGED <<release, force, fileVars, roads, loaded, tables, readable, replicating,
                   markVars, unverified, boundVars>>

\* Variant: grants on the roads only.
GrantRoads ==
    /\ Go("granting", "initializing")
    /\ readable' = readable \cup {"roads"}
    /\ UNCHANGED <<release, force, fileVars, roads, loaded, indexed, tables, replicating,
                   markVars, unverified, boundVars>>

\* grant-roads-access.sh: on roads, and on the replication state if it exists.
Grant ==
    /\ Go("granting", "initializing")
    /\ readable' = tables
    /\ UNCHANGED <<release, force, fileVars, roads, loaded, indexed, tables, replicating,
                   markVars, unverified, boundVars>>

\* osm2pgsql-replication init; a legacy one creates its table here.
Initialize ==
    /\ Go("initializing", "marking")
    /\ tables' = tables \cup {"state"}
    /\ replicating' = TRUE
    /\ UNCHANGED <<release, force, fileVars, roads, loaded, indexed, readable, markVars,
                   unverified, boundVars>>

Mark ==
    /\ Go("marking", "idle")
    /\ marker' = TRUE
    /\ redoing' = FALSE
    /\ UNCHANGED <<release, force, fileVars, dbVars, unverified, boundVars>>

\* A command fails (set -e) or the host goes down.
Interrupt ==
    /\ step # "idle"
    /\ Stop
    /\ UNCHANGED <<release, force, fileVars, dbVars, markVars, unverified, unsummed>>

\* "PBF checksum mismatch; delete $PBF_FILE and re-run."
DeletePbf ==
    /\ step = "idle"
    /\ mismatch
    /\ pbf' = NoFile
    /\ mismatch' = FALSE
    /\ UNCHANGED <<release, step, force, dbVars, markVars, unverified, boundVars>>

ScriptStep ==
    \/ Prepare
    \/ Download
    \/ Check
    \/ SkipCheck
    \/ Create
    \/ Load
    \/ Index
    \/ Grant
    \/ Initialize
    \/ Mark

Next ==
    \/ Publish
    \/ Run
    \/ RunForced
    \/ ScriptStep
    \/ DownloadBreaks
    \/ Interrupt
    \/ DeletePbf

\* The script runs on; a container without a marker starts it again
\* (restart: unless-stopped); the operator does as told.
Fairness ==
    /\ WF_vars(ScriptStep)
    /\ WF_vars(~marker /\ Run)
    /\ SF_vars(DeletePbf)

Spec == Init /\ [][Next]_vars

FairSpec == Spec /\ Fairness

-----------------------------------------------------------------------------
(* Properties *)

\* What the API and the updates need of an import.
Complete ==
    /\ roads = "full"
    /\ indexed
    /\ "roads" \in readable
    /\ replicating

\* The marker that makes every later start skip the import means there is a
\* complete one, at every moment, but for an import that is being done over.
MarkerMeansImported == marker => Complete \/ redoing

\* "A completed import is detected and skipped unless --force is passed": what
\* a run without --force would skip is a completed import.
SkippedIsImported == marker /\ step = "idle" => Complete

\* The same sentence of the steps of a run: one without --force that finds the
\* marker leaves the database and the marker as they are, and so does whoever
\* else is at work meanwhile.
CompletedIsSkipped == [][marker /\ ~force => UNCHANGED <<dbVars, marker>>]_vars

\* No import is interrupted between dropping a complete one and ending itself.
RedoesEnd == [][redoing => ~Interrupt]_vars

\* With the marker the API role can read the replication state, which
\* /api/admin/update and the worker need.
StateIsReadable == marker => "state" \in readable

\* The checksum keeps a file glued together from two releases out of the
\* database, also when a release appears between the two downloads.
LoadedIsOneRelease == ~unverified => \A v, w \in loaded : v = w

\* However often the import is interrupted, it completes in the end.
ImportCompletes == <>marker

=============================================================================
