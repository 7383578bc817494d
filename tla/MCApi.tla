------------------------------- MODULE MCApi -------------------------------
(***************************************************************************)
(* Api for TLC: two versions of a small table, requests that are right   *)
(* or wrong in one respect each, and environments with one setting that is *)
(* not the default.                                                        *)
(***************************************************************************)
EXTENDS Api

MCDefaults == [n \in Settings |->
    CASE n \in {"ROADS_DEFAULT_LIMIT", "SNAP_DEFAULT_RADIUS_METERS", "OSRM_MATCH_DEFAULT_RADIUS_METERS"} -> 1
      [] n = "OSRM_MAX_MATCHING_SIZE" -> 4
      [] n = "OSRM_MATCH_MAX_POINTS" -> 3
      [] OTHER -> 2]

NoEnv == [n \in Settings |-> Absent]

With(name, value) == [NoEnv EXCEPT ![name] = value]

MCEnvs ==
    {With(n, Empty) : n \in Settings}
    \cup {With(n, v) : n \in {"ROADS_MAX_LIMIT", "OSRM_MATCH_MAX_POINTS"}, v \in {-1, Word, 1}}
    \cup {With("OSRM_MAX_MATCHING_SIZE", 2), With("SNAP_MAX_POINTS", 1)}
    \cup {With("SNAP_DEFAULT_RADIUS_METERS", 3), With("ROADS_DEFAULT_LIMIT", 3),
          With("OSRM_MATCH_DEFAULT_RADIUS_METERS", 3)}

Road(lon, highway, named) == [lon |-> lon, highway |-> highway, named |-> named]

MCTableAt ==
    << {Road(0, "path", FALSE), Road(3, "primary", TRUE)},
       {Road(0, "path", FALSE), Road(1, "primary", TRUE), Road(2, "primary", FALSE)} >>

Box(minLon, minLat, maxLon, maxLat) ==
    [minLon |-> minLon, minLat |-> minLat, maxLon |-> maxLon, maxLat |-> maxLat]

ClassLists == {Absent, {Empty}, {"path"}, {"path", Word}}

Blank == [endpoint |-> "stats", box |-> Absent, limit |-> Absent, simplify |-> Absent,
          points |-> Absent, radius |-> Absent, radiuses |-> Absent, timestamps |-> Absent,
          classes |-> Absent]

RoadsInputs ==
    {[Blank EXCEPT !.endpoint = "roads", !.box = b, !.limit = n, !.classes = c] :
        b \in {Absent, Box(0, 0, 2, 1), Box(Empty, 0, 1, 1), Box(0, 0, 3, 1), Box(2, 0, 1, 1), Box(0, Word, 1, 1)},
        n \in {Absent, Empty, 0, 1, 2, 3, Word}, c \in ClassLists}
    \cup {[Blank EXCEPT !.endpoint = "roads", !.box = Box(0, 0, 1, 1), !.simplify = v] : v \in {Empty, -1, 0, 1}}

A == <<0, 0>>
B == <<3, 0>>
Nought == <<Null, Empty>>

PointLists == {Absent, <<>>, <<A>>, <<A, B>>, <<B, Nought>>, <<A, <<181, 0>>>>, <<A, <<0, -91>>>>, <<A, Word>>,
               <<A, B, A>>, <<A, A, B, B>>}

Radii == {Absent, Empty, Null, 1, 2, 3, -1}

PathInputs ==
    {[Blank EXCEPT !.endpoint = "path", !.points = p, !.radius = r, !.classes = c] :
        p \in PointLists, r \in Radii, c \in ClassLists}

SnapInputs ==
    {[Blank EXCEPT !.endpoint = "snap", !.points = <<p>>, !.radius = r] :
        p \in {A, B, Nought, <<0, Absent>>}, r \in Radii}

MatchInput(p, r, rs, ts) ==
    [Blank EXCEPT !.endpoint = "match", !.points = p, !.radius = r, !.radiuses = rs, !.timestamps = ts]

MatchInputs ==
    {MatchInput(p, r, rs, Absent) :
        p \in PointLists, r \in Radii, rs \in {Absent, <<1>>, <<3, Empty>>, <<-1, Word, 1>>}}
    \cup {MatchInput(p, 1, Absent, ts) :
        p \in {<<A, B>>, <<A, B, A>>},
        ts \in {Null, <<1>>, <<1, 2>>, <<2, 2>>, <<-1, 0>>, <<0, Word>>, <<1, 2, 3>>, <<1, 3, 2>>}}

RouteInputs == {[Blank EXCEPT !.endpoint = "route", !.points = p] : p \in PointLists}

MCInputs == RoadsInputs \cup PathInputs \cup SnapInputs \cup MatchInputs \cup RouteInputs \cup {Blank}

=============================================================================
