-------------------------------- MODULE Api --------------------------------
(***************************************************************************)
(* A request to the API from its arrival to its answer: what the services  *)
(* (services/*Service.js) accept, what they ask of PostGIS or OSRM, and    *)
(* what they make of what comes back, while updates of the roads table go  *)
(* on.  Requests share nothing but the table and the gates of OSRM, so one *)
(* at a time is handled here; how calls share a gate is in UpstreamGate.   *)
(*                                                                         *)
(* PostGIS and OSRM are external.  Geometry is one-dimensional: a road is  *)
(* a meridian, and the distance of a point to it is along its parallel.    *)
(***************************************************************************)
EXTENDS Requests, FiniteSets

CONSTANTS Envs,     \* environments the process may have been started with
          Inputs,   \* requests
          TableAt,  \* the rows of roads at each version, a sequence of sets
          Unplaced  \* OSRM's null for a point

ASSUME EnvsAssumption == \A e \in Envs, n \in Settings : IsValue(e[n])

ASSUME InputsAssumption ==
    \A q \in Inputs :
        /\ q # Absent
        /\ q.endpoint \in {"roads", "snap", "path", "match", "route", "stats"}
        /\ IsValue(q.radius) /\ IsValue(q.limit) /\ IsValue(q.simplify)
        /\ IsList(q.points) /\ IsList(q.radiuses) /\ IsList(q.timestamps)
        /\ IsArray(q.points) => \A i \in DOMAIN q.points :
              IsArray(q.points[i]) => \A k \in 1..2 : IsValue(q.points[i][k])
        /\ IsArray(q.radiuses) => \A i \in DOMAIN q.radiuses : IsValue(q.radiuses[i])
        /\ q.endpoint = "snap" => Len(q.points) = 1 /\ IsArray(q.points) /\ IsArray(q.points[1])
        /\ q.box # Absent => \A f \in {"minLon", "minLat", "maxLon", "maxLat"} : IsValue(q.box[f])

ASSUME TableAssumption ==
    /\ Len(TableAt) \in Nat \ {0}
    /\ \A v \in 1..Len(TableAt) :
          IsFiniteSet(TableAt[v]) /\ \A r \in TableAt[v] : r.lon \in Int /\ r.highway \notin Texts

VARIABLES
    env,       \* process.env
    applied,   \* version the rows are at
    recorded,  \* version osm2pgsql_properties says they are at
    request,   \* the request being handled, Absent before the first
    call,      \* what is asked of PostGIS or OSRM for it, Absent if nothing
    reads,     \* the version at which each query that has run found the rows
    answer     \* Absent until the request is answered

tableVars == <<applied, recorded>>
vars == <<env, tableVars, request, call, reads, answer>>

Services == {"match", "route"}  \* of OSRM

Init ==
    /\ env \in Envs
    /\ applied = 1
    /\ recorded = 1
    /\ request = Absent
    /\ call = Absent
    /\ reads = <<>>
    /\ answer = Absent

-----------------------------------------------------------------------------
(* What is accepted, and what is asked *)

Value(name) == Setting(env, name)

RoadsOK(q) ==
    /\ BboxOK(q.box, Value("ROADS_MAX_BBOX_DEGREES"))
    /\ ClassesOK(q.classes)
    /\ LimitOK(q.limit)
    /\ SimplifyOK(q.simplify)

RoadsCall(q) ==
    [low |-> Number(q.box.minLon), high |-> Number(q.box.maxLon),
     classes |-> ParseClasses(q.classes),
     limit |-> ParseLimit(q.limit, Value("ROADS_DEFAULT_LIMIT"), Value("ROADS_MAX_LIMIT"))]

SnapOK(q) ==
    /\ LatitudeOK(q.points[1][2])
    /\ LongitudeOK(q.points[1][1])
    /\ RadiusOK(q.radius, Value("SNAP_MAX_RADIUS_METERS"))
    /\ ClassesOK(q.classes)

PathOK(q) ==
    /\ PointsOK(q.points, Value("SNAP_MAX_POINTS"))
    /\ RadiusOK(q.radius, Value("SNAP_MAX_RADIUS_METERS"))
    /\ ClassesOK(q.classes)

SnapCall(q) ==
    [points |-> ParsePoints(q.points),
     radius |-> ParseRadius(q.radius, Value("SNAP_DEFAULT_RADIUS_METERS")),
     classes |-> ParseClasses(q.classes)]

MatchOK(q) ==
    /\ PointsOK(q.points, Lesser(Value("OSRM_MAX_MATCHING_SIZE"), Value("OSRM_MATCH_MAX_POINTS")))
    /\ Len(q.points) >= 2
    /\ RadiusOK(q.radius, Value("OSRM_MATCH_MAX_RADIUS_METERS"))
    /\ TimestampsOK(q.timestamps, Len(q.points))

MatchCall(q) ==
    LET max == Value("OSRM_MATCH_MAX_RADIUS_METERS")
        radius == ParseRadius(q.radius, Lesser(Value("OSRM_MATCH_DEFAULT_RADIUS_METERS"), max))
    IN  [points |-> ParsePoints(q.points),
         radius |-> radius,
         radiuses |-> ParseRadiuses(q.radiuses, Len(q.points), radius, max),
         timestamps |-> q.timestamps]

MaxRoutePoints == 25

RouteOK(q) == PointsOK(q.points, MaxRoutePoints) /\ Len(q.points) >= 2

RouteCall(q) == [points |-> ParsePoints(q.points)]

Accepted(q) ==
    CASE q.endpoint = "roads" -> RoadsOK(q)
      [] q.endpoint = "snap" -> SnapOK(q)
      [] q.endpoint = "path" -> PathOK(q)
      [] q.endpoint = "match" -> MatchOK(q)
      [] q.endpoint = "route" -> RouteOK(q)
      [] q.endpoint = "stats" -> TRUE

CallFor(q) ==
    CASE q.endpoint = "roads" -> RoadsCall(q)
      [] q.endpoint \in {"snap", "path"} -> SnapCall(q)
      [] q.endpoint = "match" -> MatchCall(q)
      [] q.endpoint = "route" -> RouteCall(q)
      [] q.endpoint = "stats" -> Null

\* The error handler's answer: its status and whether it carries a Retry-After.
Error(status, retry) == [status |-> status, retry |-> retry]

Receive(q) ==
    /\ request = Absent
    /\ request' = q
    /\ call' = IF Accepted(q) THEN CallFor(q) ELSE Absent
    /\ answer' = IF Accepted(q) THEN Absent ELSE Error(400, FALSE)
    /\ UNCHANGED <<env, tableVars, reads>>

\* The answer is sent and the request forgotten.
Done ==
    /\ answer # Absent
    /\ request' = Absent
    /\ call' = Absent
    /\ reads' = <<>>
    /\ answer' = Absent
    /\ UNCHANGED <<env, tableVars>>

-----------------------------------------------------------------------------
(* PostGIS.  One statement sees one version of the table. *)

\* The service has accepted the request and awaits what it asked for.
Pending(endpoints) ==
    /\ request # Absent
    /\ request.endpoint \in endpoints
    /\ call # Absent
    /\ answer = Absent

Answer(response) ==
    /\ answer' = response
    /\ UNCHANGED <<env, tableVars, request, call>>

OfClasses(classes) == {r \in TableAt[applied] : classes = Null \/ r.highway \in classes}

InBox == {r \in OfClasses(call.classes) : call.low <= r.lon /\ r.lon <= call.high}

\* Variant: the rows are counted against what the caller asked for.
TruncatedAtRequest(rows) == Cardinality(rows) >= ParseLimit(request.limit, call.limit, 180)

Truncated(rows) == Cardinality(rows) >= call.limit

\* LIMIT takes any rows, and no negative number.
AnswerRoads ==
    /\ Pending({"roads"})
    /\ call.limit >= 0
    /\ \E rows \in SUBSET InBox :
          /\ Cardinality(rows) = Lesser(call.limit, Cardinality(InBox))
          /\ reads' = [roads |-> applied]
          /\ Answer([status |-> 200, features |-> rows, truncated |-> Truncated(rows)])

Distance(road, point) ==
    IF road.lon > point[1] THEN road.lon - point[1] ELSE point[1] - road.lon

Near(point) == {r \in OfClasses(call.classes) : Distance(r, point) <= call.radius}

Nearest(point) ==
    IF Near(point) = {} THEN Null
    ELSE CHOOSE r \in Near(point) : \A s \in Near(point) : Distance(r, point) <= Distance(s, point)

\* Variant: an inner join has no row for a point with no road near.
RowsJoined ==
    SelectSeq([i \in DOMAIN call.points |-> Nearest(call.points[i])], LAMBDA r : r # Null)

\* LEFT JOIN LATERAL ... ORDER BY input.idx
Rows == [i \in DOMAIN call.points |-> Nearest(call.points[i])]

AnswerSnap ==
    /\ Pending({"snap", "path"})
    /\ reads' = [roads |-> applied]
    /\ Answer([status |-> 200, snapped |-> Rows, radius |-> call.radius])

\* The three queries of getStats run on connections of their own.
StatsQuery(part) ==
    /\ Pending({"stats"})
    /\ part \notin DOMAIN reads
    /\ reads' = [p \in DOMAIN reads \cup {part} |->
                    IF p # part THEN reads[p] ELSE IF part = "replication" THEN recorded ELSE applied]
    /\ UNCHANGED <<env, tableVars, request, call, answer>>

Classes(version) == {r.highway : r \in TableAt[version]}

CountByClass(version) ==
    [c \in Classes(version) |-> Cardinality({r \in TableAt[version] : r.highway = c})]

AnswerStats ==
    /\ Pending({"stats"})
    /\ DOMAIN reads = {"totals", "classes", "replication"}
    /\ UNCHANGED reads
    /\ Answer([status |-> 200,
               total |-> Cardinality(TableAt[reads.totals]),
               unnamed |-> Cardinality({r \in TableAt[reads.totals] : ~r.named}),
               byClass |-> CountByClass(reads.classes),
               sequence |-> reads.replication])

\* Variant: an error that has no status.
QueryFailsBare ==
    /\ Pending({"roads", "snap", "path", "stats"})
    /\ UNCHANGED reads
    /\ Answer(Error(500, FALSE))

\* A query fails, or its time limit passes; of several, one is enough.
QueryFails ==
    /\ Pending({"roads", "snap", "path", "stats"})
    /\ UNCHANGED reads
    /\ Answer(Error(503, FALSE))

\* osm2pgsql commits a batch, and its version is recorded afterwards.  When a
\* run by hand overlaps with the worker's, either may overtake the other and go
\* back on it (RoadUpdates), so both move to any version.
Apply ==
    /\ applied' \in DOMAIN TableAt \ {applied}
    /\ UNCHANGED <<env, recorded, request, call, reads, answer>>

Record ==
    /\ recorded' \in DOMAIN TableAt \ {recorded}
    /\ UNCHANGED <<env, applied, request, call, reads, answer>>

-----------------------------------------------------------------------------
(* OSRM.  A call ends as in UpstreamGate, whose gate it closes if it ends  *)
(* with a 5xx.                                                             *)

Respond(response) == UNCHANGED reads /\ Answer(response)

\* The gate is closed or full.
TurnedAway ==
    /\ Pending(Services)
    /\ Respond(Error(503, TRUE))

Malformed == {"TooBig", "InvalidOptions", "InvalidQuery", "InvalidValue"}
\* A verdict on the request that CODE_STATUS does not have.
Unlisted == {"InvalidUrl"}
\* No response in time, and one that is no JSON.
Failures == {"Unreachable", "Unreadable"}

\* CODE_STATUS, 503 without a response, and 502 for all else, the verdicts that
\* the table does not have among it.
CodeStatus(service, code) ==
    IF code \in {IF service = "match" THEN "NoMatch" ELSE "NoRoute", "NoSegment"} THEN 422
    ELSE IF code \in Malformed THEN 400
    ELSE IF code = "Unreachable" THEN 503 ELSE 502

\* What OSRM can answer a service with instead of "Ok".
CodesOf(service) ==
    Malformed \cup Unlisted \cup Failures
        \cup {"NoSegment", IF service = "match" THEN "NoMatch" ELSE "NoRoute"}

\* Thrown inside gate.run, whose catch adds a retryAfter to a 5xx.
OsrmFails(service, code) ==
    /\ Pending({service})
    /\ LET status == CodeStatus(service, code)
       IN  Respond(Error(status, status >= 500))

\* Variant: the points that were not placed are left out.
TracepointsPlaced(placed) ==
    SelectSeq([i \in DOMAIN call.points |-> IF i \in placed THEN i ELSE Unplaced],
              LAMBDA t : t # Unplaced)

\* A tracepoint is the index of its point, or null.
Tracepoints(placed) == [i \in DOMAIN call.points |-> IF i \in placed THEN i ELSE Unplaced]

AnswerMatch ==
    /\ Pending({"match"})
    /\ \E placed \in SUBSET DOMAIN call.points :
          Respond([status |-> 200, tracepoints |-> Tracepoints(placed), radius |-> call.radius,
                   perPointRadii |-> PerPoint(request.radiuses, Len(call.points))])

AnswerRoute ==
    /\ Pending({"route"})
    /\ Respond([status |-> 200])

\* "Ok" without a route is an error thrown after gate.run.
RouteMissing ==
    /\ Pending({"route"})
    /\ Respond(Error(502, FALSE))

-----------------------------------------------------------------------------

Next ==
    \/ \E q \in Inputs : Receive(q)
    \/ Done
    \/ AnswerRoads
    \/ AnswerSnap
    \/ \E part \in {"totals", "classes", "replication"} : StatsQuery(part)
    \/ AnswerStats
    \/ QueryFails
    \/ Apply
    \/ Record
    \/ TurnedAway
    \/ \E s \in Services : \E code \in CodesOf(s) : OsrmFails(s, code)
    \/ AnswerMatch
    \/ AnswerRoute
    \/ RouteMissing

Spec == Init /\ [][Next]_vars

-----------------------------------------------------------------------------
(* Properties *)

TypeOK ==
    /\ env \in Envs
    /\ applied \in DOMAIN TableAt
    /\ recorded \in DOMAIN TableAt
    /\ request = Absent => call = Absent /\ answer = Absent
    /\ answer # Absent => answer.status \in {200, 400, 422, 502, 503}
    /\ (answer # Absent /\ answer.status # 200) => (answer.retry => answer.status >= 500)
    /\ DOMAIN reads \subseteq {"roads", "totals", "classes", "replication"}

Succeeded(endpoints) ==
    /\ request # Absent
    /\ request.endpoint \in endpoints
    /\ answer # Absent
    /\ answer.status = 200

\* README, "Invalid or oversized requests return 400; they are never silently
\* truncated": whatever the environment and the request, OSRM is asked about
\* every point of the trace in its order, within both limits on their number,
\* with one radius for each that is positive and within the maximum, and with
\* timestamps, if any, that are one per point and increase.
OsrmGetsTheTrace ==
    (call # Absent /\ request # Absent /\ request.endpoint = "match") =>
        /\ Len(call.points) \in 2..Setting(env, "OSRM_MATCH_MAX_POINTS")
        /\ Len(call.points) <= Setting(env, "OSRM_MAX_MATCHING_SIZE")
        /\ call.points = ParsePoints(request.points)
        /\ Len(call.radiuses) = Len(call.points)
        /\ \A i \in DOMAIN call.radiuses :
              call.radiuses[i] \in 1..Setting(env, "OSRM_MATCH_MAX_RADIUS_METERS")
        /\ call.timestamps # Absent =>
              /\ Len(call.timestamps) = Len(call.points)
              /\ \A i, j \in DOMAIN call.timestamps :
                    i < j => call.timestamps[i] < call.timestamps[j]

\* The answers of /snap/path and /match are aligned with the points of the
\* request, and what is said of each point is about that point: null exactly
\* when there was no road of the classes asked for within the radius the
\* answer reports, a road that is one of those otherwise.
AnswersAreAligned ==
    /\ Succeeded({"match"}) =>
          /\ Len(answer.tracepoints) = Len(request.points)
          /\ \A i \in DOMAIN answer.tracepoints : answer.tracepoints[i] \in {i, Unplaced}
    /\ Succeeded({"snap", "path"}) =>
          LET Suitable(i) ==
                  {r \in TableAt[reads.roads] :
                      /\ ParseClasses(request.classes) = Null \/ r.highway \in request.classes
                      /\ Distance(r, ParsePoints(request.points)[i]) <= answer.radius}
          IN  /\ Len(answer.snapped) = Len(request.points)
              /\ \A i \in DOMAIN answer.snapped :
                    IF Suitable(i) = {} THEN answer.snapped[i] = Null
                    ELSE answer.snapped[i] \in Suitable(i)

\* "otherwise it silently snaps against a partial network": a viewport that
\* leaves out a road of the box and the classes says so, whatever the caller's
\* limit, the limit on it and the settings.
TruncationIsReported ==
    Succeeded({"roads"}) =>
        \A r \in TableAt[reads.roads] :
            (/\ Number(request.box.minLon) <= r.lon /\ r.lon <= Number(request.box.maxLon)
             /\ ParseClasses(request.classes) = Null \/ r.highway \in request.classes)
            => r \in answer.features \/ answer.truncated

OnTheGlobe(points) ==
    \A i \in DOMAIN points : points[i][1] \in -180..180 /\ points[i][2] \in -90..90

\* The limits of README.md on what one request may ask of PostGIS and OSRM hold
\* whatever the environment: for the box and for how many points, always; for
\* the rows and for the radius, where the default is not set above its limit,
\* which nothing checks.  No coordinate asked about is out of range or no number.
CallsKeepLimits ==
    (call # Absent /\ request # Absent) =>
        /\ request.endpoint = "roads" =>
              /\ -180 <= call.low /\ call.low < call.high /\ call.high <= 180
              /\ call.high - call.low <= Value("ROADS_MAX_BBOX_DEGREES")
              /\ (Value("ROADS_DEFAULT_LIMIT") <= Value("ROADS_MAX_LIMIT"))
                    => call.limit <= Value("ROADS_MAX_LIMIT")
        /\ (/\ request.endpoint \in {"snap", "path"}
            /\ Value("SNAP_DEFAULT_RADIUS_METERS") <= Value("SNAP_MAX_RADIUS_METERS"))
                    => call.radius <= Value("SNAP_MAX_RADIUS_METERS")
        /\ request.endpoint = "path" => Len(call.points) \in 1..Value("SNAP_MAX_POINTS")
        /\ request.endpoint = "route" => Len(call.points) \in 2..MaxRoutePoints
        /\ request.endpoint \in {"snap", "path", "match", "route"} => OnTheGlobe(call.points)

=============================================================================
