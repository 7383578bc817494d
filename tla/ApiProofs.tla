------------------------------ MODULE ApiProofs ------------------------------
(***************************************************************************)
(* Proofs about Api, for every environment, every request and every table: *)
(* what is asked and within which limits, and what comes of the answer.    *)
(***************************************************************************)
EXTENDS Api, FiniteSetTheorems, WellFoundedInduction, TLAPS

\* What is asked is what the request asks for, if it is accepted.
CallIsForRequest ==
    /\ env \in Envs
    /\ request # Absent => request \in Inputs
    /\ (request # Absent /\ call # Absent) => Accepted(request) /\ call = CallFor(request)

-----------------------------------------------------------------------------
(* Numbers and settings *)

\* Number makes an integer or NaN of any value.
LEMMA NumberTypes ==
    ASSUME NEW v, IsValue(v)
    PROVE  Finite(v) => Number(v) \in Int
  BY TextsAssumption DEF IsValue, Finite, Number, Texts

\* A setting is an integer whatever the environment, and a strict one positive.
LEMMA SettingTypes ==
    ASSUME NEW e \in Envs, NEW n \in Settings
    PROVE  /\ Setting(e, n) \in Int
           /\ n \in StrictSettings => Setting(e, n) \in Nat \ {0}
  <1>1. Finite(e[n]) => Number(e[n]) \in Int
    BY EnvsAssumption, NumberTypes
  <1>2. Defaults[n] \in Nat \ {0}
    BY DefaultsAssumption
  <1> QED
    BY <1>1, <1>2 DEF Setting, NumberFromEnv, PositiveInteger

\* The naturals are well ordered.
LEMMA LeastNatural ==
    ASSUME NEW T \in SUBSET Nat, T # {}
    PROVE  \E x \in T : \A y \in T : x <= y
  <1>1. PICK R : IsWellFoundedOn(R, Nat) /\ \A x, y \in Nat : x < y => <<x, y>> \in R
    <2> DEFINE R == OpToRel(<, Nat)
    <2>1. IsWellFoundedOn(R, Nat)
      BY NatLessThanWellFounded
    <2>2. \A x, y \in Nat : x < y => <<x, y>> \in R
      BY DEF OpToRel
    <2> HIDE DEF R
    <2> QED
      BY <2>1, <2>2
  <1>2. IsWellFoundedOn(R, Nat) /\ T \subseteq Nat
    BY <1>1
  <1>3. \E x \in T : \A y \in T : ~(<<y, x>> \in R)
    BY <1>2, WFMin, Zenon
  <1>4. PICK x \in T : \A y \in T : ~(<<y, x>> \in R)
    BY <1>3
  <1>5. \A y \in T : ~(y < x)
    BY <1>1, <1>4, <1>2, Zenon
  <1> QED
    BY <1>2, <1>5

-----------------------------------------------------------------------------
(* The call is for the request *)

LEMMA CallInvariant == Spec => []CallIsForRequest
  <1>1. Init => CallIsForRequest
    BY DEF Init, CallIsForRequest
  <1>2. CallIsForRequest /\ [Next]_vars => CallIsForRequest'
    <2> SUFFICES ASSUME CallIsForRequest, [Next]_vars PROVE CallIsForRequest'
      OBVIOUS
    <2>0. env' = env
      BY DEF Next, Receive, Done, AnswerRoads, AnswerSnap, StatsQuery, AnswerStats, QueryFails, Apply,
             Record, TurnedAway, OsrmFails, AnswerMatch, AnswerRoute, RouteMissing, Respond, Answer, vars
    <2>1. CASE UNCHANGED <<request, call>>
      BY <2>0, <2>1 DEF CallIsForRequest, Accepted, CallFor, RoadsOK, RoadsCall, SnapOK, PathOK, SnapCall,
                        MatchOK, MatchCall, RouteOK, RouteCall, Value
    <2>2. ASSUME NEW q \in Inputs, Receive(q) PROVE CallIsForRequest'
      <3>1. Accepted(q)' = Accepted(q) /\ CallFor(q)' = CallFor(q)
        BY <2>0 DEF Accepted, CallFor, RoadsOK, RoadsCall, SnapOK, PathOK, SnapCall,
                    MatchOK, MatchCall, RouteOK, RouteCall, Value
      <3> QED
        BY <2>0, <2>2, <3>1 DEF Receive, CallIsForRequest
    <2>3. CASE Done
      BY <2>0, <2>3 DEF Done, CallIsForRequest
    <2> QED
      BY <2>1, <2>2, <2>3 DEF Next, AnswerRoads, AnswerSnap, StatsQuery, AnswerStats, QueryFails, Apply,
             Record, TurnedAway, OsrmFails, AnswerMatch, AnswerRoute, RouteMissing, Respond, Answer, vars
  <1> QED
    BY <1>1, <1>2, PTL DEF Spec

-----------------------------------------------------------------------------
(* What OSRM is asked *)

\* A list whose neighbours increase increases.
LEMMA Increasing ==
    ASSUME NEW n \in Nat, NEW t, \A k \in 1..n : t[k] \in Nat, \A k \in 2..n : t[k] > t[k - 1],
           NEW i \in 1..n, NEW j \in 1..n, i < j
    PROVE  t[i] < t[j]
  <1> DEFINE T == {k \in (i + 1)..n : ~(t[i] < t[k])}
  <1>1. ASSUME T # {} PROVE FALSE
    <2>1. T \in SUBSET Nat
      OBVIOUS
    <2>2. PICK k \in T : \A l \in T : k <= l
      BY <1>1, <2>1, LeastNatural
    <2>3. k \in (i + 1)..n /\ t[k] \in Nat /\ t[k - 1] \in Nat /\ t[i] \in Nat /\ t[k] > t[k - 1]
      OBVIOUS
    <2>4. ~(t[i] < t[k])
      OBVIOUS
    <2>5. k - 1 # i /\ k - 1 \in (i + 1)..n
      BY <2>3, <2>4
    <2>6. t[i] < t[k - 1]
      BY <2>2, <2>5
    <2> QED
      BY <2>3, <2>4, <2>6
  <1> QED
    BY <1>1

\* A request that match accepts is asked of OSRM as a whole and within bounds.
LEMMA MatchCallIsWhole ==
    ASSUME NEW q \in Inputs, env \in Envs, q.endpoint = "match", MatchOK(q)
    PROVE  LET c == MatchCall(q) IN
           /\ Len(c.points) \in 2..Setting(env, "OSRM_MATCH_MAX_POINTS")
           /\ Len(c.points) <= Setting(env, "OSRM_MAX_MATCHING_SIZE")
           /\ c.points = ParsePoints(q.points)
           /\ Len(c.radiuses) = Len(c.points)
           /\ \A i \in DOMAIN c.radiuses :
                 c.radiuses[i] \in 1..Setting(env, "OSRM_MATCH_MAX_RADIUS_METERS")
           /\ c.timestamps # Absent =>
                 /\ Len(c.timestamps) = Len(c.points)
                 /\ \A i, j \in DOMAIN c.timestamps : i < j => c.timestamps[i] < c.timestamps[j]
  <1> DEFINE c == MatchCall(q)
             n == Len(q.points)
             max == Setting(env, "OSRM_MATCH_MAX_RADIUS_METERS")
             radius == ParseRadius(q.radius, Lesser(Setting(env, "OSRM_MATCH_DEFAULT_RADIUS_METERS"), max))
  <1>1. /\ Setting(env, "OSRM_MATCH_MAX_POINTS") \in Int
        /\ Setting(env, "OSRM_MAX_MATCHING_SIZE") \in Int
        /\ max \in Nat \ {0}
        /\ Setting(env, "OSRM_MATCH_DEFAULT_RADIUS_METERS") \in Nat \ {0}
    BY SettingTypes DEF Settings, StrictSettings, LooseSettings
  <1>2. /\ IsArray(q.points) /\ IsList(q.points)
        /\ n <= Lesser(Setting(env, "OSRM_MAX_MATCHING_SIZE"), Setting(env, "OSRM_MATCH_MAX_POINTS"))
        /\ n >= 2
    BY InputsAssumption DEF MatchOK, PointsOK, Value
  <1>3. n \in Nat /\ DOMAIN q.points = 1..n
    BY <1>2 DEF IsArray, IsList
  <1>4. c.points = ParsePoints(q.points) /\ Len(c.points) = n
    BY <1>3 DEF MatchCall, ParsePoints
  <1>5. n \in 2..Setting(env, "OSRM_MATCH_MAX_POINTS") /\ n <= Setting(env, "OSRM_MAX_MATCHING_SIZE")
    BY <1>1, <1>2, <1>3 DEF Lesser
  <1>6. radius \in 1..max
    <2>1. RadiusOK(q.radius, max) /\ IsValue(q.radius)
      BY InputsAssumption DEF MatchOK, Value
    <2>2. Finite(q.radius) => Number(q.radius) \in Int
      BY <2>1, NumberTypes
    <2> QED
      BY <1>1, <2>1, <2>2 DEF RadiusOK, ParseRadius, Lesser
  <1>7. /\ c.radiuses = ParseRadiuses(q.radiuses, n, radius, max)
        /\ c.timestamps = q.timestamps
    BY DEF MatchCall, Value
  <1>8. Len(c.radiuses) = n /\ \A i \in DOMAIN c.radiuses : c.radiuses[i] \in 1..max
    <2>1. Len(c.radiuses) = n /\ DOMAIN c.radiuses = 1..n
      BY <1>3, <1>7 DEF ParseRadiuses
    <2>2. ASSUME NEW i \in 1..n PROVE c.radiuses[i] \in 1..max
      <3>1. CASE ~PerPoint(q.radiuses, n)
        BY <1>6, <1>7, <3>1 DEF ParseRadiuses
      <3>2. CASE PerPoint(q.radiuses, n)
        <4>1. i \in DOMAIN q.radiuses
          BY <3>2, <1>3, InputsAssumption DEF PerPoint, IsArray, IsList
        <4>2. Finite(q.radiuses[i]) => Number(q.radiuses[i]) \in Int
          BY <3>2, <4>1, NumberTypes, InputsAssumption DEF PerPoint
        <4>3. c.radiuses[i] = IF ~Finite(q.radiuses[i]) \/ Number(q.radiuses[i]) <= 0 THEN radius
                              ELSE Lesser(Number(q.radiuses[i]), max)
          BY <1>7, <3>2 DEF ParseRadiuses
        <4> QED
          BY <1>1, <1>6, <4>2, <4>3 DEF Lesser
      <3> QED
        BY <3>1, <3>2
    <2> QED
      BY <2>1, <2>2
  <1>9. ASSUME c.timestamps # Absent
        PROVE  /\ Len(c.timestamps) = n
               /\ \A i, j \in DOMAIN c.timestamps : i < j => c.timestamps[i] < c.timestamps[j]
    <2>1. /\ IsArray(q.timestamps) /\ Len(q.timestamps) = n
          /\ \A i \in 1..n : q.timestamps[i] \in Nat
          /\ \A i \in 2..n : q.timestamps[i] > q.timestamps[i - 1]
      BY <1>7, <1>9 DEF MatchOK, TimestampsOK
    <2>2. DOMAIN q.timestamps = 1..n
      BY <1>3, <2>1, InputsAssumption DEF IsArray, IsList
    <2>3. \A i, j \in 1..n : i < j => q.timestamps[i] < q.timestamps[j]
      BY <1>3, <2>1, Increasing
    <2> QED
      BY <1>7, <2>1, <2>2, <2>3
  <1> QED
    BY <1>4, <1>5, <1>7, <1>8, <1>9

\* OSRM gets the whole trace, whatever the environment and the request.
THEOREM TraceIsWhole == Spec => []OsrmGetsTheTrace
  <1>1. CallIsForRequest => OsrmGetsTheTrace
    <2> SUFFICES ASSUME CallIsForRequest, call # Absent, request # Absent, request.endpoint = "match"
                 PROVE  OsrmGetsTheTrace
      BY DEF OsrmGetsTheTrace
    <2>1. request \in Inputs /\ env \in Envs /\ MatchOK(request) /\ call = MatchCall(request)
      BY DEF CallIsForRequest, Accepted, CallFor
    <2> QED
      BY <2>1, MatchCallIsWhole DEF OsrmGetsTheTrace
  <1> QED
    BY <1>1, CallInvariant, PTL

-----------------------------------------------------------------------------
(* The limits on a call *)

\* A coordinate that is accepted is a number within its bounds.
LEMMA CoordinateTypes ==
    ASSUME NEW v, IsValue(v)
    PROVE  /\ LongitudeOK(v) => Number(v) \in -180..180
           /\ LatitudeOK(v) => Number(v) \in -90..90
  BY NumberTypes DEF LongitudeOK, LatitudeOK, Within

\* Points that are accepted are asked about one for one, and where they are.
LEMMA PointsAreInRange ==
    ASSUME NEW q \in Inputs, NEW max \in Int, PointsOK(q.points, max)
    PROVE  /\ Len(ParsePoints(q.points)) \in 1..max
           /\ Len(ParsePoints(q.points)) = Len(q.points)
           /\ OnTheGlobe(ParsePoints(q.points))
  <1> DEFINE n == Len(q.points)
  <1>1. IsArray(q.points) /\ q.points # <<>> /\ n <= max
    BY DEF PointsOK
  <1>2. n \in Nat /\ q.points = [i \in 1..n |-> q.points[i]]
    BY <1>1, InputsAssumption DEF IsArray, IsList
  <1>3. n # 0
    BY <1>1, <1>2
  <1>4. Len(ParsePoints(q.points)) = n /\ DOMAIN ParsePoints(q.points) = 1..n
    BY <1>2 DEF ParsePoints
  <1>5. ASSUME NEW i \in DOMAIN ParsePoints(q.points)
        PROVE  /\ ParsePoints(q.points)[i][1] \in -180..180
               /\ ParsePoints(q.points)[i][2] \in -90..90
    <2>0. i \in 1..n
      BY <1>4
    <2>1. IsArray(q.points[i]) /\ LongitudeOK(q.points[i][1]) /\ LatitudeOK(q.points[i][2])
      BY <1>2, <2>0 DEF PointsOK
    <2>2. IsValue(q.points[i][1]) /\ IsValue(q.points[i][2])
      <3>1. i \in DOMAIN q.points
        BY <1>2, <2>0
      <3>2. \A k \in 1..2 : IsValue(q.points[i][k])
        BY <1>1, <2>1, <3>1, InputsAssumption, Zenon
      <3> QED
        BY <3>2
    <2> DEFINE lon == q.points[i][1]
               lat == q.points[i][2]
    <2>3. IsValue(lon) /\ LongitudeOK(lon) /\ IsValue(lat) /\ LatitudeOK(lat)
      BY <2>1, <2>2
    <2>4. ParsePoints(q.points)[i] = <<Number(lon), Number(lat)>>
      BY <1>2, <2>0 DEF ParsePoints
    <2> HIDE DEF lon, lat
    <2>5. Number(lon) \in -180..180 /\ Number(lat) \in -90..90
      BY <2>3, CoordinateTypes
    <2> QED
      BY <2>4, <2>5
  <1>6. n \in 1..max
    BY <1>1, <1>2, <1>3
  <1>7. OnTheGlobe(ParsePoints(q.points))
    BY <1>5, Zenon DEF OnTheGlobe
  <1> QED
    BY <1>4, <1>6, <1>7

\* The radius of an accepted snap, and the limit of an accepted viewport.
LEMMA RadiusIsCapped ==
    ASSUME NEW v, IsValue(v), NEW max \in Int, NEW fallback \in Int, RadiusOK(v, max), fallback <= max
    PROVE  ParseRadius(v, fallback) <= max
  BY NumberTypes DEF RadiusOK, ParseRadius

LEMMA LimitIsCapped ==
    ASSUME NEW v, IsValue(v), NEW max \in Int, NEW fallback \in Int, LimitOK(v), fallback <= max
    PROVE  ParseLimit(v, fallback, max) <= max
  BY NumberTypes DEF LimitOK, ParseLimit, Lesser

\* Whatever the environment and the request, what is asked keeps the limits.
THEOREM LimitsAreKept == Spec => []CallsKeepLimits
  <1>1. CallIsForRequest => CallsKeepLimits
    <2> SUFFICES ASSUME CallIsForRequest, call # Absent, request # Absent
                 PROVE  CallsKeepLimits
      BY DEF CallsKeepLimits
    <2> DEFINE q == request
               RadiusCapped ==
                   (Value("SNAP_DEFAULT_RADIUS_METERS") <= Value("SNAP_MAX_RADIUS_METERS"))
                       => call.radius <= Value("SNAP_MAX_RADIUS_METERS")
    <2>1. q \in Inputs /\ env \in Envs /\ Accepted(q) /\ call = CallFor(q)
      BY DEF CallIsForRequest
    <2>2. \A n \in Settings : Value(n) \in Int
      BY <2>1, SettingTypes DEF Value
    <2>3. CASE q.endpoint = "roads"
      <3>1. RoadsOK(q) /\ call = RoadsCall(q)
        BY <2>1, <2>3 DEF Accepted, CallFor
      <3>2. BboxOK(q.box, Value("ROADS_MAX_BBOX_DEGREES")) /\ LimitOK(q.limit)
        BY <3>1 DEF RoadsOK
      <3>3. Number(q.box.minLon) \in -180..180 /\ Number(q.box.maxLon) \in -180..180
        <4>1. IsValue(q.box.minLon) /\ IsValue(q.box.maxLon)
          <5>1. \A f \in {"minLon", "minLat", "maxLon", "maxLat"} : IsValue(q.box[f])
            BY <2>1, <3>2, InputsAssumption, Zenon DEF BboxOK
          <5> QED
            BY <5>1
        <4>2. LongitudeOK(q.box.minLon) /\ LongitudeOK(q.box.maxLon)
          BY <3>2 DEF BboxOK
        <4> QED
          BY <4>1, <4>2, CoordinateTypes
      <3>4. /\ -180 <= call.low /\ call.low < call.high /\ call.high <= 180
            /\ call.high - call.low <= Value("ROADS_MAX_BBOX_DEGREES")
        <4>1. call.low = Number(q.box.minLon) /\ call.high = Number(q.box.maxLon)
          BY <3>1 DEF RoadsCall
        <4>2. /\ Number(q.box.minLon) < Number(q.box.maxLon)
              /\ Number(q.box.maxLon) - Number(q.box.minLon) <= Value("ROADS_MAX_BBOX_DEGREES")
          BY <3>2 DEF BboxOK
        <4> QED
          BY <3>3, <4>1, <4>2
      <3>5. ASSUME Value("ROADS_DEFAULT_LIMIT") <= Value("ROADS_MAX_LIMIT")
            PROVE  call.limit <= Value("ROADS_MAX_LIMIT")
        <4>1. IsValue(q.limit)
          BY <2>1, InputsAssumption
        <4> QED
          BY <2>2, <3>1, <3>2, <3>5, <4>1, LimitIsCapped DEF RoadsCall, Settings, LooseSettings
      <3> QED
        BY <2>3, <3>4, <3>5 DEF CallsKeepLimits
    <2>4. CASE q.endpoint = "snap"
      <3>1. SnapOK(q) /\ call = SnapCall(q)
        BY <2>1, <2>4 DEF Accepted, CallFor
      <3>2. PointsOK(q.points, 1)
        <4>1. /\ Len(q.points) = 1 /\ IsArray(q.points) /\ IsArray(q.points[1])
              /\ q.points = [i \in 1..1 |-> q.points[i]]
          BY <2>1, <2>4, InputsAssumption DEF IsList, IsArray
        <4>2. q.points # <<>> /\ DOMAIN q.points = {1}
          BY <4>1
        <4> QED
          BY <3>1, <4>1, <4>2 DEF SnapOK, PointsOK
      <3>3. RadiusOK(q.radius, Value("SNAP_MAX_RADIUS_METERS")) /\ IsValue(q.radius)
        BY <2>1, <3>1, InputsAssumption DEF SnapOK
      <3>4. OnTheGlobe(call.points)
        BY <2>1, <3>1, <3>2, PointsAreInRange DEF SnapCall
      <3>5. RadiusCapped
        BY <2>2, <3>1, <3>3, RadiusIsCapped DEF SnapCall, Settings, LooseSettings
      <3> QED
        BY <2>4, <3>4, <3>5 DEF CallsKeepLimits
    <2>5. CASE q.endpoint = "path"
      <3>1. PathOK(q) /\ call = SnapCall(q)
        BY <2>1, <2>5 DEF Accepted, CallFor
      <3>2. /\ PointsOK(q.points, Value("SNAP_MAX_POINTS"))
            /\ RadiusOK(q.radius, Value("SNAP_MAX_RADIUS_METERS")) /\ IsValue(q.radius)
        BY <2>1, <3>1, InputsAssumption DEF PathOK
      <3>3. Value("SNAP_MAX_POINTS") \in Int
        BY <2>2 DEF Settings, LooseSettings
      <3>4. OnTheGlobe(call.points) /\ Len(call.points) \in 1..Value("SNAP_MAX_POINTS")
        BY <2>1, <3>1, <3>2, <3>3, PointsAreInRange DEF SnapCall
      <3>5. RadiusCapped
        BY <2>2, <3>1, <3>2, RadiusIsCapped DEF SnapCall, Settings, LooseSettings
      <3> QED
        BY <2>5, <3>4, <3>5 DEF CallsKeepLimits
    <2>6. CASE q.endpoint = "match"
      <3>1. MatchOK(q) /\ call = MatchCall(q)
        BY <2>1, <2>6 DEF Accepted, CallFor
      <3>2. call.points = ParsePoints(q.points)
        BY <3>1 DEF MatchCall
      <3>3. PICK max \in Int : PointsOK(q.points, max)
        BY <2>2, <3>1 DEF MatchOK, Lesser, Settings, LooseSettings, StrictSettings
      <3>4. OnTheGlobe(call.points)
        BY <2>1, <3>2, <3>3, PointsAreInRange
      <3> QED
        BY <2>6, <3>4 DEF CallsKeepLimits
    <2>7. CASE q.endpoint = "route"
      <3>1. RouteOK(q) /\ call.points = ParsePoints(q.points)
        BY <2>1, <2>7 DEF Accepted, CallFor, RouteCall
      <3>2. PointsOK(q.points, MaxRoutePoints) /\ Len(q.points) >= 2 /\ MaxRoutePoints \in Int
        BY <3>1 DEF RouteOK, MaxRoutePoints
      <3>3. OnTheGlobe(call.points) /\ Len(call.points) \in 2..MaxRoutePoints
        BY <2>1, <3>1, <3>2, PointsAreInRange
      <3> QED
        BY <2>7, <3>3 DEF CallsKeepLimits
    <2>8. CASE q.endpoint = "stats"
      BY <2>8 DEF CallsKeepLimits
    <2> QED
      BY <2>1, <2>3, <2>4, <2>5, <2>6, <2>7, <2>8, InputsAssumption
  <1> QED
    BY <1>1, CallInvariant, PTL

-----------------------------------------------------------------------------
(* Types *)

\* What becomes of a verdict or a failure of OSRM is an answer like any other.
LEMMA ErrorTypes ==
    ASSUME TypeOK, NEW s \in Services, NEW code \in CodesOf(s), OsrmFails(s, code)
    PROVE  TypeOK'
  <1> DEFINE status == CodeStatus(s, code)
  <1>1. status \in {400, 422, 502, 503}
    BY DEF CodeStatus
  <1>2. /\ answer' = Error(status, status >= 500)
        /\ request # Absent /\ request' = request
        /\ env' = env /\ applied' = applied /\ recorded' = recorded /\ reads' = reads
    BY DEF OsrmFails, Pending, Respond, Answer, tableVars
  <1> HIDE DEF status
  <1>3. answer'.status = status /\ answer'.retry = (status >= 500)
    BY <1>2, Zenon DEF Error
  <1>4. answer'.retry => answer'.status >= 500
    BY <1>3, Zenon
  <1>5. answer'.status \in {200, 400, 422, 502, 503}
    BY <1>1, <1>3
  <1>6. /\ env' \in Envs /\ applied' \in DOMAIN TableAt /\ recorded' \in DOMAIN TableAt
        /\ DOMAIN reads' \subseteq {"roads", "totals", "classes", "replication"}
        /\ request' # Absent
    BY <1>2 DEF TypeOK
  <1>7. (request = Absent => call = Absent /\ answer = Absent)'
    BY <1>6, Zenon
  <1>8. (answer # Absent => answer.status \in {200, 400, 422, 502, 503})'
    BY <1>5, Zenon
  <1>9. ((answer # Absent /\ answer.status # 200) => (answer.retry => answer.status >= 500))'
    BY <1>4, Zenon
  <1> QED
    BY <1>6, <1>7, <1>8, <1>9 DEF TypeOK

\* Whatever is answered has one of the statuses the API knows.
THEOREM TypeCorrect == Spec => []TypeOK
  <1>1. Init => TypeOK
    BY TableAssumption DEF Init, TypeOK
  <1>2. TypeOK /\ [Next]_vars => TypeOK'
    <2> SUFFICES ASSUME TypeOK, [Next]_vars PROVE TypeOK'
      OBVIOUS
    <2> USE DEF TypeOK
    <2> USE TableAssumption
    <2>1. ASSUME NEW q \in Inputs, Receive(q) PROVE TypeOK'
      BY <2>1, InputsAssumption DEF Receive, Error, tableVars
    <2>2. CASE Done
      BY <2>2 DEF Done, tableVars
    <2>3. CASE AnswerRoads
      BY <2>3 DEF AnswerRoads, Pending, Answer, tableVars
    <2>4. CASE AnswerSnap
      BY <2>4 DEF AnswerSnap, Pending, Answer, tableVars
    <2>5. ASSUME NEW part \in {"totals", "classes", "replication"}, StatsQuery(part) PROVE TypeOK'
      BY <2>5 DEF StatsQuery, Pending, tableVars
    <2>6. CASE AnswerStats
      BY <2>6 DEF AnswerStats, Pending, Answer, tableVars
    <2>7. CASE QueryFails
      BY <2>7 DEF QueryFails, Pending, Answer, Error, tableVars
    <2>8. CASE Apply
      BY <2>8 DEF Apply
    <2>9. CASE Record
      BY <2>9 DEF Record
    <2>10. CASE TurnedAway
      BY <2>10 DEF TurnedAway, Pending, Respond, Answer, Error, tableVars
    <2>11. ASSUME NEW s \in Services, NEW code \in CodesOf(s), OsrmFails(s, code) PROVE TypeOK'
      BY <2>11, ErrorTypes
    <2>12. CASE AnswerMatch
      BY <2>12 DEF AnswerMatch, Pending, Respond, Answer, tableVars
    <2>13. CASE AnswerRoute
      BY <2>13 DEF AnswerRoute, Pending, Respond, Answer, tableVars
    <2>14. CASE RouteMissing
      BY <2>14 DEF RouteMissing, Pending, Respond, Answer, Error, tableVars
    <2>15. CASE UNCHANGED vars
      BY <2>15 DEF vars, tableVars
    <2> QED
      BY <2>1, <2>2, <2>3, <2>4, <2>5, <2>6, <2>7, <2>8, <2>9, <2>10, <2>11, <2>12, <2>13, <2>14, <2>15 DEF Next
  <1> QED
    BY <1>1, <1>2, PTL DEF Spec

-----------------------------------------------------------------------------
(* Viewports *)

\* The limit of an accepted viewport is an integer.
LEMMA RoadsLimitType ==
    ASSUME NEW q \in Inputs, env \in Envs, RoadsOK(q)
    PROVE  RoadsCall(q).limit \in Int
  <1>1. IsValue(q.limit) /\ LimitOK(q.limit)
    BY InputsAssumption DEF RoadsOK
  <1>2. Value("ROADS_DEFAULT_LIMIT") \in Int /\ Value("ROADS_MAX_LIMIT") \in Int
    BY SettingTypes DEF Settings, LooseSettings, Value
  <1> QED
    BY <1>1, <1>2, NumberTypes DEF RoadsCall, LimitOK, ParseLimit, Lesser

\* A viewport of so many rows that leaves out a road is as long as its limit.
LEMMA CutAtLimit ==
    ASSUME NEW all, IsFiniteSet(all), NEW rows \in SUBSET all, NEW limit \in Int,
           Cardinality(rows) = Lesser(limit, Cardinality(all)), NEW r \in all \ rows
    PROVE  Cardinality(rows) >= limit
  <1>1. Cardinality(rows) < Cardinality(all) /\ Cardinality(all) \in Nat
    BY FS_Subset, FS_CardinalityType
  <1> QED
    BY <1>1 DEF Lesser

\* A viewport says when it leaves a road out.
THEOREM TruncationIsHonest == Spec => []TruncationIsReported
  <1>1. Init => TruncationIsReported
    BY DEF Init, TruncationIsReported, Succeeded
  <1>2. TypeOK /\ CallIsForRequest /\ TruncationIsReported /\ [Next]_vars => TruncationIsReported'
    <2> SUFFICES ASSUME TypeOK, CallIsForRequest, TruncationIsReported, [Next]_vars,
                        Succeeded({"roads"})'
                 PROVE  TruncationIsReported'
      BY DEF TruncationIsReported
    <2>1. CASE AnswerRoads
      <3>1. /\ request \in Inputs /\ env \in Envs /\ RoadsOK(request) /\ call = RoadsCall(request)
            /\ request' = request /\ reads' = [roads |-> applied] /\ call' = call
        BY <2>1 DEF AnswerRoads, Pending, Answer, CallIsForRequest, Accepted, CallFor
      <3>2. PICK rows \in SUBSET InBox :
               /\ Cardinality(rows) = Lesser(call.limit, Cardinality(InBox))
               /\ answer' = [status |-> 200, features |-> rows, truncated |-> Truncated(rows)]
        BY <2>1 DEF AnswerRoads, Answer
      <3>3. IsFiniteSet(TableAt[applied]) /\ \A r \in TableAt[applied] : r.highway \notin Texts
        BY TableAssumption DEF TypeOK
      <3>4. IsFiniteSet(InBox)
        BY <3>3, FS_Subset DEF InBox, OfClasses
      <3>5. call.limit \in Int
        BY <3>1, RoadsLimitType
      <3>6. ASSUME NEW r \in TableAt[applied],
                   Number(request.box.minLon) <= r.lon, r.lon <= Number(request.box.maxLon),
                   ParseClasses(request.classes) = Null \/ r.highway \in request.classes
            PROVE  r \in rows \/ Truncated(rows)
        <4>1. ParseClasses(request.classes) = Null \/ r.highway \in ParseClasses(request.classes)
          BY <3>3, <3>6 DEF ParseClasses, Texts
        <4>2. r \in InBox
          BY <3>1, <3>6, <4>1 DEF InBox, OfClasses, RoadsCall
        <4> QED
          BY <3>2, <3>4, <3>5, <4>2, CutAtLimit DEF Truncated
      <3> QED
        BY <3>1, <3>2, <3>6 DEF TruncationIsReported
    <2>2. CASE UNCHANGED <<request, reads, answer>>
      BY <2>2 DEF TruncationIsReported, Succeeded
    <2> QED
      BY <2>1, <2>2 DEF Next, Receive, Done, AnswerSnap, StatsQuery, AnswerStats, QueryFails, Apply,
             Record, TurnedAway, OsrmFails, AnswerMatch, AnswerRoute, RouteMissing, Respond, Answer,
             Pending, Services, Error, Succeeded, vars
  <1> QED
    BY <1>1, <1>2, TypeCorrect, CallInvariant, PTL DEF Spec

-----------------------------------------------------------------------------
(* Answers about points *)

\* The points of an accepted request are a list of numbers.
LEMMA PointsAreNumbers ==
    ASSUME NEW q \in Inputs, Accepted(q), q.endpoint \in {"snap", "path", "match"}
    PROVE  /\ Len(q.points) \in Nat /\ DOMAIN q.points = 1..Len(q.points)
           /\ q.endpoint # "match" => \A i \in DOMAIN q.points : ParsePoints(q.points)[i][1] \in Int
  <1>1. IsArray(q.points) /\ IsList(q.points)
    BY InputsAssumption DEF Accepted, SnapOK, PathOK, MatchOK, PointsOK
  <1>2. Len(q.points) \in Nat /\ DOMAIN q.points = 1..Len(q.points)
    BY <1>1 DEF IsArray, IsList
  <1>3. ASSUME q.endpoint # "match", NEW i \in DOMAIN q.points
        PROVE  ParsePoints(q.points)[i][1] \in Int
    <2>1. LongitudeOK(q.points[i][1]) /\ IsArray(q.points[i])
      <3>1. CASE q.endpoint = "snap"
        BY <1>2, <3>1, InputsAssumption DEF Accepted, SnapOK
      <3>2. CASE q.endpoint = "path"
        BY <3>2 DEF Accepted, PathOK, PointsOK
      <3> QED
        BY <1>3, <3>1, <3>2
    <2>2. IsValue(q.points[i][1])
      BY <1>1, <2>1, InputsAssumption
    <2> QED
      BY <2>1, <2>2, NumberTypes DEF LongitudeOK, Within, ParsePoints
  <1> QED
    BY <1>2, <1>3

\* Of the roads near a point there is a nearest one.
LEMMA NearestIsNear ==
    ASSUME applied \in DOMAIN TableAt, NEW point, point[1] \in Int
    PROVE  IF Near(point) = {} THEN Nearest(point) = Null ELSE Nearest(point) \in Near(point)
  <1>1. ASSUME Near(point) # {} PROVE Nearest(point) \in Near(point)
    <2> DEFINE T == {Distance(s, point) : s \in Near(point)}
    <2>1. \A s \in Near(point) : Distance(s, point) \in Nat
      BY TableAssumption DEF Near, OfClasses, Distance
    <2>2. T \in SUBSET Nat /\ T # {}
      BY <1>1, <2>1
    <2>3. PICK d \in T : \A e \in T : d <= e
      BY <2>2, LeastNatural
    <2>4. \E r \in Near(point) : \A s \in Near(point) : Distance(r, point) <= Distance(s, point)
      BY <2>3
    <2> QED
      BY <1>1, <2>4 DEF Nearest
  <1> QED
    BY <1>1 DEF Nearest

\* Each point of a request is answered, in its place, with what was near it.
THEOREM PointsAreAnswered == Spec => []AnswersAreAligned
  <1>1. Init => AnswersAreAligned
    BY DEF Init, AnswersAreAligned, Succeeded
  <1>2. TypeOK /\ CallIsForRequest /\ AnswersAreAligned /\ [Next]_vars => AnswersAreAligned'
    <2> SUFFICES ASSUME TypeOK, CallIsForRequest, AnswersAreAligned, [Next]_vars,
                        Succeeded({"match"})' \/ Succeeded({"snap", "path"})'
                 PROVE  AnswersAreAligned'
      BY DEF AnswersAreAligned
    <2>1. CASE AnswerMatch
      <3>1. /\ request \in Inputs /\ Accepted(request) /\ call = MatchCall(request)
            /\ request.endpoint = "match" /\ request' = request
        BY <2>1 DEF AnswerMatch, Pending, Respond, Answer, CallIsForRequest, CallFor
      <3>2. call.points = ParsePoints(request.points) /\ DOMAIN call.points = DOMAIN request.points
        BY <3>1 DEF MatchCall, ParsePoints
      <3>3. PICK placed : answer'.tracepoints = Tracepoints(placed)
        BY <2>1 DEF AnswerMatch, Respond, Answer
      <3>4. Len(request.points) \in Nat /\ DOMAIN request.points = 1..Len(request.points)
        BY <3>1, PointsAreNumbers
      <3>5. /\ Len(answer'.tracepoints) = Len(request.points)
            /\ \A i \in DOMAIN answer'.tracepoints : answer'.tracepoints[i] \in {i, Unplaced}
        BY <3>2, <3>3, <3>4 DEF Tracepoints
      <3> QED
        BY <3>1, <3>5 DEF AnswersAreAligned, Succeeded
    <2>2. CASE AnswerSnap
      <3>1. /\ request \in Inputs /\ Accepted(request) /\ call = SnapCall(request)
            /\ request.endpoint \in {"snap", "path"} /\ request' = request
            /\ reads' = [roads |-> applied]
            /\ answer' = [status |-> 200, snapped |-> Rows, radius |-> call.radius]
        BY <2>2 DEF AnswerSnap, Pending, Answer, CallIsForRequest, CallFor
      <3>2. /\ call.points = ParsePoints(request.points) /\ DOMAIN call.points = DOMAIN request.points
            /\ call.classes = ParseClasses(request.classes)
        BY <3>1 DEF SnapCall, ParsePoints
      <3>3. Len(request.points) \in Nat /\ DOMAIN request.points = 1..Len(request.points)
        BY <3>1, PointsAreNumbers
      <3>4. Len(Rows) = Len(request.points) /\ DOMAIN Rows = DOMAIN request.points
        BY <3>2, <3>3 DEF Rows
      <3> DEFINE Suitable(i) ==
                  {r \in TableAt[applied] :
                      /\ ParseClasses(request.classes) = Null \/ r.highway \in request.classes
                      /\ Distance(r, ParsePoints(request.points)[i]) <= call.radius}
      <3>5. ASSUME NEW i \in DOMAIN request.points
            PROVE  IF Suitable(i) = {} THEN Rows[i] = Null ELSE Rows[i] \in Suitable(i)
        <4>1. ParsePoints(request.points)[i][1] \in Int
          BY <3>1, PointsAreNumbers
        <4>2. Rows[i] = Nearest(ParsePoints(request.points)[i])
          BY <3>2 DEF Rows
        <4>3. Near(ParsePoints(request.points)[i]) = Suitable(i)
          <5>1. \A r \in TableAt[applied] : r.highway \notin Texts
            BY TableAssumption DEF TypeOK
          <5>2. \A r \in TableAt[applied] :
                   ParseClasses(request.classes) = Null \/ r.highway \in ParseClasses(request.classes)
                   <=> ParseClasses(request.classes) = Null \/ r.highway \in request.classes
            BY <5>1 DEF ParseClasses, Texts
          <5> QED
            BY <3>2, <5>2 DEF Near, OfClasses
        <4> QED
          BY <4>1, <4>2, <4>3, NearestIsNear DEF TypeOK
      <3> QED
        BY <3>1, <3>4, <3>5 DEF AnswersAreAligned, Succeeded
    <2>3. CASE UNCHANGED <<request, reads, answer>>
      BY <2>3 DEF AnswersAreAligned, Succeeded
    <2> QED
      BY <2>1, <2>2, <2>3 DEF Next, Receive, Done, AnswerRoads, StatsQuery, AnswerStats, QueryFails, Apply,
             Record, TurnedAway, OsrmFails, AnswerRoute, RouteMissing, Respond, Answer,
             Pending, Services, Error, CodeStatus, Succeeded, vars
  <1> QED
    BY <1>1, <1>2, TypeCorrect, CallInvariant, PTL DEF Spec

=============================================================================
