------------------------------ MODULE Requests ------------------------------
(***************************************************************************)
(* What the API makes of a request and of its environment before it asks   *)
(* anybody anything: the settings of config/config.js and the parsers of   *)
(* utils/validation.js, as operators.                                      *)
(*                                                                         *)
(* A value of a request or of process.env is an integer or one of four     *)
(* texts: Absent (undefined), Empty (""), Null and Word, which stands for  *)
(* all that Number() turns into NaN.  A number as text is its number.      *)
(* Fractions are scaled away; texts that differ in spelling are one.       *)
(***************************************************************************)
EXTENDS Integers, Sequences

CONSTANTS Absent, Empty, Null, Word,  \* the texts
          NaN,
          Defaults                    \* fallbacks of the settings

\* Read with numberFromEnv, and with positiveInteger.
LooseSettings == {"ROADS_MAX_BBOX_DEGREES", "ROADS_DEFAULT_LIMIT", "ROADS_MAX_LIMIT",
                  "SNAP_DEFAULT_RADIUS_METERS", "SNAP_MAX_RADIUS_METERS", "SNAP_MAX_POINTS",
                  "OSRM_MAX_MATCHING_SIZE"}
StrictSettings == {"OSRM_MATCH_MAX_POINTS", "OSRM_MATCH_MAX_RADIUS_METERS",
                   "OSRM_MATCH_DEFAULT_RADIUS_METERS"}
Settings == LooseSettings \cup StrictSettings

Texts == {Absent, Empty, Null, Word}

ASSUME TextsAssumption == /\ \A t \in Texts : t \notin Int
                          /\ NaN \notin Int
                          /\ NaN \notin Texts

ASSUME DefaultsAssumption == Defaults \in [Settings -> Nat \ {0}]

IsValue(v) == v \in Texts \/ v \in Int

IsList(v) == v \in Texts \/ (Len(v) \in Nat /\ v = [i \in 1..Len(v) |-> v[i]])

-----------------------------------------------------------------------------
(* Numbers and settings *)

\* Number(v)
Number(v) ==
    IF v \in {Empty, Null} THEN 0 ELSE IF v \in {Absent, Word} THEN NaN ELSE v

Finite(v) == Number(v) # NaN

NumberFromEnv(v, fallback) == IF Finite(v) THEN Number(v) ELSE fallback

PositiveInteger(v, fallback) == IF Finite(v) /\ Number(v) > 0 THEN Number(v) ELSE fallback

\* A setting in the process environment e.
Setting(e, name) ==
    IF name \in StrictSettings THEN PositiveInteger(e[name], Defaults[name])
    ELSE NumberFromEnv(e[name], Defaults[name])

Lesser(a, b) == IF a < b THEN a ELSE b

-----------------------------------------------------------------------------
(* Parsers.  An operator named ...OK is false where the parser throws.     *)

Within(v, low, high) == Finite(v) /\ Number(v) >= low /\ Number(v) <= high

LongitudeOK(v) == Within(v, -180, 180)

LatitudeOK(v) == Within(v, -90, 90)

\* box is Absent or the four values of the text.
BboxOK(box, maxDegrees) ==
    /\ box # Absent
    /\ LongitudeOK(box.minLon) /\ LatitudeOK(box.minLat)
    /\ LongitudeOK(box.maxLon) /\ LatitudeOK(box.maxLat)
    /\ Number(box.minLon) < Number(box.maxLon)
    /\ Number(box.minLat) < Number(box.maxLat)
    /\ Number(box.maxLon) - Number(box.minLon) <= maxDegrees
    /\ Number(box.maxLat) - Number(box.minLat) <= maxDegrees

\* classes is Absent or the entries of the list, Word being one that is no name.
ClassesOK(classes) == classes = Absent \/ Word \notin classes

\* Empty entries are filtered out; none left means every class.
ParseClasses(classes) ==
    IF classes = Absent \/ classes \ {Empty} = {} THEN Null ELSE classes \ {Empty}

RadiusOK(v, max) == v \in {Absent, Empty} \/ (Finite(v) /\ Number(v) > 0 /\ Number(v) <= max)

ParseRadius(v, fallback) == IF v \in {Absent, Empty} THEN fallback ELSE Number(v)

LimitOK(v) == v \in {Absent, Empty} \/ (Finite(v) /\ Number(v) >= 1)

ParseLimit(v, fallback, max) ==
    IF v \in {Absent, Empty} THEN fallback ELSE Lesser(Number(v), max)

SimplifyOK(v) == v \in {Absent, Empty} \/ (Finite(v) /\ Number(v) >= 0)

\* Array.isArray
IsArray(v) == v \notin Texts

\* Variant: a point is taken to be [lat, lon].
LatLonPointsOK(points, maxPoints) ==
    /\ IsArray(points)
    /\ points # <<>>
    /\ Len(points) <= maxPoints
    /\ \A i \in DOMAIN points :
          /\ IsArray(points[i])
          /\ LatitudeOK(points[i][1])
          /\ LongitudeOK(points[i][2])

PointsOK(points, maxPoints) ==
    /\ IsArray(points)
    /\ points # <<>>
    /\ Len(points) <= maxPoints
    /\ \A i \in DOMAIN points :
          /\ IsArray(points[i])
          /\ LongitudeOK(points[i][1])
          /\ LatitudeOK(points[i][2])

ParsePoints(points) == [i \in DOMAIN points |-> <<Number(points[i][1]), Number(points[i][2])>>]

\* There is a radius for each of so many points.
PerPoint(radiuses, count) == IsArray(radiuses) /\ Len(radiuses) = count

\* Variant: a fix of bad accuracy is taken at its word.
ParseRadiusesUnclamped(radiuses, count, fallback, max) ==
    [i \in 1..count |->
        IF ~PerPoint(radiuses, count) \/ ~Finite(radiuses[i]) \/ Number(radiuses[i]) <= 0
        THEN fallback ELSE Number(radiuses[i])]

ParseRadiuses(radiuses, count, fallback, max) ==
    [i \in 1..count |->
        IF ~PerPoint(radiuses, count) THEN fallback
        ELSE IF ~Finite(radiuses[i]) \/ Number(radiuses[i]) <= 0 THEN fallback
        ELSE Lesser(Number(radiuses[i]), max)]

\* The check is of the values as they are: no text is a number here.
TimestampsOK(timestamps, count) ==
    timestamps = Absent \/
        /\ IsArray(timestamps)
        /\ Len(timestamps) = count
        /\ \A i \in 1..count : timestamps[i] \in Nat
        /\ \A i \in 2..count : timestamps[i] > timestamps[i - 1]

=============================================================================
