---------------------------- MODULE ConflictRules ----------------------------
(* The territorial rules of app/domain/rules.py as pure operators.             *)
(* A row of media_assets is a record; the columns the rules and the workflow   *)
(* tell apart are its status, media type, coordinates (two columns, together a *)
(* member of Places), persisted radius and whether a justification is written. *)
(* Two distances exist in the program: the haversine of                        *)
(* calculate_distance_meters, which decides a conflict, and the ellipsoidal    *)
(* one of PostGIS ST_DWithin, which only filters the candidates.               *)
EXTENDS Integers

CONSTANTS
    Types,          \* media types
    InExamination,  \* "analysis" and the statuses between it and a decision: exigência,
                    \* vencido, cartografia, jurídico, vistoria
    Latitudes,      \* latitudes a process may have
    Longitudes,     \* longitudes a process may have
    Justifications, \* whether a justification may be written: a subset of BOOLEAN
    Radii,          \* radii the rules can give, in metres
    LedPanel,       \* "painel de led"
    LedGable,       \* "empena de led"
    LedDistance,    \* metres required between a LED panel and a LED gable: 500
    Haversine,      \* Haversine[p][q]: metres between two places, as Python computes it
    Geodesic        \* Geodesic[p][q]: metres between two places, as PostGIS computes it

Places == [lat : Latitudes, lon : Longitudes]

ASSUME ExaminationAssumption ==
    "analysis" \in InExamination /\ {"new", "approved", "irregular"} \cap InExamination = {}
ASSUME JustificationsAssumption == Justifications \subseteq BOOLEAN
ASSUME RadiiAssumption == Radii \subseteq Nat \ {0} /\ LedDistance \in Nat
ASSUME HaversineAssumption ==
    /\ Haversine \in [Places -> [Places -> Nat]]
    /\ \A p, q \in Places : Haversine[p][q] = Haversine[q][p]
ASSUME GeodesicAssumption ==
    /\ Geodesic \in [Places -> [Places -> Nat]]
    /\ \A p, q \in Places : Geodesic[p][q] = Geodesic[q][p]

-----------------------------------------------------------------------------
(* MediaStatus.  No guard tells the statuses of InExamination apart, but a     *)
(* payload that moves a process from one to another sets the column.           *)
Statuses == {"new", "approved", "irregular"} \cup InExamination

Rows == [status : Statuses, type : Types, place : Places, radius : Radii,
         justified : Justifications]

Larger(m, n) == IF m < n THEN n ELSE m

(* Same type: the larger of the two persisted radii.  LED panel against LED    *)
(* gable: LedDistance.  Any other pair: no minimum.                            *)
RequiredDistance(a, b) ==
    IF a.type = b.type THEN Larger(a.radius, b.radius)
    ELSE IF {a.type, b.type} = {LedPanel, LedGable} THEN LedDistance ELSE 0

Conflicting(a, b) == Haversine[a.place][b.place] < RequiredDistance(a, b)

(* What one conflict shows to the analyst: the other process, its type, how    *)
(* far it is and how far it must be.  Process codes follow from ids.           *)
ConflictEntry(a, y, b) ==
    [id |-> y, type |-> b.type, distance |-> Haversine[a.place][b.place],
     minimum |-> RequiredDistance(a, b)]

(* evaluate_conflicts for candidate row a of asset x against rows[y], y in ys. *)
(* The list is sorted by distance for display only: a set says the same.       *)
EvaluateConflicts(x, a, ys, rows) ==
    {ConflictEntry(a, y, rows[y]) :
        y \in {z \in ys \ {x} : rows[z].status # "irregular" /\ Conflicting(a, rows[z])}}

(* The largest element of a set of naturals, 0 when it is empty, as a set of   *)
(* one element.                                                                *)
LargestOf(S) == {m \in S \cup {0} : \A n \in S : n <= m}
=============================================================================
