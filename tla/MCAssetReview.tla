---------------------------- MODULE MCAssetReview ----------------------------
(* Small cities for AssetReview: two sites on one parallel.  400 m apart they  *)
(* are inside the 500 m of a LED panel against a LED gable and inside the      *)
(* larger radius, outside the smaller one.  600 m apart the filter of          *)
(* ST_DWithin drops the other process unless the larger radius is in force.    *)
EXTENDS AssetReviewProperties, TLC

CONSTANTS parallel, west, east

near == [lat |-> parallel, lon |-> west]
far == [lat |-> parallel, lon |-> east]

Apart(metres) == [p \in Places |-> [q \in Places |-> IF p = q THEN 0 ELSE metres]]
Metres400 == Apart(400)
Metres600 == Apart(600)

Row(status, type, place, radius) ==
    [status |-> status, type |-> type, place |-> place, radius |-> radius, justified |-> TRUE]

OneNewOneInAnalysis == {Row("new", LedPanel, near, 250), Row("analysis", LedPanel, far, 250)}
OnePlace == {Row("new", LedPanel, near, 250), Row("analysis", LedPanel, near, 250)}
InAnalysis == {Row("analysis", LedPanel, place, 250) : place \in Places}
PanelAndGable == {Row("analysis", LedPanel, near, 250), Row("analysis", LedGable, far, 1000)}

Interchangeable == Permutations(Workers) \cup Permutations(Assets)
=============================================================================
