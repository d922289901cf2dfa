------------------------- MODULE MCProcessTracking -------------------------
(* One process, at one place, for ProcessTracking. *)
EXTENDS ProcessTracking, TLC

CONSTANTS parallel, west

near == [lat |-> parallel, lon |-> west]

Metres == [p \in Places |-> [q \in Places |-> 0]]

InAnalysis == {[status |-> "analysis", type |-> LedPanel, place |-> near, radius |-> 250,
                justified |-> TRUE]}

Interchangeable == Permutations(Workers)
=============================================================================
