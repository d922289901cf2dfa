----------------------------- MODULE MCUserAdmin -----------------------------
(* Three accounts; "chief" is the bootstrap username. *)
EXTENDS UserAdmin, TLC

CONSTANTS u1, u2, u3

Names == u1 :> "chief" @@ u2 :> "ana" @@ u3 :> "chief"
SameWorkers == Permutations(Workers)
=============================================================================
