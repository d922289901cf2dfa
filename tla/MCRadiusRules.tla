---------------------------- MODULE MCRadiusRules ----------------------------
(* A LED panel's rule as it was seeded, with a limit of 5 m2, one process       *)
(* above it, and drafts older than the present version, one of them no later   *)
(* than the rule.                                                              *)
EXTENDS RadiusRules, TLC

SeededRule ==
    {[says |-> [base |-> 80, limit |-> 5, above |-> 250, active |-> TRUE],
      created |-> 0, updated |-> 0]}

Registered == {[type |-> "painel", size |-> [area |-> 6, band |-> "none"], radius |-> 80]}

OldDrafts ==
    {[vehicle |-> [type |-> type, size |-> [area |-> 0, band |-> "above"]], observed |-> 0,
      snapshot |-> Nothing, created |-> instant] : type \in Types, instant \in {0, 1}}

SameWorkers == Permutations(Workers)
=============================================================================
