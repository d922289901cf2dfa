-------------------------- MODULE MCProtocolCounter --------------------------
(* One year; VEI-02 and HESP-01 are older than their counters. *)
EXTENDS ProtocolCounter, TLC

OldCodes == {[key |-> <<"VEI", 2026>>, number |-> 2], [key |-> <<"HESP", 2026>>, number |-> 1]}
SameWorkers == Permutations(Workers)
=============================================================================
