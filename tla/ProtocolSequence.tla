--------------------------- MODULE ProtocolSequence ---------------------------
(* What a series of protocols promises (README.md, "Resposta de comunicado de  *)
(* exigência"): in each series and year the numbers handed out only grow, so   *)
(* that none is ever handed out twice.                                         *)
EXTENDS Naturals

CONSTANT Keys       \* a series in a year

VARIABLES
    last,           \* last[k]: the last number handed out, 0 before the first
    given           \* given[k]: how many were handed out

Init ==
    /\ last = [k \in Keys |-> 0]
    /\ given = [k \in Keys |-> 0]

HandOut(k) ==
    /\ last'[k] \in Nat
    /\ last'[k] > last[k]
    /\ last' = [last EXCEPT ![k] = last'[k]]
    /\ given' = [given EXCEPT ![k] = @ + 1]

Next == \E k \in Keys : HandOut(k)

Spec == Init /\ [][Next]_<<last, given>>
=============================================================================
