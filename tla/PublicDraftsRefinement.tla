------------------------ MODULE PublicDraftsRefinement -------------------------
(* The requests of PublicDrafts implement the life of a draft of DraftLife,    *)
(* which OrphanDiagnostics takes for granted.                                  *)
EXTENDS PublicDrafts

LifeRows == [created : Times, payload : Forms \cup {"emptied"}, code : Codes \cup {NoCode}]

ASSUME NoLifeRowAssumption == Absent \notin LifeRows

(* The row without the column only the rate limit reads. *)
LifeRow(d) ==
    IF drafts[d] = Absent THEN Absent
    ELSE [created |-> drafts[d].created, payload |-> drafts[d].payload, code |-> drafts[d].code]

At(pc, d) == \E w \in Workers : tx[w].pc = pc /\ tx[w].draft = d

LifeDrafts == [d \in Drafts |-> LifeRow(d)]
LifeFiles == [d \in Drafts |-> files[d] # "missing"]
LifeLock ==
    [d \in Drafts |-> IF At("commit", d) THEN "commit" ELSE IF At("validate", d) THEN "validate" ELSE "free"]

Life == INSTANCE DraftLife WITH drafts <- LifeDrafts, files <- LifeFiles, lock <- LifeLock

(* Whatever requests are made at once, lost or repeated, a draft is finalized  *)
(* once, by one request at a time, begun in its lifetime, with its files there *)
(* and the next number of its own series                                       *)
(* (public_submissions.py:436-501, requirement_responses.py:187-198).          *)
LivesOnce == Life!LifeSpec
=============================================================================
