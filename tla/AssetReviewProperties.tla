------------------------ MODULE AssetReviewProperties ------------------------
(* What the workflow and the territorial review of AssetReview promise. *)
EXTENDS AssetReview

(* Every variable has its type, and the advisory lock is held exactly by the   *)
(* request that is past the lock in its review.                                *)
TypeOK ==
    /\ store \in [Assets -> Rows \cup {Absent, Deleted}]
    /\ tx \in [Workers -> {Idle} \cup Requests]
    /\ approvalLock \in Workers \cup {NoWorker}
    /\ shown \in [Assets -> Lists]
    /\ requests \in 0..MaxRequests
    /\ clean \subseteq Assets
    /\ confirmed \in [Assets -> Lists]
    /\ \A w \in Workers : approvalLock = w <=> tx[w].pc \in Reviewing

(* The conflicts a review can list: evaluate_conflicts sees the pair, and      *)
(* ST_DWithin lets it through at the smallest search radius a review may use.  *)
(* A pair beyond it on the ellipsoid but not on the sphere is never compared.  *)
Reportable(a, b) ==
    /\ Conflicting(a, b)
    /\ Geodesic[a.place][b.place] <= Larger(Larger(a.radius, b.radius), LedDistance)

(* Two approved processes that conflict never slip past each other: while      *)
(* neither was touched since its last review (update_media_asset,              *)
(* media_assets.py:785-795), one of the two reviews had the other in the list  *)
(* its client confirmed, with the very distance and minimum that hold now.     *)
(* Approvals run concurrently and read committed rows only: the advisory lock  *)
(* taken before the flush and the analysis is what makes it true.              *)
ReviewedPairs ==
    \A x, y \in clean :
        x # y /\ Reportable(store[x], store[y]) =>
            \/ ConflictEntry(store[x], y, store[y]) \in confirmed[x]
            \/ ConflictEntry(store[y], x, store[x]) \in confirmed[y]

(* A process leaves "novos processos" only to be analysed or removed, and      *)
(* never enters it again (ensure_direct_status_change_allowed,                 *)
(* media_assets.py:59-71), although the status each request checked may no     *)
(* longer be the row's when it writes.                                         *)
NewOnlyAnalysed ==
    [][\A x \in Live :
        /\ store[x].status = "new" =>
              store'[x] = Deleted \/ store'[x].status \in {"new", "analysis"}
        /\ store[x].status # "new" => store'[x] = Deleted \/ store'[x].status # "new"]_vars

(* It is a start-analysis, at its end, that takes a process that remains out   *)
(* of "novos processos" ("Inicie a análise do novo processo antes de modificar *)
(* seu status", media_assets.py:59-66, 599-606): an edit that read the process *)
(* as new leaves the status out of its UPDATE, and one that did not cannot     *)
(* meet it new.                                                                *)
NewLeftByStart ==
    [][\A x \in Live :
        store[x].status = "new" /\ store'[x] # Deleted /\ store'[x].status # "new" =>
            \E w \in Workers : /\ tx[w] # Idle /\ tx'[w] = Idle
                              /\ tx[w].kind = "start" /\ tx[w].asset = x]_vars

(* A removed process stays removed: a request that read it earlier cannot      *)
(* bring it back (an UPDATE of no row aborts, media_assets.py:828).            *)
RemovedForGood == [][\A x \in Assets : store[x] = Deleted => store'[x] = Deleted]_vars

(* Start-analysis commits only over a process that is still new                *)
(* (media_assets.py:599-617).  Not true in general: two start-analyses may     *)
(* overlap, the process go on to be approved, and the second then put it back  *)
(* to be analysed.  LoneStarts of AssetReviewProofs is what it takes.          *)
StartOnlyFromNew ==
    [][\A w \in Workers :
        CommitPlain(w) /\ tx[w].kind = "start" => store[tx[w].asset].status = "new"]_vars

(* An approval leaves the process where its conflicts with every approved,     *)
(* untouched process are in the list the client confirmed                      *)
(* (media_assets.py:787-794; tests/test_workflow.py, "approval with conflicts  *)
(* requires confirmation of current conflict list").  True of requests served  *)
(* one at a time; a concurrent request can move the process before the flush,  *)
(* and the analysis still looks at the place read first.                       *)
ApprovalConfirmsCurrent ==
    [][\A w \in Workers :
        LET x == tx[w].asset IN
        CommitReview(w) /\ store[x].status # "approved" /\ store'[x].status = "approved" =>
            \A y \in clean \ {x} :
                Reportable(store'[x], store[y]) =>
                    ConflictEntry(store'[x], y, store[y]) \in tx[w].sent]_vars

(* No process is irregular without its justification (media_assets.py:766-770, *)
(* application_forms.py:114-118).  True of requests served one at a time; two  *)
(* requests that each read a consistent row can write one column each.         *)
IrregularJustified ==
    \A x \in Live : store[x].status = "irregular" => store[x].justified

(* Every request that began is answered: no two of them wait for each other's  *)
(* advisory and row locks (lock first, flush second: media_assets.py:785-786,  *)
(* application_forms.py:147-148), and a refused review frees the lock.         *)
Answered == \A w \in Workers : tx[w] # Idle ~> tx[w] = Idle
=============================================================================
