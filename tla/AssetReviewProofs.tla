-------------------------- MODULE AssetReviewProofs --------------------------
(* Proofs about AssetReview, for every number of processes, workers and        *)
(* requests, every table to start from and every geography.                    *)
EXTENDS AssetReviewProperties, TLAPS

-----------------------------------------------------------------------------
(* The inductive invariant. *)

(* Nothing is clean but an approved row. *)
CleanApproved ==
    \A x \in clean : store[x] \in Rows /\ store[x].status = "approved"

(* A request in review is about to approve, and holds the row it flushed. *)
ReviewApproves ==
    \A w \in Workers :
        /\ tx[w].pc \in {"lock"} \cup Reviewing => tx[w].want.status = "approved"
        /\ tx[w].pc \in {"measure", "compare", "commit"} /\ tx[w].dirty =>
              store[tx[w].asset] \in Rows

(* Between the two statements of the analysis no clean radius can outgrow the  *)
(* search radius: becoming clean takes the lock.                               *)
SearchCovers ==
    \A w \in Workers : tx[w].pc = "compare" =>
        /\ tx[w].want.radius <= tx[w].search
        /\ LedDistance <= tx[w].search
        /\ \A y \in clean \ {tx[w].asset} : store[y].radius <= tx[w].search

(* An accepted review found every clean process it may conflict with, and its  *)
(* client confirmed what it found.                                             *)
FoundCovers ==
    \A w \in Workers : tx[w].pc = "commit" =>
        /\ tx[w].found = {} \/ tx[w].sent = tx[w].found
        /\ \A y \in clean \ {tx[w].asset} :
              Reportable(tx[w].want, store[y]) =>
                  ConflictEntry(tx[w].want, y, store[y]) \in tx[w].found

PairInv == CleanApproved /\ ReviewApproves /\ SearchCovers /\ FoundCovers /\ ReviewedPairs

-----------------------------------------------------------------------------
(* Type correctness. *)

(* The row an UPDATE leaves is a row. *)
LEMMA MergedRow ==
    ASSUME NEW t \in Requests, store[t.asset] \in Rows
    PROVE  Merged(t) \in Rows
BY DEF Merged, Column, Requests, Rows, Places

(* evaluate_conflicts lists conflict entries of processes. *)
LEMMA AnalysisList ==
    ASSUME NEW t \in Requests
    PROVE  Analysis(t) \in Lists
<1>1. \A y \in Live : ConflictEntry(t.want, y, store[y]) \in Entries
  <2> TAKE y \in Live
  <2>1. y \in Assets /\ store[y] \in Rows /\ t.want \in Rows
    BY DEF Live, Requests
  <2>2. RequiredDistance(t.want, store[y]) \in Nat
    BY <2>1, RadiiAssumption DEF RequiredDistance, Larger, Rows
  <2>3. Haversine[t.want.place][store[y].place] \in Nat
    BY <2>1, HaversineAssumption DEF Rows
  <2> QED BY <2>1, <2>2, <2>3 DEF ConflictEntry, Entries, Rows
<1> QED BY <1>1 DEF Analysis, EvaluateConflicts, Lists

(* Ending a transaction keeps the request table and the lock in step. *)
LEMMA EndType ==
    ASSUME TypeOK, NEW w \in Workers, End(w)
    PROVE  /\ tx' \in [Workers -> {Idle} \cup Requests]
           /\ approvalLock' \in Workers \cup {NoWorker}
           /\ \A v \in Workers : approvalLock' = v <=> tx'[v].pc \in Reviewing
BY NoWorkerAssumption DEF TypeOK, End, Idle, Reviewing

(* So does a step of a review that does not end it. *)
LEMMA AdvanceType ==
    ASSUME TypeOK, NEW w \in Workers, NEW t \in Requests, tx[w] \in Requests,
           tx[w].pc \in Reviewing, t.pc \in Reviewing, Advance(w, t), UNCHANGED approvalLock
    PROVE  /\ tx' \in [Workers -> {Idle} \cup Requests]
           /\ \A v \in Workers : approvalLock' = v <=> tx'[v].pc \in Reviewing
BY DEF TypeOK, Advance

(* And so does the admission of a request. *)
LEMMA AdmitType ==
    ASSUME TypeOK, NEW w \in Workers, NEW kind \in Kinds, NEW x \in Live, NEW want \in Rows,
           NEW review \in BOOLEAN, NEW dirty \in BOOLEAN, NEW sent \in Lists,
           Admit(w, NewRequest(kind, x, want, review, dirty, sent))
    PROVE  TypeOK'
<1> DEFINE t == NewRequest(kind, x, want, review, dirty, sent)
<1>1. t \in Requests
  BY DEF NewRequest, Requests, Live, Lists
<1>2. t.pc \in {"lock", "write"}
  BY DEF NewRequest
<1>3. tx' \in [Workers -> {Idle} \cup Requests]
  BY <1>1 DEF Admit, TypeOK
<1>4. \A v \in Workers : approvalLock' = v <=> tx'[v].pc \in Reviewing
  BY <1>2 DEF Admit, TypeOK, Idle, Reviewing
<1>5. requests' \in 0..MaxRequests
  BY RequestsAssumption DEF Admit, Count, TypeOK
<1> QED BY <1>3, <1>4, <1>5 DEF Admit, TypeOK, history

LEMMA TypeInit == Init => TypeOK
<1> SUFFICES ASSUME Init PROVE TypeOK
  OBVIOUS
<1>1. store \in [Assets -> Rows \cup {Absent, Deleted}]
  BY InitialRowsAssumption DEF Init
<1>2. \A w \in Workers : ~(approvalLock = w) /\ tx[w].pc \notin Reviewing
  BY NoWorkerAssumption DEF Init, Idle, Reviewing
<1> QED BY <1>1, <1>2, RequestsAssumption DEF Init, TypeOK, Lists

LEMMA TypeStep == TypeOK /\ [Next]_vars => TypeOK'
<1> SUFFICES ASSUME TypeOK, [Next]_vars PROVE TypeOK'
  OBVIOUS
<1>1. CASE UNCHANGED vars
  BY <1>1 DEF vars, history, TypeOK
<1>2. ASSUME NEW w \in Workers, BeginUpdate(w) PROVE TypeOK'
  <2>1. PICK x \in Live, want \in Rows :
            \E review \in ReviewChoices(store[x], want), dirty \in BOOLEAN, sent \in {{}, shown[x]} :
                Admit(w, NewRequest("update", x, want, review, dirty, sent))
    BY <1>2 DEF BeginUpdate
  <2>2. PICK review \in ReviewChoices(store[x], want), dirty \in BOOLEAN, sent \in {{}, shown[x]} :
            Admit(w, NewRequest("update", x, want, review, dirty, sent))
    BY <2>1
  <2>3. review \in BOOLEAN
    BY DEF ReviewChoices
  <2>4. sent \in Lists
    BY DEF TypeOK, Lists, Live
  <2> QED BY <2>2, <2>3, <2>4, AdmitType DEF Kinds
<1>3. ASSUME NEW w \in Workers, BeginStart(w) PROVE TypeOK'
  <2>1. PICK x \in Live : Admit(w, NewRequest("start", x, [store[x] EXCEPT !.status = "analysis"],
                                              FALSE, TRUE, {}))
    BY <1>3 DEF BeginStart
  <2>2. [store[x] EXCEPT !.status = "analysis"] \in Rows /\ {} \in Lists
    BY ExaminationAssumption DEF Live, Rows, Statuses, Lists
  <2> QED BY <2>1, <2>2, AdmitType DEF Kinds
<1>4. ASSUME NEW w \in Workers, BeginForm(w) PROVE TypeOK'
  <2>1. PICK x \in Live, type \in Types, place \in Places :
            Admit(w, NewRequest("form", x, [store[x] EXCEPT !.type = type, !.place = place],
                                FALSE, TRUE, {}))
    BY <1>4 DEF BeginForm
  <2>2. [store[x] EXCEPT !.type = type, !.place = place] \in Rows /\ {} \in Lists
    BY DEF Live, Rows, Lists
  <2> QED BY <2>1, <2>2, AdmitType DEF Kinds
<1>5. ASSUME NEW w \in Workers, BeginDelete(w) PROVE TypeOK'
  <2>1. PICK x \in Live : Admit(w, NewRequest("delete", x, store[x], FALSE, TRUE, {}))
    BY <1>5 DEF BeginDelete
  <2>2. store[x] \in Rows /\ {} \in Lists
    BY DEF Live, Lists
  <2> QED BY <2>1, <2>2, AdmitType DEF Kinds
<1>6. ASSUME NEW w \in Workers, Create(w) PROVE TypeOK'
  BY <1>6, RequestsAssumption DEF Create, Count, history, TypeOK
<1>7. ASSUME NEW w \in Workers, Reassess(w) PROVE TypeOK'
  <2>1. PICK x \in Live, radius \in Radii :
            /\ Count
            /\ store' = [store EXCEPT ![x] = [store[x] EXCEPT !.radius = radius]]
            /\ Unreviewed(x, [store[x] EXCEPT !.radius = radius])
            /\ UNCHANGED <<tx, approvalLock, shown>>
    BY <1>7 DEF Reassess
  <2>2. [store[x] EXCEPT !.radius = radius] \in Rows
    BY DEF Live, Rows
  <2> QED BY <2>1, <2>2, RequestsAssumption DEF Count, Unreviewed, TypeOK, Live
<1>8. ASSUME NEW w \in Workers, CommitPlain(w) PROVE TypeOK'
  <2>1. tx[w] \in Requests /\ store[tx[w].asset] \in Rows
    BY <1>8 DEF CommitPlain, TypeOK, Idle
  <2>2. Merged(tx[w]) \in Rows
    BY <2>1, MergedRow
  <2> QED BY <1>8, <2>1, <2>2, EndType DEF CommitPlain, Unreviewed, TypeOK, Requests
<1>9. ASSUME NEW w \in Workers, CommitDelete(w) PROVE TypeOK'
  BY <1>9, EndType DEF CommitDelete, TypeOK
<1>10. ASSUME NEW w \in Workers, Lock(w) PROVE TypeOK'
  <2>1. tx[w] \in Requests
    BY <1>10 DEF Lock, TypeOK, Idle
  <2>2. [tx[w] EXCEPT !.pc = "flush"] \in Requests
    BY <2>1 DEF Requests, Reviewing
  <2>3. \A v \in Workers : approvalLock' = v <=> tx'[v].pc \in Reviewing
    BY <1>10, <2>1, NoWorkerAssumption DEF Lock, Advance, TypeOK, Requests, Reviewing
  <2> QED BY <1>10, <2>2, <2>3 DEF Lock, Advance, TypeOK, history
<1>11. ASSUME NEW w \in Workers, Flush(w) PROVE TypeOK'
  <2>1. tx[w] \in Requests /\ tx[w].pc \in Reviewing
    BY <1>11 DEF Flush, TypeOK, Idle, Reviewing
  <2>2. [tx[w] EXCEPT !.pc = "measure"] \in Requests
        /\ [tx[w] EXCEPT !.pc = "measure"].pc \in Reviewing
    BY <2>1 DEF Requests, Reviewing
  <2> QED BY <1>11, <2>1, <2>2, AdvanceType DEF Flush, TypeOK, history
<1>12. ASSUME NEW w \in Workers, Measure(w) PROVE TypeOK'
  <2>1. tx[w] \in Requests /\ tx[w].pc \in Reviewing
    BY <1>12 DEF Measure, TypeOK, Idle, Reviewing
  <2> DEFINE inForce == {Visible(tx[w])[y].radius :
                            y \in {z \in Live : Visible(tx[w])[z].status # "irregular"}}
  <2>2. PICK largest \in LargestOf(inForce) :
            Advance(w, [tx[w] EXCEPT !.pc = "compare",
                          !.search = Larger(Larger(tx[w].want.radius, largest), LedDistance)])
    BY <1>12 DEF Measure
  <2>3. inForce \subseteq Nat
    <3> SUFFICES ASSUME NEW y \in Live PROVE Visible(tx[w])[y].radius \in Nat
      OBVIOUS
    <3>1. store[y] \in Rows /\ (y = tx[w].asset => Merged(tx[w]) \in Rows)
      BY <2>1, MergedRow DEF Live
    <3> QED BY <3>1, RadiiAssumption DEF Visible, Rows
  <2>4. largest \in Nat
    BY <2>3 DEF LargestOf
  <2>5. Larger(Larger(tx[w].want.radius, largest), LedDistance) \in Nat
    BY <2>1, <2>4, RadiiAssumption DEF Larger, Requests, Rows
  <2> DEFINE t == [tx[w] EXCEPT !.pc = "compare",
                     !.search = Larger(Larger(tx[w].want.radius, largest), LedDistance)]
  <2>6. t \in Requests /\ t.pc \in Reviewing
    BY <2>1, <2>5 DEF Requests, Reviewing
  <2> QED BY <1>12, <2>1, <2>2, <2>6, AdvanceType DEF Measure, TypeOK, history
<1>13. ASSUME NEW w \in Workers, Accept(w) PROVE TypeOK'
  <2>1. tx[w] \in Requests /\ tx[w].pc \in Reviewing
    BY <1>13 DEF Accept, TypeOK, Idle, Reviewing
  <2>2. Analysis(tx[w]) \in Lists
    BY <2>1, AnalysisList
  <2> DEFINE t == [tx[w] EXCEPT !.pc = "commit", !.found = Analysis(tx[w])]
  <2>3. t \in Requests /\ t.pc \in Reviewing
    BY <2>1, <2>2 DEF Requests, Reviewing
  <2> QED BY <1>13, <2>1, <2>3, AdvanceType DEF Accept, TypeOK, history
<1>14. ASSUME NEW w \in Workers, Reject(w) PROVE TypeOK'
  <2>1. tx[w] \in Requests
    BY <1>14 DEF Reject, TypeOK, Idle
  <2>2. Analysis(tx[w]) \in Lists
    BY <2>1, AnalysisList
  <2> QED BY <1>14, <2>2, EndType DEF Reject, TypeOK, history
<1>15. ASSUME NEW w \in Workers, CommitReview(w) PROVE TypeOK'
  <2> DEFINE row == IF tx[w].dirty THEN Merged(tx[w]) ELSE store[tx[w].asset]
  <2>1. tx[w] \in Requests /\ store[tx[w].asset] \in Rows
    BY <1>15 DEF CommitReview, TypeOK, Idle
  <2>2. row \in Rows
    BY <2>1, MergedRow
  <2>3. store' = [store EXCEPT ![tx[w].asset] = row] /\ End(w) /\ UNCHANGED <<shown, requests>>
    BY <1>15 DEF CommitReview
  <2>4. tx[w].sent \in Lists /\ {} \in Lists /\ tx[w].asset \in Assets
    BY <2>1 DEF Requests, Lists
  <2>5. clean' \subseteq Assets /\ confirmed' \in [Assets -> Lists]
    BY <1>15, <2>4 DEF CommitReview, Unreviewed, TypeOK
  <2> QED BY <2>2, <2>3, <2>5, EndType DEF TypeOK
<1>16. ASSUME NEW w \in Workers, NothingToCommit(w) PROVE TypeOK'
  BY <1>16, EndType DEF NothingToCommit, TypeOK, history
<1>17. ASSUME NEW w \in Workers, Gone(w) PROVE TypeOK'
  BY <1>17, EndType DEF Gone, TypeOK, history
<1>18. ASSUME NEW w \in Workers, Abort(w) PROVE TypeOK'
  BY <1>18, EndType DEF Abort, TypeOK, history
<1> QED BY <1>1, <1>2, <1>3, <1>4, <1>5, <1>6, <1>7, <1>8, <1>9, <1>10, <1>11, <1>12, <1>13,
           <1>14, <1>15, <1>16, <1>17, <1>18 DEF Next, Begin, Serve

(* Every variable always has its type, and the advisory lock is always held by *)
(* exactly the request in review (media_assets.py:785, application_forms.py:147). *)
THEOREM TypeCorrect == Spec => []TypeOK
BY TypeInit, TypeStep, PTL DEF Spec

-----------------------------------------------------------------------------
(* The pairs of approved processes. *)

(* A conflict has no direction: whichever process is the candidate of          *)
(* evaluate_conflicts (rules.py:63-96), the other one conflicts with it, and   *)
(* the prefilter treats both alike.                                            *)
THEOREM ConflictsAreMutual ==
    ASSUME NEW a \in Rows, NEW b \in Rows
    PROVE  /\ RequiredDistance(a, b) = RequiredDistance(b, a)
           /\ Conflicting(a, b) <=> Conflicting(b, a)
           /\ Reportable(a, b) <=> Reportable(b, a)
<1>1. a.place \in Places /\ b.place \in Places /\ a.radius \in Nat /\ b.radius \in Nat
  BY RadiiAssumption DEF Rows
<1>2. Larger(a.radius, b.radius) = Larger(b.radius, a.radius)
  BY <1>1 DEF Larger
<1>3. RequiredDistance(a, b) = RequiredDistance(b, a)
  <2>1. a.type = b.type <=> b.type = a.type
    OBVIOUS
  <2>2. {a.type, b.type} = {b.type, a.type}
    OBVIOUS
  <2> QED BY <2>1, <2>2, <1>2 DEF RequiredDistance
<1>4. /\ Haversine[a.place][b.place] = Haversine[b.place][a.place]
      /\ Geodesic[a.place][b.place] = Geodesic[b.place][a.place]
  BY <1>1, HaversineAssumption, GeodesicAssumption
<1> QED BY <1>2, <1>3, <1>4 DEF Conflicting, Reportable

(* The analysis of a pair reads nothing but the territory of its two rows. *)
LEMMA TerritoryDecides ==
    ASSUME NEW a, NEW b, NEW c, NEW d, NEW y, SameTerritory(a, c), SameTerritory(b, d)
    PROVE  /\ Reportable(a, b) <=> Reportable(c, d)
           /\ ConflictEntry(a, y, b) = ConflictEntry(c, y, d)
<1>1. RequiredDistance(a, b) = RequiredDistance(c, d)
  BY DEF SameTerritory, RequiredDistance
<1> QED BY <1>1 DEF SameTerritory, Reportable, Conflicting, ConflictEntry

(* A step that makes nothing clean and leaves the territory of what stays      *)
(* clean, while no request enters the last two stages of a review.             *)
LEMMA QuietStep ==
    ASSUME CleanApproved, SearchCovers, FoundCovers, ReviewedPairs,
           clean' \subseteq clean, confirmed' = confirmed,
           \A y \in clean' : store'[y] \in Rows /\ SameTerritory(store'[y], store[y]),
           \A v \in Workers : tx'[v].pc \in {"compare", "commit"} => tx'[v] = tx[v]
    PROVE  CleanApproved' /\ SearchCovers' /\ FoundCovers' /\ ReviewedPairs'
<1>1. CleanApproved'
  BY DEF CleanApproved, SameTerritory
<1>2. SearchCovers'
  BY DEF SearchCovers, SameTerritory
<1>3. FoundCovers'
  <2> SUFFICES ASSUME NEW v \in Workers, tx'[v].pc = "commit"
               PROVE  /\ tx'[v].found = {} \/ tx'[v].sent = tx'[v].found
                      /\ \A y \in clean' \ {tx'[v].asset} :
                            Reportable(tx'[v].want, store'[y]) =>
                                ConflictEntry(tx'[v].want, y, store'[y]) \in tx'[v].found
    BY DEF FoundCovers, Reportable, Conflicting, ConflictEntry, RequiredDistance
  <2>1. tx'[v] = tx[v]
    OBVIOUS
  <2>2. ASSUME NEW y \in clean' \ {tx[v].asset}, Reportable(tx[v].want, store'[y])
        PROVE  ConflictEntry(tx[v].want, y, store'[y]) \in tx[v].found
    <3>1. SameTerritory(tx[v].want, tx[v].want)
      BY DEF SameTerritory
    <3>2. /\ Reportable(tx[v].want, store'[y]) <=> Reportable(tx[v].want, store[y])
          /\ ConflictEntry(tx[v].want, y, store'[y]) = ConflictEntry(tx[v].want, y, store[y])
      BY <3>1, TerritoryDecides
    <3> QED BY <2>1, <2>2, <3>2 DEF FoundCovers
  <2> QED BY <2>1, <2>2 DEF FoundCovers
<1>4. ReviewedPairs'
  <2> SUFFICES ASSUME NEW x \in clean', NEW y \in clean', x # y,
                      Reportable(store'[x], store'[y])
               PROVE  \/ ConflictEntry(store'[x], y, store'[y]) \in confirmed'[x]
                      \/ ConflictEntry(store'[y], x, store'[x]) \in confirmed'[y]
    BY DEF ReviewedPairs, Reportable, Conflicting, ConflictEntry, RequiredDistance
  <2>1. /\ Reportable(store'[x], store'[y]) <=> Reportable(store[x], store[y])
        /\ ConflictEntry(store'[x], y, store'[y]) = ConflictEntry(store[x], y, store[y])
    BY TerritoryDecides
  <2>2. ConflictEntry(store'[y], x, store'[x]) = ConflictEntry(store[y], x, store[x])
    BY TerritoryDecides
  <2> QED BY <2>1, <2>2 DEF ReviewedPairs
<1> QED BY <1>1, <1>2, <1>3, <1>4

(* A step that starts no review and removes no row a request holds. *)
LEMMA HoldersKept ==
    ASSUME TypeOK, ReviewApproves,
           \A v \in Workers : tx'[v] = tx[v] \/ tx'[v].pc \notin {"lock"} \cup Reviewing,
           \A x \in Assets : store[x] \in Rows /\ ~RowFree(x) => store'[x] \in Rows
    PROVE  ReviewApproves'
<1> SUFFICES ASSUME NEW v \in Workers, tx'[v].pc \in {"lock"} \cup Reviewing
             PROVE  /\ tx'[v].want.status = "approved"
                    /\ tx'[v].pc \in {"measure", "compare", "commit"} /\ tx'[v].dirty =>
                          store'[tx'[v].asset] \in Rows
  BY DEF ReviewApproves, Reviewing
<1>1. tx'[v] = tx[v]
  OBVIOUS
<1>2. tx[v] \in Requests
  BY <1>1 DEF TypeOK, Idle, Reviewing
<1>3. ASSUME tx[v].pc \in {"measure", "compare", "commit"}, tx[v].dirty
      PROVE  store'[tx[v].asset] \in Rows
  BY <1>2, <1>3 DEF ReviewApproves, RowFree, HoldsRow, Requests
<1> QED BY <1>1, <1>3 DEF ReviewApproves

(* The end of a transaction that touches no row. *)
LEMMA EndKeepsPairs ==
    ASSUME TypeOK, PairInv, NEW w \in Workers, End(w), UNCHANGED <<store, history>>
    PROVE  PairInv'
<1>1. \A v \in Workers : tx'[v] = tx[v] \/ tx'[v] = Idle
  BY DEF End, TypeOK
<1>2. \A y \in clean' : store'[y] \in Rows /\ SameTerritory(store'[y], store[y])
  BY DEF PairInv, CleanApproved, SameTerritory, history
<1>3. ReviewApproves'
  BY <1>1, HoldersKept DEF PairInv, Idle, Reviewing, history
<1> QED BY <1>1, <1>2, <1>3, QuietStep DEF PairInv, Idle, history

(* The admission of a request whose review, if it asks one, approves. *)
LEMMA AdmitKeepsPairs ==
    ASSUME TypeOK, PairInv, NEW w \in Workers, NEW kind, NEW x, NEW want,
           NEW review \in BOOLEAN, NEW dirty, NEW sent,
           review => want.status = "approved",
           Admit(w, NewRequest(kind, x, want, review, dirty, sent))
    PROVE  PairInv'
<1> DEFINE t == NewRequest(kind, x, want, review, dirty, sent)
<1>1. /\ t.pc \in {"lock", "write"}
      /\ t.pc = "lock" => t.want.status = "approved"
  BY DEF NewRequest
<1>2. tx' = [tx EXCEPT ![w] = t] /\ UNCHANGED <<store, history>>
  BY DEF Admit
<1>3. \A v \in Workers : tx'[v] = tx[v] \/ tx'[v] = t
  BY <1>2 DEF TypeOK
<1>4. \A y \in clean' : store'[y] \in Rows /\ SameTerritory(store'[y], store[y])
  BY <1>2 DEF PairInv, CleanApproved, SameTerritory, history
<1>5. ReviewApproves'
  BY <1>1, <1>2, <1>3 DEF PairInv, ReviewApproves, Reviewing
<1> QED BY <1>1, <1>2, <1>3, <1>4, <1>5, QuietStep DEF PairInv, history

(* A write without review, over a row nobody holds. *)
LEMMA UnreviewedKeepsPairs ==
    ASSUME TypeOK, PairInv, NEW x \in Assets, NEW row \in Rows, RowFree(x),
           store[x] \in Rows, store' = [store EXCEPT ![x] = row], Unreviewed(x, row),
           \A v \in Workers : tx'[v] = tx[v] \/ tx'[v] = Idle
    PROVE  PairInv'
<1>1. \A y \in Assets : store'[y] = IF y = x THEN row ELSE store[y]
  BY DEF TypeOK
<1>2. \A y \in clean' : y \in clean /\ y \in Assets /\ (y = x => SameTerritory(row, store[x]))
  BY DEF Unreviewed, TypeOK
<1>3. \A y \in clean' : store'[y] \in Rows /\ SameTerritory(store'[y], store[y])
  BY <1>1, <1>2 DEF PairInv, CleanApproved, SameTerritory
<1>4. ReviewApproves'
  BY <1>1, HoldersKept DEF PairInv, Idle, Reviewing
<1>5. clean' \subseteq clean /\ confirmed' = confirmed
  BY DEF Unreviewed
<1> QED BY <1>3, <1>4, <1>5, QuietStep DEF PairInv, Idle

LEMMA PairInit == Init => PairInv
BY DEF Init, PairInv, CleanApproved, ReviewApproves, SearchCovers, FoundCovers, ReviewedPairs,
       Idle, Reviewing

(* One statement of a review: only w's record changes. *)
LEMMA AdvanceKeepsPairs ==
    ASSUME TypeOK, PairInv, NEW w \in Workers, NEW t \in Requests,
           Advance(w, t), UNCHANGED <<store, history>>,
           t.want.status = "approved",
           t.pc \in {"measure", "compare", "commit"} /\ t.dirty => store[t.asset] \in Rows,
           t.pc = "compare" =>
               /\ t.want.radius <= t.search
               /\ LedDistance <= t.search
               /\ \A y \in clean \ {t.asset} : store[y].radius <= t.search,
           t.pc = "commit" =>
               /\ t.found = {} \/ t.sent = t.found
               /\ \A y \in clean \ {t.asset} :
                     Reportable(t.want, store[y]) => ConflictEntry(t.want, y, store[y]) \in t.found
    PROVE  PairInv'
<1>1. \A v \in Workers : tx'[v] = IF v = w THEN t ELSE tx[v]
  BY DEF Advance, TypeOK
<1>2. store' = store /\ clean' = clean /\ confirmed' = confirmed
  BY DEF history
<1>3. CleanApproved' /\ ReviewApproves' /\ SearchCovers'
  BY <1>1, <1>2 DEF PairInv, CleanApproved, ReviewApproves, SearchCovers
<1>4. FoundCovers'
  BY <1>1, <1>2 DEF PairInv, FoundCovers
<1>5. ReviewedPairs'
  BY <1>2 DEF PairInv, ReviewedPairs
<1> QED BY <1>3, <1>4, <1>5 DEF PairInv

(* The first statement of the analysis sees every clean radius. *)
LEMMA MeasureCovers ==
    ASSUME TypeOK, PairInv, NEW t \in Requests,
           NEW largest \in LargestOf({Visible(t)[y].radius :
                             y \in {z \in Live : Visible(t)[z].status # "irregular"}})
    PROVE  /\ largest \in Nat
           /\ \A y \in clean \ {t.asset} : store[y].radius <= largest
<1> DEFINE inForce == {Visible(t)[y].radius : y \in {z \in Live : Visible(t)[z].status # "irregular"}}
<1>1. inForce \subseteq Nat
  <2> SUFFICES ASSUME NEW y \in Live PROVE Visible(t)[y].radius \in Nat
    OBVIOUS
  <2>1. store[y] \in Rows /\ (y = t.asset => Merged(t) \in Rows)
    BY MergedRow DEF Live
  <2> QED BY <2>1, RadiiAssumption DEF Visible, Rows
<1>2. largest \in Nat /\ \A n \in inForce : n <= largest
  BY <1>1 DEF LargestOf
<1>3. \A y \in clean \ {t.asset} : store[y].radius \in inForce
  <2> SUFFICES ASSUME NEW y \in clean, y # t.asset PROVE store[y].radius \in inForce
    OBVIOUS
  <2>1. y \in Live /\ store[y].status = "approved"
    BY DEF PairInv, CleanApproved, Live, TypeOK
  <2>2. Visible(t)[y] = store[y]
    BY <2>1 DEF Visible
  <2> QED BY <2>1, <2>2
<1> QED BY <1>2, <1>3

(* The second statement lists every clean process the candidate conflicts with *)
(* if the search radius covers it.                                             *)
LEMMA CompareCovers ==
    ASSUME TypeOK, PairInv, NEW w \in Workers, tx[w] \in Requests, tx[w].pc = "compare",
           NEW y \in clean \ {tx[w].asset}, Reportable(tx[w].want, store[y])
    PROVE  ConflictEntry(tx[w].want, y, store[y]) \in Analysis(tx[w])
<1> DEFINE t == tx[w]
<1>1. y \in Live /\ store[y] \in Rows /\ store[y].status = "approved" /\ t.want \in Rows
  BY DEF PairInv, CleanApproved, Live, TypeOK, Requests
<1>2. t.search \in Nat /\ t.want.radius <= t.search /\ LedDistance <= t.search
      /\ store[y].radius <= t.search
  BY DEF PairInv, SearchCovers, Requests
<1>3. Geodesic[t.want.place][store[y].place] \in Nat
  BY <1>1, GeodesicAssumption DEF Rows
<1>4. Larger(Larger(t.want.radius, store[y].radius), LedDistance) <= t.search
  BY <1>2 DEF Larger
<1>5. Larger(Larger(t.want.radius, store[y].radius), LedDistance) \in Nat
  BY <1>1, RadiiAssumption DEF Larger, Rows
<1>6. Geodesic[t.want.place][store[y].place] <= t.search
  BY <1>2, <1>3, <1>4, <1>5 DEF Reportable
<1>7. Conflicting(t.want, store[y])
  BY DEF Reportable
<1> QED BY <1>1, <1>6, <1>7 DEF Analysis, EvaluateConflicts

(* A review that commits the row it analysed covers its process. *)
LEMMA ReviewCovers ==
    ASSUME TypeOK, PairInv, NEW w \in Workers, tx[w] \in Requests, tx[w].pc = "commit",
           NEW row \in Rows, SameTerritory(row, tx[w].want),
           store' = [store EXCEPT ![tx[w].asset] = row],
           clean' = clean \cup {tx[w].asset},
           confirmed' = [confirmed EXCEPT ![tx[w].asset] =
                           IF tx[w].found = {} THEN {} ELSE tx[w].sent],
           \A v \in Workers : v # w => tx'[v] = tx[v],
           tx'[w] = Idle
    PROVE  PairInv'
<1> DEFINE t == tx[w]
           x == tx[w].asset
<1>1. x \in Assets /\ t.want \in Rows
  BY DEF Requests
<1>2. \A y \in Assets : store'[y] = IF y = x THEN row ELSE store[y]
  BY <1>1 DEF TypeOK
<1>3. \A y \in Assets : y # x => confirmed'[y] = confirmed[y]
  BY DEF TypeOK
<1>4. confirmed'[x] = t.found
  BY <1>1 DEF TypeOK, PairInv, FoundCovers
<1>5. \A v \in Workers : tx'[v].pc \notin Reviewing
  BY DEF TypeOK, Idle, Reviewing
<1>6. CleanApproved'
  <2>1. row.status = "approved"
    BY DEF SameTerritory, PairInv, ReviewApproves, Reviewing
  <2>2. \A y \in clean' : y \in Assets /\ (y = x \/ y \in clean)
    BY <1>1 DEF TypeOK
  <2>3. \A y \in clean : store[y] \in Rows /\ store[y].status = "approved"
    BY DEF PairInv, CleanApproved
  <2>4. \A y \in clean' : store'[y] \in Rows /\ store'[y].status = "approved"
    BY <1>2, <2>1, <2>2, <2>3
  <2> QED BY <2>4 DEF CleanApproved
<1>7. ReviewApproves'
  BY <1>5, HoldersKept DEF PairInv, ReviewApproves, Reviewing, Idle
<1>8. SearchCovers' /\ FoundCovers'
  BY <1>5 DEF SearchCovers, FoundCovers, Reviewing
<1>9. ASSUME NEW y \in clean, y # x, Reportable(row, store[y])
      PROVE  ConflictEntry(row, y, store[y]) \in t.found
  <2>1. SameTerritory(store[y], store[y])
    BY DEF SameTerritory
  <2>2. /\ Reportable(row, store[y]) <=> Reportable(t.want, store[y])
        /\ ConflictEntry(row, y, store[y]) = ConflictEntry(t.want, y, store[y])
    BY <2>1, TerritoryDecides
  <2> QED BY <1>9, <2>2 DEF PairInv, FoundCovers
<1>10. ReviewedPairs'
  <2> SUFFICES ASSUME NEW y \in clean', NEW z \in clean', y # z,
                      Reportable(store'[y], store'[z])
               PROVE  \/ ConflictEntry(store'[y], z, store'[z]) \in confirmed'[y]
                      \/ ConflictEntry(store'[z], y, store'[y]) \in confirmed'[z]
    BY DEF ReviewedPairs
  <2>1. y \in Assets /\ z \in Assets
    BY <1>1 DEF TypeOK
  <2>2. CASE y = x
    <3>1. z \in clean /\ store'[z] = store[z] /\ store'[y] = row
      BY <2>1, <2>2, <1>2
    <3> QED BY <3>1, <2>2, <1>4, <1>9
  <2>3. CASE z = x
    <3>1. y \in clean /\ store'[y] = store[y] /\ store'[z] = row
      BY <2>1, <2>3, <1>2
    <3>2. store[y] \in Rows
      BY <3>1 DEF PairInv, CleanApproved
    <3>3. Reportable(row, store[y])
      BY <3>1, <3>2, ConflictsAreMutual
    <3> QED BY <3>1, <3>3, <2>3, <1>4, <1>9
  <2>4. CASE y # x /\ z # x
    <3>1. y \in clean /\ z \in clean /\ store'[y] = store[y] /\ store'[z] = store[z]
      BY <2>1, <2>4, <1>2
    <3> QED BY <3>1, <2>1, <2>4, <1>3 DEF PairInv, ReviewedPairs
  <2> QED BY <2>2, <2>3, <2>4
<1> QED BY <1>6, <1>7, <1>8, <1>10 DEF PairInv

LEMMA PairStep == TypeOK /\ TypeOK' /\ PairInv /\ [Next]_vars => PairInv'
<1> SUFFICES ASSUME TypeOK, TypeOK', PairInv, [Next]_vars PROVE PairInv'
  OBVIOUS
<1>1. CASE UNCHANGED vars
  BY <1>1 DEF vars, history, PairInv, CleanApproved, ReviewApproves, SearchCovers, FoundCovers,
              ReviewedPairs
<1>2. ASSUME NEW w \in Workers, BeginUpdate(w) PROVE PairInv'
  <2>1. PICK x \in Live, want \in Rows :
            \E review \in ReviewChoices(store[x], want), dirty \in BOOLEAN, sent \in {{}, shown[x]} :
                Admit(w, NewRequest("update", x, want, review, dirty, sent))
    BY <1>2 DEF BeginUpdate
  <2>2. PICK review \in ReviewChoices(store[x], want), dirty \in BOOLEAN, sent \in {{}, shown[x]} :
            Admit(w, NewRequest("update", x, want, review, dirty, sent))
    BY <2>1
  <2>3. review \in BOOLEAN /\ (review => want.status = "approved")
    BY DEF ReviewChoices
  <2> QED BY <2>2, <2>3, AdmitKeepsPairs
<1>3. ASSUME NEW w \in Workers, BeginStart(w) PROVE PairInv'
  BY <1>3, AdmitKeepsPairs DEF BeginStart
<1>4. ASSUME NEW w \in Workers, BeginForm(w) PROVE PairInv'
  BY <1>4, AdmitKeepsPairs DEF BeginForm
<1>5. ASSUME NEW w \in Workers, BeginDelete(w) PROVE PairInv'
  BY <1>5, AdmitKeepsPairs DEF BeginDelete
<1>6. ASSUME NEW w \in Workers, Create(w) PROVE PairInv'
  <2>1. PICK x \in Assets, row \in Rows :
            /\ store[x] = Absent
            /\ store' = [store EXCEPT ![x] = row]
            /\ UNCHANGED <<tx, history>>
    BY <1>6 DEF Create
  <2>2. \A y \in Assets : store'[y] = IF y = x THEN row ELSE store[y]
    BY <2>1 DEF TypeOK
  <2>3. x \notin clean
    BY <2>1, NoRowAssumption DEF PairInv, CleanApproved
  <2>4. \A y \in clean' : store'[y] \in Rows /\ SameTerritory(store'[y], store[y])
    BY <2>1, <2>2, <2>3 DEF history, PairInv, CleanApproved, SameTerritory, TypeOK
  <2>5. ReviewApproves'
    BY <2>1, <2>2, HoldersKept DEF PairInv
  <2> QED BY <2>1, <2>4, <2>5, QuietStep DEF PairInv, history
<1>7. ASSUME NEW w \in Workers, Reassess(w) PROVE PairInv'
  <2>1. PICK x \in Live, radius \in Radii :
            /\ RowFree(x)
            /\ store' = [store EXCEPT ![x] = [store[x] EXCEPT !.radius = radius]]
            /\ Unreviewed(x, [store[x] EXCEPT !.radius = radius])
            /\ UNCHANGED tx
    BY <1>7 DEF Reassess
  <2>2. [store[x] EXCEPT !.radius = radius] \in Rows /\ store[x] \in Rows /\ x \in Assets
    BY DEF Live, Rows
  <2> QED BY <2>1, <2>2, UnreviewedKeepsPairs
<1>8. ASSUME NEW w \in Workers, CommitPlain(w) PROVE PairInv'
  <2>1. tx[w] \in Requests /\ store[tx[w].asset] \in Rows
    BY <1>8 DEF CommitPlain, TypeOK, Idle
  <2>2. Merged(tx[w]) \in Rows /\ tx[w].asset \in Assets
    BY <2>1, MergedRow DEF Requests
  <2>3. \A v \in Workers : tx'[v] = tx[v] \/ tx'[v] = Idle
    BY <1>8 DEF CommitPlain, End, TypeOK
  <2> QED BY <1>8, <2>1, <2>2, <2>3, UnreviewedKeepsPairs DEF CommitPlain
<1>9. ASSUME NEW w \in Workers, CommitDelete(w) PROVE PairInv'
  <2>1. tx[w] \in Requests /\ tx[w].asset \in Assets
    BY <1>9 DEF CommitDelete, TypeOK, Idle, Requests
  <2>2. \A v \in Workers : tx'[v] = tx[v] \/ tx'[v] = Idle
    BY <1>9 DEF CommitDelete, End, TypeOK
  <2>3. \A y \in Assets : store'[y] = IF y = tx[w].asset THEN Deleted ELSE store[y]
    BY <1>9, <2>1 DEF CommitDelete, TypeOK
  <2>4. clean' = clean \ {tx[w].asset} /\ confirmed' = confirmed /\ RowFree(tx[w].asset)
    BY <1>9 DEF CommitDelete
  <2>5. \A y \in clean' : store'[y] \in Rows /\ SameTerritory(store'[y], store[y])
    BY <2>3, <2>4 DEF PairInv, CleanApproved, SameTerritory, TypeOK
  <2>6. ReviewApproves'
    BY <2>2, <2>3, <2>4, HoldersKept DEF PairInv, Idle, Reviewing
  <2> QED BY <2>2, <2>4, <2>5, <2>6, QuietStep DEF PairInv, Idle
<1>10. ASSUME NEW w \in Workers, Lock(w) PROVE PairInv'
  <2>1. tx[w] \in Requests
    BY <1>10 DEF Lock, TypeOK, Idle
  <2> DEFINE t == [tx[w] EXCEPT !.pc = "flush"]
  <2>2. t \in Requests /\ t.pc = "flush" /\ t.want = tx[w].want
    BY <2>1 DEF Requests, Reviewing
  <2>3. t.want.status = "approved"
    BY <1>10, <2>2 DEF Lock, PairInv, ReviewApproves
  <2>4. Advance(w, t) /\ UNCHANGED <<store, history>>
    BY <1>10 DEF Lock
  <2> HIDE DEF t
  <2> QED BY <2>2, <2>3, <2>4, AdvanceKeepsPairs
<1>11. ASSUME NEW w \in Workers, Flush(w) PROVE PairInv'
  <2>1. tx[w] \in Requests
    BY <1>11 DEF Flush, TypeOK, Idle
  <2> DEFINE t == [tx[w] EXCEPT !.pc = "measure"]
  <2>2. /\ t \in Requests /\ t.pc = "measure" /\ t.want = tx[w].want
        /\ t.asset = tx[w].asset /\ t.dirty = tx[w].dirty
    BY <2>1 DEF Requests, Reviewing
  <2>3. t.want.status = "approved"
    BY <1>11, <2>2 DEF Flush, PairInv, ReviewApproves, Reviewing
  <2>4. Advance(w, t) /\ UNCHANGED <<store, history>> /\ (t.dirty => store[t.asset] \in Rows)
    BY <1>11, <2>2 DEF Flush
  <2> HIDE DEF t
  <2> QED BY <2>2, <2>3, <2>4, AdvanceKeepsPairs
<1>12. ASSUME NEW w \in Workers, Measure(w) PROVE PairInv'
  <2>1. tx[w] \in Requests /\ tx[w].pc = "measure"
    BY <1>12 DEF Measure, TypeOK, Idle
  <2>2. PICK largest \in LargestOf({Visible(tx[w])[y].radius :
                               y \in {z \in Live : Visible(tx[w])[z].status # "irregular"}}) :
            Advance(w, [tx[w] EXCEPT !.pc = "compare",
                          !.search = Larger(Larger(tx[w].want.radius, largest), LedDistance)])
    BY <1>12 DEF Measure
  <2> DEFINE search == Larger(Larger(tx[w].want.radius, largest), LedDistance)
             t == [tx[w] EXCEPT !.pc = "compare", !.search = search]
  <2>3. largest \in Nat /\ \A y \in clean \ {tx[w].asset} : store[y].radius <= largest
    BY <2>1, MeasureCovers
  <2>4. tx[w].want.radius \in Nat /\ LedDistance \in Nat
    BY <2>1, RadiiAssumption DEF Requests, Rows
  <2>5. search \in Nat /\ tx[w].want.radius <= search /\ LedDistance <= search /\ largest <= search
    BY <2>3, <2>4 DEF Larger
  <2>6. \A y \in clean \ {tx[w].asset} : store[y].radius \in Nat
    BY RadiiAssumption DEF PairInv, CleanApproved, Rows
  <2> HIDE DEF search
  <2>7. \A y \in clean \ {tx[w].asset} : store[y].radius <= search
    BY <2>3, <2>5, <2>6
  <2>8. /\ t \in Requests /\ t.pc = "compare" /\ t.want = tx[w].want /\ t.asset = tx[w].asset
        /\ t.dirty = tx[w].dirty /\ t.search = search
    BY <2>1, <2>5 DEF Requests, Reviewing
  <2>9. t.want.status = "approved" /\ (t.dirty => store[t.asset] \in Rows)
    BY <2>1, <2>8 DEF PairInv, ReviewApproves, Reviewing
  <2>10. Advance(w, t) /\ UNCHANGED <<store, history>>
    BY <1>12, <2>2 DEF Measure, search
  <2> HIDE DEF t
  <2> QED BY <2>5, <2>7, <2>8, <2>9, <2>10, AdvanceKeepsPairs
<1>13. ASSUME NEW w \in Workers, Accept(w) PROVE PairInv'
  <2>1. tx[w] \in Requests /\ tx[w].pc = "compare"
    BY <1>13 DEF Accept, TypeOK, Idle
  <2>2. Analysis(tx[w]) \in Lists
    BY <2>1, AnalysisList
  <2> DEFINE t == [tx[w] EXCEPT !.pc = "commit", !.found = Analysis(tx[w])]
  <2>3. /\ t \in Requests /\ t.pc = "commit" /\ t.want = tx[w].want /\ t.asset = tx[w].asset
        /\ t.dirty = tx[w].dirty /\ t.found = Analysis(tx[w]) /\ t.sent = tx[w].sent
    BY <2>1, <2>2 DEF Requests, Reviewing
  <2>4. t.want.status = "approved" /\ (t.dirty => store[t.asset] \in Rows)
    BY <2>1, <2>3 DEF PairInv, ReviewApproves, Reviewing
  <2>5. t.found = {} \/ t.sent = t.found
    BY <1>13, <2>3 DEF Accept, Accepted, ConflictSnapshotsMatch
  <2>6. \A y \in clean \ {t.asset} :
            Reportable(t.want, store[y]) => ConflictEntry(t.want, y, store[y]) \in t.found
    BY <2>1, <2>3, CompareCovers
  <2>7. Advance(w, t) /\ UNCHANGED <<store, history>>
    BY <1>13 DEF Accept
  <2> HIDE DEF t
  <2> QED BY <2>3, <2>4, <2>5, <2>6, <2>7, AdvanceKeepsPairs
<1>14. ASSUME NEW w \in Workers, Reject(w) PROVE PairInv'
  BY <1>14, EndKeepsPairs DEF Reject
<1>15. ASSUME NEW w \in Workers, CommitReview(w) PROVE PairInv'
  <2> DEFINE row == IF tx[w].dirty THEN Merged(tx[w]) ELSE store[tx[w].asset]
  <2>1. /\ tx[w] \in Requests /\ store[tx[w].asset] \in Rows /\ tx[w].pc = "commit"
        /\ tx[w].asset \in Assets
    BY <1>15 DEF CommitReview, TypeOK, Idle, Requests
  <2>2. row \in Rows
    BY <2>1, MergedRow
  <2>3. /\ store' = [store EXCEPT ![tx[w].asset] = row]
        /\ tx' = [tx EXCEPT ![w] = Idle]
    BY <1>15 DEF CommitReview, End
  <2>4. /\ \A v \in Workers : v # w => tx'[v] = tx[v]
        /\ tx'[w] = Idle
    BY <2>3 DEF TypeOK
  <2>5. CASE SameTerritory(row, tx[w].want)
    <3>1. /\ clean' = clean \cup {tx[w].asset}
          /\ confirmed' = [confirmed EXCEPT ![tx[w].asset] =
                             IF tx[w].found = {} THEN {} ELSE tx[w].sent]
      BY <1>15, <2>5 DEF CommitReview
    <3> HIDE DEF row
    <3> QED BY <2>1, <2>2, <2>3, <2>4, <2>5, <3>1, ReviewCovers
  <2>6. CASE ~SameTerritory(row, tx[w].want)
    <3>1. Unreviewed(tx[w].asset, row)
      BY <1>15, <2>6 DEF CommitReview
    <3>2. \A y \in Assets : store'[y] = IF y = tx[w].asset THEN row ELSE store[y]
      BY <2>1, <2>3 DEF TypeOK
    <3> HIDE DEF row
    <3>3. \A y \in clean' : store'[y] \in Rows /\ SameTerritory(store'[y], store[y])
      BY <2>2, <3>1, <3>2 DEF Unreviewed, PairInv, CleanApproved, SameTerritory, TypeOK
    <3>4. ReviewApproves'
      BY <2>2, <2>4, <3>2, HoldersKept DEF PairInv, Idle, Reviewing
    <3>5. clean' \subseteq clean /\ confirmed' = confirmed
      BY <3>1 DEF Unreviewed
    <3> QED BY <2>4, <3>3, <3>4, <3>5, QuietStep DEF PairInv, Idle
  <2> QED BY <2>5, <2>6
<1>16. ASSUME NEW w \in Workers, NothingToCommit(w) PROVE PairInv'
  BY <1>16, EndKeepsPairs DEF NothingToCommit
<1>17. ASSUME NEW w \in Workers, Gone(w) PROVE PairInv'
  BY <1>17, EndKeepsPairs DEF Gone
<1>18. ASSUME NEW w \in Workers, Abort(w) PROVE PairInv'
  BY <1>18, EndKeepsPairs DEF Abort
<1> QED BY <1>1, <1>2, <1>3, <1>4, <1>5, <1>6, <1>7, <1>8, <1>9, <1>10, <1>11, <1>12, <1>13,
           <1>14, <1>15, <1>16, <1>17, <1>18 DEF Next, Begin, Serve

(* Two approved processes that conflict and were not touched since their last  *)
(* reviews are in one another's confirmed list, whatever ran concurrently      *)
(* (media_assets.py:785-795).                                                  *)
THEOREM PairsAlwaysReviewed == Spec => []ReviewedPairs
<1>1. Spec => [](TypeOK /\ PairInv)
  BY TypeInit, TypeStep, PairInit, PairStep, PTL DEF Spec
<1>2. PairInv => ReviewedPairs
  BY DEF PairInv
<1> QED BY <1>1, <1>2, PTL

-----------------------------------------------------------------------------
(* The statuses, which a request checks on the row it read and writes over     *)
(* whatever the row has become.                                                *)

(* What a request in flight knows of the status it read: its process exists or *)
(* was removed; what it writes is what StatusChangeAllowed and start-analysis  *)
(* let through; and a process that was not new has not become new.             *)
StatusRead ==
    \A w \in Workers : tx[w] # Idle =>
        LET t == tx[w] IN
        /\ store[t.asset] \in Rows \cup {Deleted}
        /\ t.want.status = "new" => t.seen.status = "new"
        /\ t.seen.status = "new" => t.want.status \in {"new", "analysis"}
        /\ t.seen.status # "new" /\ store[t.asset] \in Rows => store[t.asset].status # "new"

(* What a step may make of a row: NewOnlyAnalysed and RemovedForGood for one   *)
(* process, and no process becomes unregistered.                               *)
StepKeepsStatus(before, after) ==
    /\ before \in Rows =>
         \/ after = Deleted
         \/ after \in Rows /\ before.status = "new" /\ after.status \in {"new", "analysis"}
         \/ after \in Rows /\ before.status # "new" /\ after.status # "new"
    /\ before = Deleted => after = Deleted

LEMMA SameRowKeepsStatus ==
    ASSUME NEW before, NEW after, before \in Rows => after \in Rows /\ before.status = after.status,
           before \notin Rows => after = before
    PROVE  StepKeepsStatus(before, after)
BY NoRowAssumption DEF StepKeepsStatus

(* An UPDATE keeps it, whatever was committed since the row was read.          *)
LEMMA MergedKeepsStatus ==
    ASSUME TypeOK, StatusRead, NEW w \in Workers, tx[w] # Idle, store[tx[w].asset] \in Rows
    PROVE  StepKeepsStatus(store[tx[w].asset], Merged(tx[w]))
<1> DEFINE t == tx[w]
           now == store[t.asset]
<1>1. t \in Requests /\ Merged(t) \in Rows
  BY MergedRow DEF TypeOK
<1>2. Merged(t).status = Column(t.seen.status, t.want.status, now.status)
  BY DEF Merged
<1>3. /\ t.want.status = "new" => t.seen.status = "new"
      /\ t.seen.status = "new" => t.want.status \in {"new", "analysis"}
      /\ t.seen.status # "new" => now.status # "new"
  BY DEF StatusRead
<1>4. \/ now.status = "new" /\ Merged(t).status \in {"new", "analysis"}
      \/ now.status # "new" /\ Merged(t).status # "new"
  BY <1>2, <1>3 DEF Column
<1> QED BY <1>1, <1>4, NoRowAssumption DEF StepKeepsStatus

(* The steps that write the table. *)
LEMMA WritesKeepStatus ==
    ASSUME TypeOK, StatusRead, NEW w \in Workers, NEW x \in Assets,
           CommitPlain(w) \/ CommitDelete(w) \/ CommitReview(w)
    PROVE  StepKeepsStatus(store[x], store'[x])
<1>1. tx[w] # Idle /\ tx[w] \in Requests /\ tx[w].asset \in Assets
  BY DEF CommitPlain, CommitDelete, CommitReview, Idle, TypeOK, Requests
<1>2. CASE x # tx[w].asset
  <2>1. store'[x] = store[x]
    BY <1>2 DEF CommitPlain, CommitDelete, CommitReview, TypeOK
  <2> QED BY <2>1, SameRowKeepsStatus
<1>3. CASE x = tx[w].asset /\ CommitDelete(w)
  <2>1. store'[x] = Deleted
    BY <1>3 DEF CommitDelete, TypeOK
  <2> QED BY <2>1 DEF StepKeepsStatus
<1>4. CASE x = tx[w].asset /\ CommitPlain(w)
  <2>1. store'[x] = Merged(tx[w]) /\ store[x] \in Rows
    BY <1>4 DEF CommitPlain, TypeOK
  <2> QED BY <1>1, <1>4, <2>1, MergedKeepsStatus
<1>5. CASE x = tx[w].asset /\ CommitReview(w)
  <2>1. store[x] \in Rows /\ store'[x] = IF tx[w].dirty THEN Merged(tx[w]) ELSE store[x]
    BY <1>5 DEF CommitReview, TypeOK
  <2> QED BY <1>1, <1>5, <2>1, MergedKeepsStatus, SameRowKeepsStatus
<1> QED BY <1>2, <1>3, <1>4, <1>5

LEMMA NextKeepsStatus ==
    ASSUME TypeOK, StatusRead, [Next]_vars, NEW x \in Assets
    PROVE  StepKeepsStatus(store[x], store'[x]) /\ (store'[x] = Absent => store[x] = Absent)
<1> DEFINE Goal == StepKeepsStatus(store[x], store'[x]) /\ (store'[x] = Absent => store[x] = Absent)
<1>1. ASSUME store'[x] = store[x] PROVE Goal
  BY <1>1, SameRowKeepsStatus
<1>2. ASSUME NEW w \in Workers, CommitPlain(w) \/ CommitDelete(w) \/ CommitReview(w)
      PROVE  Goal
  <2>1. tx[w] # Idle /\ tx[w] \in Requests /\ tx[w].asset \in Assets
    BY <1>2 DEF CommitPlain, CommitDelete, CommitReview, Idle, TypeOK, Requests
  <2>2. store'[x] = Absent => store[x] = Absent
    <3>1. CommitPlain(w) \/ CommitReview(w) =>
            store'[tx[w].asset] \in Rows
      BY <2>1, MergedRow DEF CommitPlain, CommitReview, TypeOK
    <3>2. CommitDelete(w) => store'[tx[w].asset] = Deleted
      BY <2>1 DEF CommitDelete, TypeOK
    <3>3. x # tx[w].asset => store'[x] = store[x]
      BY <1>2 DEF CommitPlain, CommitDelete, CommitReview, TypeOK
    <3> QED BY <1>2, <3>1, <3>2, <3>3, NoRowAssumption
  <2> QED BY <1>2, <2>2, WritesKeepStatus
<1>3. ASSUME NEW w \in Workers, Create(w) PROVE Goal
  <2>1. PICK y \in Assets, row \in Rows :
          store[y] = Absent /\ store' = [store EXCEPT ![y] = row]
    BY <1>3 DEF Create
  <2>2. store'[x] = IF x = y THEN row ELSE store[x]
    BY <2>1 DEF TypeOK
  <2>3. CASE x = y
    BY <2>1, <2>2, <2>3, NoRowAssumption DEF StepKeepsStatus
  <2> QED BY <1>1, <2>2, <2>3
<1>4. ASSUME NEW w \in Workers, Reassess(w) PROVE Goal
  <2>1. PICK y \in Live, radius \in Radii :
          store' = [store EXCEPT ![y] = [store[y] EXCEPT !.radius = radius]]
    BY <1>4 DEF Reassess
  <2>2. y \in Assets /\ store[y] \in Rows
    BY DEF Live
  <2>3. store'[x] = IF x = y THEN [store[x] EXCEPT !.radius = radius] ELSE store[x]
    BY <2>1, <2>2 DEF TypeOK
  <2>4. CASE x = y
    <3>1. store'[x] \in Rows /\ store'[x].status = store[x].status
      BY <2>2, <2>3, <2>4 DEF Rows
    <3> QED BY <2>2, <2>4, <3>1, SameRowKeepsStatus, NoRowAssumption
  <2> QED BY <1>1, <2>3, <2>4
<1>5. ASSUME NEW w \in Workers,
             \/ BeginUpdate(w) \/ BeginStart(w) \/ BeginForm(w) \/ BeginDelete(w)
             \/ Lock(w) \/ Flush(w) \/ Measure(w) \/ Accept(w) \/ Reject(w)
             \/ NothingToCommit(w) \/ Gone(w) \/ Abort(w)
      PROVE  store' = store
  BY <1>5 DEF BeginUpdate, BeginStart, BeginForm, BeginDelete, Admit, Lock, Flush, Measure,
              Accept, Reject, NothingToCommit, Gone, Abort
<1>6. CASE UNCHANGED vars
  BY <1>1, <1>6 DEF vars
<1> QED BY <1>1, <1>2, <1>3, <1>4, <1>5, <1>6 DEF Next, Begin, Serve

-----------------------------------------------------------------------------
LEMMA StatusInit == Init => StatusRead
BY DEF Init, StatusRead

(* A request that just began read the row it will write over.                  *)
LEMMA AdmitReads ==
    ASSUME TypeOK, NEW w \in Workers, NEW kind \in Kinds, NEW x \in Live, NEW want \in Rows,
           NEW review \in BOOLEAN, NEW dirty \in BOOLEAN, NEW sent \in Lists,
           Admit(w, NewRequest(kind, x, want, review, dirty, sent))
    PROVE  /\ \A v \in Workers : v # w => tx'[v] = tx[v]
           /\ tx'[w].asset = x /\ tx'[w].seen = store[x] /\ tx'[w].want = want
           /\ tx[w] = Idle /\ tx'[w].dirty = dirty /\ tx'[w].kind = kind
           /\ store' = store
BY DEF Admit, NewRequest, TypeOK

(* A step of a review that does not end it only moves on. *)
LEMMA AdvanceKeepsRequest ==
    ASSUME TypeOK, NEW w \in Workers, tx[w] \in Requests, NEW pc, NEW search, NEW found,
           Advance(w, [tx[w] EXCEPT !.pc = pc, !.search = search, !.found = found])
    PROVE  /\ tx'[w].asset = tx[w].asset /\ tx'[w].seen = tx[w].seen /\ tx'[w].want = tx[w].want
           /\ tx'[w].kind = tx[w].kind /\ tx'[w].dirty = tx[w].dirty
           /\ tx[w] # Idle
<1> DEFINE t == [tx[w] EXCEPT !.pc = pc, !.search = search, !.found = found]
<1>1. /\ t.asset = tx[w].asset /\ t.seen = tx[w].seen /\ t.want = tx[w].want
      /\ t.kind = tx[w].kind /\ t.dirty = tx[w].dirty
  BY DEF Requests
<1>2. tx'[w] = t
  BY DEF Advance, TypeOK
<1>3. tx[w] # Idle
  BY DEF Idle, Requests, Reviewing
<1> QED BY <1>1, <1>2, <1>3

LEMMA ReviewKeepsRequest ==
    ASSUME TypeOK, NEW w \in Workers, Lock(w) \/ Flush(w) \/ Measure(w) \/ Accept(w)
    PROVE  /\ tx'[w].asset = tx[w].asset /\ tx'[w].seen = tx[w].seen /\ tx'[w].want = tx[w].want
           /\ tx'[w].kind = tx[w].kind /\ tx'[w].dirty = tx[w].dirty
           /\ tx[w] # Idle
<1> DEFINE t == tx[w]
<1>1. t \in Requests
  <2>1. t.pc \in {"lock", "flush", "measure", "compare"}
    BY DEF Lock, Flush, Measure, Accept
  <2> QED BY <2>1 DEF Idle, TypeOK
<1>2. \A pc : [t EXCEPT !.pc = pc] = [t EXCEPT !.pc = pc, !.search = t.search, !.found = t.found]
  BY <1>1 DEF Requests
<1>3. \A pc, search : [t EXCEPT !.pc = pc, !.search = search] =
                       [t EXCEPT !.pc = pc, !.search = search, !.found = t.found]
  BY <1>1 DEF Requests
<1>4. \A pc, found : [t EXCEPT !.pc = pc, !.found = found] =
                      [t EXCEPT !.pc = pc, !.search = t.search, !.found = found]
  BY <1>1 DEF Requests
<1>5. CASE Lock(w)
  <2>1. Advance(w, [t EXCEPT !.pc = "flush", !.search = t.search, !.found = t.found])
    BY <1>2, <1>5 DEF Lock
  <2> QED BY <1>1, <2>1, AdvanceKeepsRequest
<1>6. CASE Flush(w)
  <2>1. Advance(w, [t EXCEPT !.pc = "measure", !.search = t.search, !.found = t.found])
    BY <1>2, <1>6 DEF Flush
  <2> QED BY <1>1, <2>1, AdvanceKeepsRequest
<1>7. CASE Measure(w)
  <2>1. PICK largest :
          Advance(w, [t EXCEPT !.pc = "compare",
                               !.search = Larger(Larger(t.want.radius, largest), LedDistance)])
    BY <1>7 DEF Measure
  <2> DEFINE search == Larger(Larger(t.want.radius, largest), LedDistance)
  <2>2. Advance(w, [t EXCEPT !.pc = "compare", !.search = search, !.found = t.found])
    BY <1>3, <2>1
  <2> QED BY <1>1, <2>2, AdvanceKeepsRequest
<1>8. CASE Accept(w)
  <2>1. Advance(w, [t EXCEPT !.pc = "commit", !.search = t.search, !.found = Analysis(t)])
    BY <1>4, <1>8 DEF Accept
  <2> QED BY <1>1, <2>1, AdvanceKeepsRequest
<1> QED BY <1>5, <1>6, <1>7, <1>8

LEMMA StatusStep == TypeOK /\ StatusRead /\ [Next]_vars => StatusRead'
<1> SUFFICES ASSUME TypeOK, StatusRead, [Next]_vars PROVE StatusRead'
  OBVIOUS
<1> DEFINE Knows(t) ==
             /\ store'[t.asset] \in Rows \cup {Deleted}
             /\ t.want.status = "new" => t.seen.status = "new"
             /\ t.seen.status = "new" => t.want.status \in {"new", "analysis"}
             /\ t.seen.status # "new" /\ store'[t.asset] \in Rows => store'[t.asset].status # "new"
<1> SUFFICES ASSUME NEW v \in Workers, tx'[v] # Idle PROVE Knows(tx'[v])
  BY DEF StatusRead
<1>1. ASSUME tx[v] # Idle, tx'[v].asset = tx[v].asset, tx'[v].seen = tx[v].seen,
             tx'[v].want = tx[v].want
      PROVE  Knows(tx'[v])
  <2> DEFINE x == tx[v].asset
  <2>1. x \in Assets
    BY <1>1 DEF TypeOK, Requests
  <2>2. /\ store[x] \in Rows \cup {Deleted}
        /\ tx[v].seen.status # "new" /\ store[x] \in Rows => store[x].status # "new"
    BY <1>1 DEF StatusRead
  <2>3. StepKeepsStatus(store[x], store'[x])
    BY <2>1, NextKeepsStatus
  <2>4. /\ store'[x] \in Rows \cup {Deleted}
        /\ tx[v].seen.status # "new" /\ store'[x] \in Rows => store'[x].status # "new"
    BY <2>2, <2>3, NoRowAssumption DEF StepKeepsStatus
  <2> QED BY <1>1, <2>4 DEF StatusRead
<1>2. ASSUME NEW w \in Workers, NEW kind \in Kinds, NEW x \in Live, NEW want \in Rows,
             NEW review \in BOOLEAN, NEW dirty \in BOOLEAN, NEW sent \in Lists,
             Admit(w, NewRequest(kind, x, want, review, dirty, sent)),
             \/ want.status = store[x].status
             \/ store[x].status # "new" /\ want.status # "new"
             \/ store[x].status = "new" /\ want.status = "analysis"
      PROVE  Knows(tx'[v])
  <2>1. /\ \A u \in Workers : u # w => tx'[u] = tx[u]
        /\ tx'[w].asset = x /\ tx'[w].seen = store[x] /\ tx'[w].want = want
        /\ store' = store
    BY <1>2, AdmitReads
  <2>2. CASE v = w
    BY <1>2, <2>1, <2>2 DEF Live
  <2>3. CASE v # w
    BY <1>1, <2>1, <2>3
  <2> QED BY <2>2, <2>3
<1>3. ASSUME NEW w \in Workers, Begin(w) PROVE Knows(tx'[v])
  <2>1. ASSUME BeginUpdate(w) PROVE Knows(tx'[v])
    <3>1. PICK x \in Live, want \in Rows :
            \E review \in ReviewChoices(store[x], want), dirty \in BOOLEAN, sent \in {{}, shown[x]} :
              /\ StatusChangeAllowed(store[x].status, want.status)
              /\ Admit(w, NewRequest("update", x, want, review, dirty, sent))
      BY <2>1 DEF BeginUpdate
    <3>2. PICK review \in ReviewChoices(store[x], want), dirty \in BOOLEAN, sent \in {{}, shown[x]} :
              /\ StatusChangeAllowed(store[x].status, want.status)
              /\ Admit(w, NewRequest("update", x, want, review, dirty, sent))
      BY <3>1
    <3>3. want.status = store[x].status \/ (store[x].status # "new" /\ want.status # "new")
      BY <3>2 DEF StatusChangeAllowed
    <3>4. review \in BOOLEAN /\ sent \in Lists
      BY DEF ReviewChoices, TypeOK, Lists, Live
    <3> QED BY <1>2, <3>2, <3>3, <3>4 DEF Kinds
  <2>2. ASSUME BeginStart(w) PROVE Knows(tx'[v])
    <3>1. PICK x \in Live :
            /\ store[x].status = "new"
            /\ Admit(w, NewRequest("start", x, [store[x] EXCEPT !.status = "analysis"], FALSE, TRUE, {}))
      BY <2>2 DEF BeginStart
    <3> DEFINE want == [store[x] EXCEPT !.status = "analysis"]
    <3>2. want \in Rows /\ want.status = "analysis" /\ {} \in Lists
      BY ExaminationAssumption DEF Live, Rows, Statuses, Lists
    <3> QED BY <1>2, <3>1, <3>2 DEF Kinds
  <2>3. ASSUME BeginForm(w) PROVE Knows(tx'[v])
    <3>1. PICK x \in Live, type \in Types, place \in Places :
            Admit(w, NewRequest("form", x, [store[x] EXCEPT !.type = type, !.place = place],
                                FALSE, TRUE, {}))
      BY <2>3 DEF BeginForm
    <3> DEFINE want == [store[x] EXCEPT !.type = type, !.place = place]
    <3>2. want \in Rows /\ want.status = store[x].status /\ {} \in Lists
      BY DEF Live, Rows, Lists
    <3> QED BY <1>2, <3>1, <3>2 DEF Kinds
  <2>4. ASSUME BeginDelete(w) PROVE Knows(tx'[v])
    <3>1. PICK x \in Live : Admit(w, NewRequest("delete", x, store[x], FALSE, TRUE, {}))
      BY <2>4 DEF BeginDelete
    <3>2. store[x] \in Rows /\ {} \in Lists
      BY DEF Live, Lists
    <3> QED BY <1>2, <3>1, <3>2 DEF Kinds
  <2> QED BY <1>3, <2>1, <2>2, <2>3, <2>4 DEF Begin
<1>4. ASSUME NEW w \in Workers, Serve(w) \/ Abort(w) PROVE Knows(tx'[v])
  <2>1. CASE tx'[v] = tx[v]
    BY <1>1, <2>1
  <2>2. CASE v = w /\ (Lock(w) \/ Flush(w) \/ Measure(w) \/ Accept(w))
    BY <1>1, <2>2, ReviewKeepsRequest DEF Idle
  <2>3. ASSUME \/ CommitPlain(w) \/ CommitDelete(w) \/ Reject(w) \/ CommitReview(w)
               \/ NothingToCommit(w) \/ Gone(w) \/ Abort(w)
        PROVE  tx'[v] = tx[v] \/ tx'[v] = Idle
    BY <2>3 DEF CommitPlain, CommitDelete, Reject, CommitReview, NothingToCommit, Gone, Abort,
                End, TypeOK
  <2>4. ASSUME Create(w) \/ Reassess(w) PROVE tx'[v] = tx[v]
    BY <2>4 DEF Create, Reassess
  <2>5. ASSUME v # w, Lock(w) \/ Flush(w) \/ Measure(w) \/ Accept(w) PROVE tx'[v] = tx[v]
    BY <2>5 DEF Lock, Flush, Measure, Accept, Advance, TypeOK
  <2> QED BY <1>4, <2>1, <2>2, <2>3, <2>4, <2>5 DEF Serve
<1>5. CASE UNCHANGED vars
  BY <1>1, <1>5 DEF vars
<1> QED BY <1>3, <1>4, <1>5 DEF Next

LEMMA AlwaysStatusRead == Spec => [](TypeOK /\ StatusRead)
<1>1. TypeOK /\ StatusRead /\ [Next]_vars => (TypeOK /\ StatusRead)'
  BY TypeStep, StatusStep
<1> QED BY <1>1, TypeInit, StatusInit, PTL DEF Spec

(* A process leaves "novos processos" only to be analysed or removed, and      *)
(* never becomes new again, however requests overlap (media_assets.py:59-71).  *)
THEOREM StatusesRespected == Spec => NewOnlyAnalysed
<1>1. TypeOK /\ StatusRead /\ [Next]_vars =>
        \A x \in Live :
            /\ store[x].status = "new" =>
                  store'[x] = Deleted \/ store'[x].status \in {"new", "analysis"}
            /\ store[x].status # "new" => store'[x] = Deleted \/ store'[x].status # "new"
  BY NextKeepsStatus DEF StepKeepsStatus, Live
<1> QED BY <1>1, AlwaysStatusRead, PTL DEF Spec, NewOnlyAnalysed

(* A removed process stays removed: no request that read it earlier brings it  *)
(* back (media_assets.py:819, 834-858).                                        *)
THEOREM RemovedStayRemoved == Spec => RemovedForGood
<1>1. TypeOK /\ StatusRead /\ [Next]_vars =>
        \A x \in Assets : store[x] = Deleted => store'[x] = Deleted
  BY NextKeepsStatus DEF StepKeepsStatus
<1> QED BY <1>1, AlwaysStatusRead, PTL DEF Spec, RemovedForGood

-----------------------------------------------------------------------------
(* A row held from its reading on, as SELECT ... FOR UPDATE would hold it: no  *)
(* step but a request's last one writes the row it read.  The handlers take no *)
(* such lock; what they promise and overlapping requests break holds with it.  *)
RowsHeld ==
    \A w \in Workers : tx[w] # Idle /\ tx'[w] # Idle => store'[tx[w].asset] = store[tx[w].asset]

(* Then what a request checked holds of what it leaves. *)
HeldRead ==
    \A w \in Workers : tx[w] # Idle =>
        LET t == tx[w] IN
        /\ store[t.asset] = t.seen
        /\ JustificationGiven(t.want)

HeldInv == IrregularJustified /\ HeldRead

LEMMA HeldInit == Init => HeldInv
BY InitialRowsAssumption, NoRowAssumption
   DEF Init, HeldInv, IrregularJustified, HeldRead, Live, JustificationGiven

(* The UPDATE leaves the row the request meant. *)
LEMMA MergedIsWanted ==
    ASSUME NEW t \in Requests, store[t.asset] = t.seen
    PROVE  Merged(t) = t.want
<1>1. t.seen \in Rows /\ t.want \in Rows
  BY DEF Requests
<1>2. Merged(t) = [status |-> t.want.status, type |-> t.want.type,
                   place |-> [lat |-> t.want.place.lat, lon |-> t.want.place.lon],
                   radius |-> t.want.radius, justified |-> t.want.justified]
  BY DEF Merged, Column
<1>3. t.want.place = [lat |-> t.want.place.lat, lon |-> t.want.place.lon]
  BY <1>1 DEF Rows, Places
<1> QED BY <1>1, <1>2, <1>3 DEF Rows

(* A request that goes on is the one it was. *)
SameRequest(v) ==
    /\ tx[v] # Idle
    /\ tx'[v].asset = tx[v].asset /\ tx'[v].seen = tx[v].seen
    /\ tx'[v].want = tx[v].want /\ tx'[v].kind = tx[v].kind

LEMMA HeldReadKept ==
    ASSUME HeldRead, RowsHeld, \A v \in Workers : tx'[v] = Idle \/ SameRequest(v)
    PROVE  HeldRead'
<1> SUFFICES ASSUME NEW v \in Workers, tx'[v] # Idle
             PROVE  /\ store'[tx'[v].asset] = tx'[v].seen
                    /\ JustificationGiven(tx'[v].want)
  BY DEF HeldRead, JustificationGiven
<1>1. SameRequest(v)
  OBVIOUS
<1>2. store'[tx[v].asset] = store[tx[v].asset]
  BY <1>1 DEF RowsHeld, SameRequest
<1> QED BY <1>1, <1>2 DEF HeldRead, SameRequest

(* Which steps leave the other requests, and their own, what they were. *)
LEMMA OthersGoOn ==
    ASSUME TypeOK, NEW w \in Workers, Serve(w) \/ Abort(w)
    PROVE  \A v \in Workers : tx'[v] = Idle \/ SameRequest(v)
<1> SUFFICES ASSUME NEW v \in Workers PROVE tx'[v] = Idle \/ SameRequest(v)
  OBVIOUS
<1>1. ASSUME tx'[v] = tx[v] PROVE tx'[v] = Idle \/ SameRequest(v)
  BY <1>1 DEF SameRequest
<1>2. CASE Lock(w) \/ Flush(w) \/ Measure(w) \/ Accept(w)
  <2>1. v # w => tx'[v] = tx[v]
    BY <1>2 DEF Lock, Flush, Measure, Accept, Advance, TypeOK
  <2>2. v = w => SameRequest(v)
    BY <1>2, ReviewKeepsRequest DEF SameRequest
  <2> QED BY <1>1, <2>1, <2>2
<1>3. CASE \/ CommitPlain(w) \/ CommitDelete(w) \/ Reject(w) \/ CommitReview(w)
           \/ NothingToCommit(w) \/ Gone(w) \/ Abort(w)
  <2>1. tx'[v] = tx[v] \/ tx'[v] = Idle
    BY <1>3 DEF CommitPlain, CommitDelete, Reject, CommitReview, NothingToCommit, Gone, Abort,
                End, TypeOK
  <2> QED BY <1>1, <2>1
<1>4. CASE Create(w) \/ Reassess(w)
  BY <1>1, <1>4 DEF Create, Reassess
<1> QED BY <1>2, <1>3, <1>4 DEF Serve

LEMMA HeldBegin ==
    ASSUME TypeOK, HeldInv, NEW w \in Workers, Begin(w)
    PROVE  HeldInv'
<1> USE DEF HeldInv
<1>1. ASSUME NEW kind \in Kinds, NEW x \in Live, NEW want \in Rows,
             NEW review \in BOOLEAN, NEW dirty \in BOOLEAN, NEW sent \in Lists,
             Admit(w, NewRequest(kind, x, want, review, dirty, sent)),
             JustificationGiven(want)
      PROVE  HeldInv'
  <2>1. /\ \A v \in Workers : v # w => tx'[v] = tx[v]
        /\ tx'[w].asset = x /\ tx'[w].seen = store[x] /\ tx'[w].want = want /\ tx'[w].kind = kind
        /\ store' = store
    BY <1>1, AdmitReads
  <2>2. HeldRead'
    BY <1>1, <2>1 DEF HeldRead, JustificationGiven
  <2> QED BY <2>1, <2>2 DEF IrregularJustified, Live
<1>2. \A x \in Live : JustificationGiven(store[x]) /\ store[x] \in Rows
  BY DEF IrregularJustified, JustificationGiven, Live
<1>3. ASSUME BeginUpdate(w) PROVE HeldInv'
  <2>1. PICK x \in Live, want \in Rows :
          \E review \in ReviewChoices(store[x], want), dirty \in BOOLEAN, sent \in {{}, shown[x]} :
            /\ Justified(store[x], want)
            /\ Admit(w, NewRequest("update", x, want, review, dirty, sent))
    BY <1>3 DEF BeginUpdate
  <2>2. PICK review \in ReviewChoices(store[x], want), dirty \in BOOLEAN, sent \in {{}, shown[x]} :
            /\ Justified(store[x], want)
            /\ Admit(w, NewRequest("update", x, want, review, dirty, sent))
    BY <2>1
  <2>3. review \in BOOLEAN /\ sent \in Lists
    BY DEF ReviewChoices, TypeOK, Lists, Live
  <2> QED BY <1>1, <2>2, <2>3 DEF Kinds, Justified
<1>4. ASSUME BeginStart(w) PROVE HeldInv'
  <2>1. PICK x \in Live :
          /\ store[x].status = "new"
          /\ Admit(w, NewRequest("start", x, [store[x] EXCEPT !.status = "analysis"], FALSE, TRUE, {}))
    BY <1>4 DEF BeginStart
  <2> DEFINE want == [store[x] EXCEPT !.status = "analysis"]
  <2>2. want \in Rows /\ JustificationGiven(want) /\ {} \in Lists
    BY <1>2, ExaminationAssumption DEF Rows, Statuses, Lists, JustificationGiven
  <2> QED BY <1>1, <2>1, <2>2 DEF Kinds
<1>5. ASSUME BeginForm(w) PROVE HeldInv'
  <2>1. PICK x \in Live, type \in Types, place \in Places :
          Admit(w, NewRequest("form", x, [store[x] EXCEPT !.type = type, !.place = place],
                              FALSE, TRUE, {}))
    BY <1>5 DEF BeginForm
  <2> DEFINE want == [store[x] EXCEPT !.type = type, !.place = place]
  <2>2. want \in Rows /\ JustificationGiven(want) /\ {} \in Lists
    BY <1>2 DEF Rows, Lists, JustificationGiven
  <2> QED BY <1>1, <2>1, <2>2 DEF Kinds
<1>6. ASSUME BeginDelete(w) PROVE HeldInv'
  <2>1. PICK x \in Live : Admit(w, NewRequest("delete", x, store[x], FALSE, TRUE, {}))
    BY <1>6 DEF BeginDelete
  <2>2. store[x] \in Rows /\ JustificationGiven(store[x]) /\ {} \in Lists
    BY <1>2 DEF Lists
  <2> QED BY <1>1, <2>1, <2>2 DEF Kinds
<1> QED BY <1>3, <1>4, <1>5, <1>6 DEF Begin

LEMMA HeldStep ==
    ASSUME TypeOK, HeldInv, [Next]_vars, [RowsHeld]_vars
    PROVE  HeldInv'
<1> USE DEF HeldInv
<1>1. CASE UNCHANGED vars
  BY <1>1 DEF vars, HeldRead, IrregularJustified, Live, JustificationGiven
<1> SUFFICES ASSUME Next, RowsHeld PROVE HeldInv'
  BY <1>1
<1>2. \A x \in Live : JustificationGiven(store[x]) /\ store[x] \in Rows
  BY DEF IrregularJustified, JustificationGiven, Live
<1>3. ASSUME NEW w \in Workers, Serve(w) \/ Abort(w) PROVE HeldRead'
  BY <1>3, HeldReadKept, OthersGoOn
<1>4. ASSUME NEW w \in Workers, CommitPlain(w) \/ CommitReview(w) PROVE IrregularJustified'
  <2>1. PICK x : x = tx[w].asset
    OBVIOUS
  <2>2. tx[w] # Idle /\ tx[w] \in Requests /\ x \in Assets
    BY <1>4, <2>1 DEF CommitPlain, CommitReview, Idle, TypeOK, Requests
  <2>3. /\ store'[x] = tx[w].want \/ store'[x] = store[x]
        /\ \A y \in Assets : y # x => store'[y] = store[y]
    BY <1>4, <2>1, <2>2, MergedIsWanted DEF HeldRead, CommitPlain, CommitReview, TypeOK
  <2>4. JustificationGiven(tx[w].want)
    BY <2>2 DEF HeldRead
  <2> QED BY <2>2, <2>3, <2>4 DEF IrregularJustified, JustificationGiven, Live
<1>5. ASSUME NEW w \in Workers, CommitDelete(w) PROVE IrregularJustified'
  <2>1. \A y \in Assets : store'[y] = store[y] \/ store'[y] = Deleted
    BY <1>5 DEF CommitDelete, TypeOK
  <2> QED BY <2>1, NoRowAssumption DEF IrregularJustified, Live
<1>6. ASSUME NEW w \in Workers, Create(w) \/ Reassess(w) PROVE IrregularJustified'
  <2>1. ASSUME NEW y \in Assets, store'[y] \in Rows PROVE JustificationGiven(store'[y])
    <3>1. CASE store'[y] = store[y]
      BY <1>2, <2>1, <3>1 DEF Live
    <3>2. CASE Create(w) /\ store'[y] # store[y]
      BY <3>2 DEF Create, TypeOK, JustificationGiven
    <3>3. CASE Reassess(w) /\ store'[y] # store[y]
      <4>1. PICK radius \in Radii : y \in Live /\ store'[y] = [store[y] EXCEPT !.radius = radius]
        BY <3>3 DEF Reassess, TypeOK, Live
      <4> QED BY <1>2, <4>1 DEF Rows, JustificationGiven
    <3> QED BY <1>6, <3>1, <3>2, <3>3
  <2> QED BY <2>1 DEF IrregularJustified, Live, JustificationGiven
<1>7. ASSUME NEW w \in Workers,
             \/ Lock(w) \/ Flush(w) \/ Measure(w) \/ Accept(w)
             \/ Reject(w) \/ NothingToCommit(w) \/ Gone(w) \/ Abort(w)
      PROVE  IrregularJustified'
  <2>1. store' = store
    BY <1>7 DEF Lock, Flush, Measure, Accept, Reject, NothingToCommit, Gone, Abort
  <2> QED BY <2>1 DEF IrregularJustified, Live
<1>8. ASSUME NEW w \in Workers, Serve(w) \/ Abort(w) PROVE IrregularJustified'
  BY <1>4, <1>5, <1>6, <1>7, <1>8 DEF Serve
<1> QED BY <1>3, <1>8, HeldBegin DEF Next

LEMMA AlwaysHeld == Spec /\ [][RowsHeld]_vars => [](TypeOK /\ HeldInv)
<1>1. TypeOK /\ HeldInv /\ [Next]_vars /\ [RowsHeld]_vars => (TypeOK /\ HeldInv)'
  BY TypeStep, HeldStep
<1> QED BY <1>1, TypeInit, HeldInit, PTL DEF Spec

(* With rows held no process is ever irregular without its justification       *)
(* (media_assets.py:766-770): the column another request emptied is what two   *)
(* consistent readings miss.                                                   *)
THEOREM HeldRowsJustified == Spec /\ [][RowsHeld]_vars => []IrregularJustified
<1>1. HeldInv => IrregularJustified
  BY DEF HeldInv
<1> QED BY <1>1, AlwaysHeld, PTL

(* With rows held an approval leaves the process where its client confirmed    *)
(* every conflict (media_assets.py:787-794), however many reviews and other    *)
(* requests run: the row the analysis read is the row the UPDATE meets, and    *)
(* what the review found covers the clean processes.                           *)
THEOREM HeldApprovals == Spec /\ [][RowsHeld]_vars => ApprovalConfirmsCurrent
<1> DEFINE Confirms(w) ==
        LET x == tx[w].asset IN
        CommitReview(w) /\ store[x].status # "approved" /\ store'[x].status = "approved" =>
            \A y \in clean \ {x} :
                Reportable(store'[x], store[y]) =>
                    ConflictEntry(store'[x], y, store[y]) \in tx[w].sent
<1>1. ASSUME TypeOK, HeldInv, PairInv, NEW w \in Workers PROVE Confirms(w)
  <2> DEFINE x == tx[w].asset
  <2> SUFFICES ASSUME CommitReview(w), store[x].status # "approved", store'[x].status = "approved",
                      NEW y \in clean \ {x}, Reportable(store'[x], store[y])
               PROVE  ConflictEntry(store'[x], y, store[y]) \in tx[w].sent
    OBVIOUS
  <2>1. tx[w] # Idle /\ tx[w].pc = "commit" /\ tx[w] \in Requests /\ x \in Assets
    BY <1>1 DEF CommitReview, Idle, TypeOK, Requests
  <2>2. store'[x] = IF tx[w].dirty THEN Merged(tx[w]) ELSE store[x]
    BY <1>1, <2>1 DEF CommitReview, TypeOK
  <2>3. store'[x] = tx[w].want
    BY <1>1, <2>1, <2>2, MergedIsWanted DEF HeldInv, HeldRead, CommitReview
  <2>4. ConflictEntry(tx[w].want, y, store[y]) \in tx[w].found
    BY <1>1, <2>1, <2>3 DEF PairInv, FoundCovers
  <2>5. tx[w].sent = tx[w].found
    BY <1>1, <2>1, <2>4 DEF PairInv, FoundCovers
  <2> QED BY <2>3, <2>4, <2>5
<1>2. Spec => [](TypeOK /\ PairInv)
  BY TypeInit, TypeStep, PairInit, PairStep, PTL DEF Spec
<1>3. TypeOK /\ HeldInv /\ PairInv => \A w \in Workers : Confirms(w)
  BY <1>1
<1> QED BY <1>2, <1>3, AlwaysHeld, PTL DEF ApprovalConfirmsCurrent

(* One worker holds every row it reads. *)
LEMMA SerialHolds ==
    ASSUME \A v, w \in Workers : v = w
    PROVE  Spec => [][RowsHeld]_vars
<1>1. ASSUME TypeOK, [Next]_vars, NEW v \in Workers, tx[v] # Idle, tx'[v] # Idle
      PROVE  store' = store
  <2>1. CASE UNCHANGED vars
    BY <2>1 DEF vars
  <2>2. ASSUME Begin(v) \/ Create(v) \/ Reassess(v) PROVE FALSE
    BY <1>1, <2>2 DEF Begin, BeginUpdate, BeginStart, BeginForm, BeginDelete, Admit, Create, Reassess
  <2>3. CASE Lock(v) \/ Flush(v) \/ Measure(v) \/ Accept(v)
    BY <2>3 DEF Lock, Flush, Measure, Accept
  <2>4. ASSUME \/ CommitPlain(v) \/ CommitDelete(v) \/ Reject(v) \/ CommitReview(v)
               \/ NothingToCommit(v) \/ Gone(v) \/ Abort(v)
        PROVE  FALSE
    BY <1>1, <2>4 DEF CommitPlain, CommitDelete, Reject, CommitReview, NothingToCommit, Gone, Abort,
                      End, TypeOK
  <2> QED BY <1>1, <2>1, <2>2, <2>3, <2>4 DEF Next, Serve
<1>2. TypeOK /\ [Next]_vars => [RowsHeld]_vars
  BY <1>1 DEF RowsHeld
<1> QED BY <1>2, TypeInit, TypeStep, PTL DEF Spec

(* Requests served one at a time keep both: no process is irregular without    *)
(* its justification (media_assets.py:766-770).                                *)
THEOREM SerialJustified ==
    ASSUME \A v, w \in Workers : v = w
    PROVE  Spec => []IrregularJustified
BY SerialHolds, HeldRowsJustified, PTL

(* With one worker an approval leaves the process where its client confirmed   *)
(* every conflict (media_assets.py:787-794).                                   *)
THEOREM SerialApprovals ==
    ASSUME \A v, w \in Workers : v = w
    PROVE  Spec => ApprovalConfirmsCurrent
BY SerialHolds, HeldApprovals, PTL
-----------------------------------------------------------------------------
(* Which overlap lets start-analysis commit over a process that is no longer   *)
(* new: only another start-analysis of the same process.                       *)

(* No process has two start-analyses in flight. *)
LoneStarts ==
    \A v, w \in Workers :
        /\ tx[v] # Idle /\ tx[v].kind = "start"
        /\ tx[w] # Idle /\ tx[w].kind = "start"
        /\ tx[v].asset = tx[w].asset
        => v = w

(* A request other than start-analysis that read a new process leaves the      *)
(* status out of its UPDATE.                                                   *)
OnlyStartsLeaveNew ==
    \A w \in Workers :
        tx[w] # Idle /\ tx[w].kind # "start" /\ tx[w].seen.status = "new" =>
            tx[w].want.status = "new"

(* A process whose analysis is being started is new, or was removed. *)
StartsFindNew ==
    \A w \in Workers :
        tx[w] # Idle /\ tx[w].kind = "start" =>
            store[tx[w].asset] = Deleted \/ store[tx[w].asset].status = "new"

LEMMA MergedStaysNew ==
    ASSUME TypeOK, StatusRead, OnlyStartsLeaveNew, NEW w \in Workers, tx[w] # Idle,
           store[tx[w].asset] \in Rows, store[tx[w].asset].status = "new", tx[w].kind # "start"
    PROVE  Merged(tx[w]).status = "new"
<1>1. tx[w].seen.status = "new"
  BY DEF StatusRead
<1>2. tx[w].want.status = "new"
  BY <1>1 DEF OnlyStartsLeaveNew
<1> QED BY <1>1, <1>2 DEF Merged, Column

(* A step goes on with a request in flight, or begins it. *)
LEMMA RequestsGoOn ==
    ASSUME TypeOK, [Next]_vars, NEW v \in Workers, tx'[v] # Idle
    PROVE  \/ SameRequest(v)
           \/ Begin(v) /\ store' = store
<1>1. ASSUME NEW w \in Workers, Begin(w) PROVE SameRequest(v) \/ (Begin(v) /\ store' = store)
  <2>1. store' = store /\ \A u \in Workers : u # w => tx'[u] = tx[u]
    BY <1>1 DEF Begin, BeginUpdate, BeginStart, BeginForm, BeginDelete, Admit, TypeOK
  <2> QED BY <1>1, <2>1 DEF SameRequest
<1>2. ASSUME NEW w \in Workers, Serve(w) \/ Abort(w) PROVE SameRequest(v)
  BY <1>2, OthersGoOn
<1>3. CASE UNCHANGED vars
  BY <1>3 DEF vars, SameRequest
<1> QED BY <1>1, <1>2, <1>3 DEF Next

LEMMA OnlyStartsStep == TypeOK /\ OnlyStartsLeaveNew /\ [Next]_vars => OnlyStartsLeaveNew'
<1> SUFFICES ASSUME TypeOK, OnlyStartsLeaveNew, [Next]_vars, NEW v \in Workers, tx'[v] # Idle,
                    tx'[v].kind # "start", tx'[v].seen.status = "new"
             PROVE  tx'[v].want.status = "new"
  BY DEF OnlyStartsLeaveNew
<1>1. CASE SameRequest(v)
  BY <1>1 DEF SameRequest, OnlyStartsLeaveNew
<1>2. ASSUME NEW kind \in Kinds, NEW x \in Live, NEW want \in Rows,
             NEW review \in BOOLEAN, NEW dirty \in BOOLEAN, NEW sent \in Lists,
             Admit(v, NewRequest(kind, x, want, review, dirty, sent)),
             kind = "start" \/ StatusChangeAllowed(store[x].status, want.status)
      PROVE  tx'[v].want.status = "new"
  <2>1. tx'[v].seen = store[x] /\ tx'[v].want = want /\ tx'[v].kind = kind
    BY <1>2, AdmitReads
  <2> QED BY <1>2, <2>1 DEF StatusChangeAllowed
<1>3. ASSUME BeginUpdate(v) PROVE tx'[v].want.status = "new"
  <2>1. PICK x \in Live, want \in Rows :
          \E review \in ReviewChoices(store[x], want), dirty \in BOOLEAN, sent \in {{}, shown[x]} :
            /\ StatusChangeAllowed(store[x].status, want.status)
            /\ Admit(v, NewRequest("update", x, want, review, dirty, sent))
    BY <1>3 DEF BeginUpdate
  <2>2. PICK review \in ReviewChoices(store[x], want), dirty \in BOOLEAN, sent \in {{}, shown[x]} :
            /\ StatusChangeAllowed(store[x].status, want.status)
            /\ Admit(v, NewRequest("update", x, want, review, dirty, sent))
    BY <2>1
  <2>3. review \in BOOLEAN /\ sent \in Lists
    BY DEF ReviewChoices, TypeOK, Lists, Live
  <2> QED BY <1>2, <2>2, <2>3 DEF Kinds
<1>4. ASSUME BeginStart(v) PROVE tx'[v].want.status = "new"
  <2>1. PICK x \in Live :
          Admit(v, NewRequest("start", x, [store[x] EXCEPT !.status = "analysis"], FALSE, TRUE, {}))
    BY <1>4 DEF BeginStart
  <2>2. [store[x] EXCEPT !.status = "analysis"] \in Rows /\ {} \in Lists
    BY ExaminationAssumption DEF Live, Rows, Statuses, Lists
  <2> QED BY <1>2, <2>1, <2>2 DEF Kinds
<1>5. ASSUME BeginForm(v) PROVE tx'[v].want.status = "new"
  <2>1. PICK x \in Live, type \in Types, place \in Places :
          Admit(v, NewRequest("form", x, [store[x] EXCEPT !.type = type, !.place = place],
                              FALSE, TRUE, {}))
    BY <1>5 DEF BeginForm
  <2> DEFINE want == [store[x] EXCEPT !.type = type, !.place = place]
  <2>2. want \in Rows /\ want.status = store[x].status /\ {} \in Lists
    BY DEF Live, Rows, Lists
  <2> QED BY <1>2, <2>1, <2>2 DEF Kinds, StatusChangeAllowed
<1>6. ASSUME BeginDelete(v) PROVE tx'[v].want.status = "new"
  <2>1. PICK x \in Live : Admit(v, NewRequest("delete", x, store[x], FALSE, TRUE, {}))
    BY <1>6 DEF BeginDelete
  <2>2. store[x] \in Rows /\ {} \in Lists
    BY DEF Live, Lists
  <2> QED BY <1>2, <2>1, <2>2 DEF Kinds, StatusChangeAllowed
<1> QED BY <1>1, <1>3, <1>4, <1>5, <1>6, RequestsGoOn DEF Begin

(* A process being started stays new until then: what another request could    *)
(* write leaves a new process new.                                             *)
LEMMA StartsFindStep ==
    ASSUME TypeOK, StatusRead, OnlyStartsLeaveNew, StartsFindNew, LoneStarts, [Next]_vars
    PROVE  StartsFindNew'
<1> SUFFICES ASSUME NEW v \in Workers, tx'[v] # Idle, tx'[v].kind = "start"
             PROVE  store'[tx'[v].asset] = Deleted \/ store'[tx'[v].asset].status = "new"
  BY DEF StartsFindNew
<1>1. CASE Begin(v) /\ store' = store
  <2>1. ASSUME NEW kind \in Kinds, NEW x \in Live, NEW want \in Rows,
               NEW review \in BOOLEAN, NEW dirty \in BOOLEAN, NEW sent \in Lists,
               Admit(v, NewRequest(kind, x, want, review, dirty, sent))
        PROVE  tx'[v].kind = kind /\ tx'[v].asset = x
    BY <2>1, AdmitReads
  <2>2. ASSUME BeginUpdate(v) PROVE FALSE
    <3>1. PICK x \in Live, want \in Rows :
            \E review \in ReviewChoices(store[x], want), dirty \in BOOLEAN, sent \in {{}, shown[x]} :
              Admit(v, NewRequest("update", x, want, review, dirty, sent))
      BY <2>2 DEF BeginUpdate
    <3>2. PICK review \in ReviewChoices(store[x], want), dirty \in BOOLEAN, sent \in {{}, shown[x]} :
              Admit(v, NewRequest("update", x, want, review, dirty, sent))
      BY <3>1
    <3>3. review \in BOOLEAN /\ sent \in Lists
      BY DEF ReviewChoices, TypeOK, Lists, Live
    <3> QED BY <2>1, <3>2, <3>3 DEF Kinds
  <2>3. ASSUME BeginForm(v) PROVE FALSE
    <3>1. PICK x \in Live, type \in Types, place \in Places :
            Admit(v, NewRequest("form", x, [store[x] EXCEPT !.type = type, !.place = place],
                                FALSE, TRUE, {}))
      BY <2>3 DEF BeginForm
    <3>2. [store[x] EXCEPT !.type = type, !.place = place] \in Rows /\ {} \in Lists
      BY DEF Live, Rows, Lists
    <3> QED BY <2>1, <3>1, <3>2 DEF Kinds
  <2>4. ASSUME BeginDelete(v) PROVE FALSE
    <3>1. PICK x \in Live : Admit(v, NewRequest("delete", x, store[x], FALSE, TRUE, {}))
      BY <2>4 DEF BeginDelete
    <3>2. store[x] \in Rows /\ {} \in Lists
      BY DEF Live, Lists
    <3> QED BY <2>1, <3>1, <3>2 DEF Kinds
  <2>5. CASE BeginStart(v)
    <3>1. PICK x \in Live :
            /\ store[x].status = "new"
            /\ Admit(v, NewRequest("start", x, [store[x] EXCEPT !.status = "analysis"], FALSE, TRUE, {}))
      BY <2>5 DEF BeginStart
    <3>2. [store[x] EXCEPT !.status = "analysis"] \in Rows /\ {} \in Lists
      BY ExaminationAssumption DEF Live, Rows, Statuses, Lists
    <3> QED BY <1>1, <2>1, <3>1, <3>2 DEF Kinds
  <2> QED BY <1>1, <2>2, <2>3, <2>4, <2>5 DEF Begin
<1>2. CASE SameRequest(v)
  <2> DEFINE x == tx[v].asset
             Kept == store'[x] = store[x] \/ store'[x] = Deleted \/ store'[x].status = "new"
  <2>1. /\ x \in Assets /\ tx[v] # Idle /\ tx[v].kind = "start" /\ tx'[v].asset = x
        /\ store[x] = Deleted \/ store[x].status = "new"
        /\ store[x] \in Rows \cup {Deleted}
    BY <1>2 DEF SameRequest, TypeOK, Requests, StartsFindNew, StatusRead
  <2>2. ASSUME NEW w \in Workers, CommitPlain(w) \/ CommitDelete(w) \/ CommitReview(w) PROVE Kept
    <3>1. tx[w] # Idle /\ tx[w] \in Requests /\ tx'[w] = Idle
      BY <2>2 DEF CommitPlain, CommitDelete, CommitReview, End, Idle, TypeOK
    <3>2. store'[x] = store[x] \/ store'[x] = Deleted
            \/ (x = tx[w].asset /\ store[x] \in Rows /\ store'[x] = Merged(tx[w]))
      BY <2>1, <2>2, <3>1 DEF CommitPlain, CommitDelete, CommitReview, TypeOK
    <3>3. ASSUME x = tx[w].asset, store[x] \in Rows PROVE Merged(tx[w]).status = "new"
      <4>1. store[x].status = "new"
        BY <2>1, <3>3, NoRowAssumption
      <4>2. tx[w].kind # "start"
        BY <2>1, <3>1, <3>3 DEF LoneStarts
      <4> QED BY <3>1, <3>3, <4>1, <4>2, MergedStaysNew
    <3> QED BY <3>2, <3>3
  <2>3. ASSUME NEW w \in Workers, Create(w) PROVE Kept
    <3>1. store[x] # Absent
      BY <2>1, NoRowAssumption
    <3> QED BY <2>1, <2>3, <3>1 DEF Create, TypeOK
  <2>4. ASSUME NEW w \in Workers, Reassess(w) PROVE Kept
    <3>1. PICK y \in Live, radius \in Radii :
            store' = [store EXCEPT ![y] = [store[y] EXCEPT !.radius = radius]]
      BY <2>4 DEF Reassess
    <3>2. CASE y = x
      <4>1. store[x] \in Rows /\ store'[x] = [store[x] EXCEPT !.radius = radius]
        BY <2>1, <3>1, <3>2 DEF Live, TypeOK
      <4>2. store[x].status = "new"
        BY <2>1, <4>1, NoRowAssumption
      <4> QED BY <4>1, <4>2 DEF Rows
    <3>3. CASE y # x
      BY <2>1, <3>1, <3>3 DEF Live, TypeOK
    <3> QED BY <3>2, <3>3
  <2>5. ASSUME NEW w \in Workers,
               \/ Begin(w)
               \/ Lock(w) \/ Flush(w) \/ Measure(w) \/ Accept(w) \/ Reject(w)
               \/ NothingToCommit(w) \/ Gone(w) \/ Abort(w)
        PROVE  Kept
    BY <2>5 DEF Begin, BeginUpdate, BeginStart, BeginForm, BeginDelete, Admit, Lock, Flush, Measure,
                Accept, Reject, NothingToCommit, Gone, Abort
  <2>6. ASSUME UNCHANGED vars PROVE Kept
    <3>1. store' = store
      BY <2>6 DEF vars
    <3> QED BY <3>1
  <2>7. Kept
    <3> HIDE DEF Kept
    <3> QED BY <2>2, <2>3, <2>4, <2>5, <2>6 DEF Next, Serve
  <2> QED BY <2>1, <2>7
<1> QED BY <1>1, <1>2, RequestsGoOn

(* No overlap of edits, reviews, removals and starts takes a process that      *)
(* remains out of "novos processos" but the end of a start-analysis            *)
(* (media_assets.py:59-66, 599-606).                                           *)
THEOREM OnlyStartsTakeOut == Spec => NewLeftByStart
<1> DEFINE Started(x) ==
        \E w \in Workers : /\ tx[w] # Idle /\ tx'[w] = Idle
                          /\ tx[w].kind = "start" /\ tx[w].asset = x
           Stays(x) == store'[x] = Deleted \/ store'[x].status = "new"
<1>1. ASSUME TypeOK, StatusRead, OnlyStartsLeaveNew, [Next]_vars, NEW x \in Live,
             store[x].status = "new"
      PROVE  Stays(x) \/ Started(x)
  <2>1. x \in Assets /\ store[x] \in Rows
    BY DEF Live
  <2>2. ASSUME NEW w \in Workers, CommitPlain(w) \/ CommitDelete(w) \/ CommitReview(w)
        PROVE  Stays(x) \/ Started(x)
    <3>1. tx[w] # Idle /\ tx[w] \in Requests /\ tx'[w] = Idle
      BY <1>1, <2>2 DEF CommitPlain, CommitDelete, CommitReview, End, Idle, TypeOK
    <3>2. store'[x] = store[x] \/ store'[x] = Deleted
            \/ (x = tx[w].asset /\ store'[x] = Merged(tx[w]))
      BY <1>1, <2>1, <2>2, <3>1 DEF CommitPlain, CommitDelete, CommitReview, TypeOK
    <3>3. CASE x = tx[w].asset /\ store'[x] = Merged(tx[w])
      <4>1. CASE tx[w].kind = "start"
        BY <3>1, <3>3, <4>1
      <4>2. CASE tx[w].kind # "start"
        BY <1>1, <2>1, <3>1, <3>3, <4>2, MergedStaysNew
      <4> QED BY <4>1, <4>2
    <3> QED BY <1>1, <3>2, <3>3
  <2>3. ASSUME NEW w \in Workers, Create(w) \/ Reassess(w) PROVE Stays(x)
    <3>1. CASE Create(w)
      BY <1>1, <2>1, <3>1, NoRowAssumption DEF Create, TypeOK
    <3>2. CASE Reassess(w)
      <4>1. PICK y \in Live, radius \in Radii :
              store' = [store EXCEPT ![y] = [store[y] EXCEPT !.radius = radius]]
        BY <3>2 DEF Reassess
      <4>2. store'[x] = store[x] \/ store'[x] = [store[x] EXCEPT !.radius = radius]
        BY <1>1, <2>1, <4>1 DEF Live, TypeOK
      <4> QED BY <1>1, <2>1, <4>2 DEF Rows
    <3> QED BY <2>3, <3>1, <3>2
  <2>4. ASSUME NEW w \in Workers,
               \/ Begin(w)
               \/ Lock(w) \/ Flush(w) \/ Measure(w) \/ Accept(w) \/ Reject(w)
               \/ NothingToCommit(w) \/ Gone(w) \/ Abort(w)
        PROVE  Stays(x)
    <3>1. store' = store
      BY <2>4 DEF Begin, BeginUpdate, BeginStart, BeginForm, BeginDelete, Admit, Lock, Flush,
                  Measure, Accept, Reject, NothingToCommit, Gone, Abort
    <3> QED BY <1>1, <3>1
  <2>5. ASSUME UNCHANGED vars PROVE Stays(x)
    <3>1. store' = store
      BY <2>5 DEF vars
    <3> QED BY <1>1, <3>1
  <2> HIDE DEF Stays, Started
  <2> QED BY <1>1, <2>2, <2>3, <2>4, <2>5 DEF Next, Serve
<1>2. Init => OnlyStartsLeaveNew
  BY DEF Init, OnlyStartsLeaveNew
<1>3. TypeOK /\ StatusRead /\ OnlyStartsLeaveNew /\ [Next]_vars =>
        \A x \in Live :
            store[x].status = "new" /\ store'[x] # Deleted /\ store'[x].status # "new" => Started(x)
  BY <1>1
<1> QED BY <1>2, <1>3, OnlyStartsStep, AlwaysStatusRead, PTL DEF Spec, NewLeftByStart

(* However the other handlers overlap with it, a start-analysis that is alone  *)
(* on its process commits over a new one (media_assets.py:599-617): the edits  *)
(* of a process, of its form and of its radius, the reviews and the removals   *)
(* in between cannot have taken it out of "novos processos".                   *)
THEOREM LoneStartsFromNew == Spec /\ []LoneStarts => StartOnlyFromNew
<1>1. Init => OnlyStartsLeaveNew /\ StartsFindNew
  BY DEF Init, OnlyStartsLeaveNew, StartsFindNew
<1> DEFINE Found == TypeOK /\ StatusRead /\ OnlyStartsLeaveNew /\ StartsFindNew
<1>2. Found /\ LoneStarts /\ [Next]_vars => Found'
  BY TypeStep, StatusStep, OnlyStartsStep, StartsFindStep
<1>3. Found =>
        \A w \in Workers :
            CommitPlain(w) /\ tx[w].kind = "start" => store[tx[w].asset].status = "new"
  <2> SUFFICES ASSUME Found, NEW w \in Workers, CommitPlain(w), tx[w].kind = "start"
               PROVE  store[tx[w].asset].status = "new"
    OBVIOUS
  <2>1. tx[w] # Idle /\ store[tx[w].asset] \in Rows
    BY DEF CommitPlain, Idle
  <2> QED BY <2>1, NoRowAssumption DEF StartsFindNew
<1>4. Init => Found
  BY <1>1, TypeInit, StatusInit
<1> HIDE DEF Found
<1> QED BY <1>2, <1>3, <1>4, PTL DEF Spec, StartOnlyFromNew
=============================================================================
