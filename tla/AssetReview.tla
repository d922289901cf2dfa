----------------------------- MODULE AssetReview -----------------------------
(* The life of a process (a row of media_assets) and the territorial review    *)
(* that approves it: app/api/routes/media_assets.py and the three handlers of  *)
(* application_forms.py that write the linked process.                         *)
(*                                                                             *)
(* A worker is one HTTP request in flight: one SQLAlchemy session, one         *)
(* PostgreSQL transaction at READ COMMITTED.  Every handler reads the process  *)
(* WITHOUT locking it, checks what it read, and writes later: an UPDATE sends  *)
(* only the columns that differ from what was read, so it lands on whatever    *)
(* the row has become.  A request that makes a process approved, or moves an   *)
(* approved one, first takes the advisory lock APPROVAL_LOCK_ID, flushes its   *)
(* UPDATE (which locks the row), runs the two statements of analyze_asset and  *)
(* commits only if the client confirmed exactly the conflicts it found.        *)
EXTENDS ConflictRules, FiniteSets

CONSTANTS
    Assets,         \* processes that may ever be registered (UUIDs, never reused)
    Workers,        \* concurrent requests
    InitialRows,    \* rows the table may hold when the behaviour begins
    MaxRequests,    \* bound: requests that write the table, over a behaviour
    Absent,         \* a process not yet registered
    Deleted,        \* a process removed
    NoWorker        \* nobody holds the advisory lock

Entries == [id : Assets, type : Types, distance : Nat, minimum : Nat]
Lists == SUBSET Entries

JustificationGiven(row) == row.status = "irregular" => row.justified

ASSUME InitialRowsAssumption == InitialRows \subseteq {r \in Rows : JustificationGiven(r)}
ASSUME RequestsAssumption == MaxRequests \in Nat
ASSUME NoRowAssumption == Absent # Deleted /\ Absent \notin Rows /\ Deleted \notin Rows
ASSUME NoWorkerAssumption == NoWorker \notin Workers

VARIABLES
    store,          \* the committed table: store[x] is a row, Absent or Deleted
    tx,             \* tx[w]: the request worker w serves
    approvalLock,   \* the worker that holds the advisory lock
    shown,          \* shown[x]: the conflict list the last 409 about x displayed
    requests,       \* how many requests were made (bounded by MaxRequests)
    \* History, read from the activity log:
    clean,          \* approved processes that nothing touched since their last review
    confirmed       \* confirmed[x]: the list the client confirmed in x's last review

vars == <<store, tx, approvalLock, shown, requests, clean, confirmed>>
history == <<clean, confirmed>>

Live == {x \in Assets : store[x] \in Rows}

Kinds == {"update", "start", "form", "delete"}
Reviewing == {"flush", "measure", "compare", "commit"}

(* A request in flight: its handler, the row it read (seen), the row its       *)
(* setattr calls leave in memory (want), whether the UPDATE has any column to  *)
(* send (dirty: address, area and the other columns not modelled count), the   *)
(* list the client confirmed ({} when it confirmed none), and the results of   *)
(* the two statements of the review.                                           *)
Idle == [pc |-> "idle"]
Requests ==
    [pc : {"write", "lock"} \cup Reviewing, kind : Kinds, asset : Assets, seen : Rows,
     want : Rows, dirty : BOOLEAN, sent : Lists, search : Nat, found : Lists]

(* The row after this request's UPDATE: a column the handler left as it read   *)
(* it is not in the SET clause and keeps the value the row has now.            *)
Column(read, assigned, now) == IF assigned # read THEN assigned ELSE now

Merged(t) ==
    LET now == store[t.asset] IN
    [status |-> Column(t.seen.status, t.want.status, now.status),
     type |-> Column(t.seen.type, t.want.type, now.type),
     place |-> [lat |-> Column(t.seen.place.lat, t.want.place.lat, now.place.lat),
                lon |-> Column(t.seen.place.lon, t.want.place.lon, now.place.lon)],
     radius |-> Column(t.seen.radius, t.want.radius, now.radius),
     justified |-> Column(t.seen.justified, t.want.justified, now.justified)]

(* Two rows that territorial analysis and approval cannot tell apart.          *)
SameTerritory(a, b) ==
    /\ a.status = b.status /\ a.type = b.type
    /\ a.place = b.place /\ a.radius = b.radius

(* After its flush and until its transaction ends a request holds its row.     *)
HoldsRow(w, x) ==
    /\ tx[w].pc \in {"measure", "compare", "commit"}
    /\ tx[w].asset = x
    /\ tx[w].dirty
RowFree(x) == \A w \in Workers : ~HoldsRow(w, x)

-----------------------------------------------------------------------------
(* Requests that read a process. *)

NewRequest(kind, x, want, review, dirty, sent) ==
    [pc |-> IF review THEN "lock" ELSE "write", kind |-> kind, asset |-> x,
     seen |-> store[x], want |-> want, dirty |-> dirty, sent |-> sent,
     search |-> 0, found |-> {}]

Count == requests < MaxRequests /\ requests' = requests + 1

Admit(w, t) ==
    /\ tx[w] = Idle
    /\ Count
    /\ tx' = [tx EXCEPT ![w] = t]
    /\ UNCHANGED <<store, approvalLock, shown, history>>

\* A mutant: only entering "novos processos" is refused, not leaving it.
StatusChangeUnguarded(current, requested) == requested # current => requested # "new"

\* A mutant: an edit may send a new process to analysis.
StatusChangeToAnalysis(current, requested) ==
    requested # current => requested # "new" /\ (current = "new" => requested = "analysis")

(* ensure_direct_status_change_allowed: a new process leaves that status only  *)
(* through start-analysis, and nothing becomes new again.                      *)
StatusChangeAllowed(current, requested) ==
    requested # current => current # "new" /\ requested # "new"

\* A mutant: only the request that makes a process irregular is checked.
JustifiedOnEntry(seen, want) ==
    want.status = "irregular" /\ seen.status # "irregular" => want.justified

(* The justification is checked on the merged row, payload over row read. *)
Justified(seen, want) == JustificationGiven(want)

(* requires_approval_review.  A payload that repeats the coordinates, or only  *)
(* changes the area, asks for the review too: then either value is possible.   *)
ReviewChoices(seen, want) ==
    IF want.status # "approved" THEN {FALSE}
    ELSE IF seen.status # "approved" \/ <<seen.type, seen.place>> # <<want.type, want.place>>
         THEN {TRUE} ELSE BOOLEAN

(* update_media_asset and update_linked_application_form up to their first     *)
(* write.  A payload that changes nothing and asks for no review returns at    *)
(* once; one refused with 409 or 422 here changes nothing either.              *)
BeginUpdate(w) ==
    \E x \in Live : \E want \in Rows :
        \E review \in ReviewChoices(store[x], want), dirty \in BOOLEAN, sent \in {{}, shown[x]} :
            /\ want.radius = store[x].radius
            /\ StatusChangeAllowed(store[x].status, want.status)
            /\ Justified(store[x], want)
            /\ want # store[x] => dirty
            /\ dirty \/ review
            /\ Admit(w, NewRequest("update", x, want, review, dirty, sent))

(* start_media_asset_analysis up to its commit. *)
BeginStart(w) ==
    \E x \in Live :
        /\ store[x].status = "new"
        /\ Admit(w, NewRequest("start", x, [store[x] EXCEPT !.status = "analysis"],
                               FALSE, TRUE, {}))

(* update_application_form up to its commit: the form's type and coordinates   *)
(* go onto the process whatever its status, and no review is asked.            *)
BeginForm(w) ==
    \E x \in Live, type \in Types, place \in Places :
        Admit(w, NewRequest("form", x, [store[x] EXCEPT !.type = type, !.place = place],
                            FALSE, TRUE, {}))

(* delete_media_asset and delete_application_form up to their commit. *)
BeginDelete(w) ==
    \E x \in Live : Admit(w, NewRequest("delete", x, store[x], FALSE, TRUE, {}))

-----------------------------------------------------------------------------
(* Writes. *)

(* History after x's row becomes row without a review of that very row. *)
Unreviewed(x, row) ==
    /\ clean' = IF SameTerritory(row, store[x]) THEN clean ELSE clean \ {x}
    /\ UNCHANGED confirmed

(* The end of a transaction, committed or not: PostgreSQL releases its locks.  *)
End(w) ==
    /\ tx' = [tx EXCEPT ![w] = Idle]
    /\ approvalLock' = IF approvalLock = w THEN NoWorker ELSE approvalLock

\* A mutant: the row is written back whole, inserted again if it is gone.
CommitWholeRow(w) ==
    LET t == tx[w] IN
    /\ t.pc = "write" /\ t.kind # "delete"
    /\ RowFree(t.asset)
    /\ store' = [store EXCEPT ![t.asset] = t.want]
    /\ clean' = clean \ {t.asset}
    /\ End(w)
    /\ UNCHANGED <<shown, requests, confirmed>>

(* Flush and commit of the handlers that ask no review. *)
CommitPlain(w) ==
    LET t == tx[w] IN
    /\ t.pc = "write" /\ t.kind # "delete"
    /\ store[t.asset] \in Rows
    /\ RowFree(t.asset)
    /\ store' = [store EXCEPT ![t.asset] = Merged(t)]
    /\ Unreviewed(t.asset, Merged(t))
    /\ End(w)
    /\ UNCHANGED <<shown, requests>>

\* A mutant: session.delete is called and not awaited.
CommitDeleteUnawaited(w) ==
    /\ tx[w].pc = "write" /\ tx[w].kind = "delete"
    /\ RowFree(tx[w].asset)
    /\ End(w)
    /\ UNCHANGED <<store, shown, requests, history>>

(* A DELETE that finds no row still commits, with its second removal log.      *)
CommitDelete(w) ==
    LET t == tx[w] IN
    /\ t.pc = "write" /\ t.kind = "delete"
    /\ RowFree(t.asset)
    /\ store' = [store EXCEPT ![t.asset] = Deleted]
    /\ clean' = clean \ {t.asset}
    /\ End(w)
    /\ UNCHANGED <<shown, requests, confirmed>>

(* create_media_asset: one INSERT, invisible to others until it commits. *)
Create(w) ==
    \E x \in Assets, row \in Rows :
        /\ tx[w] = Idle
        /\ Count
        /\ store[x] = Absent
        /\ row.status = "new"
        /\ store' = [store EXCEPT ![x] = row]
        /\ UNCHANGED <<tx, approvalLock, shown, history>>

(* confirm_radius_reassessment: SELECT ... FOR UPDATE waits for the row, so    *)
(* what it reads is what it writes over.  Its other guards are in the rules    *)
(* of radii, which can give any radius.                                        *)
Reassess(w) ==
    \E x \in Live, radius \in Radii :
        LET row == [store[x] EXCEPT !.radius = radius] IN
        /\ tx[w] = Idle
        /\ Count
        /\ RowFree(x)
        /\ store' = [store EXCEPT ![x] = row]
        /\ Unreviewed(x, row)
        /\ UNCHANGED <<tx, approvalLock, shown>>

-----------------------------------------------------------------------------
(* The review. *)

Advance(w, t) == tx' = [tx EXCEPT ![w] = t]

\* A mutant: the lock is taken in shared mode.
LockShared(w) ==
    /\ tx[w].pc = "lock"
    /\ approvalLock' = w
    /\ Advance(w, [tx[w] EXCEPT !.pc = "flush"])
    /\ UNCHANGED <<store, shown, requests, history>>

(* SELECT pg_advisory_xact_lock(APPROVAL_LOCK_ID) *)
Lock(w) ==
    /\ tx[w].pc = "lock"
    /\ approvalLock = NoWorker
    /\ approvalLock' = w
    /\ Advance(w, [tx[w] EXCEPT !.pc = "flush"])
    /\ UNCHANGED <<store, shown, requests, history>>

(* session.flush(): the UPDATE, if any column changed, takes the row lock. *)
Flush(w) ==
    LET t == tx[w] IN
    /\ t.pc = "flush"
    /\ t.dirty => store[t.asset] \in Rows /\ RowFree(t.asset)
    /\ Advance(w, [t EXCEPT !.pc = "measure"])
    /\ UNCHANGED <<store, approvalLock, shown, requests, history>>

(* The rows a statement of worker w's transaction sees: the committed ones and *)
(* its own UPDATE.                                                             *)
Visible(t) ==
    [y \in Live |-> IF y = t.asset /\ t.dirty THEN Merged(t) ELSE store[y]]

(* analyze_asset's first statement: the largest radius in force. *)
Measure(w) ==
    LET t == tx[w]
        inForce == {Visible(t)[y].radius : y \in {z \in Live : Visible(t)[z].status # "irregular"}}
    IN /\ t.pc = "measure"
       /\ \E largest \in LargestOf(inForce) :
            Advance(w, [t EXCEPT !.pc = "compare",
                                 !.search = Larger(Larger(t.want.radius, largest), LedDistance)])
       /\ UNCHANGED <<store, approvalLock, shown, requests, history>>

(* analyze_asset's second statement, a later snapshot, filtered by ST_DWithin, *)
(* then evaluate_conflicts on the candidate as the request holds it in memory. *)
Analysis(t) ==
    EvaluateConflicts(t.asset, t.want,
        {y \in Live : Geodesic[t.want.place][store[y].place] <= t.search}, store)

\* A mutant: whatever list was confirmed is good enough.
AnyConfirmation(current, sent) == TRUE

(* conflict_snapshots_match: both lists sorted by id and compared whole, with  *)
(* their distances and minima.  A missing list never matches.                  *)
ConflictSnapshotsMatch(current, sent) == current = sent

Accepted(t) == Analysis(t) = {} \/ ConflictSnapshotsMatch(Analysis(t), t.sent)

Accept(w) ==
    /\ tx[w].pc = "compare"
    /\ Accepted(tx[w])
    /\ Advance(w, [tx[w] EXCEPT !.pc = "commit", !.found = Analysis(tx[w])])
    /\ UNCHANGED <<store, approvalLock, shown, requests, history>>

\* A mutant: the lock belongs to the session, and a refusal leaves it held.
RejectHoldingLock(w) ==
    LET t == tx[w] IN
    /\ t.pc = "compare"
    /\ ~Accepted(t)
    /\ shown' = [shown EXCEPT ![t.asset] = Analysis(t)]
    /\ tx' = [tx EXCEPT ![w] = Idle]
    /\ UNCHANGED <<store, approvalLock, requests, history>>

(* 409 with the current list; the transaction rolls back. *)
Reject(w) ==
    LET t == tx[w] IN
    /\ t.pc = "compare"
    /\ ~Accepted(t)
    /\ shown' = [shown EXCEPT ![t.asset] = Analysis(t)]
    /\ End(w)
    /\ UNCHANGED <<store, requests, history>>

(* The commit of a reviewed request, with its log.  Its review stands if the   *)
(* row it leaves is the row it analysed.  With nothing to log it returns       *)
(* without committing.                                                         *)
CommitReview(w) ==
    LET t == tx[w]
        row == IF t.dirty THEN Merged(t) ELSE store[t.asset]
    IN /\ t.pc = "commit"
       /\ t.dirty \/ t.found # {}
       /\ store[t.asset] \in Rows
       /\ store' = [store EXCEPT ![t.asset] = row]
       /\ IF SameTerritory(row, t.want)
          THEN /\ clean' = clean \cup {t.asset}
               /\ confirmed' = [confirmed EXCEPT ![t.asset] =
                                  IF t.found = {} THEN {} ELSE t.sent]
          ELSE Unreviewed(t.asset, row)
       /\ End(w)
       /\ UNCHANGED <<shown, requests>>

NothingToCommit(w) ==
    /\ tx[w].pc = "commit" /\ ~tx[w].dirty /\ tx[w].found = {}
    /\ End(w)
    /\ UNCHANGED <<store, shown, requests, history>>

(* The row is gone when the request writes or logs: StaleDataError or a        *)
(* violated foreign key, answered with 500.                                    *)
Gone(w) ==
    LET t == tx[w] IN
    /\ t # Idle
    /\ store[t.asset] = Deleted
    /\ \/ t.pc = "write" /\ t.kind # "delete"
       \/ t.pc = "flush" /\ t.dirty
       \/ t.pc = "commit" /\ t.found # {}
    /\ End(w)
    /\ UNCHANGED <<store, shown, requests, history>>

(* The request dies (client gone, connection lost, process killed) at an await *)
(* of its transaction: get_session closes the session and PostgreSQL rolls     *)
(* back.                                                                       *)
Abort(w) ==
    /\ tx[w] # Idle
    /\ End(w)
    /\ UNCHANGED <<store, shown, requests, history>>

-----------------------------------------------------------------------------
Begin(w) == BeginUpdate(w) \/ BeginStart(w) \/ BeginForm(w) \/ BeginDelete(w)

Serve(w) ==
    \/ Create(w) \/ Reassess(w)
    \/ CommitPlain(w) \/ CommitDelete(w)
    \/ Lock(w) \/ Flush(w) \/ Measure(w) \/ Accept(w) \/ Reject(w)
    \/ CommitReview(w) \/ NothingToCommit(w) \/ Gone(w)

Next == \E w \in Workers : Begin(w) \/ Serve(w) \/ Abort(w)

Init ==
    /\ store \in [Assets -> {Absent} \cup InitialRows]
    /\ tx = [w \in Workers |-> Idle]
    /\ approvalLock = NoWorker
    /\ shown = [x \in Assets |-> {}]
    /\ requests = 0
    /\ clean = {}
    /\ confirmed = [x \in Assets |-> {}]

Spec == Init /\ [][Next]_vars

(* Every await of a handler returns.  PostgreSQL queues the waiters of the     *)
(* advisory lock and of a row, so a request that keeps waiting gets its turn.  *)
Fairness == \A w \in Workers :
    /\ SF_vars(Lock(w)) /\ SF_vars(Flush(w)) /\ SF_vars(CommitPlain(w)) /\ SF_vars(CommitDelete(w))
    /\ WF_vars(Measure(w)) /\ WF_vars(Accept(w)) /\ WF_vars(Reject(w)) /\ WF_vars(Gone(w))
    /\ WF_vars(CommitReview(w) \/ NothingToCommit(w))

FairSpec == Spec /\ Fairness
=============================================================================
