--------------------------- MODULE ProcessTracking ---------------------------
(* The activity log that the requests of AssetReview write and the timelines   *)
(* that app/api/routes/process_tracking.py rebuilds from it.                   *)
(*                                                                             *)
(* A log entry is stamped (ActivityLog.created_at) when its INSERT is sent and *)
(* tells the status the request read and the one it leaves in memory.  The     *)
(* INSERT of a change follows the UPDATE, that is the lock of the process's    *)
(* row; the INSERT of a removal precedes the DELETE, which may still wait for  *)
(* that lock.  The panel reads the processes in one statement and their logs   *)
(* in a later one, and orders the events by their stamps.                      *)
EXTENDS AssetReviewProperties

CONSTANTS
    NoStatus,       \* None, where an event or an entry has no status
    NoReport        \* nothing was read yet

ASSUME NoStatusAssumption == NoStatus \notin Statuses

Times == Nat        \* stamps; 0 is before all

VARIABLES
    clock,          \* the stamp given last
    log,            \* the committed entries of activity_logs
    stamped,        \* stamped[w]: the stamp of w's removal, not committed yet, or 0
    report,         \* what the panel read
    \* History:
    since,          \* since[x]: when the row's status became what it is
    overtaken       \* removals in flight whose process had its status logged meanwhile

trackVars == <<clock, log, stamped, report, since, overtaken>>

(* "edicao" stands for aprovacao and reprovacao too: the timelines look at the *)
(* statuses alone.  An entry that changes no status is not kept.               *)
Entry == [asset : Assets, at : Times, type : {"cadastro", "edicao", "remocao"},
          before : Statuses \cup {NoStatus}, after : Statuses \cup {NoStatus},
          overtaken : BOOLEAN]

-----------------------------------------------------------------------------
(* Writing the log. *)

\* A mutant: a clock too coarse to order two entries.
SameTick == clock' = clock

Tick == clock' = clock + 1

(* The entry of w's request, as log_activity and the two removals write it.    *)
Logged(w, at, type, after) ==
    [asset |-> tx[w].asset, at |-> at, type |-> type, before |-> tx[w].seen.status,
     after |-> after, overtaken |-> w \in overtaken]

ByCode(x) == {e \in log : e.asset = x}

(* The entries that tell a status, and the last of some entries or events. *)
Told(x) == {e \in ByCode(x) : e.type # "remocao"}
Latest(entries) == {e \in entries : \A f \in entries : f.at <= e.at}

RemovalsOf(x) == {w \in Workers : tx[w] # Idle /\ tx[w].kind = "delete" /\ tx[w].asset = x}

(* create_media_asset: the registration, with the snapshot of the new row. *)
Register(w) ==
    /\ Create(w)
    /\ Tick
    /\ \E x \in Assets :
        /\ store[x] = Absent /\ store'[x] # Absent
        /\ log' = log \cup {[asset |-> x, at |-> clock', type |-> "cadastro", before |-> NoStatus,
                             after |-> store'[x].status, overtaken |-> FALSE]}
        /\ since' = [since EXCEPT ![x] = clock']
    /\ UNCHANGED <<stamped, report, overtaken>>

(* A committed request that assigned another status than it read: the entry    *)
(* says so, whatever the row held by then.                                     *)
Change(w) ==
    LET t == tx[w] IN
    /\ CommitPlain(w) \/ CommitReview(w)
    /\ IF t.want.status = t.seen.status THEN UNCHANGED <<clock, log, overtaken>>
       ELSE /\ Tick
            /\ log' = log \cup {Logged(w, clock', "edicao", t.want.status)}
            /\ overtaken' = overtaken \cup RemovalsOf(t.asset)
    /\ since' = IF store'[t.asset].status = store[t.asset].status THEN since
                ELSE [since EXCEPT ![t.asset] = clock']
    /\ UNCHANGED <<stamped, report>>

\* A mutant: the removal is logged in a transaction of its own.
LogRemovalAlone(w) ==
    /\ tx[w].pc = "write" /\ tx[w].kind = "delete"
    /\ stamped[w] = 0
    /\ Tick
    /\ stamped' = [stamped EXCEPT ![w] = clock']
    /\ log' = log \cup {Logged(w, clock', "remocao", NoStatus)}
    /\ UNCHANGED <<vars, report, since, overtaken>>

(* delete_media_asset, delete_application_form: the flush sends the INSERT of  *)
(* the log first.                                                              *)
LogRemoval(w) ==
    /\ tx[w].pc = "write" /\ tx[w].kind = "delete"
    /\ stamped[w] = 0
    /\ Tick
    /\ stamped' = [stamped EXCEPT ![w] = clock']
    /\ UNCHANGED <<vars, log, report, since, overtaken>>

(* Then the DELETE, which waits for the row, and the commit.                   *)
Remove(w) ==
    /\ stamped[w] # 0
    /\ CommitDelete(w)
    /\ log' = log \cup {Logged(w, stamped[w], "remocao", NoStatus)}
    /\ stamped' = [stamped EXCEPT ![w] = 0]
    /\ overtaken' = overtaken \ {w}
    /\ UNCHANGED <<clock, report, since>>

(* The steps that log nothing the timelines read. *)
Unlogged(w) ==
    /\ \/ Begin(w) \/ Reassess(w)
       \/ Lock(w) \/ Flush(w) \/ Measure(w) \/ Accept(w) \/ Reject(w)
       \/ NothingToCommit(w) \/ Gone(w) \/ Abort(w)
    /\ stamped' = [v \in Workers |-> IF tx'[v] = Idle THEN 0 ELSE stamped[v]]
    /\ overtaken' = {v \in overtaken : tx'[v] # Idle}
    /\ UNCHANGED <<clock, log, report, since>>

-----------------------------------------------------------------------------
(* Reading it. *)

(* The log keeps the code of a removed process, not its id (ON DELETE SET      *)
(* NULL): the panel finds the entries of those that exist by asset_id          *)
(* (ByAsset) and those of the removed ones by process_code (ByCode).           *)
ByAsset(x) == IF store[x] = Deleted THEN {} ELSE ByCode(x)

(* When the process was registered: media_assets.created_at, which a removal   *)
(* copies into its entry.                                                      *)
Registration(x) == {e \in ByCode(x) : e.type = "cadastro"}
CreatedAt(x) == IF Registration(x) = {} THEN 0 ELSE (CHOOSE e \in Registration(x) : TRUE).at

Reports == [asset : Assets, status : Statuses, created : Times, removed : Times,
            since : Times, read : BOOLEAN, logs : SUBSET Entry]

(* list_process_tracking, first statement.  Other processes of its page are    *)
(* read the same way.                                                          *)
ReadRow ==
    \E x \in Live :
        /\ report = NoReport
        /\ report' = [asset |-> x, status |-> store[x].status, created |-> CreatedAt(x),
                      removed |-> 0, since |-> since[x], read |-> FALSE, logs |-> {}]
        /\ UNCHANGED <<vars, clock, log, stamped, since, overtaken>>

(* Its second statement: the logs as they are by now. *)
ReadLogs ==
    /\ report # NoReport
    /\ ~report.read
    /\ report' = [report EXCEPT !.read = TRUE, !.logs = ByAsset(report.asset)]
    /\ UNCHANGED <<vars, clock, log, stamped, since, overtaken>>

(* list_deleted_process_tracking: a removal and the entries with its code.     *)
(* Between its two statements only another removal of the process can be       *)
(* logged, which the timeline leaves out.                                      *)
ReadRemoval ==
    \E e \in {f \in log : f.type = "remocao"} :
        /\ report = NoReport
        /\ report' = [asset |-> e.asset, status |-> e.before, created |-> CreatedAt(e.asset),
                      removed |-> e.at, since |-> 0, read |-> TRUE, logs |-> ByCode(e.asset)]
        /\ UNCHANGED <<vars, clock, log, stamped, since, overtaken>>

-----------------------------------------------------------------------------
(* tracked_process. *)

Registrations(r) == {e \in r.logs : e.type = "cadastro"}

(* status_change: a removal and a registration have no transition. *)
Transitions(r) == {e \in r.logs : e.type = "edicao"}

InitialStatus(r) ==
    IF Registrations(r) # {} THEN "new" ELSE IF r.status = "new" THEN "new" ELSE NoStatus

Event(at, before, after) == [at |-> at, before |-> before, after |-> after]

Timeline(r) ==
    {Event(r.created, NoStatus, InitialStatus(r))}
        \cup {Event(e.at, e.before, e.after) : e \in Transitions(r)}
        \cup (IF r.removed = 0 THEN {} ELSE {Event(r.removed, r.status, NoStatus)})

(* The first of some moments, as a set that is empty when there is none. *)
Earliest(moments) == {m \in moments : \A n \in moments : m <= n}

AnalysisStartedAt(r) ==
    Earliest({e.at : e \in {f \in Timeline(r) : f.before = "new" /\ f.after = "analysis"}})
FirstApprovedAt(r) == Earliest({e.at : e \in {f \in Timeline(r) : f.after = "approved"}})

\* A mutant: the first time the process had its status.
FirstStart(r) == Earliest({e.at : e \in {f \in Timeline(r) : f.after = r.status}})

(* seconds_in_current_status counts from here; unknown when the last event     *)
(* leaves another status than the row's.                                       *)
CurrentStart(r) == {e.at : e \in {f \in Latest(Timeline(r)) : f.after = r.status}}

-----------------------------------------------------------------------------
TrackNext ==
    \/ \E w \in Workers : Register(w) \/ Change(w) \/ LogRemoval(w) \/ Remove(w) \/ Unlogged(w)
    \/ ReadRow \/ ReadLogs \/ ReadRemoval

TrackInit ==
    /\ Init
    /\ clock = 0
    /\ log = {}
    /\ stamped = [w \in Workers |-> 0]
    /\ report = NoReport
    /\ since = [x \in Assets |-> 0]
    /\ overtaken = {}

TrackSpec == TrackInit /\ [][TrackNext]_<<vars, trackVars>>

-----------------------------------------------------------------------------
(* Properties. *)

(* Every variable has its type, and no two changes or registrations carry one  *)
(* stamp, which is what the timelines are ordered by.                          *)
TrackTypeOK ==
    /\ clock \in Times
    /\ log \subseteq Entry
    /\ stamped \in [Workers -> Times]
    /\ report \in Reports \cup {NoReport}
    /\ since \in [Assets -> Times]
    /\ overtaken \subseteq Workers
    /\ \A e, f \in log : e.at = f.at => e = f

(* The log never contradicts the table: the entry stamped last, of those that  *)
(* tell a status, tells the status the row has, although requests write over   *)
(* rows they read earlier (media_assets.py:739, 796-831).  True because an     *)
(* UPDATE sends the status exactly when the log tells it, and the entry is     *)
(* stamped under the row's lock.                                               *)
LogTellsStatus ==
    \A x \in Live : \A e \in Latest(Told(x)) : e.after = store[x].status

(* The time shown in the current status never begins before the row read had   *)
(* that status (process_tracking.py:131), although rows and logs are read by   *)
(* two statements and a status may come back.                                  *)
CurrentNotOverstated ==
    report # NoReport /\ report.removed = 0 /\ report.read =>
        \A start \in CurrentStart(report) : start >= report.since

(* The panel finds the start of the analysis of every approved process the     *)
(* system registered, and finds it before the approval                         *)
(* (process_tracking.py:128-130, 140).                                         *)
ApprovalAfterAnalysis ==
    report # NoReport /\ Registrations(report) # {} =>
        \A approval \in FirstApprovedAt(report) :
            \E start \in AnalysisStartedAt(report) : start < approval

(* A process is among the removed ones exactly when it was removed             *)
(* (media_assets.py:842-858, process_tracking.py:218-232); two removals in     *)
(* flight at once may list it twice.                                           *)
RemovalsAreReal ==
    \A x \in Assets : (\E e \in ByCode(x) : e.type = "remocao") <=> store[x] = Deleted

(* The removal is the last event of the timeline and gives the status the      *)
(* process had (tests/test_process_tracking.py:119), unless another request    *)
(* logged a status between the removal's read and its commit.                  *)
RemovalEndsTimeline ==
    report # NoReport /\ report.removed # 0 =>
        \A removal \in {e \in report.logs : e.type = "remocao" /\ e.at = report.removed} :
            ~removal.overtaken =>
                /\ \A e \in Transitions(report) : e.at < report.removed
                /\ \A e \in Latest(Transitions(report)) : e.after = report.status
=============================================================================
