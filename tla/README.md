# GeoMídia backend: a verification project

GeoMídia is the back end of the city's registry of advertising media: a FastAPI
application over one PostgreSQL/PostGIS database and an object storage. Nothing
but the database is shared by the requests it serves (the login window apart), so everything that
can go wrong between two users goes wrong between two transactions at READ
COMMITTED. This directory models those transactions in TLA+, checks them with
TLC on small instances and proves the most important properties with TLAPS for
every value of the constants.

    tlc -workers 2 -config AssetReview.cfg MCAssetReview.tla
    tlapm AssetReviewProofs.tla

## The system

| Component | State | Operations | Hard behaviour | Must hold |
|---|---|---|---|---|
| Territorial rules (`domain/rules.py`) | none | minimum distance of a pair, list of conflicts | two distances: ellipsoid in SQL, sphere in Python | a conflict is mutual |
| Processes and review (`media_assets.py`, `application_forms.py`) | `media_assets`, advisory lock, activity log | create, update, linked update, form update, start-analysis, radius confirmation, two removals | reads without a lock, writes column by column, two statements per analysis | no approved pair in conflict that nobody confirmed; status rules |
| Protocol counters (`next_*_code`, `seed.py`) | three counter tables, stored codes | allocate PROC, VEI, HESP; remove; seed | concurrent allocation, rollback, codes older than the counters | never twice, none lost, after the greatest |
| Public drafts (`public_submissions.py`, `requirement_responses.py`) | `public_submission_drafts`, uploaded objects | iniciar, upload, finalizar, comprovante, of two forms | retries, lost answers, expiry, two forms on one table, rate limit | one process and one protocol per draft |
| Accounts (`users.py`, `core/security.py`, `bootstrap.py`) | `users` | create, update, delete, bootstrap | stale actor, count then write | an administrator remains |
| Radius rules (`media_rules.py`) | `media_rules` | create, update, delete, preview, confirm | preview then confirm, snapshot in a draft, rule deleted under a creation | the radius applied is the one shown |
| Login limit (`auth.py`) | a window in process memory | login | attempts verified while others come in, successes that forget them, restarts | at most five attempts admitted per window; refused exactly while it is full |
| Orphan diagnostics (`services/orphan_diagnostics.py`, `scripts/diagnose_orphans.py`) | none (reads) | report | five snapshots taken at different times, a listing by offset | nothing in use is reported, what is left over is |
| Process tracking (`process_tracking.py`) | none (reads the activity log) | timeline from the log | logs of stale reads, removals logged before their lock, rows and logs read apart | the timeline is the history |
| Receipts, e-mail, lists, map, statistics, validation, health | none shared | | | not modelled |

The components interact through the database: the public form creates a process
(drafts, counter and process in one transaction), the workflow approves it
against every other process, the rules give it its radius, staff remove it while
its draft keeps the protocol. They call each other only inside a transaction.

## Modules

`ConflictRules` holds the pure operators of `domain/rules.py`. A row is a record
of the columns the rules and the workflow tell apart. No guard tells apart the six
statuses of `InExamination` (análise, exigência, vencido, cartografia, jurídico,
vistoria). `AssetReview` runs with two of them, `"analysis"` and `"requirement"`, so that
a stale edit from one to the other meets a row that was approved meanwhile; the other
runs take `"analysis"` alone, and the proofs any number. A place is two columns, which are written apart. `Haversine` and `Geodesic` are constants: any
two symmetric tables of metres.

`AssetReview` models the life of a process. `tx[w]` is the request a worker
serves, and its `pc` says which `await` it stands at. `Begin*` are the handlers up to
their first write: they read the committed row and check what they read.
`Merged` is SQLAlchemy's UPDATE: only the columns that differ from what was read
are sent, onto whatever the row has become. A request that must be reviewed then
goes through `Lock` (the advisory lock), `Flush` (the UPDATE, which takes the row
lock), `Measure` and `Analysis` (the two statements of `analyze_asset`, each with a snapshot
of its own), `Accept` or `Reject`, and `CommitReview`. `Abort` is a request that
dies at any await. Two history variables record what the activity log says:
`clean`, the approved processes nothing touched since their review, and
`confirmed`, the list their client confirmed. `AssetReviewProperties` states the
properties.

`ProtocolSequence` is the abstract promise of a series of protocols: numbers
only grow. `ProtocolCounter` is the three allocators, with their upsert that
keeps the counter's row locked to the end of the transaction, rollback, removal
and `seed()`; its property `NeverTwice` is the refinement
`INSTANCE ProtocolSequence WITH last <- counter`.

`PublicDrafts` models `/iniciar`, `/finalizar` and `/comprovante` of both forms, with the
rate limit's advisory lock, the row lock of `SELECT ... FOR UPDATE`, uploads that the
client makes on its own, a clock, lost answers and retries on either form's
route.

`DraftLife` is the abstract life of a draft, with no request in it: opened, given its
files, taken by one request at a time within its lifetime, finalized once
with the next number of its series. `PublicDraftsRefinement` maps the requests of
`PublicDrafts` onto it (a draft's `lock` is the stage of the request that holds its
row) and states `LivesOnce`, that they implement it.

`OrphanDiagnostics` EXTENDS `DraftLife`, which gives it every interleaving of the forms
without their requests, and adds the times the rows and objects carry, the links staff
type, and the diagnosis: `ReadDrafts`, `ReadAssets`, `ReadForms`, `ReadAttachments` (four
statements of a READ COMMITTED transaction, a snapshot each), `ListPage` (a page of the
bucket at a time, by offset), the failures of the database and of the storage, and
`Report`. What `analyze` concludes (`Abandoned`, `Inconsistent`, `BrokenAttachments`,
`BrokenManifests`, `Orphans`) are sets computed from what was read. Which objects one text of
links names together is left open: `Report` chooses `diag.ambiguous` among the answers
that some grouping of the links gives (`Ambiguities`). `diag.began`,
`diag.used` and `diag.there` are history: when the first SELECT ran, what the program
referred to then, and what the bucket held when its listing began.

`UserAdmin` models the handlers of accounts, the authentication before them and
the bootstrap command.

`RadiusRules` models where a radius comes from: the rules' three handlers, the
registrations that apply a rule, the radius previewed and then confirmed, and the
snapshot a public draft carries. `tx[w]` holds what a request read until it
writes it. A rule has no lock of its own: only a confirmation reads it `FOR UPDATE`.
Its `updated_at` is the instant its last update's transaction began (the trigger
`set_updated_at` writes `now()`), so that a stamp can go back; instants are never
taken twice. `shown` is the last preview the administrator saw, and `opened`, a history
variable, the values a draft was opened under. The other handlers that change a
process are one action, `Rewrite`: what matters here is that they write no radius.

`ProcessTracking` EXTENDS `AssetReview` and gives its requests their log: each action of
`AssetReview` is taken together with the entry the handler writes (`Register`, `Change`,
`LogRemoval` then `Remove`) or with none (`Unlogged`). An entry tells the status the
request read and the one it assigned, and is stamped when its INSERT is sent: after the
UPDATE for a change, before the DELETE for a removal. `ReadRow`, `ReadLogs` and
`ReadRemoval` are the panel's statements, and `Timeline`, `AnalysisStartedAt`,
`FirstApprovedAt` and `CurrentStart` what `tracked_process` makes of them. `since` and
`overtaken` are history variables.

`LoginLimiter` models `enforce_login_rate_limit`, which runs without an await, and the
verification after it, which does not: attempts of other requests come in between, and a
success forgets the whole key. Servers are processes with a memory each; the deployment
(`Dockerfile`) runs one.

The `MC*` modules give the constants of each run their values.

## Runs

| Run | Shows | Bounds |
|---|---|---|
| `AssetReview` | `ReviewedPairs`, `NewOnlyAnalysed`, `NewLeftByStart`, `RemovedForGood` hold with concurrent requests | 2 processes, 2 workers, 4 requests, 2 places 600 m apart, radii 250 and 1000, 2 statuses in examination |
| `AssetSerial` | `IrregularJustified`, `ApprovalConfirmsCurrent` hold when requests do not overlap | 1 worker, 3 requests, 2 places 400 m apart, a LED panel and a LED gable, with and without justification |
| `AssetAnswered` | `Answered`: every request ends | 2 processes at one place, 2 workers, 3 requests |
| `AssetStaleApproval` | an approval over a row moved meanwhile | violation |
| `UserAdmin` | `ActorKeepsAdmin` | 3 accounts (two share the bootstrap username), 2 workers, 3 requests |
| `UserAdminOverlap` | no administrator left | violation |
| `ProtocolCounter` | `NeverTwice`, `ContinuesFromGreatest`, `NoneSkipped` | 3 workers, 4 requests, one year, codes older than their counters |
| `PublicDrafts` | `OneProcessEach`, `SameProtocol`, `OwnForm`, `RateLimited`, `RetryNeverRefused`, `LivesOnce` | 2 drafts of one client with a limit of 1, 3 workers, 3 instants |
| `RadiusRules` | `ConfirmedIsCurrent`, `UnchangedIsShown`, `DraftRadiusKept` | one rule, one process, one draft (of this version or an older one), 2 workers, 3 requests |
| `OrphanDiagnostics` | `UsedNeverOrphan`, `AbandonedOnlyLate`, `InconsistentOnlyRemoved`, `NoAbsenceInvented`, `ListingComplete`, `LeftoversFound` | 2 drafts, pages of 1 entry, 2 instants, a lifetime of 0 and a minimum age of 1 |
| `ProcessTracking` | `LogTellsStatus`, `CurrentNotOverstated`, `ApprovalAfterAnalysis`, `RemovalsAreReal`, `RemovalEndsTimeline` | 1 process, 2 workers, 5 requests |
| `LoginLimiter` | `Limited`, `RefusedExactlyWhenFull` | 2 keys, 3 workers, a limit of 2 in a window of 2, 7 instants |

`MaxRequests` and `MaxTime` are the only bounds inside the models; every other
size is a constant. They are enough for the cases the properties are about: a
conflict needs two processes, a race two workers, and four requests are one more
than the longest counterexample found (move, approve, approve). 600 m is within the
larger radius and beyond the 500 m that a search always covers: `ST_DWithin` drops the
other process, or not, by the radii in force. 400 m is within the distance of a LED panel
from a LED gable and beyond the smaller radius. The places of a run differ in one
coordinate: that two requests may each move one is for the proofs only. In
`ProtocolCounter` three workers let one wait for the counter while another has
it and a third already read; a second year would only add an independent copy. In
`PublicDrafts` two instants after the start are one beyond both the window and
the lifetime, and the second draft is the first one over the limit; the bound is on the
clock and on drafts, and requests repeat without a bound; a third worker waits
while one holds a row and another retries. In `RadiusRules` every
request takes an instant, so `MaxTime` bounds the requests: three are a preview, an edit
and a confirmation, or an opening, an edit and a finalization, in any overlap. A rule edited
twice between a preview and its confirmation, or removed and created again, takes one
more: `UnchangedIsShown` covers it by its proof only. `ProcStart` is 1
and the seed's numbers 2 and 3 in place of 100 and 101 to 105: what matters is
that the seed starts right after `ProcStart`. In `OrphanDiagnostics` one instant is beyond the
lifetime and as old as the minimum age; pages of one entry make every upload able to
shift the listing, and two drafts let one precede the other in it. The behaviour
stops at the report, and links are made only until they are read, since a later
one can change no finding. In `ProcessTracking` the log of one process does not depend
on another's: five requests are a registration, a start, an approval and two that
overlap it. In `LoginLimiter` seven instants hold three windows in a row. Identifiers and
workers are interchangeable wherever a cfg names a SYMMETRY; no liveness run
does. `CHECK_DEADLOCK FALSE` everywhere: with its requests spent and everything
answered the system may stop.

The two violations are kept as runs because a text of the repository says what
the code does not keep; PROJECT.json quotes them. Both are one request overlapping
another between its read and its write, and the properties that survive are those
guarded by a lock, by a unique row or by the columns an UPDATE leaves out. Three more disagreements of the same kind are
within reach of the models and have no run of their own: with the constants of
`AssetReview`, TLC also refutes `StartOnlyFromNew` (`media_assets.py:599-617`: the
status is read without a lock, and a second start-analysis puts an approved process
back; `LoneStartsFromNew` proves that nothing else does) and `IrregularJustified` (`media_assets.py:766`, with `Justifications = {TRUE,
FALSE}`: one request makes a process irregular while another empties its
justification); and in `RadiusRules` a process whose area is edited between
the preview of its radius and the confirmation gets a radius nobody was shown
(`media_assets.py:710`), which is why `UnchangedIsShown` speaks of unchanged processes.
A fourth limits `RemovalEndsTimeline`: a removal is logged before its DELETE has the
row's lock, so that a change logged meanwhile comes after it in the timeline
(`overtaken`).

Fairness, in `AssetReview` only: `Fairness` says that an await of a handler
returns (weak fairness of the steps that never wait for others), and that the
waiters of the advisory lock and of a row lock get their turn (strong fairness of `Lock`,
`Flush` and the plain commits), which PostgreSQL's queues of waiters give. Nothing
says that a request ever begins, or that one aborts.

## Proofs

All proofs hold for any number of processes, workers, accounts, drafts and
requests, and for any distances, from the named assumptions of the modules.

- `AssetReviewProofs`: `TypeCorrect`; `ConflictsAreMutual`; and
  `PairsAlwaysReviewed`, for `ReviewedPairs`. The property is not inductive: whether a
  commit keeps it depends on what the request saw before. `PairInv` adds that an
  untouched process is approved (`CleanApproved`), that a reviewing request wants
  approval (`ReviewApproves`), that its search radius covers every process in
  `clean` (`SearchCovers`), and that its conflict list contains every
  reportable conflict with them (`FoundCovers`). The advisory lock,
  held by one request at a time (`TypeOK`), is what keeps `clean` from growing
  between the analysis and the commit; a change that is not a review can only
  take a process out of it.
  `StatusesRespected` and `RemovedStayRemoved` follow from `StatusRead`: the status a
  request read relates to the row's present one only by the transitions the guards
  allow. `OnlyStartsTakeOut` adds that a request other than start-analysis that read a new
  process leaves the status out of its UPDATE (`OnlyStartsLeaveNew`).
  Three rules of the workflow fail when requests overlap. For `StartOnlyFromNew`
  the theorem `LoneStartsFromNew` names the overlap: it holds, whatever the other handlers do
  to the process meanwhile, as long as no second start-analysis of it is in flight
  (`LoneStarts`), because then it stays new until the commit (`StartsFindNew`). For the
  other two (`AssetSerial` checks them with one worker) the theorems `Held*` say what
  is missing: they hold with any
  number of workers as long as no step but a request's last one writes the row it
  read (`RowsHeld`, which a `SELECT ... FOR UPDATE` at the read would give, and which
  `get_asset_or_404` does not). Then what a request checked is still true of what
  it leaves (`HeldRead`). With one worker `RowsHeld` is true by itself (`SerialHolds`), which
  gives `SerialJustified` and `SerialApprovals`.
- `ProcessTrackingProofs`: every property of its run. `TrackingIsReview` carries over what is
  proved of `AssetReview`. `TrackInv` says, of each process, how its log and its row fit
  (`Registered`, `StatusTold`, `SinceTold`, `AnalysisTold`, `RemovalLast`), and of each request
  what its stale read still tells (`Claims`); `RowRead` says what the log may have gained
  since the panel read the row. `LogTellsStatus` is not inductive without them: that an
  entry tells the row's status depends on what its request read.
- `LoginLimiterProofs`: `LoginsLimited` and `LoginsRefusedExactlyWhenFull`, from `Remembered`: what a
  server still remembers of a key is the end of what it admitted, and what it
  forgot had left the window. Hence the attempts it counts when it refuses are the last
  ones it admitted, and while those fill the window it cannot have forgotten one.
- `ProtocolCounterProofs`: type correctness; `ProtocolsAreUnique`, the refinement
  of `ProtocolSequence`, from `Held` (who has the counter's row keeps it, so that what it
  will write follows what is there); `ProtocolsContinue` from `AllBehind` (stored numbers
  are behind the counter or the first value a request read); `ProtocolsSkipNone` from
  `Traced` (where a first value came from).
- `UserAdminProofs`: type correctness; `ActorAlwaysKeepsAdmin`, from
  `SelfUnchanged` (no request takes administration from its own actor); and
  `HeldAdminRemains`: with any number of workers `AdminRemains` holds as long as nobody
  takes administration from an account that is acting (`ActorsHeld`, which reading the
  actor `FOR UPDATE` would give). With one worker that is so (`SerialAdminRemains`).
- `PublicDraftsProofs`: type correctness, `DraftMakesOneProcess`, `DraftKeepsProtocol`,
  `DraftKeepsForm` and `DraftRetryAnswered` follow from `DraftInv`: the three
  shapes a row takes (absent, open, finalized once), what a request past its
  checks knows of its row, and that no two requests hold one row.
  `DraftsRateLimited` follows from `RateInv`: what a request counted under its
  client's lock still holds when it inserts. `DraftsLiveOnce` is the refinement of
  `DraftLife`: every step of a request is one of the draft's life or a stutter.
- `RadiusRulesProofs`: type correctness, `ConfirmationsAreCurrent`,
  `UnchangedAreShown` and `BandsKeepTheirRadius`. `StampsUnique` (an edit in flight
  carries an instant no rule, preview or other edit carries) gives
  `PreviewsExplained`: as long as a rule keeps the stamp displayed, it gives the
  vehicle displayed the radius displayed. `Held` and `ConfirmInv` say what
  the two `FOR UPDATE` of a confirmation keep still, and `DraftsKnown` what a draft's
  snapshot, or its date, says of the rule it was opened under. The assumptions
  put the initial rules and legacy drafts no later than the first instant.
- `OrphanDiagnosticsProofs`: first what `DraftLife` itself promises, without the requests
  that implement it: `LifeInv` (`DraftSound`, `CodesApart`, `ProcessesKnown`) is inductive and
  gives `LifeKeepsCodesApart` and `LifeEndsOnce`. `DiagnosisKeepsLife` carries it over to the
  diagnosis. The six promises of a report follow from `DiagInv`, which adds `StampInv`
  (files come after their draft; a request past its lifetime check passed it) and `ReadInv`,
  what the snapshots still tell after the state has moved on: a row read as finalized is
  the row of now, and one read as open has kept its creation time (`RowsPast`); a
  process of a draft read as finalized is in every later snapshot unless it was removed
  (`ProcessesRead`); what the program referred to at the beginning belongs to a draft read
  as finalized, or is named by a link that has been or will be read (`UsedRead`); an
  attachment has its draft and its object (`AttachmentsSound`); and what the listing has yet to report stands at its offset or later (`ListingAhead`). For the last one
  `FirstPlaces` counts: if an entry has k before it, k entries stand in the first k
  places, so that a page that leaves an entry behind is full (`FullPage`), and
  an upload moves entries to later places only (`RankGrows`). The argument uses neither
  the refusal of an entry listed twice nor `MinAge > Lifetime`.

Only model-checked: `Answered`, which is liveness. Three things
stay with TLC for good: liveness under fairness (and ENABLED), induction over
data, and RECURSIVE operators; the models use none of the last.

## Not modelled

- Lists, map clusters, statistics and the analysts' summary: read-only SQL, evaluated by
  PostGIS or by aggregates, with no state to keep and no second reader to disagree with.
- Field validation (`schemas.py`), the city's polygon: checks of one request by itself,
  better tested than model-checked. What the other modules need of them is in their
  types: sizes and bands in `RadiusRules`, the merged row in `AssetReview`.
- Wording, formatting and PDF layout; e-mail, which has no caller (`send_finalized_receipt`
  and its counterpart of the other form are dead code); settings and health probes;
  migrations. The text of a code is not built.
- Of `ProcessTracking`: who acted, the filters, and logs older than the present format.
- Of `OrphanDiagnostics`: malformed keys, manifests and timestamps, which this program never
  writes, and objects outside the drafts' folders, which it only counts.
- The real-valued distances are tables of naturals; how far the ellipsoid and the
  sphere disagree is stated by `Reportable` and not computed.

## Plan

In this order:

1. Proofs: of `RadiusRules`, what would have to be locked for a process edited between a
   preview and its confirmation to get a radius that was shown, as `HeldApprovals` says of a
   review.
2. A composition of drafts, counters and processes: a finalization creates a
   process that `AssetReview` reviews and `ProcessTracking` logs.
3. Runs about a rule deleted under a registration, and an update of a rule in flight
   when a draft without a snapshot was opened. Twelve runs are a readable size for this
   project: new questions replace the weakest of the present ones.
