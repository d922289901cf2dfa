--------------------------- MODULE OrphanDiagnostics ---------------------------
(* The dry run that looks for abandoned drafts and orphaned uploads            *)
(* (scripts/diagnose_orphans.py, services/orphan_diagnostics.py), while the    *)
(* public forms (DraftLife) go on: it changes nothing.  Its transaction is     *)
(* READ COMMITTED, so each of its four SELECTs has a snapshot of its own; the  *)
(* bucket is listed afterwards, page by page, and the clock is read last.      *)
(*                                                                             *)
(* A process stands for its media asset, form and attachments: they are        *)
(* inserted together and removed together.  The objects of a draft stand in    *)
(* one folder that bears its id, and are one.  Manifests and keys are those    *)
(* this program writes, never malformed.                                       *)
EXTENDS DraftLife

CONSTANTS
    MinAge,         \* --min-age-hours, in ticks
    PageSize        \* entries in a page of the listing

(* The ids are numbered in the order in which the storage sorts them. *)
ASSUME DiagnosisAssumption ==
    /\ Drafts \subseteq Nat /\ IsFiniteSet(Drafts)
    /\ MinAge \in Nat /\ MinAge > Lifetime
    /\ PageSize \in Nat \ {0}

Stamps == [uploaded : Times, taken : Times, finalized : Times, attached : Times]

VARIABLES
    stamps,         \* stamps[d]: when its object was created, when its lifetime was
                    \* checked last, finalized_at, created_at of its attachments
    links,          \* drafts whose object the attachment_links of a process names
    diag            \* the diagnosis

diagVars == <<lifeVars, stamps, links, diag>>

Uploaded == {d \in Drafts : files[d]}

(* What refers to the objects of drafts: links, processes, answers to notices. *)
References ==
    [by : {"link"}, draft : links]
        \cup [by : {"process"}, draft : {p.draft : p \in processes}]
        \cup [by : {"answer"}, draft : {d \in Drafts : /\ drafts[d] # Absent
                                                      /\ drafts[d].code # NoCode
                                                      /\ drafts[d].code.series = "HESP"}]

-----------------------------------------------------------------------------
(* The public forms, with the times they record. *)

Stamp(d, field) == stamps' = [stamps EXCEPT ![d][field] = now] /\ UNCHANGED <<links, diag>>
Unstamped == UNCHANGED <<stamps, links, diag>>

UploadAt(d) == UploadFiles(d) /\ Stamp(d, "uploaded")

TakeAt(d) == TakeDraft(d) /\ Stamp(d, "taken")

(* finalized_at is read once the files are valid, before the protocol. *)
ValidateAt(d) == ValidateFiles(d) /\ Stamp(d, "finalized")

(* What a request without effect wrote down goes with it. *)
ReleaseAt(d) ==
    /\ Release(d)
    /\ stamps' = [stamps EXCEPT ![d].taken = 0, ![d].finalized = 0]
    /\ UNCHANGED <<links, diag>>

FinalizeAt(d) == FinalizeDraft(d) /\ Stamp(d, "attached")

(* Staff name an object in the links of a process (update_media_asset).  Those *)
(* of its form, read one statement later, are alike and left out; a link stays. *)
(* Bound: none is made once they are read, when it can change no finding.      *)
Link(d) ==
    /\ diag.pc \in {"drafts", "assets"}
    /\ d \in Live \ links
    /\ links' = links \cup {d}
    /\ UNCHANGED <<lifeVars, stamps, diag>>

(* Bound: nothing after the report is looked at. *)
FormsStep ==
    /\ diag.pc # "done"
    /\ \/ Pass /\ Unstamped
       \/ RemoveProcess /\ Unstamped
       \/ \E d \in Drafts :
           \/ OpenDraft(d) /\ Unstamped
           \/ UploadAt(d) \/ TakeAt(d) \/ ValidateAt(d) \/ ReleaseAt(d) \/ FinalizeAt(d)
           \/ Link(d)

-----------------------------------------------------------------------------
(* The diagnosis: what it has read, and a history of what was so then. *)

Diagnoses ==
    [pc : {"drafts", "assets", "forms", "attachments", "list", "report", "done"},
     rows : [Drafts -> Rows \cup {Absent}], assets : SUBSET Processes, forms : SUBSET Processes,
     attachments : SUBSET Processes, links : SUBSET Drafts, objects : SUBSET Drafts,
     offset : Nat, listed : BOOLEAN, at : Times, ambiguous : BOOLEAN,
     began : Times, used : SUBSET [by : {"link", "process", "answer"}, draft : Drafts],
     there : SUBSET Drafts]

NotBegun ==
    [pc |-> "drafts", rows |-> [d \in Drafts |-> Absent], assets |-> {}, forms |-> {},
     attachments |-> {}, links |-> {}, objects |-> {}, offset |-> 0, listed |-> FALSE, at |-> 0,
     ambiguous |-> FALSE, began |-> 0, used |-> {}, there |-> {}]

Reading(pc) == diag.pc = pc /\ UNCHANGED <<lifeVars, stamps, links>>

(* The four SELECTs, in their order. *)
ReadDrafts ==
    /\ Reading("drafts")
    /\ diag' = [diag EXCEPT !.pc = "assets", !.rows = drafts,
                            !.began = now, !.used = References]

ReadAssets ==
    /\ Reading("assets")
    /\ diag' = [diag EXCEPT !.pc = "forms", !.assets = processes, !.links = links]

ReadForms ==
    /\ Reading("forms")
    /\ diag' = [diag EXCEPT !.pc = "attachments", !.forms = processes]

\* A mutant: the drafts are read last.
ReadAttachmentsThenDrafts ==
    /\ Reading("attachments")
    /\ diag' = [diag EXCEPT !.pc = "list", !.attachments = processes, !.rows = drafts, !.there = Uploaded]

ReadAttachments ==
    /\ Reading("attachments")
    /\ diag' = [diag EXCEPT !.pc = "list", !.attachments = processes, !.there = Uploaded]

(* A database error: no finding at all, and the command may be run again. *)
DatabaseFails ==
    /\ \E pc \in {"assets", "forms", "attachments"} : Reading(pc)
    /\ diag' = NotBegun

(* The storage's answer: PageSize names in order, after the first offset. *)
Page(offset) ==
    {d \in Uploaded : Cardinality({e \in Uploaded : e < d}) \in offset..(offset + PageSize - 1)}

\* A mutant: a full page is taken for the last.
ListPageOnce ==
    /\ Reading("list")
    /\ diag' = [diag EXCEPT !.objects = Page(0), !.pc = "report", !.listed = TRUE]

(* A full page is not the last. *)
ListPage ==
    LET page == Page(diag.offset) IN
    /\ Reading("list")
    /\ page \cap diag.objects = {}
    /\ diag' = IF Cardinality(page) < PageSize
               THEN [diag EXCEPT !.objects = @ \cup page, !.offset = 0, !.pc = "report", !.listed = TRUE]
               ELSE [diag EXCEPT !.objects = @ \cup page, !.offset = @ + Cardinality(page)]

\* A mutant: what was listed until the error counts as the bucket.
StorageFailsPartial ==
    /\ Reading("list")
    /\ diag' = [diag EXCEPT !.pc = "report", !.listed = TRUE]

(* An error, max_entries exceeded, or an entry listed twice as an upload moved *)
(* it to the next page: nothing listed counts. *)
StorageFails ==
    /\ Reading("list")
    /\ diag' = [diag EXCEPT !.pc = "report", !.objects = {}, !.offset = 0]

(* A text of links is ambiguous when it names objects of the namespace and     *)
(* none of them is listed.  Which objects one text names together is left      *)
(* open: with some listed and some not, there may be such a text or not.       *)
Ambiguities ==
    {ambiguous \in BOOLEAN :
        IF ambiguous THEN ~(diag.links \subseteq diag.objects)
        ELSE diag.links = {} \/ diag.links \cap diag.objects # {}}

(* analyze: its clock is read last. *)
Report ==
    \E ambiguous \in Ambiguities :
        /\ Reading("report")
        /\ diag' = [diag EXCEPT !.pc = "done", !.at = now, !.ambiguous = ambiguous]

DiagnosisStep ==
    \/ ReadDrafts \/ ReadAssets \/ ReadForms \/ ReadAttachments \/ DatabaseFails
    \/ ListPage \/ StorageFails \/ Report

DiagInit ==
    /\ LifeInit
    /\ stamps = [d \in Drafts |-> [uploaded |-> 0, taken |-> 0, finalized |-> 0, attached |-> 0]]
    /\ links = {}
    /\ diag = NotBegun

DiagNext == FormsStep \/ DiagnosisStep

DiagSpec == DiagInit /\ [][DiagNext]_diagVars

-----------------------------------------------------------------------------
(* What analyze concludes.  d names a draft, and the folder of its object; a   *)
(* time read with a row or an object does not change afterwards.               *)

Ended(d) == diag.rows[d] # Absent /\ diag.rows[d].code # NoCode
Pending(d) == diag.rows[d] # Absent /\ diag.rows[d].code = NoCode

(* A finalized VEI draft gave its manifest to the attachments. *)
InManifest(d) == diag.rows[d] # Absent /\ diag.rows[d].payload # "emptied"

\* A mutant: ages are not looked at.
OldAlways(then) == TRUE

Old(then) == then <= diag.at - MinAge

RepeatedCode(d) == \E e \in Drafts \ {d} : Ended(e) /\ diag.rows[e].code = diag.rows[d].code

Abandoned == {d \in Drafts : Pending(d) /\ Old(diag.rows[d].created)}

(* A finalized draft whose outcome is not there. *)
Inconsistent ==
    {d \in Drafts :
        /\ Ended(d) /\ Old(stamps[d].finalized)
        /\ LET code == diag.rows[d].code IN
           \/ RepeatedCode(d)
           \/ code.series = "HESP" /\ diag.rows[d].payload # "HESP"
           \/ /\ code.series = "VEI"
              /\ \A p \in diag.assets \cap diag.forms \cap diag.attachments : p.code # code}

(* An attachment without its form or its process, without its object, or out   *)
(* of the folder of another process's draft. *)
BrokenAttachments ==
    {p \in diag.attachments :
        /\ Old(stamps[p.draft].attached)
        /\ \/ p \notin diag.forms \cap diag.assets
           \/ diag.listed /\ p.draft \notin diag.objects
           \/ diag.listed /\ Ended(p.draft) /\ diag.rows[p.draft].code # p.code}

(* A manifest of HESP without its object. *)
BrokenManifests ==
    {d \in Drafts :
        /\ Ended(d) /\ diag.rows[d].code.series = "HESP" /\ InManifest(d)
        /\ Old(stamps[d].finalized)
        /\ diag.listed /\ d \notin diag.objects}

\* A mutant: the manifest of a finalized draft protects nothing.
ProtectedWhilePending(d) ==
    \/ d \in diag.links \/ \E p \in diag.attachments : p.draft = d
    \/ Pending(d) /\ ~Old(diag.rows[d].created)

\* A mutant: every manifest protects its objects.
ProtectedByManifest(d) ==
    d \in diag.links \/ InManifest(d) \/ \E p \in diag.attachments : p.draft = d

(* Named by an attachment, a link, or the manifest of a finalized or recent    *)
(* draft. *)
Protected(d) ==
    \/ \E p \in diag.attachments : p.draft = d
    \/ d \in diag.links
    \/ InManifest(d) /\ (Ended(d) \/ ~Old(diag.rows[d].created))

Recent(d) == ~Old(stamps[d].uploaded) \/ (Ended(d) /\ ~Old(stamps[d].finalized))

(* A text of links that cannot be matched to the listing silences them all. *)
CanReportOrphans == diag.listed /\ ~diag.ambiguous

Orphans == {d \in diag.objects : CanReportOrphans /\ ~Protected(d) /\ ~Recent(d)}

-----------------------------------------------------------------------------
Done == diag.pc = "done"

(* Every variable has its type. *)
DiagTypeOK ==
    /\ LifeTypeOK
    /\ stamps \in [Drafts -> Stamps]
    /\ links \subseteq Drafts
    /\ diag \in Diagnoses

(* What the program referred to when the diagnosis began, and still refers to, *)
(* is no orphan candidate: persisted references protect their objects          *)
(* (README.md:43), whatever is finalized or uploaded meanwhile.                *)
UsedNeverOrphan == Done => \A r \in diag.used \cap References : r.draft \notin Orphans

(* A draft that is finalized after all is called abandoned, or its object an   *)
(* orphan, only by a report that came later than MinAge - Lifetime after its   *)
(* lifetime was checked: the margin of orphan_diagnostics.py:171-173 pays for  *)
(* a finalization that outlives the draft and for a snapshot that is older.    *)
AbandonedOnlyLate ==
    Done => \A d \in Abandoned \cup Orphans :
              (\E r \in References : r.draft = d /\ r.by # "link") =>
                  diag.at - stamps[d].taken >= MinAge - Lifetime

(* A finalized draft is called inconsistent only if its process was removed:   *)
(* the drafts are read before what their finalization committed                *)
(* (scripts/diagnose_orphans.py:45-63).                                        *)
InconsistentOnlyRemoved ==
    Done => \A d \in Inconsistent : drafts[d].code.series = "VEI" /\ \A p \in processes : p.draft # d

(* No absence is inferred that was not there: an attachment is called broken   *)
(* only if its process was created or removed while the tables were read, and  *)
(* a manifest never is (orphan_diagnostics.py:169, 286-292, 323).              *)
NoAbsenceInvented ==
    Done => /\ BrokenManifests = {}
            /\ \A p \in BrokenAttachments :
                 stamps[p.draft].attached >= diag.began /\ diag.at - diag.began >= MinAge

(* A listing that is kept holds every object there was when it began, though   *)
(* uploads move the entries between its pages (orphan_diagnostics.py:392-455). *)
ListingComplete == diag.listed => diag.there \subseteq diag.objects

(* A complete report finds the objects of every draft that died unfinished.    *)
LeftoversFound ==
    Done /\ CanReportOrphans =>
        \A d \in diag.there :
            /\ diag.rows[d] # Absent /\ drafts[d].code = NoCode /\ d \notin links
            /\ Old(drafts[d].created) /\ Old(stamps[d].uploaded)
            => d \in Orphans
=============================================================================
