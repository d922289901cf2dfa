----------------------------- MODULE PublicDrafts -----------------------------
(* The public forms: a new process (VEI, public_submissions.py) and an answer  *)
(* to a requirement notice (HESP, requirement_responses.py).  A client opens a *)
(* draft (/iniciar), uploads its files straight to the storage, and asks for   *)
(* it to be finalized (/finalizar), again if the answer got lost.  Both forms  *)
(* share the drafts' table, and their ids are interchangeable in the URLs.     *)
(*                                                                             *)
(* A worker serves one request in one READ COMMITTED transaction; between two  *)
(* of its steps it awaits the database or the storage.                         *)
EXTENDS Integers, FiniteSets

CONSTANTS
    Drafts,         \* ids of drafts (UUIDs, never reused)
    Clients,        \* fingerprints of the callers' addresses
    Workers,        \* concurrent requests
    Limit,          \* public_submission_rate_limit
    Window,         \* RATE_LIMIT_WINDOW, in ticks of the clock
    Lifetime,       \* DRAFT_LIFETIME, in ticks
    MaxTime,        \* bound: the clock stops here
    Absent, NoCode

ASSUME LimitsAssumption ==
    Limit \in Nat \ {0} /\ Window \in Nat /\ Lifetime \in Nat /\ MaxTime \in Nat

Forms == {"VEI", "HESP"}
Codes == [series : Forms, number : Nat \ {0}]
Times == 0..MaxTime

(* A row of public_submission_drafts.  payload keeps its process_type, which a *)
(* finalized VEI draft loses.  finalized_at and process_code are written       *)
(* together: code # NoCode stands for both.                                    *)
Rows == [client : Clients, created : Times, payload : Forms \cup {"emptied"}, code : Codes \cup {NoCode}]

ASSUME NoRowAssumption == Absent \notin Rows /\ NoCode \notin Codes

VARIABLES
    now,            \* the clock of the application servers
    drafts,         \* drafts[d]: the committed row, or Absent
    files,          \* files[d]: the objects its signed URLs received, all together
    processes,      \* media_assets created from drafts: [draft, code]
    last,           \* last[f]: last number of the form's series (see ProtocolCounter)
    tx,             \* tx[w]: the request worker w serves
    \* History:
    form,           \* form[d]: the form that opened the draft
    made,           \* made[d]: how many processes were committed from it
    received        \* received[d]: the protocols its client was told

vars == <<now, drafts, files, processes, last, tx, form, made, received>>
history == <<form, made, received>>

Idle == [pc |-> "idle"]
Requests ==
    [pc : {"lock", "count", "insert"}, form : Forms, client : Clients]
        \cup [pc : {"find", "validate", "commit"}, form : Forms, draft : Drafts]
        \cup [pc : {"answer"}, form : Forms, draft : Drafts, code : Codes]

Live == {d \in Drafts : drafts[d] # Absent}

Advance(w, t) == tx' = [tx EXCEPT ![w] = t]
Answer(w) == Advance(w, Idle)

-----------------------------------------------------------------------------
(* /iniciar, once the payload and the manifest are valid. *)

Initiate(w) ==
    \E f \in Forms, client \in Clients :
        /\ tx[w] = Idle
        /\ Advance(w, [pc |-> "lock", form |-> f, client |-> client])
        /\ UNCHANGED <<now, drafts, files, processes, last, history>>

\* A mutant: no lock.
LimitFreeAlways(client) == TRUE

(* The advisory lock of a fingerprint is free: requests of both forms take it. *)
LimitFree(client) ==
    \A w \in Workers : ~(tx[w].pc \in {"count", "insert"} /\ tx[w].client = client)

Lock(w) ==
    /\ tx[w].pc = "lock"
    /\ LimitFree(tx[w].client)
    /\ Advance(w, [tx[w] EXCEPT !.pc = "count"])
    /\ UNCHANGED <<now, drafts, files, processes, last, history>>

CreatedBy(client, since) ==
    {d \in Live : drafts[d].client = client /\ drafts[d].created >= since}

(* The count, a statement of its own after the lock. *)
Within(w) ==
    /\ tx[w].pc = "count"
    /\ Cardinality(CreatedBy(tx[w].client, now - Window)) < Limit
    /\ Advance(w, [tx[w] EXCEPT !.pc = "insert"])
    /\ UNCHANGED <<now, drafts, files, processes, last, history>>

(* The upload URLs are signed, the draft is inserted and committed. *)
Insert(w) ==
    \E d \in Drafts :
        /\ tx[w].pc = "insert"
        /\ drafts[d] = Absent
        /\ drafts' = [drafts EXCEPT ![d] =
             [client |-> tx[w].client, created |-> now, payload |-> tx[w].form, code |-> NoCode]]
        /\ form' = [form EXCEPT ![d] = tx[w].form]
        /\ Answer(w)
        /\ UNCHANGED <<now, files, processes, last, made, received>>

(* The client uploads through the signed URLs; the storage refuses to write an *)
(* object twice.  "valid": every one is there, with its size and signature.    *)
Upload(d) ==
    \E result \in {"valid", "invalid"} :
        /\ d \in Live
        /\ files[d] = "missing"
        /\ files' = [files EXCEPT ![d] = result]
        /\ UNCHANGED <<now, drafts, processes, last, tx, history>>

-----------------------------------------------------------------------------
(* /finalizar, of either form, on any draft whose token the client has. *)

Finalize(w) ==
    \E f \in Forms, d \in Live :
        /\ tx[w] = Idle
        /\ Advance(w, [pc |-> "find", form |-> f, draft |-> d])
        /\ UNCHANGED <<now, drafts, files, processes, last, history>>

\* A mutant: SELECT without FOR UPDATE.
DraftFreeAlways(d) == TRUE

(* SELECT ... FOR UPDATE: the row lock stays until the transaction ends. *)
DraftFree(d) == \A w \in Workers : ~(tx[w].pc \in {"validate", "commit"} /\ tx[w].draft = d)

Found(w) == tx[w].pc = "find" /\ DraftFree(tx[w].draft)

\* A mutant: the VEI handler answers whatever draft is finalized.
AnswerableAny(f, row) == row.code # NoCode /\ (f = "VEI" \/ row.payload = "HESP")

\* A mutant: both handlers look at the payload's process_type.
AnswerableByPayload(f, row) == row.code # NoCode /\ row.payload = f

(* A finalized draft: VEI looks at the code's prefix, HESP at the payload's    *)
(* process_type, which VEI drafts lose and HESP drafts keep.                   *)
Answerable(f, row) ==
    /\ row.code # NoCode
    /\ IF f = "VEI" THEN row.code.series # "HESP" ELSE row.payload = "HESP"

\* A mutant: a finalized draft is finalized again.
OpenAgain(f, row) == row.payload = f /\ now - row.created <= Lifetime

(* An open draft of this form, in its lifetime. *)
Open(f, row) ==
    /\ row.code = NoCode
    /\ row.payload = f
    /\ now - row.created <= Lifetime

(* The existing protocol is returned. *)
Repeat(w) ==
    LET t == tx[w] IN
    /\ Found(w)
    /\ Answerable(t.form, drafts[t.draft])
    /\ Advance(w, [pc |-> "answer", form |-> t.form, draft |-> t.draft, code |-> drafts[t.draft].code])
    /\ UNCHANGED <<now, drafts, files, processes, last, history>>

Take(w) ==
    /\ Found(w)
    /\ Open(tx[w].form, drafts[tx[w].draft])
    /\ Advance(w, [tx[w] EXCEPT !.pc = "validate"])
    /\ UNCHANGED <<now, drafts, files, processes, last, history>>

(* validate_uploaded_attachments *)
Validate(w) ==
    /\ tx[w].pc = "validate"
    /\ files[tx[w].draft] = "valid"
    /\ Advance(w, [tx[w] EXCEPT !.pc = "commit"])
    /\ UNCHANGED <<now, drafts, files, processes, last, history>>

(* The draft when it is finalized: a VEI draft hands its data to the process.  *)
Finalized(f, row, code) ==
    [row EXCEPT !.code = code, !.payload = IF f = "VEI" THEN "emptied" ELSE @]

\* A mutant: numbers start at 0.
NextCodeFromZero(f) == [series |-> f, number |-> last[f]]

(* ProtocolCounter shows that what is committed last is never given twice. *)
NextCode(f) == [series |-> f, number |-> last[f] + 1]

(* The protocol is taken; VEI also creates the process, its form, attachments  *)
(* and log.  All of it commits at once.                                        *)
Commit(w) ==
    LET t == tx[w]
        code == NextCode(t.form)
    IN /\ t.pc = "commit"
       /\ last' = [last EXCEPT ![t.form] = @ + 1]
       /\ drafts' = [drafts EXCEPT ![t.draft] = Finalized(t.form, drafts[t.draft], code)]
       /\ IF t.form = "VEI"
          THEN /\ processes' = processes \cup {[draft |-> t.draft, code |-> code]}
               /\ made' = [made EXCEPT ![t.draft] = @ + 1]
          ELSE UNCHANGED <<processes, made>>
       /\ Advance(w, [pc |-> "answer", form |-> t.form, draft |-> t.draft, code |-> code])
       /\ UNCHANGED <<now, files, form, received>>

(* receipt_data_for_draft: the form of the process that bears the draft's      *)
(* protocol, unless staff removed them.                                        *)
FormOf(d) == {p \in processes : p.code = drafts[d].code}

(* A VEI receipt is made out of that form.  A HESP receipt is made out of the  *)
(* draft, for which its row is locked.                                         *)
ReceiptReady(f, d) == IF f = "VEI" THEN FormOf(d) # {} ELSE DraftFree(d)

(* /comprovante, of either form, on any draft: a receipt names the protocol.   *)
Receipt(w) ==
    \E f \in Forms, d \in Live :
        /\ tx[w] = Idle
        /\ Answerable(f, drafts[d])
        /\ ReceiptReady(f, d)
        /\ Advance(w, [pc |-> "answer", form |-> f, draft |-> d, code |-> drafts[d].code])
        /\ UNCHANGED <<now, drafts, files, processes, last, history>>

(* The answer reaches the client.  One that does not is an Abort. *)
Deliver(w) ==
    /\ tx[w].pc = "answer"
    /\ received' = [received EXCEPT ![tx[w].draft] = @ \cup {tx[w].code}]
    /\ Answer(w)
    /\ UNCHANGED <<now, drafts, files, processes, last, form, made>>

(* 429; 404 or 410; 409 over the files. *)
Refuse(w) ==
    LET t == tx[w] IN
    /\ \/ t.pc = "count" /\ Cardinality(CreatedBy(t.client, now - Window)) >= Limit
       \/ /\ Found(w)
          /\ ~Answerable(t.form, drafts[t.draft]) /\ ~Open(t.form, drafts[t.draft])
       \/ t.pc = "validate" /\ files[t.draft] # "valid"
    /\ Answer(w)
    /\ UNCHANGED <<now, drafts, files, processes, last, history>>

(* A request ends without effect: the storage fails (503), the rule of areas   *)
(* changed (409, see RadiusRules), the connection is lost, the server stops.   *)
Abort(w) ==
    /\ tx[w] # Idle
    /\ Answer(w)
    /\ UNCHANGED <<now, drafts, files, processes, last, history>>

(* Staff remove a process, or its form with it (delete_media_asset,            *)
(* delete_application_form); its draft stays. *)
Remove ==
    \E p \in processes :
        /\ processes' = processes \ {p}
        /\ UNCHANGED <<now, drafts, files, last, tx, history>>

Tick ==
    /\ now < MaxTime
    /\ now' = now + 1
    /\ UNCHANGED <<drafts, files, processes, last, tx, history>>

-----------------------------------------------------------------------------
Init ==
    /\ now = 0
    /\ drafts = [d \in Drafts |-> Absent]
    /\ files = [d \in Drafts |-> "missing"]
    /\ processes = {}
    /\ last = [f \in Forms |-> 0]
    /\ tx = [w \in Workers |-> Idle]
    /\ form = [d \in Drafts |-> "VEI"]
    /\ made = [d \in Drafts |-> 0]
    /\ received = [d \in Drafts |-> {}]

Next ==
    \/ Tick \/ Remove
    \/ \E d \in Drafts : Upload(d)
    \/ \E w \in Workers :
        \/ Initiate(w) \/ Lock(w) \/ Within(w) \/ Insert(w)
        \/ Finalize(w) \/ Repeat(w) \/ Take(w) \/ Validate(w) \/ Commit(w) \/ Deliver(w)
        \/ Receipt(w) \/ Refuse(w) \/ Abort(w)

Spec == Init /\ [][Next]_vars

-----------------------------------------------------------------------------
(* Every variable has its type. *)
TypeOK ==
    /\ now \in Times
    /\ drafts \in [Drafts -> Rows \cup {Absent}]
    /\ files \in [Drafts -> {"missing", "valid", "invalid"}]
    /\ processes \subseteq [draft : Drafts, code : Codes]
    /\ last \in [Forms -> Nat]
    /\ tx \in [Workers -> {Idle} \cup Requests]
    /\ form \in [Drafts -> Forms]
    /\ made \in [Drafts -> Nat]
    /\ received \in [Drafts -> SUBSET Codes]

(* However often a draft is finalized, at once or again after a lost answer,   *)
(* it gives at most one process, and a HESP draft none                         *)
(* (public_submissions.py:436-447; README.md:13).                              *)
OneProcessEach ==
    \A d \in Drafts : made[d] <= IF form[d] = "VEI" THEN 1 ELSE 0

(* Every answer about a draft carries the same protocol, the one it keeps,     *)
(* even after its process was removed or the draft expired.                    *)
SameProtocol == \A d \in Drafts : \A code \in received[d] : drafts[d] # Absent /\ drafts[d].code = code

(* Once a draft is finalized, its own form never refuses it again: the retry   *)
(* is idempotent even past its lifetime (README.md:5, 13).                     *)
RetryNeverRefused ==
    [][\A w \in Workers :
        Refuse(w) /\ tx[w].pc = "find" /\ tx[w].form = form[tx[w].draft] =>
            drafts[tx[w].draft].code = NoCode]_vars

(* A draft is finalized and answered only by the form that opened it, though   *)
(* both forms read the same table and a finalized VEI draft no longer says     *)
(* which it is (public_submissions.py:442-448; requirement_responses.py:108-   *)
(* 114).                                                                       *)
OwnForm ==
    /\ \A d \in Live : drafts[d].code # NoCode => drafts[d].code.series = form[d]
    /\ \A w \in Workers : tx[w].pc = "answer" => tx[w].form = form[tx[w].draft]

(* In no period of Window does a client open more than Limit drafts, over both *)
(* forms and however many of its requests run at once                          *)
(* (public_submissions.py:129-140).                                            *)
RateLimited ==
    \A client \in Clients, t \in Times :
        Cardinality({d \in CreatedBy(client, t - Window) : drafts[d].created <= t}) <= Limit
=============================================================================
