------------------------------- MODULE DraftLife -------------------------------
(* What the two public forms promise of their drafts, whatever requests serve  *)
(* them (PublicDrafts implements it): a draft is opened, gets its files, and   *)
(* is finalized at most once, by one request at a time, in its lifetime; a VEI *)
(* draft then gives a process, which staff may remove.                         *)
EXTENDS Integers, FiniteSets

CONSTANTS
    Drafts,         \* ids of drafts (UUIDs, never reused)
    Lifetime,       \* DRAFT_LIFETIME, in ticks
    MaxTime,        \* bound: the clock stops here
    Absent, NoCode

ASSUME LifetimeAssumption == Lifetime \in Nat /\ MaxTime \in Nat

Forms == {"VEI", "HESP"}
Codes == [series : Forms, number : Nat \ {0}]
Times == 0..MaxTime

(* What matters of a row of public_submission_drafts. *)
Rows == [created : Times, payload : Forms \cup {"emptied"}, code : Codes \cup {NoCode}]
Processes == [draft : Drafts, code : Codes]

ASSUME NoRowAssumption == Absent \notin Rows /\ NoCode \notin Codes

VARIABLES
    now,            \* the clock of the application servers
    drafts,         \* drafts[d]: the committed row, or Absent
    files,          \* files[d]: its objects are in the storage
    processes,      \* media_assets created from drafts
    last,           \* last[f]: last number of the form's series
    lock            \* lock[d]: how far the request that holds its row has got

lifeVars == <<now, drafts, files, processes, last, lock>>

Live == {d \in Drafts : drafts[d] # Absent}

OpenDraft(d) ==
    \E f \in Forms :
        /\ drafts[d] = Absent
        /\ drafts' = [drafts EXCEPT ![d] = [created |-> now, payload |-> f, code |-> NoCode]]
        /\ UNCHANGED <<now, files, processes, last, lock>>

UploadFiles(d) ==
    /\ d \in Live /\ ~files[d]
    /\ files' = [files EXCEPT ![d] = TRUE]
    /\ UNCHANGED <<now, drafts, processes, last, lock>>

TakeDraft(d) ==
    /\ d \in Live /\ lock[d] = "free"
    /\ drafts[d].code = NoCode
    /\ now - drafts[d].created <= Lifetime
    /\ lock' = [lock EXCEPT ![d] = "validate"]
    /\ UNCHANGED <<now, drafts, files, processes, last>>

(* Whether they are valid as well is the request's affair: it may end here. *)
ValidateFiles(d) ==
    /\ lock[d] = "validate" /\ files[d]
    /\ lock' = [lock EXCEPT ![d] = "commit"]
    /\ UNCHANGED <<now, drafts, files, processes, last>>

\* A mutant: numbers start at 0.
ProtocolFromZero(f) == [series |-> f, number |-> last[f]]

Protocol(f) == [series |-> f, number |-> last[f] + 1]

(* The process and its attachments appear with the protocol. *)
FinalizeDraft(d) ==
    LET f == drafts[d].payload
        code == Protocol(f)
    IN /\ lock[d] = "commit"
       /\ last' = [last EXCEPT ![f] = @ + 1]
       /\ drafts' = [drafts EXCEPT ![d] =
            [created |-> drafts[d].created, payload |-> IF f = "VEI" THEN "emptied" ELSE f, code |-> code]]
       /\ processes' = processes \cup (IF f = "VEI" THEN {[draft |-> d, code |-> code]} ELSE {})
       /\ lock' = [lock EXCEPT ![d] = "free"]
       /\ UNCHANGED <<now, files>>

(* The request is refused or ends without effect. *)
Release(d) ==
    /\ lock[d] # "free"
    /\ lock' = [lock EXCEPT ![d] = "free"]
    /\ UNCHANGED <<now, drafts, files, processes, last>>

RemoveProcess ==
    \E p \in processes :
        /\ processes' = processes \ {p}
        /\ UNCHANGED <<now, drafts, files, last, lock>>

Pass ==
    /\ now < MaxTime
    /\ now' = now + 1
    /\ UNCHANGED <<drafts, files, processes, last, lock>>

LifeInit ==
    /\ now = 0
    /\ drafts = [d \in Drafts |-> Absent]
    /\ files = [d \in Drafts |-> FALSE]
    /\ processes = {}
    /\ last = [f \in Forms |-> 0]
    /\ lock = [d \in Drafts |-> "free"]

LifeNext ==
    \/ Pass \/ RemoveProcess
    \/ \E d \in Drafts :
        \/ OpenDraft(d) \/ UploadFiles(d)
        \/ TakeDraft(d) \/ ValidateFiles(d) \/ FinalizeDraft(d) \/ Release(d)

LifeSpec == LifeInit /\ [][LifeNext]_lifeVars

LifeTypeOK ==
    /\ now \in Times
    /\ drafts \in [Drafts -> Rows \cup {Absent}]
    /\ files \in [Drafts -> BOOLEAN]
    /\ processes \subseteq Processes
    /\ last \in [Forms -> Nat]
    /\ lock \in [Drafts -> {"free", "validate", "commit"}]
=============================================================================
