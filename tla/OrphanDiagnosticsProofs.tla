----------------------- MODULE OrphanDiagnosticsProofs -----------------------
(* Proofs about OrphanDiagnostics, for every set of drafts, page size, lifetime *)
(* and margin: what it reads in four statements and a listing still tells the   *)
(* truth of the state it reports on.                                            *)
EXTENDS OrphanDiagnostics, FiniteSetTheorems, WellFoundedInduction, TLAPS

-----------------------------------------------------------------------------
(* Types. *)

LEMMA StampEffect ==
    ASSUME stamps \in [Drafts -> Stamps], now \in Times, NEW d \in Drafts,
           NEW field \in {"uploaded", "taken", "finalized", "attached"}, Stamp(d, field)
    PROVE  /\ stamps' \in [Drafts -> Stamps]
           /\ \A e \in Drafts : e # d => stamps'[e] = stamps[e]
           /\ field = "uploaded" => /\ stamps'[d].uploaded = now
                                    /\ stamps'[d].taken = stamps[d].taken
                                    /\ stamps'[d].finalized = stamps[d].finalized
                                    /\ stamps'[d].attached = stamps[d].attached
           /\ field = "taken" => /\ stamps'[d].taken = now
                                 /\ stamps'[d].uploaded = stamps[d].uploaded
                                 /\ stamps'[d].finalized = stamps[d].finalized
                                 /\ stamps'[d].attached = stamps[d].attached
           /\ field = "finalized" => /\ stamps'[d].finalized = now
                                     /\ stamps'[d].uploaded = stamps[d].uploaded
                                     /\ stamps'[d].taken = stamps[d].taken
                                     /\ stamps'[d].attached = stamps[d].attached
           /\ field = "attached" => /\ stamps'[d].attached = now
                                    /\ stamps'[d].uploaded = stamps[d].uploaded
                                    /\ stamps'[d].taken = stamps[d].taken
                                    /\ stamps'[d].finalized = stamps[d].finalized
BY DEF Stamp, Stamps

LEMMA FormsAreLife == FormsStep => [LifeNext]_lifeVars
BY DEF FormsStep, LifeNext, UploadAt, TakeAt, ValidateAt, ReleaseAt, FinalizeAt, Link

-----------------------------------------------------------------------------
(* The inductive invariant: the life of the drafts, whatever else is recorded. *)

Finalized(d) == drafts[d] # Absent /\ drafts[d].code # NoCode

(* A draft, and the request that holds it. *)
DraftSound(d) ==
    /\ drafts[d] = Absent => lock[d] = "free" /\ ~files[d]
    /\ drafts[d] # Absent =>
         /\ drafts[d].created <= now
         /\ drafts[d].code = NoCode => drafts[d].payload \in Forms
    /\ lock[d] # "free" => drafts[d].code = NoCode
    /\ lock[d] = "commit" \/ Finalized(d) => files[d]
    /\ Finalized(d) =>
         /\ drafts[d].payload = IF drafts[d].code.series = "VEI" THEN "emptied" ELSE "HESP"
         /\ drafts[d].code.number <= last[drafts[d].code.series]

(* No two drafts were given the same protocol. *)
CodesApart ==
    \A d, e \in Drafts :
        Finalized(d) /\ Finalized(e) /\ drafts[d].code = drafts[e].code => d = e

(* A process bears the protocol of its draft. *)
ProcessesKnown == \A p \in processes : Finalized(p.draft) /\ drafts[p.draft].code = p.code

LifeInv == (\A d \in Drafts : DraftSound(d)) /\ CodesApart /\ ProcessesKnown

LEMMA LifeInvInit == LifeInit => LifeTypeOK /\ LifeInv
BY LifetimeAssumption
   DEF LifeInit, LifeTypeOK, Times, LifeInv, DraftSound, CodesApart, ProcessesKnown, Finalized

(* The row a finalization writes. *)
LEMMA FinalizeEffect ==
    ASSUME LifeTypeOK, LifeInv, NEW d \in Drafts, FinalizeDraft(d)
    PROVE  /\ drafts[d] \in Rows /\ drafts[d].code = NoCode /\ drafts[d].payload \in Forms
           /\ drafts'[d] \in Rows /\ drafts'[d].created = drafts[d].created
           /\ drafts'[d].code = Protocol(drafts[d].payload) /\ drafts'[d].code \in Codes
           /\ drafts'[d].payload = IF drafts[d].payload = "VEI" THEN "emptied" ELSE "HESP"
           /\ last' \in [Forms -> Nat] /\ last'[drafts[d].payload] = last[drafts[d].payload] + 1
           /\ \A f \in Forms : last'[f] >= last[f]
           /\ \A e \in Drafts \ {d} : drafts'[e] = drafts[e]
           /\ processes' \subseteq processes \cup {[draft |-> d, code |-> drafts'[d].code]}
           /\ drafts' \in [Drafts -> Rows \cup {Absent}]
<1>1. lock[d] = "commit" /\ DraftSound(d)
  BY DEF FinalizeDraft, LifeInv
<1>2. drafts[d] \in Rows /\ drafts[d].code = NoCode /\ drafts[d].payload \in Forms
  BY <1>1 DEF DraftSound, LifeTypeOK
<1> DEFINE f == drafts[d].payload
           row == [created |-> drafts[d].created, payload |-> IF f = "VEI" THEN "emptied" ELSE f,
                   code |-> Protocol(f)]
<1>3. drafts' = [drafts EXCEPT ![d] = row]
  BY DEF FinalizeDraft
<1>4. Protocol(f) \in Codes
  BY <1>2 DEF Protocol, Codes, LifeTypeOK
<1>5. row \in Rows
  BY <1>2, <1>4 DEF Rows, Forms
<1>6. drafts' \in [Drafts -> Rows \cup {Absent}] /\ drafts'[d] = row
      /\ \A e \in Drafts \ {d} : drafts'[e] = drafts[e]
  BY <1>3, <1>5 DEF LifeTypeOK
<1>7. last' = [last EXCEPT ![f] = last[f] + 1]
  BY DEF FinalizeDraft
<1>8. last' \in [Forms -> Nat] /\ last'[f] = last[f] + 1 /\ \A g \in Forms : last'[g] >= last[g]
  BY <1>2, <1>7 DEF LifeTypeOK
<1>9. processes' \subseteq processes \cup {[draft |-> d, code |-> Protocol(f)]}
  BY DEF FinalizeDraft
<1>10. row.created = drafts[d].created /\ row.code = Protocol(f)
       /\ row.payload = IF f = "VEI" THEN "emptied" ELSE "HESP"
  BY <1>2 DEF Forms
<1> QED BY <1>2, <1>4, <1>5, <1>6, <1>8, <1>9, <1>10

LEMMA LifeTypeStep == LifeTypeOK /\ LifeInv /\ [LifeNext]_lifeVars => LifeTypeOK'
<1> SUFFICES ASSUME LifeTypeOK, LifeInv, [LifeNext]_lifeVars PROVE LifeTypeOK'
  OBVIOUS
<1> USE LifetimeAssumption
<1>1. CASE Pass
  BY <1>1 DEF Pass, LifeTypeOK, Times
<1>2. CASE RemoveProcess
  BY <1>2 DEF RemoveProcess, LifeTypeOK
<1>3. ASSUME NEW d \in Drafts, OpenDraft(d) PROVE LifeTypeOK'
  <2>1. PICK f \in Forms :
          drafts' = [drafts EXCEPT ![d] = [created |-> now, payload |-> f, code |-> NoCode]]
    BY <1>3 DEF OpenDraft
  <2>2. [created |-> now, payload |-> f, code |-> NoCode] \in Rows
    BY DEF Rows, LifeTypeOK
  <2> QED BY <1>3, <2>1, <2>2 DEF OpenDraft, LifeTypeOK
<1>4. ASSUME NEW d \in Drafts, UploadFiles(d) \/ TakeDraft(d) \/ ValidateFiles(d) \/ Release(d)
      PROVE  LifeTypeOK'
  BY <1>4 DEF UploadFiles, TakeDraft, ValidateFiles, Release, LifeTypeOK
<1>5. ASSUME NEW d \in Drafts, FinalizeDraft(d) PROVE LifeTypeOK'
  <2>1. [draft |-> d, code |-> drafts'[d].code] \in Processes
    BY <1>5, FinalizeEffect DEF Processes
  <2>2. lock' = [lock EXCEPT ![d] = "free"] /\ now' = now /\ files' = files
    BY <1>5 DEF FinalizeDraft
  <2> QED BY <1>5, <2>1, <2>2, FinalizeEffect DEF LifeTypeOK
<1>6. CASE UNCHANGED lifeVars
  BY <1>6 DEF lifeVars, LifeTypeOK
<1> QED BY <1>1, <1>2, <1>3, <1>4, <1>5, <1>6 DEF LifeNext

LEMMA UntouchedDraft ==
    ASSUME LifeTypeOK, now' \in Nat, now' >= now, NEW d \in Drafts, DraftSound(d),
           drafts'[d] = drafts[d], files'[d] = files[d], lock'[d] = lock[d],
           last' \in [Forms -> Nat], \A f \in Forms : last'[f] >= last[f]
    PROVE  DraftSound(d)' /\ (Finalized(d)' <=> Finalized(d))
<1>1. Finalized(d)' <=> Finalized(d)
  BY DEF Finalized
<1>2. drafts[d] # Absent => drafts[d].created \in Nat /\ drafts[d].created <= now'
  BY DEF DraftSound, LifeTypeOK, Rows, Times
<1>3. Finalized(d) => drafts[d].code \in Codes
  BY DEF Finalized, LifeTypeOK, Rows
<1>4. Finalized(d) => drafts[d].code.number <= last'[drafts[d].code.series]
  <2> SUFFICES ASSUME Finalized(d) PROVE drafts[d].code.number <= last'[drafts[d].code.series]
    OBVIOUS
  <2> DEFINE f == drafts[d].code.series
  <2>1. f \in Forms /\ drafts[d].code.number \in Nat
    BY <1>3 DEF Codes
  <2>2. /\ drafts[d].code.number <= last[f] /\ last[f] <= last'[f]
        /\ last[f] \in Nat /\ last'[f] \in Nat
    BY <2>1 DEF DraftSound, LifeTypeOK
  <2> QED BY <2>1, <2>2
<1> QED BY <1>1, <1>2, <1>4 DEF DraftSound

(* A finalization takes a number above every other of its series. *)
LEMMA FinalizeKeepsLife ==
    ASSUME LifeTypeOK, LifeInv, NEW x \in Drafts, FinalizeDraft(x)
    PROVE  LifeInv'
<1>1. now' = now /\ files' = files /\ lock' = [lock EXCEPT ![x] = "free"] /\ lock[x] = "commit"
  BY DEF FinalizeDraft
<1>2. DraftSound(x) /\ now \in Nat
  BY DEF LifeInv, LifeTypeOK, Times
<1> DEFINE f == drafts[x].payload
<1>3. /\ drafts[x] \in Rows /\ drafts[x].code = NoCode /\ f \in Forms
      /\ drafts'[x] \in Rows /\ drafts'[x].created = drafts[x].created
      /\ drafts'[x].code = Protocol(f) /\ drafts'[x].code \in Codes
      /\ drafts'[x].payload = IF f = "VEI" THEN "emptied" ELSE "HESP"
      /\ last' \in [Forms -> Nat] /\ last'[f] = last[f] + 1 /\ \A g \in Forms : last'[g] >= last[g]
      /\ \A e \in Drafts \ {x} : drafts'[e] = drafts[e]
      /\ processes' \subseteq processes \cup {[draft |-> x, code |-> drafts'[x].code]}
  BY FinalizeEffect
<1>4. Finalized(x)' /\ ~Finalized(x)
  BY <1>3, NoRowAssumption DEF Finalized
<1>5. ASSUME NEW e \in Drafts \ {x} PROVE DraftSound(e)' /\ (Finalized(e)' <=> Finalized(e))
  <2>1. drafts'[e] = drafts[e] /\ files'[e] = files[e] /\ lock'[e] = lock[e]
    BY <1>1, <1>3 DEF LifeTypeOK
  <2>2. DraftSound(e)
    BY DEF LifeInv
  <2>3. now' \in Nat /\ now' >= now
    BY <1>1, <1>2
  <2> QED BY <1>3, <2>1, <2>2, <2>3, UntouchedDraft
<1>6. DraftSound(x)'
  <2>1. lock'[x] = "free" /\ drafts'[x] # Absent /\ drafts[x] # Absent
    BY <1>1, <1>3, NoRowAssumption DEF LifeTypeOK
  <2>2. drafts'[x].code # NoCode
    BY <1>4 DEF Finalized
  <2>3. drafts[x].created <= now /\ files[x]
    BY <1>1, <1>2, <2>1 DEF DraftSound
  <2>4. drafts'[x].code.series = f /\ drafts'[x].code.number = last'[f]
    BY <1>3 DEF Protocol
  <2>5. drafts'[x].payload = IF drafts'[x].code.series = "VEI" THEN "emptied" ELSE "HESP"
    BY <1>3, <2>4
  <2>6. drafts'[x].code.number <= last'[drafts'[x].code.series]
    BY <1>3, <2>4
  <2> QED BY <1>1, <1>3, <2>1, <2>2, <2>3, <2>5, <2>6 DEF DraftSound
<1>7. CodesApart'
  <2>1. ASSUME NEW e \in Drafts \ {x}, Finalized(e) PROVE drafts[e].code # Protocol(f)
    <3>1. drafts[e].code \in Codes /\ drafts[e].code.number <= last[drafts[e].code.series]
      BY <2>1 DEF LifeInv, DraftSound, Finalized, LifeTypeOK, Rows
    <3>2. last[f] \in Nat
      BY <1>3 DEF LifeTypeOK
    <3> QED BY <1>3, <3>1, <3>2 DEF Protocol, Codes
  <2> SUFFICES ASSUME NEW d \in Drafts, NEW e \in Drafts, Finalized(d)', Finalized(e)',
                      drafts'[d].code = drafts'[e].code
               PROVE  d = e
    BY DEF CodesApart
  <2>2. CASE d = x \/ e = x
    BY <1>3, <1>5, <2>1, <2>2
  <2>3. CASE d # x /\ e # x
    BY <1>3, <1>5, <2>3 DEF LifeInv, CodesApart
  <2> QED BY <2>2, <2>3
<1>8. ProcessesKnown'
  <2> SUFFICES ASSUME NEW p \in processes'
               PROVE  Finalized(p.draft)' /\ drafts'[p.draft].code = p.code
    BY DEF ProcessesKnown
  <2>1. CASE p \in processes
    <3>1. p.draft \in Drafts /\ Finalized(p.draft) /\ drafts[p.draft].code = p.code
      BY <2>1 DEF LifeInv, ProcessesKnown, LifeTypeOK, Processes
    <3>2. p.draft # x
      BY <1>4, <3>1
    <3> QED BY <1>3, <1>5, <3>1, <3>2
  <2>2. CASE p = [draft |-> x, code |-> drafts'[x].code]
    BY <1>4, <2>2
  <2> QED BY <1>3, <2>1, <2>2
<1> QED BY <1>5, <1>6, <1>7, <1>8 DEF LifeInv

(* The steps that give no protocol leave rows and codes as they are. *)
LEMMA SameRowsKeepLife ==
    ASSUME LifeInv, drafts' = drafts, processes' \subseteq processes,
           \A d \in Drafts : DraftSound(d)'
    PROVE  LifeInv'
BY DEF LifeInv, CodesApart, ProcessesKnown, Finalized

LEMMA LifeKept == LifeTypeOK /\ LifeInv /\ [LifeNext]_lifeVars => LifeInv'
<1> SUFFICES ASSUME LifeTypeOK, LifeInv, [LifeNext]_lifeVars PROVE LifeInv'
  OBVIOUS
<1>0. /\ now \in Nat /\ MaxTime \in Nat /\ last \in [Forms -> Nat]
      /\ \A f \in Forms : last[f] >= last[f]
  BY LifetimeAssumption DEF LifeTypeOK, Times
<1>1. CASE Pass \/ RemoveProcess \/ UNCHANGED lifeVars
  <2>1. /\ UNCHANGED <<drafts, files, last, lock>> /\ processes' \subseteq processes
        /\ now' \in Nat /\ now' >= now
    BY <1>0, <1>1 DEF Pass, RemoveProcess, lifeVars
  <2>2. \A d \in Drafts : DraftSound(d)'
    BY <1>0, <2>1, UntouchedDraft DEF LifeInv
  <2> QED BY <2>1, <2>2, SameRowsKeepLife
<1>2. ASSUME NEW x \in Drafts, OpenDraft(x) PROVE LifeInv'
  <2>1. PICK f \in Forms :
          drafts' = [drafts EXCEPT ![x] = [created |-> now, payload |-> f, code |-> NoCode]]
    BY <1>2 DEF OpenDraft
  <2>2. UNCHANGED <<now, files, processes, last, lock>> /\ drafts[x] = Absent
    BY <1>2 DEF OpenDraft
  <2>3. \A e \in Drafts \ {x} : drafts'[e] = drafts[e]
    BY <2>1 DEF LifeTypeOK
  <2>4. drafts'[x] = [created |-> now, payload |-> f, code |-> NoCode]
    BY <2>1 DEF LifeTypeOK
  <2>5. ~Finalized(x) /\ ~Finalized(x)'
    BY <2>2, <2>4 DEF Finalized
  <2>6. \A e \in Drafts \ {x} : DraftSound(e)' /\ (Finalized(e)' <=> Finalized(e))
    BY <1>0, <2>2, <2>3, UntouchedDraft DEF LifeInv
  <2>7. DraftSound(x)'
    BY <1>0, <2>2, <2>4, <2>5 DEF LifeInv, DraftSound
  <2>8. CodesApart'
    BY <2>3, <2>5, <2>6 DEF LifeInv, CodesApart
  <2>9. ProcessesKnown'
    <3>1. \A p \in processes : p.draft \in Drafts \ {x}
      BY <2>5 DEF LifeInv, ProcessesKnown, LifeTypeOK, Processes
    <3> QED BY <2>2, <2>3, <2>6, <3>1 DEF LifeInv, ProcessesKnown
  <2> QED BY <2>6, <2>7, <2>8, <2>9 DEF LifeInv
<1>3. ASSUME NEW x \in Drafts, UploadFiles(x) \/ TakeDraft(x) \/ ValidateFiles(x) \/ Release(x)
      PROVE  LifeInv'
  <2>1. UNCHANGED <<now, drafts, processes, last>>
    BY <1>3 DEF UploadFiles, TakeDraft, ValidateFiles, Release
  <2>2. ASSUME NEW e \in Drafts \ {x} PROVE DraftSound(e)'
    <3>1. drafts'[e] = drafts[e] /\ files'[e] = files[e] /\ lock'[e] = lock[e]
      BY <1>3, <2>1 DEF UploadFiles, TakeDraft, ValidateFiles, Release, LifeTypeOK
    <3>2. DraftSound(e)
      BY DEF LifeInv
    <3> QED BY <1>0, <2>1, <3>1, <3>2, UntouchedDraft
  <2>3. DraftSound(x)
    BY DEF LifeInv
  <2>4. ASSUME UploadFiles(x) PROVE DraftSound(x)'
    <3>1. drafts[x] # Absent /\ files'[x] /\ lock' = lock
      BY <2>4 DEF UploadFiles, Live, LifeTypeOK
    <3> QED BY <2>1, <2>3, <3>1 DEF DraftSound, Finalized
  <2>5. ASSUME TakeDraft(x) PROVE DraftSound(x)'
    <3>1. drafts[x] # Absent /\ drafts[x].code = NoCode /\ files' = files /\ lock'[x] = "validate"
      BY <2>5 DEF TakeDraft, Live, LifeTypeOK
    <3> QED BY <2>1, <2>3, <3>1 DEF DraftSound, Finalized
  <2>6. ASSUME ValidateFiles(x) PROVE DraftSound(x)'
    <3>1. lock[x] = "validate" /\ files[x] /\ files' = files /\ lock'[x] = "commit"
      BY <2>6 DEF ValidateFiles, LifeTypeOK
    <3> QED BY <2>1, <2>3, <3>1 DEF DraftSound, Finalized
  <2>7. ASSUME Release(x) PROVE DraftSound(x)'
    <3>1. lock[x] # "free" /\ files' = files /\ lock'[x] = "free"
      BY <2>7 DEF Release, LifeTypeOK
    <3> QED BY <2>1, <2>3, <3>1 DEF DraftSound, Finalized
  <2> QED BY <1>3, <2>1, <2>2, <2>4, <2>5, <2>6, <2>7, SameRowsKeepLife
<1> QED BY <1>1, <1>2, <1>3, FinalizeKeepsLife DEF LifeNext

(* DraftLife is well typed: no finalization finds a row it cannot write. *)
THEOREM LifeTyped == LifeSpec => []LifeTypeOK
BY LifeInvInit, LifeTypeStep, LifeKept, PTL DEF LifeSpec

(* The life DraftLife promises gives no two drafts one protocol, and a process *)
(* bears the protocol of its draft; PublicDrafts implements it (DraftsLiveOnce).*)
THEOREM LifeKeepsCodesApart == LifeSpec => [](CodesApart /\ ProcessesKnown)
<1>1. LifeInv => CodesApart /\ ProcessesKnown
  BY DEF LifeInv
<1> QED BY <1>1, LifeInvInit, LifeTypeStep, LifeKept, PTL DEF LifeSpec

(* A finalized draft never changes again, and no process comes for it later    *)
(* than its finalization.                                                      *)
EndsOnce ==
    [][/\ \A d \in Drafts : Finalized(d) => drafts'[d] = drafts[d]
       /\ \A p \in processes' : p \in processes \/ ~Finalized(p.draft)]_lifeVars

(* In the life DraftLife promises, a finalization is for good: the draft keeps  *)
(* its protocol and gives no second process.                                   *)
THEOREM LifeEndsOnce == LifeSpec => EndsOnce
<1>1. ASSUME LifeTypeOK, LifeInv, LifeNext
      PROVE  /\ \A d \in Drafts : Finalized(d) => drafts'[d] = drafts[d]
             /\ \A p \in processes' : p \in processes \/ ~Finalized(p.draft)
  <2>1. CASE Pass \/ RemoveProcess
    BY <2>1 DEF Pass, RemoveProcess
  <2>2. ASSUME NEW x \in Drafts, OpenDraft(x)
        PROVE  processes' = processes /\ \A d \in Drafts : Finalized(d) => drafts'[d] = drafts[d]
    BY <1>1, <2>2 DEF OpenDraft, Finalized, LifeTypeOK
  <2>3. ASSUME NEW x \in Drafts, UploadFiles(x) \/ TakeDraft(x) \/ ValidateFiles(x) \/ Release(x)
        PROVE  UNCHANGED <<drafts, processes>>
    BY <2>3 DEF UploadFiles, TakeDraft, ValidateFiles, Release
  <2>4. ASSUME NEW x \in Drafts, FinalizeDraft(x)
        PROVE  /\ \A d \in Drafts : Finalized(d) => drafts'[d] = drafts[d]
               /\ \A p \in processes' : p \in processes \/ ~Finalized(p.draft)
    <3>1. /\ drafts[x].code = NoCode /\ \A e \in Drafts \ {x} : drafts'[e] = drafts[e]
          /\ processes' \subseteq processes \cup {[draft |-> x, code |-> drafts'[x].code]}
      BY <1>1, <2>4, FinalizeEffect
    <3> QED BY <3>1 DEF Finalized
  <2> QED BY <1>1, <2>1, <2>2, <2>3, <2>4 DEF LifeNext
<1>2. LifeTypeOK /\ LifeInv /\ [LifeNext]_lifeVars =>
        [/\ \A d \in Drafts : Finalized(d) => drafts'[d] = drafts[d]
         /\ \A p \in processes' : p \in processes \/ ~Finalized(p.draft)]_lifeVars
  BY <1>1
<1> QED BY <1>2, LifeInvInit, LifeTypeStep, LifeKept, PTL DEF LifeSpec, EndsOnce

-----------------------------------------------------------------------------
(* The times that are recorded. *)

(* Files come after their draft, and a request that may still finalize it, or  *)
(* has, found it in its lifetime.                                              *)
StampSound(d) ==
    /\ drafts[d] # Absent /\ files[d] => drafts[d].created <= stamps[d].uploaded
    /\ lock[d] # "free" \/ Finalized(d) => stamps[d].taken - drafts[d].created <= Lifetime

StampInv == \A d \in Drafts : StampSound(d)

LEMMA SameStamps ==
    ASSUME NEW d \in Drafts, StampSound(d), drafts'[d] = drafts[d], files'[d] = files[d],
           lock'[d] = lock[d], stamps'[d] = stamps[d]
    PROVE  StampSound(d)'
BY DEF StampSound, Finalized

LEMMA FormsKeepStamps ==
    ASSUME LifeTypeOK, stamps \in [Drafts -> Stamps], LifeInv, StampInv, FormsStep
    PROVE  StampInv'
<1>0. now \in Times
  BY DEF LifeTypeOK
<1>1. CASE (Pass /\ Unstamped) \/ (RemoveProcess /\ Unstamped)
  BY <1>1, SameStamps DEF Pass, RemoveProcess, Unstamped, StampInv
<1>2. ASSUME NEW x \in Drafts, OpenDraft(x) /\ Unstamped PROVE StampInv'
  <2>1. UNCHANGED <<files, lock, stamps>> /\ drafts[x] = Absent
    BY <1>2 DEF OpenDraft, Unstamped
  <2>2. \A e \in Drafts \ {x} : drafts'[e] = drafts[e]
    BY <1>2 DEF OpenDraft, LifeTypeOK
  <2>3. ~Finalized(x)' /\ lock[x] = "free" /\ ~files[x]
    BY <1>2, <2>1 DEF OpenDraft, Finalized, LifeTypeOK, LifeInv, DraftSound
  <2>4. StampSound(x)'
    BY <2>1, <2>3 DEF StampSound
  <2> QED BY <2>1, <2>2, <2>4, SameStamps DEF StampInv
<1>3. ASSUME NEW x \in Drafts, UploadAt(x) PROVE StampInv'
  <2>1. UNCHANGED <<drafts, lock>> /\ drafts[x] # Absent
        /\ \A e \in Drafts \ {x} : files'[e] = files[e]
    BY <1>3 DEF UploadAt, UploadFiles, Live, LifeTypeOK
  <2>2. /\ stamps'[x].uploaded = now /\ stamps'[x].taken = stamps[x].taken
        /\ \A e \in Drafts \ {x} : stamps'[e] = stamps[e]
    BY <1>0, <1>3, StampEffect DEF UploadAt
  <2>3. drafts[x].created <= now
    BY <2>1 DEF LifeInv, DraftSound
  <2>4. StampSound(x)'
    BY <2>1, <2>2, <2>3 DEF StampInv, StampSound, Finalized
  <2> QED BY <2>1, <2>2, <2>4, SameStamps DEF StampInv
<1>4. ASSUME NEW x \in Drafts, TakeAt(x) PROVE StampInv'
  <2>1. UNCHANGED <<drafts, files>> /\ now - drafts[x].created <= Lifetime
        /\ \A e \in Drafts \ {x} : lock'[e] = lock[e]
    BY <1>4 DEF TakeAt, TakeDraft, LifeTypeOK
  <2>2. /\ stamps'[x].taken = now /\ stamps'[x].uploaded = stamps[x].uploaded
        /\ \A e \in Drafts \ {x} : stamps'[e] = stamps[e]
    BY <1>0, <1>4, StampEffect DEF TakeAt
  <2>3. StampSound(x)'
    BY <2>1, <2>2 DEF StampInv, StampSound
  <2> QED BY <2>1, <2>2, <2>3, SameStamps DEF StampInv
<1>5. ASSUME NEW x \in Drafts, ValidateAt(x) PROVE StampInv'
  <2>1. UNCHANGED <<drafts, files>> /\ lock[x] = "validate"
        /\ \A e \in Drafts \ {x} : lock'[e] = lock[e]
    BY <1>5 DEF ValidateAt, ValidateFiles, LifeTypeOK
  <2>2. /\ stamps'[x].taken = stamps[x].taken /\ stamps'[x].uploaded = stamps[x].uploaded
        /\ \A e \in Drafts \ {x} : stamps'[e] = stamps[e]
    BY <1>0, <1>5, StampEffect DEF ValidateAt
  <2>3. StampSound(x)'
    BY <2>1, <2>2 DEF StampInv, StampSound
  <2> QED BY <2>1, <2>2, <2>3, SameStamps DEF StampInv
<1>6. ASSUME NEW x \in Drafts, ReleaseAt(x) PROVE StampInv'
  <2>1. UNCHANGED <<drafts, files>> /\ lock[x] # "free" /\ lock'[x] = "free"
        /\ \A e \in Drafts \ {x} : lock'[e] = lock[e]
    BY <1>6 DEF ReleaseAt, Release, LifeTypeOK
  <2>2. /\ stamps'[x].uploaded = stamps[x].uploaded
        /\ \A e \in Drafts \ {x} : stamps'[e] = stamps[e]
    BY <1>6 DEF ReleaseAt, Stamps
  <2>3. ~Finalized(x)'
    BY <2>1 DEF LifeInv, DraftSound, Finalized
  <2>4. StampSound(x)'
    BY <2>1, <2>2, <2>3 DEF StampInv, StampSound
  <2> QED BY <2>1, <2>2, <2>4, SameStamps DEF StampInv
<1>7. ASSUME NEW x \in Drafts, FinalizeAt(x) PROVE StampInv'
  <2>1. files' = files /\ lock[x] = "commit" /\ \A e \in Drafts \ {x} : lock'[e] = lock[e]
    BY <1>7 DEF FinalizeAt, FinalizeDraft, LifeTypeOK
  <2>2. /\ drafts'[x].created = drafts[x].created /\ drafts[x] # Absent
        /\ \A e \in Drafts \ {x} : drafts'[e] = drafts[e]
    BY <1>7, FinalizeEffect, NoRowAssumption DEF FinalizeAt
  <2>3. /\ stamps'[x].taken = stamps[x].taken /\ stamps'[x].uploaded = stamps[x].uploaded
        /\ \A e \in Drafts \ {x} : stamps'[e] = stamps[e]
    BY <1>0, <1>7, StampEffect DEF FinalizeAt
  <2>4. StampSound(x)'
    BY <2>1, <2>2, <2>3 DEF StampInv, StampSound
  <2> QED BY <2>1, <2>2, <2>3, <2>4, SameStamps DEF StampInv
<1>8. ASSUME NEW x \in Drafts, Link(x) PROVE StampInv'
  BY <1>8, SameStamps DEF Link, lifeVars, StampInv
<1> QED BY <1>1, <1>2, <1>3, <1>4, <1>5, <1>6, <1>7, <1>8 DEF FormsStep

-----------------------------------------------------------------------------
(* The listing.  Rank(S, d) entries of S come before d. *)

Before(S, d) == {e \in S : e < d}
Rank(S, d) == Cardinality(Before(S, d))

LEMMA UploadedFinite == Uploaded \subseteq Drafts /\ Uploaded \subseteq Nat /\ IsFiniteSet(Uploaded)
BY DiagnosisAssumption, FS_Subset DEF Uploaded

LEMMA RankType ==
    ASSUME NEW S, IsFiniteSet(S), NEW d
    PROVE  IsFiniteSet(Before(S, d)) /\ Rank(S, d) \in Nat
BY FS_Subset, FS_CardinalityType DEF Before, Rank

(* An entry moves to later places only, as others are uploaded. *)
LEMMA RankGrows ==
    ASSUME NEW S, NEW T, IsFiniteSet(T), S \subseteq T, NEW d
    PROVE  Rank(S, d) <= Rank(T, d)
<1>1. Before(S, d) \subseteq Before(T, d) /\ IsFiniteSet(Before(T, d))
  BY RankType DEF Before
<1> QED BY <1>1, FS_Subset DEF Rank

LEMMA RankOrder ==
    ASSUME NEW S, S \subseteq Nat, IsFiniteSet(S), NEW d \in S, NEW e \in S, d < e
    PROVE  Rank(S, d) < Rank(S, e)
<1>1. IsFiniteSet(Before(S, d)) /\ IsFiniteSet(Before(S, e))
      /\ Rank(S, d) \in Nat /\ Rank(S, e) \in Nat
  BY RankType
<1>2. Before(S, d) \subseteq Before(S, e)
  <2>1. d \in Int /\ e \in Int /\ \A x \in S : x \in Int
    OBVIOUS
  <2>2. \A x \in S : x < d => x < e
    BY <2>1
  <2> QED BY <2>2 DEF Before
<1>3. d \in Before(S, e) /\ d \notin Before(S, d)
  BY DEF Before
<1>4. Rank(S, d) <= Rank(S, e) /\ Rank(S, d) # Rank(S, e)
  BY <1>1, <1>2, <1>3, FS_Subset DEF Rank
<1> QED BY <1>1, <1>4

LEMMA SmallestNumber ==
    ASSUME NEW S, S \subseteq Nat, S # {}
    PROVE  \E m \in S : \A n \in S : m <= n
<1>1. PICK m \in S : \A n \in S : <<n, m>> \notin OpToRel(<, Nat)
  BY WFMin, NatLessThanWellFounded, Zenon
<1>2. \A n \in S : ~ n < m
  BY <1>1, Zenon DEF OpToRel
<1> QED BY <1>2

(* If an entry has k before it, exactly k are in the first k places. *)
LEMMA FirstPlaces ==
    ASSUME NEW S, S \subseteq Nat, IsFiniteSet(S), NEW k \in Nat, NEW d \in S, Rank(S, d) >= k
    PROVE  Cardinality({e \in S : Rank(S, e) < k}) = k
<1> DEFINE first == {e \in S : Rank(S, e) < k}
           rest == {e \in S : Rank(S, e) >= k}
<1>1. \A e \in S : Rank(S, e) \in Nat
  BY RankType
<1>2. PICK m \in rest : \A e \in rest : m <= e
  BY SmallestNumber
<1>3. first = Before(S, m)
  <2>1. ASSUME NEW e \in first PROVE e < m
    <3>1. e # m
      BY <2>1, <1>1
    <3>2. ASSUME m < e PROVE FALSE
      <4>1. Rank(S, m) < Rank(S, e) /\ Rank(S, e) < k /\ Rank(S, m) >= k
        BY <2>1, <3>2, RankOrder
      <4> QED BY <1>1, <2>1, <4>1
    <3>3. m \in Int /\ e \in Int
      BY <2>1
    <3> QED BY <3>1, <3>2, <3>3
  <2>2. ASSUME NEW e \in Before(S, m) PROVE e \in first
    BY <1>1, <1>2, <2>2 DEF Before
  <2> QED BY <2>1, <2>2 DEF Before
<1>4. Cardinality(first) >= k
  BY <1>3 DEF Rank
<1>5. Cardinality(first) <= k
  <2> DEFINE place == [e \in first |-> Rank(S, e)]
  <2>1. \A e, g \in first : Rank(S, e) = Rank(S, g) => e = g
    <3> SUFFICES ASSUME NEW e \in first, NEW g \in first, e # g
                 PROVE  Rank(S, e) # Rank(S, g)
      OBVIOUS
    <3>1. e \in Int /\ g \in Int /\ e \in S /\ g \in S
      OBVIOUS
    <3>2. e < g \/ g < e
      BY <3>1
    <3>3. e < g => Rank(S, e) < Rank(S, g)
      BY <3>1, RankOrder
    <3>4. g < e => Rank(S, g) < Rank(S, e)
      BY <3>1, RankOrder
    <3> QED BY <1>1, <3>1, <3>2, <3>3, <3>4
  <2>2. \A e \in first : Rank(S, e) \in 0..(k - 1)
    BY <1>1
  <2>3. place \in [first -> 0..(k - 1)]
    BY <2>2
  <2>4. place \in Injection(first, 0..(k - 1))
    BY <2>1, <2>3 DEF Injection, IsInjective
  <2>5. IsFiniteSet(0..(k - 1)) /\ Cardinality(0..(k - 1)) = k
    <3>1. 0 \in Int /\ k - 1 \in Int
      OBVIOUS
    <3>2. IsFiniteSet(0..(k - 1)) /\ Cardinality(0..(k - 1)) = IF 0 > k - 1 THEN 0 ELSE k - 1 - 0 + 1
      BY <3>1, FS_Interval
    <3> QED BY <3>2
  <2> QED BY <2>4, <2>5, FS_Injection
<1>6. Cardinality(first) \in Nat
  BY FS_Subset, FS_CardinalityType
<1> QED BY <1>4, <1>5, <1>6

(* A page that leaves entries behind it is full. *)
LEMMA FullPage ==
    ASSUME NEW offset \in Nat, NEW d \in Uploaded, d \notin Page(offset),
           Rank(Uploaded, d) >= offset
    PROVE  /\ Cardinality(Page(offset)) = PageSize
           /\ Rank(Uploaded, d) >= offset + PageSize
<1> DEFINE R(e) == Rank(Uploaded, e)
           first == {e \in Uploaded : R(e) < offset}
           upto == {e \in Uploaded : R(e) < offset + PageSize}
<1>1. Uploaded \subseteq Nat /\ IsFiniteSet(Uploaded) /\ PageSize \in Nat \ {0}
  BY UploadedFinite, DiagnosisAssumption
<1>2. \A e \in Uploaded : R(e) \in Nat
  BY <1>1, RankType
<1>3. Page(offset) = {e \in Uploaded : R(e) \in offset..(offset + PageSize - 1)}
  BY DEF Page, Rank, Before
<1>4. R(d) >= offset + PageSize
  BY <1>1, <1>2, <1>3
<1>5. Cardinality(first) = offset
  BY <1>1, FirstPlaces
<1>6. Cardinality(upto) = offset + PageSize
  <2>1. offset + PageSize \in Nat
    BY <1>1
  <2> QED BY <1>1, <1>4, <2>1, FirstPlaces
<1>7. \A n \in Nat : /\ n \in offset..(offset + PageSize - 1) <=> n < offset + PageSize /\ ~ n < offset
                     /\ n < offset => n < offset + PageSize
  BY <1>1
<1>8. Page(offset) = upto \ first /\ first \subseteq upto
  BY <1>2, <1>3, <1>7
<1>9. IsFiniteSet(upto) /\ upto \cap first = first
  BY <1>1, <1>8, FS_Subset
<1>10. Cardinality(upto \ first) = Cardinality(upto) - Cardinality(first)
  BY <1>9, FS_Difference
<1> QED BY <1>1, <1>4, <1>5, <1>6, <1>8, <1>10

-----------------------------------------------------------------------------
(* The inductive invariant: what the diagnosis has read. *)

AssetsRead == diag.pc \in {"forms", "attachments", "list", "report", "done"}
FormsRead == diag.pc \in {"attachments", "list", "report", "done"}
AttachmentsRead == diag.pc \in {"list", "report", "done"}

(* A row read is the row of the draft still, unless the draft was finalized    *)
(* since; and that came after the diagnosis began.                             *)
RowsPast ==
    /\ diag.began <= now
    /\ \A d \in Drafts :
         /\ diag.rows[d] # Absent =>
              /\ drafts[d] # Absent /\ drafts[d].created = diag.rows[d].created
              /\ diag.rows[d].code = NoCode => diag.rows[d].payload # "emptied"
         /\ Ended(d) => drafts[d] = diag.rows[d]
         /\ diag.pc # "drafts" /\ Finalized(d) /\ ~Ended(d) => stamps[d].attached >= diag.began

(* Each reference that was there when it began has been read, or will be.      *)
UsedRead ==
    \A r \in diag.used :
        /\ r.by # "link" => Ended(r.draft)
        /\ r.by = "answer" => diag.rows[r.draft].code.series = "HESP"
        /\ r.by = "link" => r.draft \in IF AssetsRead THEN diag.links ELSE links

(* No process of a draft read as finalized is created later: while it exists,  *)
(* every table read since had it.                                              *)
ProcessesRead ==
    \A p \in processes : Ended(p.draft) =>
        /\ AssetsRead => p \in diag.assets
        /\ FormsRead => p \in diag.forms
        /\ AttachmentsRead => p \in diag.attachments

(* An attachment read late tells of a finalized draft whose object is there,   *)
(* and of a process the earlier tables had unless it is younger than they are. *)
AttachmentsSound ==
    /\ ~AttachmentsRead => diag.attachments = {}
    /\ \A p \in diag.attachments :
         /\ Finalized(p.draft) /\ drafts[p.draft].code = p.code /\ p.draft \in diag.there
         /\ Ended(p.draft) => p \in diag.assets \cap diag.forms

(* Nothing read is lost, and what the listing has not reached is ahead of it.  *)
ListingAhead ==
    /\ diag.links \subseteq links /\ diag.there \subseteq Uploaded
    /\ AttachmentsRead => \A d \in Drafts : Ended(d) => d \in diag.there
    /\ diag.pc \in {"drafts", "assets", "forms", "attachments"} => diag.offset = 0
    /\ diag.listed => diag.pc \in {"report", "done"} /\ diag.there \subseteq diag.objects
    /\ diag.pc = "list" =>
         \A d \in diag.there \ diag.objects : Rank(Uploaded, d) >= diag.offset

ReadInv == RowsPast /\ UsedRead /\ ProcessesRead /\ AttachmentsSound /\ ListingAhead

DiagInv == DiagTypeOK /\ LifeInv /\ StampInv /\ ReadInv

LEMMA FormsTypes == DiagTypeOK /\ LifeInv /\ FormsStep => DiagTypeOK'
<1> SUFFICES ASSUME DiagTypeOK, LifeInv, FormsStep PROVE DiagTypeOK'
  OBVIOUS
<1>1. LifeTypeOK'
  BY FormsAreLife, LifeTypeStep DEF DiagTypeOK
<1>2. diag' = diag
  BY DEF FormsStep, Unstamped, Stamp, UploadAt, TakeAt, ValidateAt, ReleaseAt, FinalizeAt, Link
<1>3. stamps' \in [Drafts -> Stamps]
  <2>1. stamps \in [Drafts -> Stamps] /\ now \in Times
    BY DEF DiagTypeOK, LifeTypeOK
  <2>2. CASE stamps' = stamps
    BY <2>1, <2>2
  <2>3. ASSUME NEW d \in Drafts, NEW field \in {"uploaded", "taken", "finalized", "attached"},
               Stamp(d, field)
        PROVE  stamps' \in [Drafts -> Stamps]
    BY <2>1, <2>3, StampEffect
  <2>4. ASSUME NEW d \in Drafts, ReleaseAt(d) PROVE stamps' \in [Drafts -> Stamps]
    <3>1. 0 \in Times
      BY LifetimeAssumption DEF Times
    <3> QED BY <2>1, <2>4, <3>1 DEF ReleaseAt, Stamps
  <2>5. CASE \E d \in Drafts : UploadAt(d) \/ TakeAt(d) \/ ValidateAt(d) \/ FinalizeAt(d)
    BY <2>3, <2>5 DEF UploadAt, TakeAt, ValidateAt, FinalizeAt
  <2> QED BY <2>2, <2>4, <2>5 DEF FormsStep, Unstamped, Link
<1>4. links' \subseteq Drafts
  BY DEF DiagTypeOK, FormsStep, Unstamped, Stamp, UploadAt, TakeAt, ValidateAt, ReleaseAt,
         FinalizeAt, Link
<1> QED BY <1>1, <1>2, <1>3, <1>4 DEF DiagTypeOK

LEMMA ReadTypes == DiagTypeOK /\ DiagnosisStep => DiagTypeOK'
<1> SUFFICES ASSUME DiagTypeOK, DiagnosisStep PROVE DiagTypeOK'
  OBVIOUS
<1>1. UNCHANGED <<lifeVars, stamps, links>>
  BY DEF DiagnosisStep, Reading, ReadDrafts, ReadAssets, ReadForms, ReadAttachments, DatabaseFails,
         ListPage, StorageFails, Report
<1>2. (LifeTypeOK /\ stamps \in [Drafts -> Stamps] /\ links \subseteq Drafts)'
  BY <1>1 DEF DiagTypeOK, LifeTypeOK, lifeVars
<1>3. /\ diag \in Diagnoses /\ now \in Times /\ 0 \in Times
      /\ drafts \in [Drafts -> Rows \cup {Absent}]
      /\ processes \in SUBSET Processes /\ processes \subseteq Processes
      /\ links \in SUBSET Drafts /\ Uploaded \in SUBSET Drafts /\ {} \in SUBSET Drafts
  BY LifetimeAssumption DEF DiagTypeOK, LifeTypeOK, Uploaded, Times
<1>4. ASSUME ReadDrafts PROVE diag' \in Diagnoses
  <2>1. References \subseteq [by : {"link", "process", "answer"}, draft : Drafts]
    BY <1>3 DEF References, Processes
  <2> QED BY <1>3, <1>4, <2>1 DEF ReadDrafts, Diagnoses
<1>5. ASSUME ReadAssets \/ ReadForms \/ ReadAttachments \/ StorageFails \/ Report
      PROVE  diag' \in Diagnoses
  <2>1. ASSUME ReadAssets PROVE diag' \in Diagnoses
    <3>1. diag' = [diag EXCEPT !.pc = "forms", !.assets = processes, !.links = links]
      BY <2>1 DEF ReadAssets
    <3> QED BY <1>3, <3>1 DEF Diagnoses
  <2>2. ASSUME ReadForms PROVE diag' \in Diagnoses
    <3>1. diag' = [diag EXCEPT !.pc = "attachments", !.forms = processes]
      BY <2>2 DEF ReadForms
    <3> QED BY <1>3, <3>1 DEF Diagnoses
  <2>3. ASSUME ReadAttachments PROVE diag' \in Diagnoses
    <3>1. diag' = [diag EXCEPT !.pc = "list", !.attachments = processes, !.there = Uploaded]
      BY <2>3 DEF ReadAttachments
    <3> QED BY <1>3, <3>1 DEF Diagnoses
  <2>4. ASSUME StorageFails PROVE diag' \in Diagnoses
    <3>1. diag' = [diag EXCEPT !.pc = "report", !.objects = {}, !.offset = 0]
      BY <2>4 DEF StorageFails
    <3> QED BY <1>3, <3>1 DEF Diagnoses
  <2>5. ASSUME Report PROVE diag' \in Diagnoses
    <3>1. PICK ambiguous \in BOOLEAN :
            diag' = [diag EXCEPT !.pc = "done", !.at = now, !.ambiguous = ambiguous]
      BY <2>5 DEF Report, Ambiguities
    <3> QED BY <1>3, <3>1 DEF Diagnoses
  <2> QED BY <1>5, <2>1, <2>2, <2>3, <2>4, <2>5
<1>6. ASSUME DatabaseFails PROVE diag' \in Diagnoses
  BY <1>3, <1>6 DEF DatabaseFails, NotBegun, Diagnoses
<1>7. ASSUME ListPage PROVE diag' \in Diagnoses
  <2> DEFINE page == Page(diag.offset)
  <2>1. page \subseteq Uploaded
    BY DEF Page
  <2>2. Cardinality(page) \in Nat
    BY <2>1, UploadedFinite, FS_Subset, FS_CardinalityType
  <2>3. page \subseteq Drafts
    BY <1>3, <2>1
  <2> HIDE DEF page
  <2>4. diag' = IF Cardinality(page) < PageSize
                THEN [diag EXCEPT !.objects = @ \cup page, !.offset = 0, !.pc = "report", !.listed = TRUE]
                ELSE [diag EXCEPT !.objects = @ \cup page, !.offset = @ + Cardinality(page)]
    BY <1>7 DEF ListPage, page
  <2>5. diag.objects \cup page \in SUBSET Drafts /\ diag.offset + Cardinality(page) \in Nat
    BY <1>3, <2>2, <2>3 DEF Diagnoses
  <2> QED BY <1>3, <2>4, <2>5 DEF Diagnoses
<1> QED BY <1>2, <1>4, <1>5, <1>6, <1>7 DEF DiagnosisStep, DiagTypeOK

-----------------------------------------------------------------------------
(* What a step of the forms may do to what was read: a draft stays, its end is *)
(* final and stamped, and only a finalization adds a process.                  *)
LEMMA FormsEffect ==
    ASSUME DiagTypeOK, LifeInv, FormsStep
    PROVE  /\ diag' = diag /\ links \subseteq links' /\ Uploaded \subseteq Uploaded'
           /\ now \in Nat /\ now' \in Nat /\ now <= now'
           /\ \A d \in Drafts :
                /\ drafts[d] # Absent => drafts'[d] # Absent /\ drafts'[d].created = drafts[d].created
                /\ Finalized(d) => drafts'[d] = drafts[d] /\ stamps'[d].attached = stamps[d].attached
                /\ Finalized(d)' /\ ~Finalized(d) => stamps'[d].attached = now
           /\ \A p \in processes' : p \in processes \/ ~Finalized(p.draft)
<1>1. LifeTypeOK /\ stamps \in [Drafts -> Stamps] /\ now \in Times /\ now \in Nat
  BY DEF DiagTypeOK, LifeTypeOK, Times
<1>2. now' \in Nat
  BY FormsTypes DEF DiagTypeOK, LifeTypeOK, Times
<1> DEFINE Kept(d) ==
             /\ drafts[d] # Absent => drafts'[d] # Absent /\ drafts'[d].created = drafts[d].created
             /\ Finalized(d) => drafts'[d] = drafts[d] /\ stamps'[d].attached = stamps[d].attached
             /\ Finalized(d)' /\ ~Finalized(d) => stamps'[d].attached = now
<1>3. diag' = diag /\ links \subseteq links'
  BY DEF FormsStep, Unstamped, Stamp, UploadAt, TakeAt, ValidateAt, ReleaseAt, FinalizeAt, Link
<1>4. now <= now'
  <2>1. now' = now \/ now' = now + 1
    BY DEF FormsStep, Pass, RemoveProcess, OpenDraft, UploadAt, TakeAt, ValidateAt, ReleaseAt,
           FinalizeAt, Link, UploadFiles, TakeDraft, ValidateFiles, Release, FinalizeDraft, lifeVars
  <2> QED BY <1>1, <2>1
<1>5. Uploaded \subseteq Uploaded'
  <2>1. files' = files \/ \E d \in Drafts : files' = [files EXCEPT ![d] = TRUE]
    BY DEF FormsStep, Pass, RemoveProcess, OpenDraft, UploadAt, TakeAt, ValidateAt, ReleaseAt,
           FinalizeAt, Link, UploadFiles, TakeDraft, ValidateFiles, Release, FinalizeDraft, lifeVars
  <2> QED BY <1>1, <2>1 DEF Uploaded, LifeTypeOK
<1>6. ASSUME drafts' = drafts, \A d \in Drafts : stamps'[d].attached = stamps[d].attached,
             processes' \subseteq processes
      PROVE  (\A d \in Drafts : Kept(d)) /\ \A p \in processes' : p \in processes \/ ~Finalized(p.draft)
  BY <1>6 DEF Finalized
<1>7. CASE (Pass /\ Unstamped) \/ (RemoveProcess /\ Unstamped) \/ \E d \in Drafts : Link(d)
  <2>1. drafts' = drafts /\ stamps' = stamps /\ processes' \subseteq processes
    BY <1>7 DEF Pass, RemoveProcess, Unstamped, Link, lifeVars
  <2> QED BY <1>2, <1>1, <1>3, <1>4, <1>5, <1>6, <2>1
<1>8. ASSUME NEW x \in Drafts, UploadAt(x) \/ TakeAt(x) \/ ValidateAt(x) \/ ReleaseAt(x)
      PROVE  (\A d \in Drafts : Kept(d)) /\ \A p \in processes' : p \in processes \/ ~Finalized(p.draft)
  <2>1. drafts' = drafts /\ processes' = processes
    BY <1>8 DEF UploadAt, TakeAt, ValidateAt, ReleaseAt, UploadFiles, TakeDraft, ValidateFiles, Release
  <2>2. ASSUME NEW field \in {"uploaded", "taken", "finalized"}, Stamp(x, field)
        PROVE  \A d \in Drafts : stamps'[d].attached = stamps[d].attached
    BY <1>1, <2>2, StampEffect
  <2>3. ASSUME ReleaseAt(x) PROVE \A d \in Drafts : stamps'[d].attached = stamps[d].attached
    BY <1>1, <2>3 DEF ReleaseAt, Stamps
  <2>4. \A d \in Drafts : stamps'[d].attached = stamps[d].attached
    BY <1>8, <2>2, <2>3 DEF UploadAt, TakeAt, ValidateAt
  <2> QED BY <1>6, <2>1, <2>4
<1>9. ASSUME NEW x \in Drafts, OpenDraft(x) /\ Unstamped
      PROVE  (\A d \in Drafts : Kept(d)) /\ \A p \in processes' : p \in processes \/ ~Finalized(p.draft)
  <2>1. PICK f \in Forms :
          drafts' = [drafts EXCEPT ![x] = [created |-> now, payload |-> f, code |-> NoCode]]
    BY <1>9 DEF OpenDraft
  <2>2. drafts[x] = Absent /\ processes' = processes /\ stamps' = stamps
    BY <1>9 DEF OpenDraft, Unstamped
  <2>3. /\ \A e \in Drafts \ {x} : drafts'[e] = drafts[e]
        /\ drafts'[x] = [created |-> now, payload |-> f, code |-> NoCode]
    BY <1>1, <2>1 DEF LifeTypeOK
  <2>4. Kept(x)
    BY <2>2, <2>3 DEF Finalized
  <2>5. \A e \in Drafts \ {x} : Kept(e)
    BY <2>2, <2>3 DEF Finalized
  <2> QED BY <2>2, <2>4, <2>5
<1>10. ASSUME NEW x \in Drafts, FinalizeAt(x)
       PROVE  (\A d \in Drafts : Kept(d)) /\ \A p \in processes' : p \in processes \/ ~Finalized(p.draft)
  <2>1. FinalizeDraft(x) /\ Stamp(x, "attached")
    BY <1>10 DEF FinalizeAt
  <2>2. /\ drafts[x].code = NoCode /\ drafts'[x] \in Rows /\ drafts'[x].created = drafts[x].created
        /\ \A e \in Drafts \ {x} : drafts'[e] = drafts[e]
        /\ processes' \subseteq processes \cup {[draft |-> x, code |-> drafts'[x].code]}
    BY <1>1, <2>1, FinalizeEffect
  <2>3. stamps'[x].attached = now /\ \A e \in Drafts \ {x} : stamps'[e] = stamps[e]
    BY <1>1, <2>1, StampEffect
  <2>4. ~Finalized(x)
    BY <2>2 DEF Finalized
  <2>5. Kept(x)
    BY <2>2, <2>3, <2>4, NoRowAssumption
  <2>6. \A e \in Drafts \ {x} : Kept(e)
    BY <2>2, <2>3 DEF Finalized
  <2> QED BY <2>2, <2>4, <2>5, <2>6
<1> QED BY <1>1, <1>2, <1>3, <1>4, <1>5, <1>7, <1>8, <1>9, <1>10 DEF FormsStep

LEMMA FormsKeepRead ==
    ASSUME DiagInv, FormsStep
    PROVE  ReadInv'
<1> USE DEF DiagInv, ReadInv
<1>1. /\ diag' = diag /\ links \subseteq links' /\ Uploaded \subseteq Uploaded'
      /\ now \in Nat /\ now' \in Nat /\ now <= now'
      /\ \A d \in Drafts :
           /\ drafts[d] # Absent => drafts'[d] # Absent /\ drafts'[d].created = drafts[d].created
           /\ Finalized(d) => drafts'[d] = drafts[d] /\ stamps'[d].attached = stamps[d].attached
           /\ Finalized(d)' /\ ~Finalized(d) => stamps'[d].attached = now
      /\ \A p \in processes' : p \in processes \/ ~Finalized(p.draft)
  BY FormsEffect
<1>2. /\ AssetsRead' <=> AssetsRead
      /\ FormsRead' <=> FormsRead
      /\ AttachmentsRead' <=> AttachmentsRead
      /\ \A d : Ended(d)' <=> Ended(d)
  BY <1>1 DEF AssetsRead, FormsRead, AttachmentsRead, Ended
<1>3. \A d \in Drafts : Ended(d) => Finalized(d)
  BY DEF RowsPast, Ended, Finalized
<1>4. diag.began \in Nat /\ diag.attachments \subseteq Processes /\ diag.there \subseteq Drafts
      /\ processes \subseteq Processes
  BY DEF DiagTypeOK, Diagnoses, Times, LifeTypeOK
<1>5. RowsPast'
  <2>1. diag.began <= now'
    BY <1>1, <1>4 DEF RowsPast
  <2> SUFFICES ASSUME NEW d \in Drafts
               PROVE  /\ diag.rows[d] # Absent =>
                           /\ drafts'[d] # Absent /\ drafts'[d].created = diag.rows[d].created
                           /\ diag.rows[d].code = NoCode => diag.rows[d].payload # "emptied"
                      /\ Ended(d) => drafts'[d] = diag.rows[d]
                      /\ diag.pc # "drafts" /\ Finalized(d)' /\ ~Ended(d) =>
                           stamps'[d].attached >= diag.began
    BY <1>1, <1>2, <2>1 DEF RowsPast
  <2>2. Ended(d) => drafts'[d] = diag.rows[d]
    BY <1>1, <1>3 DEF RowsPast
  <2>3. diag.pc # "drafts" /\ Finalized(d)' /\ ~Ended(d) => stamps'[d].attached >= diag.began
    <3>1. Finalized(d) => stamps'[d].attached = stamps[d].attached
      BY <1>1
    <3>2. Finalized(d)' /\ ~Finalized(d) => stamps'[d].attached = now
      BY <1>1
    <3>3. diag.began <= now
      BY DEF RowsPast
    <3> QED BY <1>1, <1>4, <3>1, <3>2, <3>3 DEF RowsPast
  <2> QED BY <1>1, <2>2, <2>3 DEF RowsPast
<1>6. UsedRead'
  BY <1>1, <1>2 DEF UsedRead
<1>7. ProcessesRead'
  <2> SUFFICES ASSUME NEW p \in processes', Ended(p.draft)
               PROVE  /\ AssetsRead => p \in diag.assets
                      /\ FormsRead => p \in diag.forms
                      /\ AttachmentsRead => p \in diag.attachments
    BY <1>1, <1>2 DEF ProcessesRead
  <2>1. p.draft \in Drafts
    <3>1. processes' \subseteq Processes
      BY FormsTypes DEF DiagTypeOK, LifeTypeOK
    <3> QED BY <3>1 DEF Processes
  <2>2. p \in processes
    BY <1>1, <1>3, <2>1
  <2> QED BY <2>2 DEF ProcessesRead
<1>8. AttachmentsSound'
  <2> SUFFICES ASSUME NEW p \in diag.attachments
               PROVE  Finalized(p.draft)' /\ drafts'[p.draft].code = p.code
    BY <1>1, <1>2 DEF AttachmentsSound
  <2>1. p.draft \in Drafts /\ Finalized(p.draft) /\ drafts[p.draft].code = p.code
    BY <1>4 DEF AttachmentsSound, Processes
  <2> QED BY <1>1, <2>1 DEF Finalized
<1>9. ListingAhead'
  <2>1. ASSUME diag.pc = "list", NEW d \in diag.there \ diag.objects
        PROVE  Rank(Uploaded', d) >= diag.offset
    <3>1. IsFiniteSet(Uploaded) /\ IsFiniteSet(Uploaded')
      BY UploadedFinite, FS_Subset, DiagnosisAssumption DEF Uploaded
    <3>2. Rank(Uploaded, d) <= Rank(Uploaded', d)
      BY <1>1, <3>1, RankGrows
    <3>3. Rank(Uploaded, d) \in Nat /\ Rank(Uploaded', d) \in Nat /\ diag.offset \in Nat
      BY <3>1, RankType DEF DiagTypeOK, Diagnoses
    <3>4. Rank(Uploaded, d) >= diag.offset
      BY <2>1 DEF ListingAhead
    <3> QED BY <3>2, <3>3, <3>4
  <2>2. diag.links \subseteq links' /\ diag.there \subseteq Uploaded'
    BY <1>1 DEF ListingAhead
  <2> QED BY <1>1, <1>2, <2>1, <2>2 DEF ListingAhead, Rank, Before
<1> QED BY <1>5, <1>6, <1>7, <1>8, <1>9

(* Each SELECT reads what the invariant says of it. *)
LEMMA SelectsKeepRead ==
    ASSUME DiagInv, ReadDrafts \/ ReadAssets \/ ReadForms \/ ReadAttachments
    PROVE  ReadInv'
<1> USE DEF DiagInv, ReadInv
<1>1. UNCHANGED <<now, drafts, files, processes, last, lock, stamps, links>>
  BY DEF ReadDrafts, ReadAssets, ReadForms, ReadAttachments, Reading, lifeVars
<1>2. diag \in Diagnoses /\ now \in Nat
  BY DEF DiagTypeOK, LifeTypeOK, Times
<1>3. \A d \in Drafts : Finalized(d)' <=> Finalized(d)
  BY <1>1 DEF Finalized
<1>4. \A d \in Drafts : Ended(d) => Finalized(d)
  BY DEF RowsPast, Ended, Finalized
<1>5. \A p \in processes : p.draft \in Drafts /\ Finalized(p.draft) /\ drafts[p.draft].code = p.code
  BY DEF DiagTypeOK, LifeTypeOK, Processes, LifeInv, ProcessesKnown
<1>6. Uploaded' = Uploaded
  BY <1>1 DEF Uploaded
<1>7. ASSUME diag'.rows = diag.rows, diag'.began = diag.began, diag.pc # "drafts"
      PROVE  RowsPast' /\ \A d : Ended(d)' <=> Ended(d)
  <2>1. \A d : Ended(d)' <=> Ended(d)
    BY <1>7 DEF Ended
  <2> QED BY <1>1, <1>3, <1>7, <2>1 DEF RowsPast
<1>8. CASE ReadDrafts
  <2>1. /\ diag.pc = "drafts" /\ diag'.pc = "assets" /\ diag'.rows = drafts /\ diag'.began = now
        /\ diag'.used = References
        /\ diag'.attachments = diag.attachments /\ diag'.links = diag.links
        /\ diag'.there = diag.there /\ diag'.offset = diag.offset /\ diag'.listed = diag.listed
    BY <1>2, <1>8 DEF ReadDrafts, Reading, Diagnoses
  <2>2. ~AssetsRead' /\ ~FormsRead' /\ ~AttachmentsRead' /\ ~AttachmentsRead
    BY <2>1 DEF AssetsRead, FormsRead, AttachmentsRead
  <2>3. \A d \in Drafts : Ended(d)' <=> Finalized(d)
    BY <2>1 DEF Ended, Finalized
  <2>4. RowsPast'
    <3>1. \A d \in Drafts : drafts[d] # Absent /\ drafts[d].code = NoCode =>
            drafts[d].payload # "emptied"
      BY DEF LifeInv, DraftSound, Forms
    <3> QED BY <1>1, <1>2, <1>3, <2>1, <2>3, <3>1 DEF RowsPast
  <2>5. UsedRead'
    <3> SUFFICES ASSUME NEW r \in References
                 PROVE  /\ r.by # "link" => Ended(r.draft)'
                        /\ r.by = "answer" => drafts[r.draft].code.series = "HESP"
                        /\ r.by = "link" => r.draft \in links
      BY <1>1, <2>1, <2>2 DEF UsedRead
    <3>1. CASE r.by = "link"
      BY <3>1 DEF References
    <3>2. CASE r.by = "process"
      <4>1. \E p \in processes : r.draft = p.draft
        BY <3>2 DEF References
      <4> QED BY <1>5, <2>3, <3>2, <4>1
    <3>3. CASE r.by = "answer"
      <4>1. r.draft \in Drafts /\ Finalized(r.draft) /\ drafts[r.draft].code.series = "HESP"
        BY <3>3 DEF References, Finalized
      <4> QED BY <2>3, <3>3, <4>1
    <3> QED BY <3>1, <3>2, <3>3 DEF References
  <2>6. ProcessesRead'
    BY <2>2 DEF ProcessesRead
  <2>7. AttachmentsSound'
    BY <2>1, <2>2 DEF AttachmentsSound
  <2>8. ListingAhead'
    BY <1>1, <1>6, <2>1, <2>2 DEF ListingAhead
  <2> QED BY <2>4, <2>5, <2>6, <2>7, <2>8
<1>9. CASE ReadAssets
  <2>1. /\ diag.pc = "assets" /\ diag'.pc = "forms" /\ diag'.rows = diag.rows
        /\ diag'.began = diag.began /\ diag'.used = diag.used
        /\ diag'.assets = processes /\ diag'.links = links
        /\ diag'.attachments = diag.attachments
        /\ diag'.there = diag.there /\ diag'.offset = diag.offset /\ diag'.listed = diag.listed
    BY <1>2, <1>9 DEF ReadAssets, Reading, Diagnoses
  <2>2. /\ ~AssetsRead /\ AssetsRead' /\ ~FormsRead' /\ ~AttachmentsRead' /\ ~AttachmentsRead
    BY <2>1 DEF AssetsRead, FormsRead, AttachmentsRead
  <2>3. RowsPast' /\ \A d : Ended(d)' <=> Ended(d)
    BY <1>7, <2>1
  <2>4. UsedRead'
    BY <2>1, <2>2, <2>3 DEF UsedRead
  <2>5. ProcessesRead'
    BY <1>1, <2>1, <2>2 DEF ProcessesRead
  <2>6. AttachmentsSound'
    BY <2>1, <2>2 DEF AttachmentsSound
  <2>7. ListingAhead'
    BY <1>1, <1>6, <2>1, <2>2 DEF ListingAhead
  <2> QED BY <2>3, <2>4, <2>5, <2>6, <2>7
<1>10. CASE ReadForms
  <2>1. /\ diag.pc = "forms" /\ diag'.pc = "attachments" /\ diag'.rows = diag.rows
        /\ diag'.began = diag.began /\ diag'.used = diag.used
        /\ diag'.assets = diag.assets /\ diag'.links = diag.links /\ diag'.forms = processes
        /\ diag'.attachments = diag.attachments
        /\ diag'.there = diag.there /\ diag'.offset = diag.offset /\ diag'.listed = diag.listed
    BY <1>2, <1>10 DEF ReadForms, Reading, Diagnoses
  <2>2. /\ AssetsRead /\ AssetsRead' /\ FormsRead' /\ ~AttachmentsRead' /\ ~AttachmentsRead
    BY <2>1 DEF AssetsRead, FormsRead, AttachmentsRead
  <2>3. RowsPast' /\ \A d : Ended(d)' <=> Ended(d)
    BY <1>7, <2>1
  <2>4. UsedRead'
    BY <2>1, <2>2, <2>3 DEF UsedRead
  <2>5. ProcessesRead'
    BY <1>1, <2>1, <2>2, <2>3 DEF ProcessesRead
  <2>6. AttachmentsSound'
    BY <2>1, <2>2 DEF AttachmentsSound
  <2>7. ListingAhead'
    BY <1>1, <1>6, <2>1, <2>2 DEF ListingAhead
  <2> QED BY <2>3, <2>4, <2>5, <2>6, <2>7
<1>11. CASE ReadAttachments
  <2>1. /\ diag.pc = "attachments" /\ diag'.pc = "list" /\ diag'.rows = diag.rows
        /\ diag'.began = diag.began /\ diag'.used = diag.used
        /\ diag'.assets = diag.assets /\ diag'.links = diag.links /\ diag'.forms = diag.forms
        /\ diag'.attachments = processes /\ diag'.there = Uploaded
        /\ diag'.offset = diag.offset /\ diag'.listed = diag.listed
    BY <1>2, <1>11 DEF ReadAttachments, Reading, Diagnoses
  <2>2. AssetsRead /\ AssetsRead' /\ FormsRead /\ FormsRead' /\ AttachmentsRead'
    BY <2>1 DEF AssetsRead, FormsRead, AttachmentsRead
  <2>3. RowsPast' /\ \A d : Ended(d)' <=> Ended(d)
    BY <1>7, <2>1
  <2>4. \A d \in Drafts : Finalized(d) => d \in Uploaded
    BY DEF LifeInv, DraftSound, Uploaded
  <2>5. UsedRead'
    BY <2>1, <2>2, <2>3 DEF UsedRead
  <2>6. ProcessesRead'
    BY <1>1, <2>1, <2>2, <2>3 DEF ProcessesRead
  <2>7. AttachmentsSound'
    <3> SUFFICES ASSUME NEW p \in processes
                 PROVE  /\ Finalized(p.draft)' /\ drafts'[p.draft].code = p.code
                        /\ p.draft \in Uploaded
                        /\ Ended(p.draft) => p \in diag.assets \cap diag.forms
      BY <2>1, <2>2, <2>3 DEF AttachmentsSound
    <3>1. Ended(p.draft) => p \in diag.assets \cap diag.forms
      BY <2>2 DEF ProcessesRead
    <3> QED BY <1>1, <1>3, <1>5, <2>4, <3>1
  <2>8. ListingAhead'
    <3>1. diag.offset = 0 /\ ~diag.listed
      BY <2>1 DEF ListingAhead
    <3>2. \A d \in Uploaded : Rank(Uploaded, d) >= 0
      BY UploadedFinite, RankType
    <3>3. \A d \in Drafts : Ended(d) => d \in Uploaded
      BY <1>4, <2>4
    <3>4. \A d \in diag'.there \ diag'.objects : Rank(Uploaded, d)' >= diag'.offset
      BY <1>6, <2>1, <3>1, <3>2 DEF Rank, Before
    <3>5. diag'.links \subseteq links'
      BY <1>1, <2>1 DEF ListingAhead
    <3> QED BY <1>6, <2>1, <2>3, <3>1, <3>3, <3>4, <3>5 DEF ListingAhead
  <2> QED BY <2>3, <2>5, <2>6, <2>7, <2>8
<1> QED BY <1>8, <1>9, <1>10, <1>11

(* The steps after the SELECTs leave what these read. *)
LEMMA SameReadings ==
    ASSUME DiagInv, UNCHANGED <<now, drafts, files, processes, last, lock, stamps, links>>,
           diag.pc \in {"list", "report"}, diag'.pc \in {"list", "report", "done"},
           diag'.rows = diag.rows, diag'.began = diag.began, diag'.used = diag.used,
           diag'.assets = diag.assets, diag'.links = diag.links, diag'.forms = diag.forms,
           diag'.attachments = diag.attachments, diag'.there = diag.there
    PROVE  /\ RowsPast' /\ UsedRead' /\ ProcessesRead' /\ AttachmentsSound'
           /\ diag'.links \subseteq links' /\ diag'.there \subseteq Uploaded'
           /\ AttachmentsRead' => \A d \in Drafts : Ended(d)' => d \in diag'.there
<1> USE DEF DiagInv, ReadInv
<1>1. /\ AssetsRead /\ FormsRead /\ AttachmentsRead
      /\ AssetsRead' /\ FormsRead' /\ AttachmentsRead'
  BY DEF AssetsRead, FormsRead, AttachmentsRead
<1>2. \A d : Ended(d)' <=> Ended(d)
  BY DEF Ended
<1>3. \A d : Finalized(d)' <=> Finalized(d)
  BY DEF Finalized
<1>4. RowsPast'
  BY <1>2, <1>3 DEF RowsPast
<1>5. UsedRead'
  BY <1>1, <1>2 DEF UsedRead
<1>6. ProcessesRead'
  BY <1>1, <1>2 DEF ProcessesRead
<1>7. AttachmentsSound'
  BY <1>1, <1>2, <1>3 DEF AttachmentsSound
<1> QED BY <1>1, <1>2, <1>4, <1>5, <1>6, <1>7 DEF ListingAhead, Uploaded

(* A page takes the entries next in line; what it leaves is behind a full page. *)
LEMMA ListingKeepsRead ==
    ASSUME DiagInv, ListPage
    PROVE  ReadInv'
<1> DEFINE page == Page(diag.offset)
<1>1. /\ UNCHANGED <<now, drafts, files, processes, last, lock, stamps, links>> /\ diag.pc = "list"
  BY DEF ListPage, Reading, lifeVars
<1>2. diag \in Diagnoses /\ diag.offset \in Nat
  BY DEF DiagInv, DiagTypeOK, Diagnoses
<1>3. page \subseteq Uploaded
  BY DEF Page
<1>4. Cardinality(page) \in Nat /\ PageSize \in Nat
  BY <1>3, UploadedFinite, FS_Subset, FS_CardinalityType, DiagnosisAssumption
<1>5. ASSUME NEW d \in diag.there \ diag.objects, d \notin page
      PROVE  Cardinality(page) = PageSize /\ Rank(Uploaded, d) >= diag.offset + PageSize
  <2>1. d \in Uploaded /\ Rank(Uploaded, d) >= diag.offset
    BY <1>1 DEF DiagInv, ReadInv, ListingAhead
  <2> QED BY <1>2, <1>5, <2>1, FullPage
<1>6. diag' = IF Cardinality(page) < PageSize
              THEN [diag EXCEPT !.objects = @ \cup page, !.offset = 0, !.pc = "report", !.listed = TRUE]
              ELSE [diag EXCEPT !.objects = @ \cup page, !.offset = @ + Cardinality(page)]
  BY DEF ListPage
<1> HIDE DEF page
<1>7. /\ diag'.pc \in {"list", "report"} /\ diag'.objects = diag.objects \cup page
      /\ diag'.rows = diag.rows /\ diag'.began = diag.began /\ diag'.used = diag.used
      /\ diag'.assets = diag.assets /\ diag'.links = diag.links /\ diag'.forms = diag.forms
      /\ diag'.attachments = diag.attachments /\ diag'.there = diag.there
  BY <1>1, <1>2, <1>6 DEF Diagnoses
<1>8. /\ RowsPast' /\ UsedRead' /\ ProcessesRead' /\ AttachmentsSound'
      /\ diag'.links \subseteq links' /\ diag'.there \subseteq Uploaded'
      /\ AttachmentsRead' => \A d \in Drafts : Ended(d)' => d \in diag'.there
  BY <1>1, <1>7, SameReadings
<1>9. \A d : Rank(Uploaded, d)' = Rank(Uploaded, d)
  BY <1>1 DEF Rank, Before, Uploaded
<1>10. ~diag.listed
  BY <1>1 DEF DiagInv, ReadInv, ListingAhead
<1>11. CASE Cardinality(page) < PageSize
  <2>1. diag'.pc = "report"
    BY <1>2, <1>6, <1>11 DEF Diagnoses
  <2>2. diag.there \ diag.objects \subseteq page
    BY <1>4, <1>5, <1>11
  <2> QED BY <1>7, <1>8, <2>1, <2>2 DEF ReadInv, ListingAhead
<1>12. CASE ~ Cardinality(page) < PageSize
  <2>1. diag'.pc = "list" /\ diag'.offset = diag.offset + Cardinality(page) /\ diag'.listed = diag.listed
    BY <1>1, <1>2, <1>6, <1>12 DEF Diagnoses
  <2>2. \A d \in diag'.there \ diag'.objects : Rank(Uploaded, d)' >= diag'.offset
    BY <1>5, <1>7, <1>9, <2>1
  <2> QED BY <1>7, <1>8, <1>10, <2>1, <2>2 DEF ReadInv, ListingAhead
<1> QED BY <1>11, <1>12

LEMMA EndingsKeepRead ==
    ASSUME DiagInv, StorageFails \/ Report \/ DatabaseFails
    PROVE  ReadInv'
<1>1. UNCHANGED <<now, drafts, files, processes, last, lock, stamps, links>>
  BY DEF StorageFails, Report, DatabaseFails, Reading, lifeVars
<1>2. diag \in Diagnoses
  BY DEF DiagInv, DiagTypeOK
<1>3. CASE StorageFails
  <2>1. /\ diag.pc = "list" /\ diag'.pc = "report" /\ diag'.listed = diag.listed
        /\ diag'.rows = diag.rows /\ diag'.began = diag.began /\ diag'.used = diag.used
        /\ diag'.assets = diag.assets /\ diag'.links = diag.links /\ diag'.forms = diag.forms
        /\ diag'.attachments = diag.attachments /\ diag'.there = diag.there
    BY <1>2, <1>3 DEF StorageFails, Reading, Diagnoses
  <2>2. ~diag.listed
    BY <2>1 DEF DiagInv, ReadInv, ListingAhead
  <2>3. /\ RowsPast' /\ UsedRead' /\ ProcessesRead' /\ AttachmentsSound'
        /\ diag'.links \subseteq links' /\ diag'.there \subseteq Uploaded'
        /\ AttachmentsRead' => \A d \in Drafts : Ended(d)' => d \in diag'.there
    BY <1>1, <2>1, SameReadings
  <2> QED BY <2>1, <2>2, <2>3 DEF ReadInv, ListingAhead
<1>4. CASE Report
  <2>1. /\ diag.pc = "report" /\ diag'.pc = "done" /\ diag'.listed = diag.listed
        /\ diag'.objects = diag.objects
        /\ diag'.rows = diag.rows /\ diag'.began = diag.began /\ diag'.used = diag.used
        /\ diag'.assets = diag.assets /\ diag'.links = diag.links /\ diag'.forms = diag.forms
        /\ diag'.attachments = diag.attachments /\ diag'.there = diag.there
    BY <1>2, <1>4 DEF Report, Reading, Diagnoses
  <2>2. /\ RowsPast' /\ UsedRead' /\ ProcessesRead' /\ AttachmentsSound'
        /\ diag'.links \subseteq links' /\ diag'.there \subseteq Uploaded'
        /\ AttachmentsRead' => \A d \in Drafts : Ended(d)' => d \in diag'.there
    BY <1>1, <2>1, SameReadings
  <2> QED BY <2>1, <2>2 DEF DiagInv, ReadInv, ListingAhead
<1>5. CASE DatabaseFails
  <2>1. diag' = NotBegun /\ now' \in Nat
    BY <1>1, <1>5 DEF DatabaseFails, DiagInv, DiagTypeOK, LifeTypeOK, Times
  <2> QED BY <2>1 DEF NotBegun, ReadInv, RowsPast, UsedRead, ProcessesRead, AttachmentsSound,
                      ListingAhead, AssetsRead, FormsRead, AttachmentsRead, Ended
<1> QED BY <1>3, <1>4, <1>5

LEMMA DiagInvInit == DiagInit => DiagInv
<1> SUFFICES ASSUME DiagInit PROVE DiagInv
  OBVIOUS
<1>1. 0 \in Times /\ now = 0
  BY LifetimeAssumption DEF Times, DiagInit, LifeInit
<1>2. diag = NotBegun /\ diag \in Diagnoses
  BY <1>1 DEF DiagInit, NotBegun, Diagnoses
<1>3. DiagTypeOK
  BY <1>1, <1>2 DEF DiagInit, LifeInit, DiagTypeOK, LifeTypeOK, Stamps
<1>4. ReadInv
  BY <1>1, <1>2 DEF NotBegun, ReadInv, RowsPast, UsedRead, ProcessesRead, AttachmentsSound,
                    ListingAhead, AssetsRead, FormsRead, AttachmentsRead, Ended
<1>5. StampInv
  BY LifetimeAssumption DEF DiagInit, LifeInit, StampInv, StampSound, Finalized
<1> QED BY <1>3, <1>4, <1>5, LifeInvInit DEF DiagInv, DiagInit

LEMMA DiagInvStep == DiagInv /\ [DiagNext]_diagVars => DiagInv'
<1> SUFFICES ASSUME DiagInv, [DiagNext]_diagVars PROVE DiagInv'
  OBVIOUS
<1>1. CASE FormsStep
  <2>1. DiagTypeOK'
    BY <1>1, FormsTypes DEF DiagInv
  <2>2. LifeInv'
    BY <1>1, FormsAreLife, LifeKept DEF DiagInv, DiagTypeOK
  <2>3. StampInv'
    BY <1>1, FormsKeepStamps DEF DiagInv, DiagTypeOK
  <2> QED BY <1>1, <2>1, <2>2, <2>3, FormsKeepRead DEF DiagInv
<1>2. CASE DiagnosisStep
  <2>1. DiagTypeOK'
    BY <1>2, ReadTypes DEF DiagInv
  <2>2. UNCHANGED <<now, drafts, files, processes, last, lock, stamps>>
    BY <1>2 DEF DiagnosisStep, Reading, ReadDrafts, ReadAssets, ReadForms, ReadAttachments,
                DatabaseFails, ListPage, StorageFails, Report, lifeVars
  <2>3. LifeInv'
    BY <2>2 DEF DiagInv, LifeInv, DraftSound, CodesApart, ProcessesKnown, Finalized
  <2>4. StampInv'
    BY <2>2, SameStamps DEF DiagInv, StampInv
  <2>5. ReadInv'
    BY <1>2, SelectsKeepRead, ListingKeepsRead, EndingsKeepRead DEF DiagnosisStep
  <2> QED BY <2>1, <2>3, <2>4, <2>5 DEF DiagInv
<1>3. CASE UNCHANGED diagVars
  <2>1. UNCHANGED <<now, drafts, files, processes, last, lock, stamps, links, diag>>
    BY <1>3 DEF diagVars, lifeVars
  <2>2. DiagTypeOK'
    BY <2>1 DEF DiagInv, DiagTypeOK, LifeTypeOK
  <2>3. LifeInv'
    BY <2>1 DEF DiagInv, LifeInv, DraftSound, CodesApart, ProcessesKnown, Finalized
  <2>4. ReadInv'
    BY <2>1 DEF DiagInv, ReadInv, RowsPast, UsedRead, ProcessesRead, AttachmentsSound, ListingAhead,
                AssetsRead, FormsRead, AttachmentsRead, Ended, Finalized, Rank, Before, Uploaded
  <2>5. StampInv'
    BY <2>1, SameStamps DEF DiagInv, StampInv
  <2> QED BY <2>2, <2>3, <2>4, <2>5 DEF DiagInv
<1> QED BY <1>1, <1>2, <1>3 DEF DiagNext

LEMMA AlwaysDiagInv == DiagSpec => []DiagInv
BY DiagInvInit, DiagInvStep, PTL DEF DiagSpec

-----------------------------------------------------------------------------
(* Every variable has its type. *)
THEOREM DiagnosisTypes == DiagSpec => []DiagTypeOK
<1>1. DiagInv => DiagTypeOK
  BY DEF DiagInv
<1> QED BY <1>1, AlwaysDiagInv, PTL

(* The diagnosis changes nothing: with it, the forms are what DraftLife says   *)
(* of them (scripts/diagnose_orphans.py runs a READ ONLY transaction).         *)
THEOREM DiagnosisKeepsLife == DiagSpec => LifeSpec
<1>1. DiagInit => LifeInit
  BY DEF DiagInit
<1>2. DiagnosisStep => UNCHANGED lifeVars
  BY DEF DiagnosisStep, Reading, ReadDrafts, ReadAssets, ReadForms, ReadAttachments,
         DatabaseFails, ListPage, StorageFails, Report
<1>3. [DiagNext]_diagVars => [LifeNext]_lifeVars
  BY <1>2, FormsAreLife DEF DiagNext, diagVars
<1> QED BY <1>1, <1>3, PTL DEF DiagSpec, LifeSpec

(* A listing that is kept holds every object there was when it began, though   *)
(* uploads move the entries between its pages (orphan_diagnostics.py:392-455). *)
THEOREM ListingIsComplete == DiagSpec => []ListingComplete
<1>1. DiagInv => ListingComplete
  BY DEF DiagInv, ReadInv, ListingAhead, ListingComplete
<1> QED BY <1>1, AlwaysDiagInv, PTL

(* What a row read as finalized tells of the draft. *)
LEMMA EndedDraft ==
    ASSUME DiagInv, NEW d \in Drafts, Ended(d)
    PROVE  /\ Finalized(d) /\ drafts[d] = diag.rows[d] /\ diag.rows[d].code \in Codes
           /\ diag.rows[d].payload = IF diag.rows[d].code.series = "VEI" THEN "emptied" ELSE "HESP"
           /\ diag.rows[d].code.series \in {"VEI", "HESP"}
<1>1. drafts[d] = diag.rows[d] /\ Finalized(d)
  BY DEF DiagInv, ReadInv, RowsPast, Ended, Finalized
<1>2. drafts[d].code \in Codes
  BY <1>1 DEF DiagInv, DiagTypeOK, LifeTypeOK, Rows, Finalized
<1> QED BY <1>1, <1>2 DEF DiagInv, LifeInv, DraftSound, Codes, Forms

(* No two rows read bear the same protocol. *)
LEMMA NoCodeRepeated ==
    ASSUME DiagInv, NEW d \in Drafts, Ended(d)
    PROVE  ~RepeatedCode(d)
<1>1. \A e \in Drafts : Ended(e) => Finalized(e) /\ drafts[e] = diag.rows[e]
  BY EndedDraft
<1> QED BY <1>1 DEF RepeatedCode, DiagInv, LifeInv, CodesApart

(* What the program referred to when the diagnosis began, and still refers to, *)
(* is no orphan candidate (README.md:43), whatever is finalized meanwhile.     *)
THEOREM UsedIsNeverOrphan == DiagSpec => []UsedNeverOrphan
<1>1. ASSUME DiagInv, Done, NEW r \in diag.used \cap References PROVE Protected(r.draft)
  <2>1. AssetsRead /\ AttachmentsRead
    BY <1>1 DEF Done, AssetsRead, AttachmentsRead
  <2>2. /\ r.by # "link" => Ended(r.draft)
        /\ r.by = "answer" => diag.rows[r.draft].code.series = "HESP"
        /\ r.by = "link" => r.draft \in diag.links
    BY <1>1, <2>1 DEF DiagInv, ReadInv, UsedRead
  <2>3. r.draft \in Drafts
    BY <1>1 DEF DiagInv, DiagTypeOK, Diagnoses
  <2>4. CASE r.by = "link"
    BY <2>2, <2>4 DEF Protected
  <2>5. CASE r.by = "process"
    <3>1. PICK p \in processes : p.draft = r.draft
      BY <1>1, <2>5 DEF References
    <3>2. p \in diag.attachments
      BY <1>1, <2>1, <2>2, <2>5, <3>1 DEF DiagInv, ReadInv, ProcessesRead
    <3> QED BY <3>1, <3>2 DEF Protected
  <2>6. CASE r.by = "answer"
    <3>1. Ended(r.draft) /\ diag.rows[r.draft].code.series = "HESP"
      BY <2>2, <2>6
    <3>2. diag.rows[r.draft].payload # "emptied"
      BY <1>1, <2>3, <3>1, EndedDraft
    <3> QED BY <3>1, <3>2 DEF Protected, InManifest, Ended
  <2> QED BY <1>1, <2>4, <2>5, <2>6 DEF References
<1>2. DiagInv => UsedNeverOrphan
  BY <1>1 DEF UsedNeverOrphan, Orphans
<1> QED BY <1>2, AlwaysDiagInv, PTL

(* A draft that is finalized after all is called abandoned, or its object an   *)
(* orphan, only by a report that came later than MinAge - Lifetime after its   *)
(* lifetime was checked (orphan_diagnostics.py:171-173).                       *)
THEOREM AbandonedComesLate == DiagSpec => []AbandonedOnlyLate
<1>1. ASSUME DiagInv, Done, NEW d \in Abandoned \cup Orphans, NEW r \in References,
             r.draft = d, r.by # "link"
      PROVE  diag.at - stamps[d].taken >= MinAge - Lifetime
  <2>1. d \in Drafts
    BY <1>1 DEF Abandoned, Orphans, DiagInv, DiagTypeOK, Diagnoses
  <2>2. Finalized(d)
    <3>1. CASE r.by = "process"
      BY <1>1, <3>1 DEF References, DiagInv, LifeInv, ProcessesKnown
    <3>2. CASE r.by = "answer"
      BY <1>1, <3>2 DEF References, Finalized
    <3> QED BY <1>1, <3>1, <3>2 DEF References
  <2>3. /\ stamps[d].taken - drafts[d].created <= Lifetime
        /\ drafts[d].created <= stamps[d].uploaded
    <3>1. files[d] /\ drafts[d] # Absent
      BY <1>1, <2>1, <2>2 DEF DiagInv, LifeInv, DraftSound, Finalized
    <3> QED BY <1>1, <2>1, <2>2, <3>1 DEF DiagInv, StampInv, StampSound
  <2>4. /\ stamps[d].taken \in Nat /\ stamps[d].uploaded \in Nat /\ drafts[d].created \in Nat
        /\ diag.at \in Nat /\ Lifetime \in Nat /\ MinAge \in Nat
    BY <1>1, <2>1, <2>2, LifetimeAssumption, DiagnosisAssumption
       DEF DiagInv, DiagTypeOK, LifeTypeOK, Stamps, Diagnoses, Rows, Times, Finalized
  <2>5. drafts[d].created <= diag.at - MinAge
    <3>1. CASE Pending(d) /\ Old(diag.rows[d].created)
      <4>1. drafts[d].created = diag.rows[d].created
        BY <1>1, <2>1, <3>1 DEF DiagInv, ReadInv, RowsPast, Pending
      <4> QED BY <3>1, <4>1 DEF Old
    <3>2. CASE d \in Orphans /\ diag.rows[d] = Absent
      <4>1. stamps[d].uploaded <= diag.at - MinAge
        BY <3>2 DEF Orphans, Recent, Old
      <4> QED BY <2>3, <2>4, <4>1
    <3>3. CASE d \in Orphans /\ Pending(d)
      <4>1. diag.rows[d].payload # "emptied"
        BY <1>1, <2>1, <3>3 DEF DiagInv, ReadInv, RowsPast, Pending
      <4>2. Old(diag.rows[d].created)
        BY <3>3, <4>1 DEF Orphans, Protected, InManifest, Pending
      <4> QED BY <3>1, <3>3, <4>2
    <3>4. ASSUME d \in Orphans, Ended(d) PROVE FALSE
      <4>1. diag.rows[d].payload = "emptied" /\ ~ \E p \in diag.attachments : p.draft = d
        BY <3>4 DEF Orphans, Protected, InManifest, Ended
      <4>2. drafts[d] = diag.rows[d] /\ diag.rows[d].code.series # "HESP"
        BY <1>1, <2>1, <3>4, <4>1, EndedDraft
      <4>3. r.by = "process"
        BY <1>1, <4>2 DEF References
      <4>4. PICK p \in processes : p.draft = d
        BY <1>1, <4>3 DEF References
      <4>5. p \in diag.attachments
        BY <1>1, <3>4, <4>4 DEF DiagInv, ReadInv, ProcessesRead, AttachmentsRead, Done
      <4> QED BY <4>1, <4>4, <4>5
    <3> QED BY <1>1, <3>1, <3>2, <3>3, <3>4 DEF Abandoned, Pending, Ended
  <2> QED BY <2>3, <2>4, <2>5
<1>2. DiagInv => AbandonedOnlyLate
  BY <1>1 DEF AbandonedOnlyLate
<1> QED BY <1>2, AlwaysDiagInv, PTL

(* A finalized draft is called inconsistent only if its process was removed:   *)
(* the drafts are read before what their finalization committed                *)
(* (scripts/diagnose_orphans.py:45-63).                                        *)
THEOREM InconsistentWasRemoved == DiagSpec => []InconsistentOnlyRemoved
<1>1. ASSUME DiagInv, Done, NEW d \in Inconsistent
      PROVE  drafts[d].code.series = "VEI" /\ \A p \in processes : p.draft # d
  <2>1. d \in Drafts /\ Ended(d)
    BY <1>1 DEF Inconsistent
  <2>2. /\ Finalized(d) /\ drafts[d] = diag.rows[d] /\ ~RepeatedCode(d)
        /\ diag.rows[d].code.series = "HESP" => diag.rows[d].payload = "HESP"
    BY <1>1, <2>1, EndedDraft, NoCodeRepeated
  <2>3. /\ diag.rows[d].code.series = "VEI"
        /\ \A p \in diag.assets \cap diag.forms \cap diag.attachments : p.code # diag.rows[d].code
    BY <1>1, <2>2 DEF Inconsistent
  <2>4. ASSUME NEW p \in processes, p.draft = d PROVE FALSE
    <3>1. p.code = diag.rows[d].code
      BY <1>1, <2>2, <2>4 DEF DiagInv, LifeInv, ProcessesKnown
    <3>2. p \in diag.assets \cap diag.forms \cap diag.attachments
      BY <1>1, <2>1, <2>4
         DEF DiagInv, ReadInv, ProcessesRead, AssetsRead, FormsRead, AttachmentsRead, Done
    <3> QED BY <2>3, <3>1, <3>2
  <2> QED BY <2>2, <2>3, <2>4
<1>2. DiagInv => InconsistentOnlyRemoved
  BY <1>1 DEF InconsistentOnlyRemoved
<1> QED BY <1>2, AlwaysDiagInv, PTL

(* No absence is inferred that was not there: an attachment is called broken   *)
(* only if its process was created or removed while the tables were read, and  *)
(* a manifest never is (orphan_diagnostics.py:169, 286-292, 323).              *)
THEOREM AbsencesAreReal == DiagSpec => []NoAbsenceInvented
<1>1. ASSUME DiagInv, Done PROVE BrokenManifests = {}
  <2> SUFFICES ASSUME NEW d \in BrokenManifests PROVE FALSE
    OBVIOUS
  <2>1. d \in Drafts /\ Ended(d) /\ diag.listed /\ d \notin diag.objects
    BY DEF BrokenManifests
  <2> QED BY <1>1, <2>1 DEF DiagInv, ReadInv, ListingAhead, AttachmentsRead, Done
<1>2. ASSUME DiagInv, Done, NEW p \in BrokenAttachments
      PROVE  stamps[p.draft].attached >= diag.began /\ diag.at - diag.began >= MinAge
  <2>1. p \in diag.attachments /\ Old(stamps[p.draft].attached)
    BY DEF BrokenAttachments
  <2>2. p.draft \in Drafts
    BY <1>2, <2>1 DEF DiagInv, DiagTypeOK, Diagnoses, Processes
  <2>3. /\ Finalized(p.draft) /\ drafts[p.draft].code = p.code /\ p.draft \in diag.there
        /\ Ended(p.draft) => p \in diag.assets \cap diag.forms
    BY <1>2, <2>1 DEF DiagInv, ReadInv, AttachmentsSound
  <2>4. ~Ended(p.draft)
    <3> SUFFICES ASSUME Ended(p.draft) PROVE FALSE
      OBVIOUS
    <3>1. diag.rows[p.draft].code = p.code
      BY <1>2, <2>2, <2>3, EndedDraft
    <3>2. diag.listed => p.draft \in diag.objects
      BY <1>2, <2>3 DEF DiagInv, ReadInv, ListingAhead
    <3> QED BY <2>3, <3>1, <3>2 DEF BrokenAttachments
  <2>5. stamps[p.draft].attached >= diag.began
    BY <1>2, <2>2, <2>3, <2>4 DEF DiagInv, ReadInv, RowsPast, Done
  <2>6. stamps[p.draft].attached \in Nat /\ diag.began \in Nat /\ diag.at \in Nat /\ MinAge \in Nat
    <3>1. stamps[p.draft] \in Stamps /\ diag \in Diagnoses
      BY <1>2, <2>2 DEF DiagInv, DiagTypeOK
    <3>2. stamps[p.draft].attached \in Times /\ diag.began \in Times /\ diag.at \in Times
      BY <3>1 DEF Stamps, Diagnoses
    <3> QED BY <3>2, DiagnosisAssumption DEF Times
  <2> QED BY <2>1, <2>5, <2>6 DEF Old
<1>3. DiagInv => NoAbsenceInvented
  BY <1>1, <1>2 DEF NoAbsenceInvented
<1> QED BY <1>3, AlwaysDiagInv, PTL

(* A complete report finds the objects of every draft that died unfinished.    *)
THEOREM LeftoversAreFound == DiagSpec => []LeftoversFound
<1>1. ASSUME DiagInv, Done, CanReportOrphans, NEW d \in diag.there, diag.rows[d] # Absent,
             drafts[d].code = NoCode, d \notin links,
             Old(drafts[d].created), Old(stamps[d].uploaded)
      PROVE  d \in Orphans
  <2>1. d \in Drafts /\ d \in diag.objects /\ d \notin diag.links
    BY <1>1 DEF DiagInv, ReadInv, ListingAhead, CanReportOrphans, DiagTypeOK, Diagnoses
  <2>2. ~Finalized(d) /\ ~Ended(d)
    BY <1>1, <2>1, EndedDraft DEF Finalized
  <2>3. \A p \in diag.attachments : p.draft # d
    BY <1>1, <2>2 DEF DiagInv, ReadInv, AttachmentsSound
  <2>4. diag.rows[d].created = drafts[d].created
    BY <1>1, <2>1 DEF DiagInv, ReadInv, RowsPast
  <2>5. ~Protected(d)
    BY <1>1, <2>1, <2>2, <2>3, <2>4 DEF Protected
  <2>6. ~Recent(d)
    BY <1>1, <2>2 DEF Recent
  <2> QED BY <1>1, <2>1, <2>5, <2>6 DEF Orphans
<1>2. DiagInv => LeftoversFound
  BY <1>1 DEF LeftoversFound
<1> QED BY <1>2, AlwaysDiagInv, PTL
=============================================================================
