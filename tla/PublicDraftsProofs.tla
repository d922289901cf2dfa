-------------------------- MODULE PublicDraftsProofs --------------------------
(* Proofs about PublicDrafts, for every number of drafts, clients and workers, *)
(* and every limit, window and lifetime.                                       *)
EXTENDS PublicDraftsRefinement, FiniteSetTheorems, TLAPS

LEMMA TypeInit == Init => TypeOK
BY LimitsAssumption DEF Init, TypeOK, Times, Forms

(* The draft of a request is in the table; rows are never removed. *)
Known ==
    \A w \in Workers :
        tx[w].pc \in {"find", "validate", "commit", "answer"} => drafts[tx[w].draft] # Absent

LEMMA KnownInit == Init => Known
BY DEF Init, Known, Idle

(* What a request holds at each program counter. *)
LEMMA RequestFields ==
    ASSUME TypeOK, NEW w \in Workers
    PROVE  /\ tx[w].pc \in {"lock", "count", "insert"} =>
                tx[w].client \in Clients /\ tx[w].form \in Forms
           /\ tx[w].pc \in {"find", "validate", "commit", "answer"} =>
                tx[w].draft \in Drafts /\ tx[w].form \in Forms
           /\ tx[w].pc = "answer" => tx[w].code \in Codes
<1>1. tx[w] \in {Idle} \cup Requests
  BY DEF TypeOK
<1>2. CASE tx[w] = Idle
  BY <1>2 DEF Idle
<1>3. CASE tx[w] \in Requests
  BY <1>3 DEF Requests
<1> QED BY <1>1, <1>2, <1>3

(* A request keeps its type when it moves to its next step. *)
LEMMA MovedRequest ==
    ASSUME TypeOK, NEW w \in Workers
    PROVE  /\ tx[w].pc \in {"lock", "count"} =>
                [tx[w] EXCEPT !.pc = "count"] \in Requests /\ [tx[w] EXCEPT !.pc = "insert"] \in Requests
           /\ tx[w].pc \in {"find", "validate"} =>
                [tx[w] EXCEPT !.pc = "validate"] \in Requests /\ [tx[w] EXCEPT !.pc = "commit"] \in Requests
<1>1. tx[w] \in {Idle} \cup Requests
  BY DEF TypeOK
<1>2. CASE tx[w] = Idle
  BY <1>2 DEF Idle
<1>3. CASE tx[w] \in Requests
  BY <1>3 DEF Requests
<1> QED BY <1>1, <1>2, <1>3

(* The row of a draft in a request is a row of the table. *)
LEMMA KnownRow ==
    ASSUME TypeOK, Known, NEW w \in Workers,
           tx[w].pc \in {"find", "validate", "commit", "answer"}
    PROVE  tx[w].draft \in Drafts /\ drafts[tx[w].draft] \in Rows
BY RequestFields DEF TypeOK, Known

(* What a commit writes is a protocol and a row. *)
LEMMA FinalizedRow ==
    ASSUME TypeOK, Known, NEW w \in Workers, tx[w].pc = "commit"
    PROVE  /\ tx[w].draft \in Drafts /\ tx[w].form \in Forms /\ drafts[tx[w].draft] \in Rows
           /\ NextCode(tx[w].form) \in Codes
           /\ Finalized(tx[w].form, drafts[tx[w].draft], NextCode(tx[w].form)) \in Rows
<1> DEFINE f == tx[w].form
           row == drafts[tx[w].draft]
           code == NextCode(f)
<1>1. tx[w].draft \in Drafts /\ row \in Rows /\ f \in Forms
  BY KnownRow, RequestFields
<1>2. code \in Codes
  BY <1>1 DEF NextCode, Codes, TypeOK
<1> HIDE DEF f, row, code
<1>3. Finalized(f, row, code) \in Rows
  BY <1>1, <1>2 DEF Finalized, Rows
<1> QED BY <1>1, <1>2, <1>3 DEF f, row, code

LEMMA TypeStep == TypeOK /\ Known /\ [Next]_vars => TypeOK'
<1> SUFFICES ASSUME TypeOK, Known, [Next]_vars PROVE TypeOK'
  OBVIOUS
<1> USE DEF TypeOK, Answer, Advance, history
<1>1. CASE UNCHANGED vars
  BY <1>1 DEF vars
<1>2. CASE Tick
  BY <1>2, LimitsAssumption DEF Tick, Times
<1>3. CASE Remove
  BY <1>3 DEF Remove
<1>4. ASSUME NEW d \in Drafts, Upload(d) PROVE TypeOK'
  BY <1>4 DEF Upload
<1>5. ASSUME NEW w \in Workers, Initiate(w) PROVE TypeOK'
  BY <1>5 DEF Initiate, Requests
<1>6. ASSUME NEW w \in Workers, Lock(w) PROVE TypeOK'
  <2>1. [tx[w] EXCEPT !.pc = "count"] \in Requests
    BY <1>6, MovedRequest DEF Lock
  <2> QED BY <1>6, <2>1 DEF Lock
<1>7. ASSUME NEW w \in Workers, Within(w) PROVE TypeOK'
  <2>1. [tx[w] EXCEPT !.pc = "insert"] \in Requests
    BY <1>7, MovedRequest DEF Within
  <2> QED BY <1>7, <2>1 DEF Within
<1>8. ASSUME NEW w \in Workers, Insert(w) PROVE TypeOK'
  <2>1. tx[w].client \in Clients /\ tx[w].form \in Forms
    BY <1>8, RequestFields DEF Insert
  <2>2. [client |-> tx[w].client, created |-> now, payload |-> tx[w].form, code |-> NoCode] \in Rows
    BY <2>1 DEF Rows
  <2> QED BY <1>8, <2>1, <2>2 DEF Insert
<1>9. ASSUME NEW w \in Workers, Finalize(w) PROVE TypeOK'
  BY <1>9 DEF Finalize, Requests, Live
<1>10. ASSUME NEW w \in Workers, Repeat(w) PROVE TypeOK'
  <2>1. tx[w].form \in Forms
    BY <1>10, RequestFields DEF Repeat, Found
  <2>2. tx[w].draft \in Drafts /\ drafts[tx[w].draft] \in Rows
    BY <1>10, KnownRow DEF Repeat, Found
  <2>3. drafts[tx[w].draft].code \in Codes
    BY <1>10, <2>2 DEF Repeat, Answerable, Rows
  <2> QED BY <1>10, <2>1, <2>2, <2>3 DEF Repeat, Requests
<1>11. ASSUME NEW w \in Workers, Take(w) PROVE TypeOK'
  <2>1. [tx[w] EXCEPT !.pc = "validate"] \in Requests
    BY <1>11, MovedRequest DEF Take, Found
  <2> QED BY <1>11, <2>1 DEF Take
<1>12. ASSUME NEW w \in Workers, Validate(w) PROVE TypeOK'
  <2>1. [tx[w] EXCEPT !.pc = "commit"] \in Requests
    BY <1>12, MovedRequest DEF Validate
  <2> QED BY <1>12, <2>1 DEF Validate
<1>13. ASSUME NEW w \in Workers, Commit(w) PROVE TypeOK'
  <2> DEFINE d == tx[w].draft
             f == tx[w].form
             code == NextCode(f)
  <2>1. d \in Drafts /\ f \in Forms
    BY <1>13, FinalizedRow DEF Commit
  <2>2. code \in Codes
    BY <1>13, FinalizedRow DEF Commit
  <2>3. Finalized(f, drafts[d], code) \in Rows
    BY <1>13, FinalizedRow DEF Commit
  <2>4. [pc |-> "answer", form |-> f, draft |-> d, code |-> code] \in Requests
    BY <2>1, <2>2 DEF Requests
  <2>5. /\ last' = [last EXCEPT ![f] = @ + 1]
        /\ drafts' = [drafts EXCEPT ![d] = Finalized(f, drafts[d], code)]
        /\ processes' = processes \/ processes' = processes \cup {[draft |-> d, code |-> code]}
        /\ made' = made \/ made' = [made EXCEPT ![d] = @ + 1]
        /\ tx' = [tx EXCEPT ![w] = [pc |-> "answer", form |-> f, draft |-> d, code |-> code]]
        /\ UNCHANGED <<now, files, form, received>>
    BY <1>13 DEF Commit
  <2> HIDE DEF code, d, f
  <2>6. last' \in [Forms -> Nat] /\ made' \in [Drafts -> Nat]
    BY <2>1, <2>5
  <2>7. processes' \subseteq [draft : Drafts, code : Codes]
    BY <2>1, <2>2, <2>5
  <2> QED BY <2>1, <2>3, <2>4, <2>5, <2>6, <2>7
<1>14. ASSUME NEW w \in Workers, Deliver(w) PROVE TypeOK'
  BY <1>14, RequestFields DEF Deliver
<1>15. ASSUME NEW w \in Workers, Refuse(w) PROVE TypeOK'
  BY <1>15 DEF Refuse
<1>16. ASSUME NEW w \in Workers, Abort(w) PROVE TypeOK'
  BY <1>16 DEF Abort
<1>17. ASSUME NEW w \in Workers, Receipt(w) PROVE TypeOK'
  <2>1. PICK f \in Forms, d \in Live :
          /\ drafts[d].code # NoCode
          /\ tx' = [tx EXCEPT ![w] = [pc |-> "answer", form |-> f, draft |-> d, code |-> drafts[d].code]]
          /\ UNCHANGED <<now, drafts, files, processes, last, history>>
    BY <1>17 DEF Receipt, Answerable
  <2>2. d \in Drafts /\ drafts[d].code \in Codes
    BY <2>1 DEF Live, Rows
  <2> QED BY <2>1, <2>2 DEF Requests
<1> QED
  BY <1>1, <1>2, <1>3, <1>4, <1>5, <1>6, <1>7, <1>8, <1>9, <1>10, <1>11, <1>12, <1>13, <1>14,
     <1>15, <1>16, <1>17 DEF Next

LEMMA KnownStep == TypeOK /\ Known /\ [Next]_vars => Known'
<1> SUFFICES ASSUME TypeOK, Known, [Next]_vars,
                    NEW v \in Workers, tx'[v].pc \in {"find", "validate", "commit", "answer"}
             PROVE  drafts'[tx'[v].draft] # Absent
  BY DEF Known
<1> USE DEF Answer, Advance, history
<1>1. \A d \in Drafts : drafts'[d] = Absent => drafts[d] = Absent
  <2>1. \A w \in Workers : Insert(w) => \A d \in Drafts : drafts'[d] = Absent => drafts[d] = Absent
    BY DEF Insert, TypeOK
  <2>2. \A w \in Workers : Commit(w) => \A d \in Drafts : drafts'[d] = Absent => drafts[d] = Absent
    <3> SUFFICES ASSUME NEW w \in Workers, Commit(w)
                 PROVE  drafts'[tx[w].draft] # Absent
      BY DEF Commit, TypeOK
    <3> QED BY FinalizedRow, NoRowAssumption DEF Commit, TypeOK
  <2> QED
    BY <2>1, <2>2 DEF Next, vars, Tick, Remove, Upload, Initiate, Lock, Within, Finalize, Repeat,
       Take, Validate, Deliver, Receipt, Refuse, Abort
<1>2. \/ /\ tx[v].pc \in {"find", "validate", "commit", "answer"}
         /\ tx'[v].draft = tx[v].draft
      \/ tx'[v].draft \in Live
  <2>1. CASE tx'[v] = tx[v]
    BY <2>1
  <2>2. CASE tx'[v] # tx[v]
    <3>1. \/ Initiate(v) \/ Lock(v) \/ Within(v) \/ Insert(v) \/ Finalize(v) \/ Repeat(v) \/ Take(v)
          \/ Validate(v) \/ Commit(v) \/ Deliver(v) \/ Receipt(v) \/ Refuse(v) \/ Abort(v)
      <4> DEFINE Serves(w) ==
            \/ Initiate(w) \/ Lock(w) \/ Within(w) \/ Insert(w) \/ Finalize(w) \/ Repeat(w) \/ Take(w)
            \/ Validate(w) \/ Commit(w) \/ Deliver(w) \/ Receipt(w) \/ Refuse(w) \/ Abort(w)
      <4>1. \E w \in Workers : Serves(w)
        BY <2>2 DEF Next, vars, Tick, Remove, Upload
      <4>2. ASSUME NEW w \in Workers, Serves(w), w # v PROVE tx'[v] = tx[v]
        <5>1. CASE \/ Initiate(w) \/ Lock(w) \/ Within(w) \/ Insert(w) \/ Finalize(w) \/ Repeat(w)
          BY <4>2, <5>1 DEF Initiate, Lock, Within, Insert, Finalize, Repeat, TypeOK
        <5>2. CASE \/ Take(w) \/ Validate(w) \/ Commit(w) \/ Deliver(w) \/ Receipt(w) \/ Refuse(w)
                   \/ Abort(w)
          BY <4>2, <5>2 DEF Take, Validate, Commit, Deliver, Receipt, Refuse, Abort, TypeOK
        <5> QED BY <4>2, <5>1, <5>2
      <4> QED BY <2>2, <4>1, <4>2
    <3>2. CASE Lock(v) \/ Within(v) \/ Take(v) \/ Validate(v)
      <4>1. \A pc \in {"count", "insert", "validate", "commit"} :
              tx[v] \in Requests =>
                /\ [tx[v] EXCEPT !.pc = pc].pc = pc
                /\ tx[v].pc \in {"find", "validate"} => [tx[v] EXCEPT !.pc = pc].draft = tx[v].draft
        BY DEF Requests
      <4>2. tx[v] \in Requests
        BY <3>2 DEF Lock, Within, Take, Validate, Found, Idle, TypeOK
      <4> QED BY <3>2, <4>1, <4>2 DEF Lock, Within, Take, Validate, Found, TypeOK
    <3>3. CASE Initiate(v) \/ Insert(v) \/ Deliver(v) \/ Refuse(v) \/ Abort(v)
      BY <3>3 DEF Initiate, Insert, Deliver, Refuse, Abort, Idle, TypeOK
    <3>4. CASE Finalize(v) \/ Receipt(v)
      BY <3>4 DEF Finalize, Receipt, TypeOK
    <3>5. CASE Repeat(v) \/ Commit(v)
      BY <3>5 DEF Repeat, Commit, Found, TypeOK
    <3> QED BY <3>1, <3>2, <3>3, <3>4, <3>5
  <2> QED BY <2>1, <2>2
<1>3. tx'[v].draft \in Drafts /\ drafts[tx'[v].draft] # Absent
  BY <1>2, RequestFields DEF Known, Live
<1> QED BY <1>1, <1>3

-----------------------------------------------------------------------------
(* The life of a row: absent; open, as its form left it; finalized, once.      *)
RowConsistent(d) ==
    /\ drafts[d] = Absent => made[d] = 0 /\ received[d] = {}
    /\ drafts[d] # Absent /\ drafts[d].code = NoCode =>
         drafts[d].payload = form[d] /\ made[d] = 0 /\ received[d] = {}
    /\ drafts[d] # Absent /\ drafts[d].code # NoCode =>
         /\ drafts[d].code.series = form[d]
         /\ drafts[d].payload = IF form[d] = "VEI" THEN "emptied" ELSE "HESP"
         /\ made[d] = IF form[d] = "VEI" THEN 1 ELSE 0
         /\ received[d] \subseteq {drafts[d].code}

(* What a request past its checks knows of its draft, which no other request   *)
(* can change: the row lock, then the answer it holds.                         *)
RequestConsistent(w) ==
    /\ tx[w].pc \in {"validate", "commit"} =>
         drafts[tx[w].draft].code = NoCode /\ tx[w].form = form[tx[w].draft]
    /\ tx[w].pc = "answer" =>
         /\ tx[w].code = drafts[tx[w].draft].code /\ tx[w].code # NoCode
         /\ tx[w].form = form[tx[w].draft]

Locked(w) == tx[w].pc \in {"validate", "commit"}

DraftInv ==
    /\ \A d \in Drafts : RowConsistent(d)
    /\ \A w \in Workers : RequestConsistent(w)
    /\ \A v, w \in Workers :
         Locked(v) /\ Locked(w) /\ tx[v].draft = tx[w].draft => v = w

LEMMA DraftInit == Init => DraftInv
BY DEF Init, DraftInv, RowConsistent, RequestConsistent, Locked, Idle

(* A step that only moves one request, to a place with nothing to know. *)
LEMMA Unlocked ==
    ASSUME TypeOK, DraftInv, NEW w \in Workers, NEW t,
           t.pc \notin {"validate", "commit", "answer"},
           tx' = [tx EXCEPT ![w] = t],
           UNCHANGED <<drafts, form, made, received>>
    PROVE  DraftInv'
<1>1. \A d \in Drafts : RowConsistent(d)'
  BY DEF DraftInv, RowConsistent
<1>2. \A v \in Workers : v # w => tx'[v] = tx[v]
  BY DEF TypeOK
<1>3. tx'[w] = t
  BY DEF TypeOK
<1>4. \A v \in Workers : RequestConsistent(v)'
  BY <1>2, <1>3 DEF DraftInv, RequestConsistent
<1>5. \A u, v \in Workers :
        Locked(u)' /\ Locked(v)' /\ tx'[u].draft = tx'[v].draft => u = v
  BY <1>2, <1>3 DEF DraftInv, Locked
<1> QED BY <1>1, <1>4, <1>5 DEF DraftInv

LEMMA DraftStep == TypeOK /\ Known /\ DraftInv /\ [Next]_vars => DraftInv'
<1> SUFFICES ASSUME TypeOK, Known, DraftInv, [Next]_vars PROVE DraftInv'
  OBVIOUS
<1> USE DEF Answer, Advance, history
<1>1. CASE UNCHANGED <<drafts, tx, history>>
  BY <1>1 DEF DraftInv, RowConsistent, RequestConsistent, Locked
<1>2. CASE \/ Tick \/ Remove \/ \E d \in Drafts : Upload(d)
  BY <1>1, <1>2 DEF Tick, Remove, Upload
<1>3. ASSUME NEW w \in Workers,
             Initiate(w) \/ Lock(w) \/ Within(w) \/ Finalize(w) \/ Refuse(w) \/ Abort(w)
      PROVE  DraftInv'
  <2> PICK t : t.pc \notin {"validate", "commit", "answer"} /\ tx' = [tx EXCEPT ![w] = t]
    <3>1. CASE Lock(w) \/ Within(w)
      <4>1. /\ [tx[w] EXCEPT !.pc = "count"].pc = "count"
            /\ [tx[w] EXCEPT !.pc = "insert"].pc = "insert"
        BY <3>1, TypeOK, RequestFields DEF Lock, Within, TypeOK, Requests, Idle
      <4> QED BY <3>1, <4>1 DEF Lock, Within
    <3>2. CASE Initiate(w) \/ Finalize(w) \/ Refuse(w) \/ Abort(w)
      BY <3>2 DEF Initiate, Finalize, Refuse, Abort, Idle
    <3> QED BY <1>3, <3>1, <3>2
  <2> UNCHANGED <<drafts, form, made, received>>
    BY <1>3 DEF Initiate, Lock, Within, Finalize, Refuse, Abort
  <2> QED BY Unlocked
<1>4. ASSUME NEW w \in Workers, Insert(w) PROVE DraftInv'
  <2> PICK d \in Drafts :
        /\ drafts[d] = Absent
        /\ drafts' = [drafts EXCEPT ![d] =
             [client |-> tx[w].client, created |-> now, payload |-> tx[w].form, code |-> NoCode]]
        /\ form' = [form EXCEPT ![d] = tx[w].form]
    BY <1>4 DEF Insert
  <2> tx' = [tx EXCEPT ![w] = Idle] /\ UNCHANGED <<made, received>>
    BY <1>4 DEF Insert
  <2>1. drafts'[d] \in Rows /\ drafts'[d].code = NoCode /\ drafts'[d].payload = form'[d]
    <3>1. tx[w].client \in Clients /\ tx[w].form \in Forms
      BY <1>4, RequestFields DEF Insert
    <3> QED BY <3>1 DEF Rows, TypeOK
  <2>2. \A e \in Drafts \ {d} : drafts'[e] = drafts[e] /\ form'[e] = form[e]
    BY DEF TypeOK
  <2>3. \A v \in Workers : tx'[v].pc # "idle" => tx'[v] = tx[v]
    BY DEF TypeOK, Idle
  <2>4. \A v \in Workers : tx'[v].pc \in {"validate", "commit", "answer"} => tx[v].draft \in Drafts \ {d}
    BY <2>3, RequestFields DEF Known
  <2>5. \A e \in Drafts : RowConsistent(e)'
    BY <2>1, <2>2, NoRowAssumption DEF DraftInv, RowConsistent, TypeOK
  <2>6. \A v \in Workers : RequestConsistent(v)'
    BY <2>2, <2>3, <2>4 DEF DraftInv, RequestConsistent
  <2>7. \A u, v \in Workers :
          Locked(u)' /\ Locked(v)' /\ tx'[u].draft = tx'[v].draft => u = v
    BY <2>3 DEF DraftInv, Locked
  <2> QED BY <2>5, <2>6, <2>7 DEF DraftInv
<1>5. ASSUME NEW w \in Workers, Repeat(w) PROVE DraftInv'
  <2> DEFINE row == drafts[tx[w].draft]
             t == [pc |-> "answer", form |-> tx[w].form, draft |-> tx[w].draft, code |-> row.code]
  <2>1. tx' = [tx EXCEPT ![w] = t] /\ UNCHANGED <<drafts, form, made, received>>
    BY <1>5 DEF Repeat
  <2>2. tx[w].draft \in Drafts /\ row \in Rows /\ tx[w].form \in Forms
    BY <1>5, KnownRow, RequestFields DEF Repeat, Found
  <2>3. row.code # NoCode /\ tx[w].form = form[tx[w].draft]
    <3>1. row.code # NoCode /\ IF tx[w].form = "VEI" THEN row.code.series # "HESP" ELSE row.payload = "HESP"
      BY <1>5 DEF Repeat, Answerable
    <3>2. RowConsistent(tx[w].draft) /\ row # Absent /\ form[tx[w].draft] \in Forms
      BY <2>2, NoRowAssumption DEF DraftInv, TypeOK
    <3> QED BY <2>2, <3>1, <3>2 DEF RowConsistent, Forms
  <2>4. \A v \in Workers : v # w => tx'[v] = tx[v]
    BY <2>1 DEF TypeOK
  <2>5. tx'[w] = t
    BY <2>1 DEF TypeOK
  <2>6. \A d \in Drafts : RowConsistent(d)'
    BY <2>1 DEF DraftInv, RowConsistent
  <2>7. \A v \in Workers : RequestConsistent(v)'
    BY <2>1, <2>3, <2>4, <2>5 DEF DraftInv, RequestConsistent
  <2>8. \A u, v \in Workers :
          Locked(u)' /\ Locked(v)' /\ tx'[u].draft = tx'[v].draft => u = v
    BY <2>4, <2>5 DEF DraftInv, Locked
  <2> QED BY <2>6, <2>7, <2>8 DEF DraftInv
<1>6. ASSUME NEW w \in Workers, Take(w) \/ Validate(w) PROVE DraftInv'
  <2>1. PICK pc \in {"validate", "commit"} :
          tx' = [tx EXCEPT ![w] = [tx[w] EXCEPT !.pc = pc]] /\ UNCHANGED <<drafts, form, made, received>>
    BY <1>6 DEF Take, Validate
  <2>2. tx[w] \in Requests /\ tx[w].pc \in {"find", "validate"}
    BY <1>6 DEF Take, Validate, Found, TypeOK, Idle
  <2>3. tx'[w].pc = pc /\ tx'[w].draft = tx[w].draft /\ tx'[w].form = tx[w].form
    BY <2>1, <2>2 DEF Requests, TypeOK
  <2>4. \A v \in Workers : v # w => tx'[v] = tx[v]
    BY <2>1 DEF TypeOK
  <2>5. tx[w].draft \in Drafts /\ drafts[tx[w].draft] \in Rows /\ drafts[tx[w].draft] # Absent
    BY <2>2, KnownRow, NoRowAssumption
  <2>6. drafts[tx[w].draft].code = NoCode /\ tx[w].form = form[tx[w].draft]
    <3>1. CASE Take(w)
      <4>1. drafts[tx[w].draft].code = NoCode /\ drafts[tx[w].draft].payload = tx[w].form
        BY <3>1 DEF Take, Open
      <4> QED BY <4>1, <2>5 DEF DraftInv, RowConsistent
    <3>2. CASE Validate(w)
      BY <3>2 DEF Validate, DraftInv, RequestConsistent
    <3> QED BY <1>6, <3>1, <3>2
  <2>7. \A v \in Workers : v # w /\ Locked(v) => tx[v].draft # tx[w].draft
    <3>1. CASE Take(w)
      BY <3>1 DEF Take, Found, DraftFree, Locked
    <3>2. CASE Validate(w)
      BY <3>2 DEF Validate, DraftInv, Locked
    <3> QED BY <1>6, <3>1, <3>2
  <2>8. \A d \in Drafts : RowConsistent(d)'
    BY <2>1 DEF DraftInv, RowConsistent
  <2>9. \A v \in Workers : RequestConsistent(v)'
    BY <2>1, <2>3, <2>4, <2>6 DEF DraftInv, RequestConsistent
  <2>10. \A u, v \in Workers :
           Locked(u)' /\ Locked(v)' /\ tx'[u].draft = tx'[v].draft => u = v
    BY <2>3, <2>4, <2>7 DEF DraftInv, Locked
  <2> QED BY <2>8, <2>9, <2>10 DEF DraftInv
<1>7. ASSUME NEW w \in Workers, Commit(w) PROVE DraftInv'
  <2> DEFINE d == tx[w].draft
             f == tx[w].form
             code == NextCode(f)
  <2>1. d \in Drafts /\ f \in Forms /\ drafts[d] \in Rows /\ code \in Codes
        /\ Finalized(f, drafts[d], code) \in Rows
    BY <1>7, FinalizedRow DEF Commit
  <2>2. drafts[d].code = NoCode /\ f = form[d] /\ drafts[d].payload = f /\ made[d] = 0 /\ received[d] = {}
    BY <1>7, <2>1, NoRowAssumption DEF Commit, DraftInv, RequestConsistent, RowConsistent
  <2>3. /\ drafts' = [drafts EXCEPT ![d] = Finalized(f, drafts[d], code)]
        /\ made' = IF f = "VEI" THEN [made EXCEPT ![d] = @ + 1] ELSE made
        /\ tx' = [tx EXCEPT ![w] = [pc |-> "answer", form |-> f, draft |-> d, code |-> code]]
        /\ UNCHANGED <<form, received>>
    BY <1>7 DEF Commit
  <2>4. /\ drafts'[d].code = code /\ drafts'[d] # Absent
        /\ drafts'[d].payload = IF f = "VEI" THEN "emptied" ELSE "HESP"
    BY <2>1, <2>2, <2>3, NoRowAssumption DEF Finalized, Rows, Forms, TypeOK
  <2>5. code # NoCode /\ code.series = f
    BY <2>1, NoRowAssumption DEF NextCode
  <2>6. \A v \in Workers : v # w => tx'[v] = tx[v]
    BY <2>3 DEF TypeOK
  <2>7. tx'[w] = [pc |-> "answer", form |-> f, draft |-> d, code |-> code]
    BY <2>3 DEF TypeOK
  <2>8. \A v \in Workers : v # w /\ tx[v].pc \in {"validate", "commit", "answer"} => tx[v].draft # d
    BY <1>7, <2>2 DEF Commit, DraftInv, Locked, RequestConsistent
  <2>9. \A e \in Drafts \ {d} : drafts'[e] = drafts[e] /\ made'[e] = made[e]
    BY <2>1, <2>3 DEF TypeOK
  <2>10. made'[d] = IF f = "VEI" THEN 1 ELSE 0
    BY <2>1, <2>2, <2>3 DEF TypeOK
  <2> HIDE DEF d, f, code
  <2>11. \A e \in Drafts : RowConsistent(e)'
    <3>1. ASSUME NEW e \in Drafts, e = d PROVE RowConsistent(e)'
      BY <3>1, <2>2, <2>3, <2>4, <2>5, <2>10 DEF RowConsistent
    <3>2. \A e \in Drafts \ {d} : RowConsistent(e)'
      BY <2>3, <2>9 DEF DraftInv, RowConsistent
    <3> QED BY <3>1, <3>2
  <2>12. \A v \in Workers : RequestConsistent(v)'
    <3>1. RequestConsistent(w)'
      BY <2>2, <2>3, <2>4, <2>5, <2>7 DEF RequestConsistent
    <3>2. ASSUME NEW v \in Workers, v # w PROVE RequestConsistent(v)'
      BY <2>3, <2>6, <2>8, <2>9, <3>2, RequestFields DEF DraftInv, RequestConsistent
    <3> QED BY <3>1, <3>2
  <2>13. \A u, v \in Workers :
           Locked(u)' /\ Locked(v)' /\ tx'[u].draft = tx'[v].draft => u = v
    BY <2>6, <2>7 DEF DraftInv, Locked
  <2> QED BY <2>11, <2>12, <2>13 DEF DraftInv
<1>8. ASSUME NEW w \in Workers, Deliver(w) PROVE DraftInv'
  <2> DEFINE d == tx[w].draft
  <2>1. /\ tx' = [tx EXCEPT ![w] = Idle] /\ UNCHANGED <<drafts, form, made>>
        /\ received' = [received EXCEPT ![d] = @ \cup {tx[w].code}]
    BY <1>8 DEF Deliver
  <2>2. d \in Drafts /\ drafts[d] # Absent /\ tx[w].code = drafts[d].code /\ drafts[d].code # NoCode
    BY <1>8, KnownRow, NoRowAssumption DEF Deliver, DraftInv, RequestConsistent
  <2>3. \A v \in Workers : tx'[v].pc # "idle" => tx'[v] = tx[v]
    BY <2>1 DEF TypeOK, Idle
  <2>4. \A e \in Drafts : RowConsistent(e)'
    BY <2>1, <2>2 DEF DraftInv, RowConsistent, TypeOK
  <2>5. \A v \in Workers : RequestConsistent(v)'
    BY <2>1, <2>3 DEF DraftInv, RequestConsistent
  <2>6. \A u, v \in Workers :
          Locked(u)' /\ Locked(v)' /\ tx'[u].draft = tx'[v].draft => u = v
    BY <2>3 DEF DraftInv, Locked
  <2> QED BY <2>4, <2>5, <2>6 DEF DraftInv
<1>9. ASSUME NEW w \in Workers, Receipt(w) PROVE DraftInv'
  <2>1. PICK f \in Forms, d \in Live :
          /\ Answerable(f, drafts[d])
          /\ tx' = [tx EXCEPT ![w] = [pc |-> "answer", form |-> f, draft |-> d, code |-> drafts[d].code]]
          /\ UNCHANGED <<drafts, form, made, received>>
    BY <1>9 DEF Receipt
  <2>2. d \in Drafts /\ drafts[d] # Absent /\ form[d] \in Forms
    BY DEF Live, TypeOK
  <2>3. drafts[d].code # NoCode /\ f = form[d]
    BY <2>1, <2>2 DEF Answerable, DraftInv, RowConsistent, Forms
  <2>4. \A v \in Workers : v # w => tx'[v] = tx[v]
    BY <2>1 DEF TypeOK
  <2>5. tx'[w] = [pc |-> "answer", form |-> f, draft |-> d, code |-> drafts[d].code]
    BY <2>1 DEF TypeOK
  <2>6. \A e \in Drafts : RowConsistent(e)'
    BY <2>1 DEF DraftInv, RowConsistent
  <2>7. \A v \in Workers : RequestConsistent(v)'
    BY <2>1, <2>3, <2>4, <2>5 DEF DraftInv, RequestConsistent
  <2>8. \A u, v \in Workers :
          Locked(u)' /\ Locked(v)' /\ tx'[u].draft = tx'[v].draft => u = v
    BY <2>4, <2>5 DEF DraftInv, Locked
  <2> QED BY <2>6, <2>7, <2>8 DEF DraftInv
<1> QED BY <1>1, <1>2, <1>3, <1>4, <1>5, <1>6, <1>7, <1>8, <1>9 DEF Next, vars

-----------------------------------------------------------------------------
Inv == TypeOK /\ Known /\ DraftInv

LEMMA Invariant == Spec => []Inv
<1>1. Init => Inv
  BY TypeInit, KnownInit, DraftInit DEF Inv
<1>2. Inv /\ [Next]_vars => Inv'
  BY TypeStep, KnownStep, DraftStep DEF Inv
<1> QED BY <1>1, <1>2, PTL DEF Spec

(* Every reachable state is well typed (public_submissions.py:365-530).        *)
THEOREM DraftTypeCorrect == Spec => []TypeOK
BY Invariant, PTL DEF Inv

(* For any number of drafts, requests and retries, a draft gives one process   *)
(* at most (public_submissions.py:436-447).                                    *)
THEOREM DraftMakesOneProcess == Spec => []OneProcessEach
<1>1. Inv => OneProcessEach
  BY DEF Inv, DraftInv, RowConsistent, OneProcessEach, TypeOK
<1> QED BY <1>1, Invariant, PTL

(* Every answer about a draft carries the protocol it keeps                    *)
(* (public_submissions.py:441-446, requirement_responses.py:113-114).          *)
THEOREM DraftKeepsProtocol == Spec => []SameProtocol
<1>1. Inv => SameProtocol
  BY DEF Inv, DraftInv, RowConsistent, SameProtocol
<1> QED BY <1>1, Invariant, PTL

(* The other form never finalizes a draft, nor answers for it                  *)
(* (public_submissions.py:442-448, requirement_responses.py:108-114).          *)
THEOREM DraftKeepsForm == Spec => []OwnForm
<1>1. Inv => OwnForm
  BY DEF Inv, DraftInv, RowConsistent, RequestConsistent, OwnForm, Live
<1> QED BY <1>1, Invariant, PTL

(* A finalized draft is never refused to its own form                          *)
(* (public_submissions.py:441-446, requirement_responses.py:110-114).          *)
THEOREM DraftRetryAnswered == Spec => RetryNeverRefused
<1> DEFINE Refused ==
      \A w \in Workers :
        Refuse(w) /\ tx[w].pc = "find" /\ tx[w].form = form[tx[w].draft] =>
            drafts[tx[w].draft].code = NoCode
<1>1. Inv => Refused
  <2> SUFFICES ASSUME Inv, NEW w \in Workers, tx[w].pc = "find",
                      tx[w].form = form[tx[w].draft], Refuse(w)
               PROVE  drafts[tx[w].draft].code = NoCode
    OBVIOUS
  <2> DEFINE d == tx[w].draft
  <2>1. d \in Drafts /\ drafts[d] # Absent /\ tx[w].form \in Forms
    BY KnownRow, RequestFields, NoRowAssumption DEF Inv
  <2>2. RowConsistent(d)
    BY <2>1 DEF Inv, DraftInv
  <2>3. ~Answerable(tx[w].form, drafts[d])
    BY DEF Refuse
  <2> QED BY <2>1, <2>2, <2>3 DEF RowConsistent, Answerable, Forms
<1>2. Inv /\ [Next]_vars => [Refused]_vars
  BY <1>1
<1> QED BY <1>2, Invariant, PTL DEF Spec, RetryNeverRefused
-----------------------------------------------------------------------------
(* The rate limit.  What a request counted is still true when it inserts: only *)
(* the holder of its client's lock can add a draft, and the window moves on.   *)
Counting(w) == tx[w].pc \in {"count", "insert"}

OpenedIn(client, from, to) == {d \in CreatedBy(client, from) : drafts[d].created <= to}

RateInv ==
    /\ IsFiniteSet(Live)
    /\ \A d \in Live : drafts[d].created <= now
    /\ \A v, w \in Workers :
         Counting(v) /\ Counting(w) /\ tx[v].client = tx[w].client => v = w
    /\ \A w \in Workers :
         tx[w].pc = "insert" => Cardinality(CreatedBy(tx[w].client, now - Window)) < Limit
    /\ \A client \in Clients, t \in Times :
         Cardinality(OpenedIn(client, t - Window, t)) <= Limit

LEMMA RateInit == Init => RateInv
<1> SUFFICES ASSUME Init PROVE RateInv
  OBVIOUS
<1>1. Live = {}
  BY DEF Init, Live
<1>2. \A client, since, t : OpenedIn(client, since, t) = {}
  BY <1>1 DEF OpenedIn, CreatedBy
<1>3. \A w \in Workers : tx[w].pc = "idle"
  BY DEF Init, Idle
<1>4. \A client \in Clients, t \in Times : Cardinality(OpenedIn(client, t - Window, t)) <= Limit
  BY <1>2, FS_EmptySet, LimitsAssumption
<1>5. IsFiniteSet(Live) /\ \A d \in Live : drafts[d].created <= now
  BY <1>1, FS_EmptySet
<1> QED BY <1>3, <1>4, <1>5 DEF RateInv, Counting

(* A step after which every draft keeps its client and its date. *)
LEMMA SameDrafts ==
    ASSUME \A d \in Drafts : (drafts'[d] = Absent) <=> (drafts[d] = Absent),
           \A d \in Live : drafts'[d].client = drafts[d].client /\ drafts'[d].created = drafts[d].created
    PROVE  /\ Live' = Live
           /\ \A client, since : {d \in Live' : drafts'[d].client = client /\ drafts'[d].created >= since}
                                   = CreatedBy(client, since)
           /\ \A client, since, t :
                {d \in {e \in Live' : drafts'[e].client = client /\ drafts'[e].created >= since} :
                    drafts'[d].created <= t} = OpenedIn(client, since, t)
<1>1. Live' = Live
  BY DEF Live
<1> QED BY <1>1 DEF CreatedBy, OpenedIn

LEMMA CreatedFinite ==
    ASSUME RateInv, NEW client, NEW since
    PROVE  IsFiniteSet(CreatedBy(client, since))
BY FS_Subset DEF RateInv, CreatedBy

(* A step that moves one request, to a place with nothing counted. *)
LEMMA Uncounted ==
    ASSUME TypeOK, RateInv, NEW w \in Workers, NEW t,
           t.pc \notin {"count", "insert"},
           tx' = [tx EXCEPT ![w] = t], now' = now,
           \A d \in Drafts : (drafts'[d] = Absent) <=> (drafts[d] = Absent),
           \A d \in Live : drafts'[d].client = drafts[d].client /\ drafts'[d].created = drafts[d].created
    PROVE  RateInv'
<1>1. \A v \in Workers : Counting(v)' => tx'[v] = tx[v] /\ Counting(v)
  BY DEF Counting, TypeOK
<1>2. IsFiniteSet(Live)' /\ \A d \in Live' : drafts'[d].created <= now'
  BY SameDrafts DEF RateInv
<1>3. ASSUME NEW v \in Workers, tx'[v].pc = "insert"
      PROVE  Cardinality(CreatedBy(tx[v].client, now - Window))' < Limit
  BY <1>1, <1>3, SameDrafts DEF RateInv, CreatedBy, Counting
<1>4. ASSUME NEW client \in Clients, NEW u \in Times
      PROVE  Cardinality(OpenedIn(client, u - Window, u)') <= Limit
  BY SameDrafts DEF RateInv, CreatedBy, OpenedIn
<1>5. \A u, v \in Workers :
        Counting(u)' /\ Counting(v)' /\ tx'[u].client = tx'[v].client => u = v
  BY <1>1 DEF RateInv
<1> QED BY <1>2, <1>3, <1>4, <1>5 DEF RateInv

LEMMA RateStep == TypeOK /\ Known /\ RateInv /\ [Next]_vars => RateInv'
<1> SUFFICES ASSUME TypeOK, Known, RateInv, [Next]_vars PROVE RateInv'
  OBVIOUS
<1> USE DEF Answer, Advance, history
<1>1. CASE UNCHANGED <<now, drafts, tx>>
  BY <1>1 DEF RateInv, Counting, Live, CreatedBy, OpenedIn
<1>2. CASE Remove \/ \E d \in Drafts : Upload(d)
  BY <1>1, <1>2 DEF Remove, Upload
<1>3. CASE Tick
  <2>1. now \in Nat /\ now' = now + 1 /\ UNCHANGED <<drafts, tx>>
    BY <1>3, LimitsAssumption DEF Tick, TypeOK, Times
  <2>2. ASSUME NEW w \in Workers, tx[w].pc = "insert"
        PROVE  Cardinality(CreatedBy(tx[w].client, now - Window))' < Limit
    <3> DEFINE before == CreatedBy(tx[w].client, now - Window)
               after == CreatedBy(tx[w].client, (now + 1) - Window)
    <3>1. after \subseteq before
      <4> SUFFICES ASSUME NEW d \in Live, drafts[d].created >= (now + 1) - Window
                   PROVE  drafts[d].created >= now - Window
        BY DEF CreatedBy
      <4>1. drafts[d].created \in Nat
        BY LimitsAssumption DEF TypeOK, Live, Rows, Times
      <4> QED BY <2>1, <4>1, LimitsAssumption
    <3>2. IsFiniteSet(before) /\ Cardinality(before) < Limit
      BY <2>2, CreatedFinite DEF RateInv
    <3>3. IsFiniteSet(after) /\ Cardinality(after) <= Cardinality(before)
      BY <3>1, <3>2, FS_Subset
    <3>4. Cardinality(before) \in Nat /\ Cardinality(after) \in Nat
      BY <3>2, <3>3, FS_CardinalityType
    <3>5. CreatedBy(tx[w].client, now - Window)' = after
      <4>1. now' - Window = (now + 1) - Window
        BY <2>1, Zenon
      <4>2. tx'[w].client = tx[w].client /\ Live' = Live
        BY <2>1, Zenon DEF Live
      <4> QED BY <2>1, <4>1, <4>2, Zenon DEF CreatedBy
    <3> HIDE DEF before, after
    <3>6. Cardinality(after) < Limit
      BY <3>2, <3>3, <3>4, LimitsAssumption
    <3> QED BY <3>5, <3>6
  <2>3. ASSUME NEW d \in Live PROVE drafts[d].created <= now + 1
    <3>1. drafts[d].created \in Nat
      BY LimitsAssumption DEF TypeOK, Live, Rows, Times
    <3> QED BY <2>1, <3>1 DEF RateInv
  <2>4. IsFiniteSet(Live)' /\ \A d \in Live' : drafts'[d].created <= now'
    BY <2>1, <2>3 DEF RateInv, Live
  <2>5. ASSUME NEW client \in Clients, NEW t \in Times
        PROVE  Cardinality(OpenedIn(client, t - Window, t))' <= Limit
    BY <2>1 DEF RateInv, OpenedIn, CreatedBy, Live
  <2>6. \A u, v \in Workers :
          Counting(u)' /\ Counting(v)' /\ tx'[u].client = tx'[v].client => u = v
    BY <2>1 DEF RateInv, Counting
  <2> QED BY <2>1, <2>2, <2>4, <2>5, <2>6 DEF RateInv
<1>4. ASSUME NEW w \in Workers,
             \/ Initiate(w) \/ Finalize(w) \/ Repeat(w) \/ Take(w) \/ Validate(w) \/ Deliver(w)
             \/ Receipt(w) \/ Refuse(w) \/ Abort(w)
      PROVE  RateInv'
  <2>1. UNCHANGED <<now, drafts>>
    BY <1>4 DEF Initiate, Finalize, Repeat, Take, Validate, Deliver, Receipt, Refuse, Abort
  <2>2. PICK t : t.pc \notin {"count", "insert"} /\ tx' = [tx EXCEPT ![w] = t]
    <3>1. CASE Take(w) \/ Validate(w)
      <4>1. tx[w] \in Requests
        BY <3>1 DEF Take, Validate, Found, Idle, TypeOK
      <4>2. /\ [tx[w] EXCEPT !.pc = "validate"].pc = "validate"
            /\ [tx[w] EXCEPT !.pc = "commit"].pc = "commit"
        BY <4>1 DEF Requests
      <4> QED BY <3>1, <4>2 DEF Take, Validate
    <3>2. CASE \/ Initiate(w) \/ Finalize(w) \/ Repeat(w) \/ Deliver(w) \/ Receipt(w) \/ Refuse(w)
               \/ Abort(w)
      BY <3>2 DEF Initiate, Finalize, Repeat, Deliver, Receipt, Refuse, Abort, Idle
    <3> QED BY <1>4, <3>1, <3>2
  <2> QED BY <2>1, <2>2, Uncounted
<1>5. ASSUME NEW w \in Workers, Commit(w) PROVE RateInv'
  <2> DEFINE d == tx[w].draft
             f == tx[w].form
             code == NextCode(f)
             t == [pc |-> "answer", form |-> f, draft |-> d, code |-> code]
  <2>1. d \in Drafts /\ drafts[d] \in Rows /\ Finalized(f, drafts[d], code) \in Rows
    BY <1>5, FinalizedRow DEF Commit
  <2>2. /\ drafts' = [drafts EXCEPT ![d] = Finalized(f, drafts[d], code)]
        /\ tx' = [tx EXCEPT ![w] = t] /\ now' = now
    BY <1>5 DEF Commit
  <2>3. /\ Finalized(f, drafts[d], code).client = drafts[d].client
        /\ Finalized(f, drafts[d], code).created = drafts[d].created
    BY <2>1 DEF Finalized, Rows
  <2>4. \A e \in Drafts : (drafts'[e] = Absent) <=> (drafts[e] = Absent)
    BY <2>1, <2>2, NoRowAssumption DEF TypeOK
  <2>5. \A e \in Live : drafts'[e].client = drafts[e].client /\ drafts'[e].created = drafts[e].created
    BY <2>1, <2>2, <2>3 DEF TypeOK, Live
  <2>6. t.pc \notin {"count", "insert"}
    OBVIOUS
  <2> HIDE DEF t
  <2> QED BY <2>2, <2>4, <2>5, <2>6, Uncounted
<1>6. ASSUME NEW w \in Workers, Lock(w) \/ Within(w) PROVE RateInv'
  <2>1. PICK pc \in {"count", "insert"} :
          /\ tx' = [tx EXCEPT ![w] = [tx[w] EXCEPT !.pc = pc]]
          /\ UNCHANGED <<now, drafts>>
          /\ pc = "insert" => Cardinality(CreatedBy(tx[w].client, now - Window)) < Limit
    BY <1>6 DEF Lock, Within
  <2>2. tx[w] \in Requests /\ tx[w].pc \in {"lock", "count"}
    BY <1>6 DEF Lock, Within, Idle, TypeOK
  <2>3. tx'[w].pc = pc /\ tx'[w].client = tx[w].client
    BY <2>1, <2>2 DEF Requests, TypeOK
  <2>4. \A v \in Workers : v # w => tx'[v] = tx[v]
    BY <2>1 DEF TypeOK
  <2>5. \A v \in Workers : v # w /\ Counting(v) => tx[v].client # tx[w].client
    BY <1>6 DEF Lock, Within, LimitFree, RateInv, Counting
  <2>6. \A u, v \in Workers :
          Counting(u)' /\ Counting(v)' /\ tx'[u].client = tx'[v].client => u = v
    BY <2>3, <2>4, <2>5 DEF RateInv, Counting
  <2>7. ASSUME NEW v \in Workers, tx'[v].pc = "insert"
        PROVE  Cardinality(CreatedBy(tx[v].client, now - Window))' < Limit
    <3>1. /\ CreatedBy(tx[v].client, now - Window)' = CreatedBy(tx[v].client, now - Window)
      BY <2>1, <2>3, <2>4 DEF CreatedBy, Live
    <3>2. CASE v = w
      BY <2>1, <2>3, <2>7, <3>1, <3>2
    <3>3. CASE v # w
      BY <2>4, <2>7, <3>1, <3>3 DEF RateInv
    <3> QED BY <3>2, <3>3
  <2>8. ASSUME NEW client \in Clients, NEW t \in Times
        PROVE  Cardinality(OpenedIn(client, t - Window, t))' <= Limit
    BY <2>1 DEF RateInv, OpenedIn, CreatedBy, Live
  <2>9. IsFiniteSet(Live)' /\ \A d \in Live' : drafts'[d].created <= now'
    BY <2>1 DEF RateInv, Live
  <2> QED BY <2>6, <2>7, <2>8, <2>9 DEF RateInv
<1>7. ASSUME NEW w \in Workers, Insert(w) PROVE RateInv'
  <2> DEFINE c == tx[w].client
  <2>1. PICK d \in Drafts :
          /\ drafts[d] = Absent
          /\ drafts' = [drafts EXCEPT ![d] =
               [client |-> c, created |-> now, payload |-> tx[w].form, code |-> NoCode]]
    BY <1>7 DEF Insert
  <2>2. tx[w].pc = "insert" /\ tx' = [tx EXCEPT ![w] = Idle] /\ now' = now /\ now \in Nat /\ c \in Clients
    BY <1>7, RequestFields, LimitsAssumption DEF Insert, TypeOK, Times
  <2>3. drafts'[d].client = c /\ drafts'[d].created = now /\ drafts'[d] # Absent
    <3>1. [client |-> c, created |-> now, payload |-> tx[w].form, code |-> NoCode] \in Rows
      BY <2>2, RequestFields DEF Rows, TypeOK
    <3> QED BY <2>1, <3>1, NoRowAssumption DEF TypeOK
  <2>4. \A e \in Drafts \ {d} : drafts'[e] = drafts[e]
    BY <2>1 DEF TypeOK
  <2>5. d \notin Live /\ Live' = Live \cup {d}
    BY <2>1, <2>3, <2>4 DEF Live
  <2>6. IsFiniteSet(Live)'
    BY <2>5, FS_AddElement DEF RateInv
  <2>7. \A e \in Live' : drafts'[e].created <= now'
    BY <2>2, <2>3, <2>4, <2>5 DEF RateInv, Live
  <2>8. \A v \in Workers : tx'[v].pc # "idle" => v # w /\ tx'[v] = tx[v]
    BY <2>2 DEF TypeOK, Idle
  <2>9. \A u, v \in Workers :
          Counting(u)' /\ Counting(v)' /\ tx'[u].client = tx'[v].client => u = v
    BY <2>8 DEF RateInv, Counting
  <2>10. ASSUME NEW v \in Workers, tx'[v].pc = "insert"
         PROVE  Cardinality(CreatedBy(tx[v].client, now - Window))' < Limit
    <3>1. v # w /\ tx'[v] = tx[v] /\ tx[v].client # c
      BY <2>2, <2>8, <2>10 DEF RateInv, Counting
    <3>2. CreatedBy(tx[v].client, now - Window)' = CreatedBy(tx[v].client, now - Window)
      BY <2>2, <2>3, <2>4, <2>5, <3>1 DEF CreatedBy, Live
    <3> QED BY <2>10, <3>1, <3>2 DEF RateInv
  <2>11. ASSUME NEW client \in Clients, NEW t \in Times
         PROVE  Cardinality(OpenedIn(client, t - Window, t))' <= Limit
    <3> DEFINE old == OpenedIn(client, t - Window, t)
               new == {e \in {g \in Live' : drafts'[g].client = client /\ drafts'[g].created >= t - Window} :
                         drafts'[e].created <= t}
    <3>1. OpenedIn(client, t - Window, t)' = new
      BY DEF OpenedIn, CreatedBy
    <3>2. new \subseteq old \cup {d}
      BY <2>4, <2>5 DEF OpenedIn, CreatedBy, Live
    <3>3. old \subseteq new
      BY <2>4, <2>5 DEF OpenedIn, CreatedBy, Live
    <3>4. IsFiniteSet(old) /\ Cardinality(old) \in Nat /\ Cardinality(old) <= Limit
      <4>1. old \subseteq CreatedBy(client, t - Window)
        BY DEF OpenedIn
      <4> QED BY <4>1, CreatedFinite, FS_Subset, FS_CardinalityType DEF RateInv
    <3>5. CASE d \notin new
      <4>1. new = old
        BY <3>2, <3>3, <3>5
      <4> QED BY <3>1, <3>4, <4>1
    <3>6. CASE d \in new
      <4>1. client = c /\ now <= t /\ t \in Nat
        BY <2>3, <3>6, LimitsAssumption DEF Times
      <4>2. old \subseteq CreatedBy(c, now - Window)
        <5> SUFFICES ASSUME NEW e \in Live, drafts[e].created >= t - Window
                     PROVE  drafts[e].created >= now - Window
          BY <4>1 DEF OpenedIn, CreatedBy
        <5>1. drafts[e].created \in Nat
          BY LimitsAssumption DEF TypeOK, Live, Rows, Times
        <5> QED BY <2>2, <4>1, <5>1, LimitsAssumption
      <4>3. /\ IsFiniteSet(CreatedBy(c, now - Window))
            /\ Cardinality(CreatedBy(c, now - Window)) \in Nat
            /\ Cardinality(CreatedBy(c, now - Window)) < Limit
        BY <2>2, CreatedFinite, FS_CardinalityType DEF RateInv
      <4>4. Cardinality(old) <= Cardinality(CreatedBy(c, now - Window))
        BY <4>2, <4>3, FS_Subset
      <4>5. d \notin old
        BY <2>5 DEF OpenedIn, CreatedBy
      <4>6. new = old \cup {d}
        BY <3>2, <3>3, <3>6
      <4>7. Cardinality(new) = Cardinality(old) + 1
        BY <3>4, <4>5, <4>6, FS_AddElement
      <4>8. Cardinality(new) <= Limit
        <5> DEFINE held == CreatedBy(c, now - Window)
        <5> HIDE DEF old, new, held
        <5> QED BY <3>4, <4>3, <4>4, <4>7, LimitsAssumption DEF held
      <4> QED BY <3>1, <4>8
    <3> QED BY <3>5, <3>6
  <2> QED BY <2>6, <2>7, <2>8, <2>9, <2>10, <2>11 DEF RateInv
<1> QED BY <1>1, <1>2, <1>3, <1>4, <1>5, <1>6, <1>7 DEF Next, vars

(* For any number of concurrent requests of any clients, no window holds more  *)
(* drafts of a client than the limit (public_submissions.py:129-140).          *)
THEOREM DraftsRateLimited == Spec => []RateLimited
<1>1. RateInv => RateLimited
  BY DEF RateInv, RateLimited, OpenedIn
<1>2. Inv /\ RateInv /\ [Next]_vars => RateInv'
  BY RateStep DEF Inv
<1> QED BY <1>1, <1>2, RateInit, Invariant, PTL DEF Spec

-----------------------------------------------------------------------------
(* The refinement of DraftLife.  A row lock belongs to the one request that is *)
(* past its SELECT ... FOR UPDATE.                                             *)

LEMMA LockOf ==
    ASSUME DraftInv, NEW w \in Workers, Locked(w), tx[w].draft \in Drafts
    PROVE  LifeLock[tx[w].draft] = tx[w].pc
BY DEF DraftInv, Locked, LifeLock, At

LEMMA LockFree ==
    ASSUME NEW d \in Drafts, DraftFree(d)
    PROVE  LifeLock[d] = "free"
BY DEF DraftFree, LifeLock, At

(* No request takes, gives up or advances a lock. *)
LEMMA SameLocks ==
    ASSUME \A w \in Workers : Locked(w)' \/ Locked(w) => tx'[w] = tx[w]
    PROVE  LifeLock' = LifeLock
<1>1. \A pc \in {"validate", "commit"}, d \in Drafts : At(pc, d)' <=> At(pc, d)
  BY DEF At, Locked
<1> QED BY <1>1 DEF LifeLock

(* One request moves, and the only lock it had or gets is that of d. *)
LEMMA LockMoves ==
    ASSUME TypeOK, DraftInv, NEW w \in Workers, NEW t, NEW d \in Drafts,
           tx' = [tx EXCEPT ![w] = t],
           Locked(w) \/ DraftFree(d),
           Locked(w) => tx[w].draft = d,
           t.pc \in {"validate", "commit"} => t.draft = d
    PROVE  LifeLock' = [LifeLock EXCEPT ![d] = IF t.pc \in {"validate", "commit"} THEN t.pc ELSE "free"]
<1>1. tx'[w] = t /\ \A v \in Workers : v # w => tx'[v] = tx[v]
  BY DEF TypeOK
<1>2. \A v \in Workers : v # w /\ Locked(v) => tx[v].draft # d
  BY DEF DraftInv, DraftFree, Locked
<1>3. \A pc \in {"validate", "commit"}, e \in Drafts \ {d} : At(pc, e)' <=> At(pc, e)
  BY <1>1 DEF At, Locked
<1>4. \A pc \in {"validate", "commit"} : At(pc, d)' <=> t.pc = pc
  BY <1>1, <1>2 DEF At, Locked
<1>5. \A e \in Drafts \ {d} : LifeLock'[e] = LifeLock[e]
  BY <1>3 DEF LifeLock
<1>6. LifeLock'[d] = IF t.pc \in {"validate", "commit"} THEN t.pc ELSE "free"
  BY <1>4 DEF LifeLock
<1>7. LifeLock' = [e \in Drafts |-> LifeLock'[e]] /\ LifeLock = [e \in Drafts |-> LifeLock[e]]
  BY DEF LifeLock
<1> QED BY <1>5, <1>6, <1>7

LEMMA LifeRowOf ==
    ASSUME TypeOK, NEW d \in Drafts, drafts[d] # Absent
    PROVE  /\ LifeRow(d) \in LifeRows /\ LifeRow(d) # Absent
           /\ LifeRow(d) = [created |-> drafts[d].created, payload |-> drafts[d].payload,
                            code |-> drafts[d].code]
           /\ d \in Life!Live
<1>1. drafts[d] \in Rows
  BY DEF TypeOK
<1>2. LifeRow(d) \in LifeRows
  BY <1>1 DEF LifeRow, LifeRows, Rows
<1> QED BY <1>1, <1>2, NoLifeRowAssumption DEF LifeRow, Life!Live, LifeDrafts

LEMMA LifeInitial == Init => Life!LifeInit
<1> SUFFICES ASSUME Init PROVE Life!LifeInit
  OBVIOUS
<1>1. LifeDrafts = [d \in Drafts |-> Absent] /\ LifeFiles = [d \in Drafts |-> FALSE]
  BY DEF Init, LifeDrafts, LifeRow, LifeFiles
<1>2. \A d \in Drafts : ~At("commit", d) /\ ~At("validate", d)
  BY DEF Init, At, Idle
<1>3. LifeLock = [d \in Drafts |-> "free"]
  BY <1>2 DEF LifeLock
<1> QED BY <1>1, <1>3 DEF Init, Life!LifeInit, Life!Forms, Forms

LEMMA LifeStep == Inv /\ Inv' /\ [Next]_vars => [Life!LifeNext]_(Life!lifeVars)
<1> SUFFICES ASSUME Inv, Inv', [Next]_vars PROVE [Life!LifeNext]_(Life!lifeVars)
  OBVIOUS
<1> USE DEF Inv, Answer, Advance, history
<1>1. CASE UNCHANGED vars
  BY <1>1 DEF vars, Life!lifeVars, LifeDrafts, LifeRow, LifeFiles, LifeLock, At
<1>2. CASE Tick
  <2>1. UNCHANGED <<LifeDrafts, LifeFiles, LifeLock>>
    BY <1>2 DEF Tick, LifeDrafts, LifeRow, LifeFiles, LifeLock, At
  <2> QED BY <1>2, <2>1 DEF Tick, Life!LifeNext, Life!Pass
<1>3. CASE Remove
  <2>1. UNCHANGED <<LifeDrafts, LifeFiles, LifeLock>>
    BY <1>3 DEF Remove, LifeDrafts, LifeRow, LifeFiles, LifeLock, At
  <2> QED BY <1>3, <2>1 DEF Remove, Life!LifeNext, Life!RemoveProcess
<1>4. ASSUME NEW d \in Drafts, Upload(d) PROVE Life!LifeNext
  <2>1. UNCHANGED <<LifeDrafts, LifeLock>>
    BY <1>4 DEF Upload, LifeDrafts, LifeRow, LifeLock, At
  <2>2. ~LifeFiles[d] /\ LifeFiles' = [LifeFiles EXCEPT ![d] = TRUE]
    BY <1>4 DEF Upload, LifeFiles, TypeOK
  <2>3. d \in Life!Live
    BY <1>4, LifeRowOf DEF Upload, Live
  <2>4. Life!UploadFiles(d)
    BY <1>4, <2>1, <2>2, <2>3 DEF Upload, Life!UploadFiles
  <2> QED BY <2>4 DEF Life!LifeNext
<1>5. ASSUME NEW w \in Workers,
             \/ Initiate(w) \/ Lock(w) \/ Within(w) \/ Finalize(w) \/ Repeat(w) \/ Deliver(w) \/ Receipt(w)
      PROVE  UNCHANGED Life!lifeVars
  <2>1. UNCHANGED <<now, drafts, files, processes, last>>
    BY <1>5 DEF Initiate, Lock, Within, Finalize, Repeat, Deliver, Receipt
  <2>2. ~Locked(w)
    BY <1>5 DEF Initiate, Lock, Within, Finalize, Repeat, Deliver, Receipt, Found, Locked, Idle
  <2>3. ~Locked(w)'
    <3>1. CASE Lock(w) \/ Within(w)
      <4>1. tx[w] \in Requests
        BY <3>1 DEF Lock, Within, Idle, TypeOK
      <4>2. [tx[w] EXCEPT !.pc = "count"].pc = "count" /\ [tx[w] EXCEPT !.pc = "insert"].pc = "insert"
        BY <4>1 DEF Requests
      <4> QED BY <3>1, <4>2 DEF Lock, Within, Locked, TypeOK
    <3>2. CASE Initiate(w) \/ Finalize(w) \/ Repeat(w) \/ Deliver(w) \/ Receipt(w)
      BY <3>2 DEF Initiate, Finalize, Repeat, Deliver, Receipt, Locked, Idle, TypeOK
    <3> QED BY <1>5, <3>1, <3>2
  <2>4. \A v \in Workers : v # w => tx'[v] = tx[v]
    BY <1>5 DEF Initiate, Lock, Within, Finalize, Repeat, Deliver, Receipt, TypeOK
  <2>5. LifeLock' = LifeLock
    BY <2>2, <2>3, <2>4, SameLocks
  <2> QED BY <2>1, <2>5 DEF Life!lifeVars, LifeDrafts, LifeRow, LifeFiles
<1>6. ASSUME NEW w \in Workers, Insert(w) PROVE Life!LifeNext
  <2> DEFINE t == tx[w]
  <2>1. PICK d \in Drafts :
          /\ drafts[d] = Absent
          /\ drafts' = [drafts EXCEPT ![d] =
               [client |-> t.client, created |-> now, payload |-> t.form, code |-> NoCode]]
    BY <1>6 DEF Insert
  <2>2. t.form \in Forms /\ t.client \in Clients
    BY <1>6, RequestFields DEF Insert
  <2>3. UNCHANGED <<now, files, processes, last>> /\ tx' = [tx EXCEPT ![w] = Idle] /\ t.pc = "insert"
    BY <1>6 DEF Insert
  <2>4. LifeLock' = LifeLock
    BY <2>3, SameLocks DEF Locked, Idle, TypeOK
  <2>5. drafts'[d] # Absent
    <3>1. [client |-> t.client, created |-> now, payload |-> t.form, code |-> NoCode] \in Rows
      BY <2>2 DEF Rows, TypeOK
    <3> QED BY <2>1, <3>1, NoRowAssumption DEF TypeOK
  <2>6. LifeDrafts[d] = Absent
        /\ LifeDrafts' = [LifeDrafts EXCEPT ![d] = [created |-> now, payload |-> t.form, code |-> NoCode]]
    BY <2>1, <2>5 DEF LifeDrafts, LifeRow, TypeOK
  <2>7. Life!OpenDraft(d)
    BY <2>2, <2>3, <2>4, <2>6 DEF Life!OpenDraft, Life!Forms, Forms, LifeFiles
  <2> QED BY <2>7 DEF Life!LifeNext
<1>7. ASSUME NEW w \in Workers, Take(w) PROVE Life!LifeNext
  <2> DEFINE d == tx[w].draft
             t == [tx[w] EXCEPT !.pc = "validate"]
  <2>1. d \in Drafts /\ drafts[d] # Absent /\ DraftFree(d) /\ tx[w] \in Requests /\ tx[w].pc = "find"
    BY <1>7, KnownRow, NoRowAssumption DEF Take, Found, TypeOK, Idle
  <2>2. t.pc = "validate" /\ t.draft = d
    BY <2>1 DEF Requests
  <2>3. tx' = [tx EXCEPT ![w] = t] /\ UNCHANGED <<now, drafts, files, processes, last>>
    BY <1>7 DEF Take
  <2>4. ~Locked(w)
    BY <2>1 DEF Locked
  <2> HIDE DEF t
  <2>5. LifeLock[d] = "free" /\ LifeLock' = [LifeLock EXCEPT ![d] = "validate"]
    BY <2>1, <2>2, <2>3, <2>4, LockMoves, LockFree
  <2>6. drafts[d].code = NoCode /\ now - drafts[d].created <= Lifetime
    BY <1>7 DEF Take, Open
  <2>7. LifeDrafts[d].code = NoCode /\ now - LifeDrafts[d].created <= Lifetime /\ d \in Life!Live
    BY <2>1, <2>6, LifeRowOf DEF LifeDrafts
  <2>8. UNCHANGED <<LifeDrafts, LifeFiles>>
    BY <2>3 DEF LifeDrafts, LifeRow, LifeFiles
  <2>9. Life!TakeDraft(d)
    BY <2>3, <2>5, <2>7, <2>8 DEF Life!TakeDraft
  <2> QED BY <2>1, <2>9 DEF Life!LifeNext
<1>8. ASSUME NEW w \in Workers, Validate(w) PROVE Life!LifeNext
  <2> DEFINE d == tx[w].draft
             t == [tx[w] EXCEPT !.pc = "commit"]
  <2>1. d \in Drafts /\ tx[w] \in Requests /\ tx[w].pc = "validate" /\ Locked(w)
    BY <1>8, RequestFields DEF Validate, TypeOK, Idle, Locked
  <2>2. t.pc = "commit" /\ t.draft = d
    BY <2>1 DEF Requests
  <2>3. tx' = [tx EXCEPT ![w] = t] /\ UNCHANGED <<now, drafts, files, processes, last>> /\ files[d] = "valid"
    BY <1>8 DEF Validate
  <2> HIDE DEF t
  <2>4. LifeLock[d] = "validate"
    BY <2>1, LockOf
  <2>5. LifeLock' = [LifeLock EXCEPT ![d] = "commit"]
    <3>1. LifeLock' = [LifeLock EXCEPT ![d] = IF t.pc \in {"validate", "commit"} THEN t.pc ELSE "free"]
      BY <2>1, <2>2, <2>3, LockMoves, Zenon
    <3> QED BY <2>2, <3>1
  <2>6. UNCHANGED <<LifeDrafts, LifeFiles>> /\ LifeFiles[d]
    BY <2>1, <2>3 DEF LifeDrafts, LifeRow, LifeFiles
  <2>7. Life!ValidateFiles(d)
    BY <2>3, <2>4, <2>5, <2>6 DEF Life!ValidateFiles
  <2> QED BY <2>1, <2>7 DEF Life!LifeNext
<1>9. ASSUME NEW w \in Workers, Commit(w) PROVE Life!LifeNext
  <2> DEFINE d == tx[w].draft
             f == tx[w].form
             code == NextCode(f)
             t == [pc |-> "answer", form |-> f, draft |-> d, code |-> code]
  <2>1. d \in Drafts /\ f \in Forms /\ drafts[d] # Absent /\ drafts[d] \in Rows /\ Locked(w)
    BY <1>9, FinalizedRow, NoRowAssumption DEF Commit, Locked
  <2>2. drafts[d].payload = f /\ drafts[d].code = NoCode
    BY <1>9, <2>1 DEF Commit, DraftInv, RequestConsistent, RowConsistent
  <2>3. /\ last' = [last EXCEPT ![f] = @ + 1]
        /\ drafts' = [drafts EXCEPT ![d] = Finalized(f, drafts[d], code)]
        /\ processes' = processes \cup (IF f = "VEI" THEN {[draft |-> d, code |-> code]} ELSE {})
        /\ tx' = [tx EXCEPT ![w] = t] /\ UNCHANGED <<now, files>> /\ tx[w].pc = "commit"
    BY <1>9 DEF Commit
  <2>4. Finalized(f, drafts[d], code) \in Rows
    BY <1>9, FinalizedRow DEF Commit
  <2>5. LifeDrafts[d].payload = f
    BY <2>1, <2>2, LifeRowOf DEF LifeDrafts
  <2>6. Life!Protocol(f) = code
    BY DEF Life!Protocol, NextCode
  <2>7. LifeDrafts' = [LifeDrafts EXCEPT ![d] = [created |-> LifeDrafts[d].created, code |-> code,
                                                 payload |-> IF f = "VEI" THEN "emptied" ELSE f]]
    <3> DEFINE row == Finalized(f, drafts[d], code)
    <3>1. /\ row.code = code /\ row.created = drafts[d].created
          /\ row.payload = IF f = "VEI" THEN "emptied" ELSE f
      BY <2>1, <2>2 DEF Finalized, Rows
    <3>2. row # Absent
      BY <2>4, NoRowAssumption
    <3>3. drafts'[d] = row /\ \A e \in Drafts \ {d} : drafts'[e] = drafts[e]
      BY <2>1, <2>3 DEF TypeOK
    <3> HIDE DEF row, code, d, f
    <3>4. \A e \in Drafts \ {d} : LifeDrafts'[e] = LifeDrafts[e]
      BY <3>3 DEF LifeDrafts, LifeRow
    <3>5. LifeDrafts'[d] = [created |-> drafts[d].created, code |-> code,
                           payload |-> IF f = "VEI" THEN "emptied" ELSE f]
      BY <2>1, <3>1, <3>2, <3>3 DEF LifeDrafts, LifeRow
    <3>6. LifeDrafts[d] = [created |-> drafts[d].created, payload |-> drafts[d].payload, code |-> drafts[d].code]
      BY <2>1 DEF LifeDrafts, LifeRow
    <3>7. LifeDrafts' = [e \in Drafts |-> LifeDrafts'[e]] /\ LifeDrafts = [e \in Drafts |-> LifeDrafts[e]]
      BY DEF LifeDrafts
    <3> QED BY <2>1, <3>4, <3>5, <3>6, <3>7
  <2>8. LifeLock[d] = "commit"
    BY <2>1, <2>3, LockOf
  <2>9. LifeLock' = [LifeLock EXCEPT ![d] = "free"]
    <3>1. t.pc = "answer"
      OBVIOUS
    <3> HIDE DEF t
    <3> QED BY <2>1, <2>3, <3>1, LockMoves
  <2>10. LifeFiles' = LifeFiles
    BY <2>3 DEF LifeFiles
  <2> HIDE DEF d, f, code, t
  <2>11. Life!FinalizeDraft(d)
    BY <2>3, <2>5, <2>6, <2>7, <2>8, <2>9, <2>10 DEF Life!FinalizeDraft
  <2> QED BY <2>1, <2>11 DEF Life!LifeNext
<1>10. ASSUME NEW w \in Workers, Refuse(w) \/ Abort(w) PROVE [Life!LifeNext]_(Life!lifeVars)
  <2> DEFINE d == tx[w].draft
  <2>1. tx' = [tx EXCEPT ![w] = Idle] /\ UNCHANGED <<now, drafts, files, processes, last>>
    BY <1>10 DEF Refuse, Abort
  <2>2. UNCHANGED <<LifeDrafts, LifeFiles>>
    BY <2>1 DEF LifeDrafts, LifeRow, LifeFiles
  <2>3. CASE ~Locked(w)
    <3>1. LifeLock' = LifeLock
      BY <2>1, <2>3, SameLocks DEF Locked, Idle, TypeOK
    <3> QED BY <2>1, <2>2, <3>1 DEF Life!lifeVars
  <2>4. CASE Locked(w)
    <3>1. d \in Drafts
      BY <2>4, RequestFields DEF Locked
    <3>2. LifeLock[d] # "free"
      BY <2>4, <3>1, LockOf DEF Locked
    <3>3. LifeLock' = [LifeLock EXCEPT ![d] = "free"]
      <4>1. Idle.pc = "idle"
        BY DEF Idle
      <4> QED BY <2>1, <2>4, <3>1, <4>1, LockMoves
    <3>4. Life!Release(d)
      BY <2>1, <2>2, <3>2, <3>3 DEF Life!Release
    <3> QED BY <3>1, <3>4 DEF Life!LifeNext
  <2> QED BY <2>3, <2>4
<1> QED
  BY <1>1, <1>2, <1>3, <1>4, <1>5, <1>6, <1>7, <1>8, <1>9, <1>10 DEF Next

(* For any drafts, requests, limits and lifetimes, what the requests do to the *)
(* drafts is the life of DraftLife (public_submissions.py:365-501,             *)
(* requirement_responses.py:140-198).                                          *)
THEOREM DraftsLiveOnce == Spec => LivesOnce
<1>1. Spec => [][Inv /\ Inv' /\ [Next]_vars]_(Life!lifeVars)
  BY Invariant, PTL DEF Spec
<1> QED BY <1>1, LifeInitial, LifeStep, Invariant, PTL DEF Spec, LivesOnce, Life!LifeSpec
=============================================================================
