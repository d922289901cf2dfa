------------------------ MODULE ProcessTrackingProofs ------------------------
(* Proofs about the activity log and the timelines of ProcessTracking.  The    *)
(* log only adds to AssetReview, so what is proved of the statuses there holds *)
(* here too.                                                                   *)
EXTENDS ProcessTracking, AssetReviewProofs, WellFoundedInduction

allVars == <<vars, trackVars>>

LEMMA TrackingStep == [TrackNext]_allVars => [Next]_vars
<1> SUFFICES ASSUME [TrackNext]_allVars PROVE [Next]_vars
  OBVIOUS
<1>1. ASSUME NEW w \in Workers, Register(w) \/ Change(w) \/ Remove(w) \/ Unlogged(w)
      PROVE  Begin(w) \/ Serve(w) \/ Abort(w)
  BY <1>1 DEF Register, Change, Remove, Unlogged, Serve
<1>2. ASSUME NEW w \in Workers, LogRemoval(w) PROVE UNCHANGED vars
  BY <1>2 DEF LogRemoval
<1>3. ASSUME ReadRow \/ ReadLogs \/ ReadRemoval PROVE UNCHANGED vars
  BY <1>3 DEF ReadRow, ReadLogs, ReadRemoval
<1> QED BY <1>1, <1>2, <1>3 DEF TrackNext, Next, allVars

(* Logging and reading the log leave the behaviour of the requests alone:      *)
(* every behaviour here is one of AssetReview (media_assets.py:607-858).       *)
THEOREM TrackingIsReview == TrackSpec => Spec
<1>1. TrackInit => Init
  BY DEF TrackInit
<1> QED BY <1>1, TrackingStep, PTL DEF TrackSpec, Spec, allVars

LEMMA AlwaysRead == TrackSpec => [](TypeOK /\ StatusRead)
BY TrackingIsReview, AlwaysStatusRead, PTL

-----------------------------------------------------------------------------
(* What happens to a request in a step: it stays the request it was, or it is  *)
(* new and has just read its row.                                              *)
Same(v) ==
    /\ tx[v] # Idle /\ tx[v].pc # "write"
    /\ tx'[v].asset = tx[v].asset /\ tx'[v].kind = tx[v].kind /\ tx'[v].dirty = tx[v].dirty
    /\ tx'[v].seen = tx[v].seen /\ tx'[v].want = tx[v].want

Fresh(v) ==
    /\ tx[v] = Idle
    /\ tx'[v].asset \in Live /\ tx'[v].seen = store[tx'[v].asset]
    /\ tx'[v].dirty \/ tx'[v].want = tx'[v].seen

LEMMA AdmittedIsFresh ==
    ASSUME TypeOK, NEW w \in Workers, NEW kind \in Kinds, NEW x \in Live, NEW want \in Rows,
           NEW review \in BOOLEAN, NEW dirty \in BOOLEAN, NEW sent \in Lists,
           Admit(w, NewRequest(kind, x, want, review, dirty, sent)),
           dirty \/ want = store[x]
    PROVE  /\ Fresh(w)
           /\ \A v \in Workers : v # w => tx'[v] = tx[v]
BY AdmitReads DEF Fresh

LEMMA BegunIsFresh ==
    ASSUME TypeOK, NEW w \in Workers, Begin(w)
    PROVE  /\ Fresh(w)
           /\ \A v \in Workers : v # w => tx'[v] = tx[v]
<1>1. CASE BeginUpdate(w)
  <2>1. PICK x \in Live, want \in Rows :
          \E review \in ReviewChoices(store[x], want), dirty \in BOOLEAN, sent \in {{}, shown[x]} :
            /\ want # store[x] => dirty
            /\ Admit(w, NewRequest("update", x, want, review, dirty, sent))
    BY <1>1 DEF BeginUpdate
  <2>2. PICK review \in ReviewChoices(store[x], want), dirty \in BOOLEAN, sent \in {{}, shown[x]} :
            /\ want # store[x] => dirty
            /\ Admit(w, NewRequest("update", x, want, review, dirty, sent))
    BY <2>1
  <2>3. review \in BOOLEAN /\ sent \in Lists
    BY DEF ReviewChoices, TypeOK, Lists, Live
  <2> QED BY <2>2, <2>3, AdmittedIsFresh DEF Kinds
<1>2. CASE BeginStart(w)
  <2>1. PICK x \in Live :
          Admit(w, NewRequest("start", x, [store[x] EXCEPT !.status = "analysis"], FALSE, TRUE, {}))
    BY <1>2 DEF BeginStart
  <2> DEFINE want == [store[x] EXCEPT !.status = "analysis"]
  <2>2. want \in Rows /\ {} \in Lists
    BY ExaminationAssumption DEF Live, Rows, Statuses, Lists
  <2> QED BY <2>1, <2>2, AdmittedIsFresh DEF Kinds
<1>3. CASE BeginForm(w)
  <2>1. PICK x \in Live, type \in Types, place \in Places :
          Admit(w, NewRequest("form", x, [store[x] EXCEPT !.type = type, !.place = place],
                              FALSE, TRUE, {}))
    BY <1>3 DEF BeginForm
  <2> DEFINE want == [store[x] EXCEPT !.type = type, !.place = place]
  <2>2. want \in Rows /\ {} \in Lists
    BY DEF Live, Rows, Lists
  <2> QED BY <2>1, <2>2, AdmittedIsFresh DEF Kinds
<1>4. CASE BeginDelete(w)
  <2>1. PICK x \in Live : Admit(w, NewRequest("delete", x, store[x], FALSE, TRUE, {}))
    BY <1>4 DEF BeginDelete
  <2>2. store[x] \in Rows /\ {} \in Lists
    BY DEF Live, Lists
  <2> QED BY <2>1, <2>2, AdmittedIsFresh DEF Kinds
<1> QED BY <1>1, <1>2, <1>3, <1>4 DEF Begin

(* The steps that log nothing leave every process where it is: as a row with   *)
(* its status, removed, or not registered.                                     *)
StatusKept(before, after) ==
    /\ before \in Rows <=> after \in Rows
    /\ before \in Rows => after.status = before.status
    /\ before = Deleted <=> after = Deleted

LEMMA UnloggedStep ==
    ASSUME TypeOK, NEW w \in Workers, Unlogged(w)
    PROVE  /\ \A v \in Workers : v # w => tx'[v] = tx[v]
           /\ tx'[w] = Idle \/ tx'[w] = tx[w] \/ Same(w) \/ Fresh(w)
           /\ \A x \in Assets : StatusKept(store[x], store'[x])
<1>1. CASE Begin(w)
  <2>1. store' = store
    BY <1>1 DEF Begin, BeginUpdate, BeginStart, BeginForm, BeginDelete, Admit
  <2> QED BY <1>1, <2>1, BegunIsFresh DEF StatusKept
<1>2. CASE Reassess(w)
  <2>1. PICK y \in Live, radius \in Radii :
          store' = [store EXCEPT ![y] = [store[y] EXCEPT !.radius = radius]]
    BY <1>2 DEF Reassess
  <2>2. tx' = tx
    BY <1>2 DEF Reassess
  <2>3. ASSUME NEW x \in Assets PROVE StatusKept(store[x], store'[x])
    <3>1. CASE x = y
      <4>1. store[x] \in Rows /\ store'[x] = [store[x] EXCEPT !.radius = radius]
        BY <2>1, <3>1 DEF Live, TypeOK
      <4>2. store'[x] \in Rows /\ store'[x].status = store[x].status
        BY <4>1 DEF Rows
      <4> QED BY <4>1, <4>2, NoRowAssumption DEF StatusKept
    <3>2. CASE x # y
      BY <2>1, <3>2 DEF Live, TypeOK, StatusKept
    <3> QED BY <3>1, <3>2
  <2> QED BY <2>2, <2>3
<1>3. CASE Lock(w) \/ Flush(w) \/ Measure(w) \/ Accept(w)
  <2>1. store' = store /\ \A v \in Workers : v # w => tx'[v] = tx[v]
    BY <1>3 DEF Lock, Flush, Measure, Accept, Advance, TypeOK
  <2>2. Same(w)
    BY <1>3, ReviewKeepsRequest DEF Same, Lock, Flush, Measure, Accept
  <2> QED BY <2>1, <2>2 DEF StatusKept
<1>4. CASE Reject(w) \/ NothingToCommit(w) \/ Gone(w) \/ Abort(w)
  <2>1. store' = store /\ tx' = [tx EXCEPT ![w] = Idle]
    BY <1>4 DEF Reject, NothingToCommit, Gone, Abort, End
  <2> QED BY <2>1 DEF StatusKept, TypeOK
<1> QED BY <1>1, <1>2, <1>3, <1>4 DEF Unlogged

-----------------------------------------------------------------------------
(* The invariant. *)

TrackType ==
    /\ clock \in Nat
    /\ log \subseteq Entry
    /\ stamped \in [Workers -> Nat]
    /\ since \in [Assets -> Nat]
    /\ overtaken \subseteq Workers
    /\ \A e \in log : e.at # 0 /\ (e.type = "remocao" => e.before \in Statuses)

(* Stamps are given once, to an entry or to a removal that is not committed.   *)
Stamps ==
    /\ \A e \in log : e.at <= clock
    /\ \A e, f \in log : e.at = f.at => e = f
    /\ \A w \in Workers : stamped[w] <= clock
    /\ \A w \in Workers, e \in log : stamped[w] # 0 => e.at # stamped[w]
    /\ \A v, w \in Workers : v # w /\ stamped[v] # 0 => stamped[w] # stamped[v]

Edits(x) == {e \in ByCode(x) : e.type = "edicao"}
Removals(x) == {e \in ByCode(x) : e.type = "remocao"}
Starts(x) == {e \in Edits(x) : e.before = "new" /\ e.after = "analysis"}

(* What the log knows of a process: that it exists, whether it was removed, at *)
(* most one registration, the status it has and since when, a start of its     *)
(* analysis once it is not new, and one before each approval.                  *)
Registered(x) ==
    /\ ByCode(x) # {} => store[x] \in Rows \cup {Deleted}
    /\ \A e, f \in Registration(x) : e = f
    /\ \A e \in Registration(x) : e.after = "new"
    /\ Removals(x) # {} <=> store[x] = Deleted

StatusTold(x) ==
    store[x] \in Rows =>
        \A e \in Latest(Told(x)) \cup Latest(Edits(x)) : e.after = store[x].status

SinceTold(x) ==
    store[x] \in Rows =>
        /\ since[x] = 0 \/ \E e \in Told(x) : e.at = since[x]
        /\ store[x].status = "new" => since[x] = CreatedAt(x)

AnalysisTold(x) ==
    Registration(x) # {} =>
        /\ store[x] \in Rows /\ store[x].status # "new" => Starts(x) # {}
        /\ \A e \in Edits(x) : e.after = "approved" => \E f \in Starts(x) : f.at < e.at

(* An entry of a removal that nobody overtook ends the history of its process. *)
RemovalLast(x) ==
    \A e \in Removals(x) : ~e.overtaken =>
        /\ \A f \in Edits(x) : f.at < e.at
        /\ \A f \in Latest(Edits(x)) : f.after = e.before

LogKnows(x) ==
    Registered(x) /\ StatusTold(x) /\ SinceTold(x) /\ AnalysisTold(x) /\ RemovalLast(x)

(* What a request in flight knows. *)
Claims(w) ==
    LET x == tx[w].asset IN
    /\ tx[w] # Idle =>
         /\ tx[w].dirty \/ tx[w].want = tx[w].seen
         /\ Registration(x) # {} /\ tx[w].seen.status # "new" => Starts(x) # {}
         /\ tx[w].kind = "delete" /\ w \notin overtaken =>
               \A e \in Latest(Edits(x)) : e.after = tx[w].seen.status
    /\ stamped[w] # 0 =>
         /\ tx[w].pc = "write" /\ tx[w].kind = "delete"
         /\ w \notin overtaken => \A e \in Edits(x) : e.at < stamped[w]

TrackInv ==
    /\ TypeOK /\ StatusRead
    /\ TrackType /\ Stamps
    /\ \A x \in Assets : LogKnows(x)
    /\ \A w \in Workers : Claims(w)

LEMMA TrackInitInv == TrackInit => TrackInv
<1> SUFFICES ASSUME TrackInit PROVE TrackInv
  OBVIOUS
<1>1. TypeOK /\ StatusRead
  BY TypeInit, StatusInit DEF TrackInit
<1>2. TrackType /\ Stamps
  BY DEF TrackInit, TrackType, Stamps
<1>3. ASSUME NEW x \in Assets PROVE LogKnows(x)
  <2>1. ByCode(x) = {} /\ since[x] = 0
    BY DEF TrackInit, ByCode
  <2>2. Told(x) = {} /\ Edits(x) = {} /\ Removals(x) = {} /\ Registration(x) = {}
    BY <2>1 DEF Told, Edits, Removals, Registration
  <2>3. store[x] # Deleted
    BY InitialRowsAssumption, NoRowAssumption DEF TrackInit, Init
  <2> QED BY <2>1, <2>2, <2>3 DEF LogKnows, Registered, StatusTold, SinceTold, AnalysisTold,
            RemovalLast, CreatedAt, Latest
<1>4. ASSUME NEW w \in Workers PROVE Claims(w)
  BY DEF TrackInit, Init, Claims, Idle
<1> QED BY <1>1, <1>2, <1>3, <1>4 DEF TrackInv

(* A step that logs nothing and keeps the statuses. *)
LEMMA QuietKnows ==
    ASSUME NEW x \in Assets, LogKnows(x), UNCHANGED <<log, since>>, StatusKept(store[x], store'[x])
    PROVE  LogKnows(x)'
<1>1. /\ ByCode(x)' = ByCode(x) /\ Told(x)' = Told(x) /\ Edits(x)' = Edits(x)
      /\ Removals(x)' = Removals(x) /\ Registration(x)' = Registration(x)
      /\ Starts(x)' = Starts(x) /\ CreatedAt(x)' = CreatedAt(x) /\ since'[x] = since[x]
  BY DEF ByCode, Told, Edits, Removals, Registration, Starts, CreatedAt
<1>2. Registered(x)'
  BY <1>1 DEF LogKnows, Registered, StatusKept
<1>3. StatusTold(x)' /\ SinceTold(x)'
  BY <1>1 DEF LogKnows, StatusTold, SinceTold, StatusKept, Latest
<1>4. AnalysisTold(x)' /\ RemovalLast(x)'
  BY <1>1 DEF LogKnows, AnalysisTold, RemovalLast, StatusKept, Latest
<1> QED BY <1>2, <1>3, <1>4 DEF LogKnows

(* A request that stays, or has just read its row, while nothing is logged.    *)
LEMMA QuietClaims ==
    ASSUME TrackInv, NEW w \in Workers, UNCHANGED log,
           tx'[w] = Idle \/ tx'[w] = tx[w] \/ Same(w) \/ Fresh(w),
           tx'[w] # Idle => (w \in overtaken => w \in overtaken') /\ stamped'[w] = stamped[w],
           tx'[w] = Idle => stamped'[w] = 0
    PROVE  Claims(w)'
<1> USE DEF TrackInv
<1>1. \A x : /\ Edits(x)' = Edits(x) /\ Registration(x)' = Registration(x)
             /\ Starts(x)' = Starts(x)
  BY DEF ByCode, Edits, Registration, Starts
<1>2. CASE tx'[w] = Idle
  BY <1>2 DEF Claims, Idle
<1>3. CASE tx'[w] # Idle /\ (tx'[w] = tx[w] \/ Same(w))
  <2>1. /\ tx[w] # Idle /\ tx'[w].asset = tx[w].asset /\ tx'[w].kind = tx[w].kind
        /\ tx'[w].dirty = tx[w].dirty /\ tx'[w].seen = tx[w].seen /\ tx'[w].want = tx[w].want
    BY <1>3 DEF Same
  <2>2. (w \in overtaken => w \in overtaken') /\ stamped'[w] = stamped[w]
    BY <1>3
  <2>3. stamped'[w] # 0 => tx'[w] = tx[w]
    BY <1>3, <2>2 DEF Claims, Same
  <2> QED BY <1>1, <1>3, <2>1, <2>2, <2>3 DEF Claims, Latest
<1>4. CASE Fresh(w)
  <2> DEFINE x == tx'[w].asset
  <2>1. /\ x \in Assets /\ store[x] \in Rows /\ tx'[w].seen = store[x] /\ tx[w] = Idle
        /\ LogKnows(x)
    BY <1>4 DEF Fresh, Live
  <2>2. Registration(x) # {} /\ tx'[w].seen.status # "new" => Starts(x) # {}
    BY <2>1 DEF LogKnows, AnalysisTold
  <2>3. \A e \in Latest(Edits(x)) : e.after = tx'[w].seen.status
    BY <2>1 DEF LogKnows, StatusTold
  <2>4. stamped'[w] = 0
    BY <1>4, <2>1 DEF Claims, Idle
  <2> QED BY <1>1, <1>4, <2>1, <2>2, <2>3, <2>4 DEF Claims, Latest, Fresh
<1> QED BY <1>2, <1>3, <1>4

(* What each kind of step keeps of the invariant. *)
Kept == TrackType' /\ Stamps' /\ (\A x \in Assets : LogKnows(x)') /\ (\A v \in Workers : Claims(v)')

LEMMA UnloggedKeeps ==
    ASSUME TrackInv, NEW w \in Workers, Unlogged(w)
    PROVE  Kept
<1>1. /\ stamped' = [v \in Workers |-> IF tx'[v] = Idle THEN 0 ELSE stamped[v]]
      /\ overtaken' = {v \in overtaken : tx'[v] # Idle}
      /\ UNCHANGED <<clock, log, report, since>>
  BY DEF Unlogged
<1>2. TrackType' /\ Stamps'
  BY <1>1 DEF TrackInv, TrackType, Stamps
<1>3. \A x \in Assets : LogKnows(x)'
  BY <1>1, UnloggedStep, QuietKnows DEF TrackInv
<1>4. ASSUME NEW v \in Workers PROVE Claims(v)'
  <2>1. tx'[v] = Idle \/ tx'[v] = tx[v] \/ Same(v) \/ Fresh(v)
    BY UnloggedStep DEF TrackInv
  <2> QED BY <1>1, <2>1, QuietClaims DEF TrackType
<1> QED BY <1>2, <1>3, <1>4 DEF Kept

-----------------------------------------------------------------------------
(* The steps that log. *)

(* A new entry, at the next stamp. *)
NewEntry(e) ==
    /\ e \in Entry /\ e.at = clock'
    /\ clock' = clock + 1
    /\ log' = log \cup {e}

LEMMA NewEntryStamps ==
    ASSUME TrackInv, NEW e, NewEntry(e), stamped' = stamped
    PROVE  /\ clock' \in Nat /\ log' \subseteq Entry
           /\ Stamps'
           /\ \A f \in log : f.at < e.at
           /\ \A w \in Workers : stamped[w] < e.at
BY DEF TrackInv, TrackType, Stamps, NewEntry, Entry, Times

(* What it changes of the entries of its process, and of the others. *)
LEMMA NewEntrySets ==
    ASSUME NEW e, log' = log \cup {e}, NEW x
    PROVE  /\ e.asset # x =>
                /\ ByCode(x)' = ByCode(x) /\ Told(x)' = Told(x) /\ Edits(x)' = Edits(x)
                /\ Removals(x)' = Removals(x) /\ Registration(x)' = Registration(x)
                /\ Starts(x)' = Starts(x) /\ CreatedAt(x)' = CreatedAt(x)
           /\ e.asset = x => ByCode(x)' = ByCode(x) \cup {e}
           /\ e.asset = x /\ e.type = "edicao" =>
                /\ Told(x)' = Told(x) \cup {e} /\ Edits(x)' = Edits(x) \cup {e}
                /\ Removals(x)' = Removals(x) /\ Registration(x)' = Registration(x)
                /\ Starts(x) \subseteq Starts(x)' /\ CreatedAt(x)' = CreatedAt(x)
                /\ e.before = "new" /\ e.after = "analysis" => e \in Starts(x)'
           /\ e.asset = x /\ e.type = "cadastro" =>
                /\ Told(x)' = Told(x) \cup {e} /\ Edits(x)' = Edits(x)
                /\ Removals(x)' = Removals(x) /\ Registration(x)' = Registration(x) \cup {e}
                /\ Starts(x)' = Starts(x)
           /\ e.asset = x /\ e.type = "remocao" =>
                /\ Told(x)' = Told(x) /\ Edits(x)' = Edits(x)
                /\ Removals(x)' = Removals(x) \cup {e} /\ Registration(x)' = Registration(x)
                /\ Starts(x)' = Starts(x) /\ CreatedAt(x)' = CreatedAt(x)
<1>1. ByCode(x)' = IF e.asset = x THEN ByCode(x) \cup {e} ELSE ByCode(x)
  BY DEF ByCode
<1>2. CASE e.asset # x
  BY <1>1, <1>2 DEF Told, Edits, Removals, Registration, Starts, CreatedAt
<1>3. CASE e.asset = x /\ e.type = "edicao"
  <2>1. Told(x)' = Told(x) \cup {e} /\ Edits(x)' = Edits(x) \cup {e}
    BY <1>1, <1>3 DEF Told, Edits
  <2>2. Removals(x)' = Removals(x) /\ Registration(x)' = Registration(x)
    BY <1>1, <1>3 DEF Removals, Registration
  <2>3. Starts(x) \subseteq Starts(x)' /\ CreatedAt(x)' = CreatedAt(x)
    BY <2>1, <2>2 DEF Starts, CreatedAt
  <2>4. e.before = "new" /\ e.after = "analysis" => e \in Starts(x)'
    BY <2>1 DEF Starts
  <2> QED BY <1>1, <1>3, <2>1, <2>2, <2>3, <2>4
<1>4. CASE e.asset = x /\ e.type = "cadastro"
  <2>1. Told(x)' = Told(x) \cup {e} /\ Edits(x)' = Edits(x)
    BY <1>1, <1>4 DEF Told, Edits
  <2>2. Removals(x)' = Removals(x) /\ Registration(x)' = Registration(x) \cup {e}
    BY <1>1, <1>4 DEF Removals, Registration
  <2> QED BY <1>1, <1>4, <2>1, <2>2 DEF Starts
<1>5. CASE e.asset = x /\ e.type = "remocao"
  <2>1. Told(x)' = Told(x) /\ Edits(x)' = Edits(x)
    BY <1>1, <1>5 DEF Told, Edits
  <2>2. Removals(x)' = Removals(x) \cup {e} /\ Registration(x)' = Registration(x)
    BY <1>1, <1>5 DEF Removals, Registration
  <2> QED BY <1>1, <1>5, <2>1, <2>2 DEF Starts, CreatedAt
<1> QED BY <1>1, <1>2, <1>3, <1>4, <1>5

(* A process whose row and entries a step leaves alone. *)
LEMMA OthersKnow ==
    ASSUME NEW x \in Assets, LogKnows(x), NEW e, log' = log \cup {e}, e.asset # x,
           store'[x] = store[x], since'[x] = since[x]
    PROVE  LogKnows(x)'
<1>1. /\ ByCode(x)' = ByCode(x) /\ Told(x)' = Told(x) /\ Edits(x)' = Edits(x)
      /\ Removals(x)' = Removals(x) /\ Registration(x)' = Registration(x)
      /\ Starts(x)' = Starts(x) /\ CreatedAt(x)' = CreatedAt(x)
  BY NewEntrySets
<1> QED BY <1>1 DEF LogKnows, Registered, StatusTold, SinceTold, AnalysisTold, RemovalLast, Latest

(* A request in flight whose process has its history of statuses left alone. *)
LEMMA ClaimsStay ==
    ASSUME NEW v \in Workers, Claims(v), tx'[v] = tx[v], stamped'[v] = stamped[v],
           v \in overtaken => v \in overtaken', NEW x, x = tx[v].asset,
           tx[v] # Idle =>
               Edits(x)' = Edits(x) /\ Registration(x)' = Registration(x) /\ Starts(x)' = Starts(x)
    PROVE  Claims(v)'
<1>1. tx'[v].asset = x
  OBVIOUS
<1>2. ASSUME tx[v] # Idle PROVE Latest(Edits(x))' = Latest(Edits(x))
  BY <1>2 DEF Latest
<1>3. stamped[v] # 0 => tx[v] # Idle
  BY DEF Claims, Idle
<1> QED BY <1>1, <1>2, <1>3 DEF Claims

LEMMA RegisterKeeps ==
    ASSUME TrackInv, NEW w \in Workers, Register(w)
    PROVE  Kept
<1> USE DEF TrackInv
<1>1. PICK x \in Assets :
        /\ store[x] = Absent /\ store'[x] # Absent
        /\ log' = log \cup {[asset |-> x, at |-> clock', type |-> "cadastro", before |-> NoStatus,
                             after |-> store'[x].status, overtaken |-> FALSE]}
        /\ since' = [since EXCEPT ![x] = clock']
  BY DEF Register
<1> DEFINE e == [asset |-> x, at |-> clock', type |-> "cadastro", before |-> NoStatus,
                 after |-> store'[x].status, overtaken |-> FALSE]
<1>2. /\ clock' = clock + 1 /\ UNCHANGED <<stamped, report, overtaken, tx>>
  BY DEF Register, Tick, Create
<1>3. /\ store'[x] \in Rows /\ store'[x].status = "new"
      /\ \A y \in Assets : y # x => store'[y] = store[y]
  <2>1. PICK z \in Assets, row \in Rows :
          row.status = "new" /\ store' = [store EXCEPT ![z] = row]
    BY DEF Register, Create
  <2>2. z = x
    BY <1>1, <2>1 DEF TypeOK
  <2> QED BY <2>1, <2>2 DEF TypeOK
<1>4. NewEntry(e)
  BY <1>1, <1>2, <1>3 DEF NewEntry, Entry, Times, TrackType, Statuses
<1>5. TrackType' /\ Stamps'
  BY <1>1, <1>2, <1>4, NewEntryStamps DEF TrackType
<1>6. ASSUME NEW y \in Assets, y # x PROVE LogKnows(y)'
  <2>1. since'[y] = since[y] /\ e.asset # y
    BY <1>1, <1>6 DEF TrackType
  <2> HIDE DEF e
  <2> QED BY <1>3, <1>4, <1>6, <2>1, OthersKnow DEF NewEntry
<1>7. LogKnows(x)'
  <2>1. ByCode(x) = {}
    BY <1>1, NoRowAssumption DEF LogKnows, Registered
  <2>2. /\ Told(x)' = {e} /\ Edits(x)' = {} /\ Removals(x)' = {}
        /\ Registration(x)' = {e} /\ Starts(x)' = {}
    <3>1. ByCode(x)' = {e}
      BY <2>1, <1>4 DEF NewEntry, ByCode
    <3> QED BY <3>1 DEF Told, Edits, Removals, Registration, Starts
  <2>3. CreatedAt(x)' = clock' /\ since'[x] = clock'
    <3>1. (CHOOSE f \in {e} : TRUE) = e
      OBVIOUS
    <3> QED BY <1>1, <2>2, <3>1 DEF CreatedAt, TrackType
  <2>4. Registered(x)' /\ RemovalLast(x)'
    BY <1>3, <2>2, NoRowAssumption DEF Registered, RemovalLast
  <2>5. StatusTold(x)' /\ SinceTold(x)' /\ AnalysisTold(x)'
    BY <1>3, <2>2, <2>3 DEF StatusTold, SinceTold, AnalysisTold, Latest
  <2> QED BY <2>4, <2>5 DEF LogKnows
<1>8. ASSUME NEW v \in Workers PROVE Claims(v)'
  <2>1. PICK y : y = tx[v].asset
    OBVIOUS
  <2>2. ASSUME tx[v] # Idle PROVE y # x
    BY <2>1, <2>2, <1>1, NoRowAssumption DEF StatusRead
  <2>3. ASSUME tx[v] # Idle
        PROVE  Edits(y)' = Edits(y) /\ Registration(y)' = Registration(y) /\ Starts(y)' = Starts(y)
    <3>1. e.asset # y
      BY <2>2, <2>3
    <3> HIDE DEF e
    <3> QED BY <1>4, <3>1, NewEntrySets DEF NewEntry
  <2> QED BY <1>2, <2>1, <2>3, ClaimsStay
<1> QED BY <1>5, <1>6, <1>7, <1>8 DEF Kept

LEMMA LogRemovalKeeps ==
    ASSUME TrackInv, NEW w \in Workers, LogRemoval(w)
    PROVE  Kept
<1> USE DEF TrackInv
<1>1. /\ tx[w].pc = "write" /\ tx[w].kind = "delete" /\ stamped[w] = 0
      /\ clock' = clock + 1 /\ stamped' = [stamped EXCEPT ![w] = clock']
      /\ UNCHANGED <<tx, store, log, report, since, overtaken>>
  BY DEF LogRemoval, Tick, vars
<1>2. TrackType' /\ Stamps'
  <2>1. TrackType'
    BY <1>1 DEF TrackType
  <2>2. clock < clock' /\ \A v \in Workers : stamped'[v] = IF v = w THEN clock' ELSE stamped[v]
    BY <1>1 DEF TrackType
  <2>3. /\ \A f \in log : f.at \in Nat /\ f.at < clock'
        /\ \A v \in Workers : stamped[v] \in Nat /\ stamped[v] < clock'
    BY <2>2, <1>1 DEF TrackType, Stamps, Entry, Times
  <2> QED BY <1>1, <2>1, <2>2, <2>3 DEF Stamps, TrackType
<1>3. \A x \in Assets : LogKnows(x)'
  BY <1>1, QuietKnows DEF StatusKept
<1>4. ASSUME NEW v \in Workers, v # w PROVE Claims(v)'
  <2>1. \A y : Edits(y)' = Edits(y) /\ Registration(y)' = Registration(y) /\ Starts(y)' = Starts(y)
    BY <1>1 DEF ByCode, Edits, Registration, Starts
  <2>2. tx'[v] = tx[v] /\ stamped'[v] = stamped[v] /\ overtaken' = overtaken
    BY <1>1, <1>4 DEF TrackType
  <2>3. PICK y : y = tx[v].asset
    OBVIOUS
  <2> QED BY <2>1, <2>2, <2>3, ClaimsStay
<1>5. Claims(w)'
  <2>0. PICK x : x = tx[w].asset
    OBVIOUS
  <2>1. /\ Edits(x)' = Edits(x) /\ Registration(x)' = Registration(x) /\ Starts(x)' = Starts(x)
        /\ tx' = tx
    BY <1>1 DEF ByCode, Edits, Registration, Starts
  <2>2. \A f \in Edits(x) : f.at < stamped'[w]
    BY <1>1 DEF Edits, ByCode, TrackType, Stamps, Entry, Times
  <2>3. Latest(Edits(x))' = Latest(Edits(x))
    BY <2>1 DEF Latest
  <2> QED BY <1>1, <2>0, <2>1, <2>2, <2>3 DEF Claims
<1> QED BY <1>2, <1>3, <1>4, <1>5 DEF Kept

(* An UPDATE gives the row the status the request assigned, if it assigned     *)
(* another than it read, and leaves it otherwise.                              *)
LEMMA ChangeRow ==
    ASSUME TrackInv, NEW w \in Workers, CommitPlain(w) \/ CommitReview(w)
    PROVE  LET t == tx[w]
               x == t.asset
           IN /\ t # Idle /\ t \in Requests /\ x \in Assets /\ store[x] \in Rows
              /\ t.pc # "write" \/ t.kind # "delete"
              /\ store'[x] \in Rows
              /\ store'[x].status =
                    IF t.want.status # t.seen.status THEN t.want.status ELSE store[x].status
              /\ \A y \in Assets : y # x => store'[y] = store[y]
              /\ tx' = [tx EXCEPT ![w] = Idle]
<1> USE DEF TrackInv
<1> DEFINE t == tx[w]
           x == t.asset
<1>1. t # Idle /\ t \in Requests /\ x \in Assets /\ store[x] \in Rows
  BY DEF CommitPlain, CommitReview, Idle, TypeOK, Requests
<1>2. t.pc # "write" \/ t.kind # "delete"
  BY DEF CommitPlain, CommitReview
<1>3. tx' = [tx EXCEPT ![w] = Idle]
  BY DEF CommitPlain, CommitReview, End
<1>4. Merged(t) \in Rows
  BY <1>1, MergedRow
<1>5. Merged(t).status = IF t.want.status # t.seen.status THEN t.want.status ELSE store[x].status
  BY DEF Merged, Column
<1>6. store' = [store EXCEPT ![x] = Merged(t)] \/ (store' = [store EXCEPT ![x] = store[x]] /\ ~t.dirty)
  BY DEF CommitPlain, CommitReview
<1>7. ~t.dirty => t.want = t.seen
  BY <1>1 DEF Claims
<1>8. /\ store'[x] = Merged(t) \/ (store'[x] = store[x] /\ ~t.dirty)
      /\ \A y \in Assets : y # x => store'[y] = store[y]
  BY <1>1, <1>6 DEF TypeOK
<1>9. /\ store'[x] \in Rows
      /\ store'[x].status =
            IF t.want.status # t.seen.status THEN t.want.status ELSE store[x].status
  BY <1>1, <1>4, <1>5, <1>7, <1>8
<1> QED BY <1>1, <1>2, <1>3, <1>8, <1>9

LEMMA ChangeUnloggedKeeps ==
    ASSUME TrackInv, NEW w \in Workers, Change(w), tx[w].want.status = tx[w].seen.status
    PROVE  Kept
<1> USE DEF TrackInv
<1> DEFINE x == tx[w].asset
<1>1. /\ x \in Assets /\ store[x] \in Rows /\ store'[x] \in Rows /\ tx[w] # Idle
      /\ tx[w].pc # "write" \/ tx[w].kind # "delete"
      /\ store'[x].status = store[x].status
      /\ \A y \in Assets : y # x => store'[y] = store[y]
      /\ tx' = [tx EXCEPT ![w] = Idle]
  BY ChangeRow DEF Change
<1>2. UNCHANGED <<clock, log, overtaken, since, stamped, report>>
  BY <1>1 DEF Change
<1>3. TrackType' /\ Stamps'
  BY <1>2 DEF TrackType, Stamps
<1>4. ASSUME NEW y \in Assets PROVE LogKnows(y)'
  <2>1. StatusKept(store[y], store'[y])
    BY <1>1, NoRowAssumption DEF StatusKept
  <2> QED BY <1>2, <2>1, QuietKnows
<1>5. ASSUME NEW v \in Workers PROVE Claims(v)'
  <2>1. stamped[w] = 0
    BY <1>1 DEF Claims
  <2>2. tx'[v] = IF v = w THEN Idle ELSE tx[v]
    BY <1>1 DEF TypeOK
  <2>3. CASE v = w
    BY <1>2, <2>1, <2>2, <2>3, QuietClaims
  <2>4. CASE v # w
    <3>1. \A y : Edits(y)' = Edits(y) /\ Registration(y)' = Registration(y) /\ Starts(y)' = Starts(y)
      BY <1>2 DEF ByCode, Edits, Registration, Starts
    <3>2. PICK y : y = tx[v].asset
      OBVIOUS
    <3> QED BY <1>2, <2>2, <2>4, <3>1, <3>2, ClaimsStay
  <2> QED BY <2>3, <2>4
<1> QED BY <1>3, <1>4, <1>5 DEF Kept

(* The process whose status a request logged. *)
LEMMA ChangedKnows ==
    ASSUME TrackInv, NEW w \in Workers, Change(w), tx[w].want.status # tx[w].seen.status,
           NEW x, x = tx[w].asset
    PROVE  LogKnows(x)'
<1> USE DEF TrackInv
<1> DEFINE t == tx[w]
           e == Logged(w, clock', "edicao", t.want.status)
<1>1. /\ x \in Assets /\ store[x] \in Rows /\ store'[x] \in Rows /\ t # Idle /\ t \in Requests
      /\ store'[x].status = t.want.status
  BY ChangeRow DEF Change
<1>2. /\ clock' = clock + 1 /\ log' = log \cup {e} /\ stamped' = stamped
      /\ since' = IF store'[x].status = store[x].status THEN since
                  ELSE [since EXCEPT ![x] = clock']
  BY DEF Change, Tick
<1>3. /\ e.asset = x /\ e.type = "edicao" /\ e.before = t.seen.status /\ e.after = t.want.status
      /\ e.at = clock'
  BY DEF Logged
<1>4. /\ \A f \in log : f.at \in Nat /\ f.at < e.at
      /\ e.at \in Nat
  BY <1>2, <1>3 DEF TrackType, Stamps, Entry, Times
<1>5. LogKnows(x)
  BY <1>1
<1>6. /\ t.want.status = "new" => t.seen.status = "new"
      /\ t.seen.status = "new" => t.want.status \in {"new", "analysis"}
  BY <1>1 DEF StatusRead
<1>7. Registration(x) # {} /\ t.seen.status # "new" => Starts(x) # {}
  BY <1>1 DEF Claims
<1> HIDE DEF e
<1>8. /\ ByCode(x)' = ByCode(x) \cup {e}
      /\ Told(x)' = Told(x) \cup {e} /\ Edits(x)' = Edits(x) \cup {e}
      /\ Removals(x)' = Removals(x) /\ Registration(x)' = Registration(x)
      /\ Starts(x) \subseteq Starts(x)' /\ CreatedAt(x)' = CreatedAt(x)
      /\ e.before = "new" /\ e.after = "analysis" => e \in Starts(x)'
  BY <1>2, <1>3, NewEntrySets
<1>9. Told(x) \subseteq log /\ Edits(x) \subseteq log /\ Starts(x) \subseteq log
  BY DEF Told, Edits, Starts, ByCode
<1>10. Registered(x)'
  BY <1>1, <1>5, <1>8, NoRowAssumption DEF LogKnows, Registered
<1>11. StatusTold(x)'
  <2>1. ASSUME NEW f \in Latest(Told(x))' \cup Latest(Edits(x))' PROVE f = e
    <3>1. f \in log \cup {e} /\ e.at <= f.at
      BY <1>8, <1>9 DEF Latest
    <3> QED BY <1>4, <3>1
  <2> QED BY <1>1, <1>3, <2>1 DEF StatusTold
<1>12. SinceTold(x)'
  <2>1. since'[x] = since[x] \/ since'[x] = clock'
    BY <1>1, <1>2 DEF TrackType
  <2>2. since'[x] = 0 \/ \E f \in Told(x)' : f.at = since'[x]
    BY <1>1, <1>3, <1>5, <1>8, <2>1 DEF LogKnows, SinceTold
  <2> QED BY <1>1, <1>6, <2>2 DEF SinceTold
<1>13. AnalysisTold(x)'
  <2>1. ASSUME Registration(x)' # {} PROVE Starts(x)' # {}
    BY <1>3, <1>6, <1>7, <1>8, <2>1
  <2>2. ASSUME Registration(x)' # {}, NEW f \in Edits(x)', f.after = "approved"
        PROVE  \E g \in Starts(x)' : g.at < f.at
    <3>1. CASE f = e
      <4>1. t.seen.status # "new"
        BY <1>3, <1>6, <2>2, <3>1
      <4>2. PICK g \in Starts(x) : TRUE
        BY <1>7, <1>8, <2>2, <4>1
      <4> QED BY <1>4, <1>8, <1>9, <3>1, <4>2
    <3>2. CASE f # e
      BY <1>5, <1>8, <2>2, <3>2 DEF LogKnows, AnalysisTold
    <3> QED BY <3>1, <3>2
  <2> QED BY <2>1, <2>2 DEF AnalysisTold
<1>14. RemovalLast(x)'
  BY <1>1, <1>5, <1>8, NoRowAssumption DEF LogKnows, Registered, RemovalLast
<1> QED BY <1>10, <1>11, <1>12, <1>13, <1>14 DEF LogKnows

LEMMA ChangeLoggedKeeps ==
    ASSUME TrackInv, NEW w \in Workers, Change(w), tx[w].want.status # tx[w].seen.status
    PROVE  Kept
<1> USE DEF TrackInv
<1> DEFINE t == tx[w]
           e == Logged(w, clock', "edicao", t.want.status)
<1>0. PICK x : x = t.asset
  OBVIOUS
<1>1. /\ x \in Assets /\ t # Idle /\ t \in Requests
      /\ t.pc # "write" \/ t.kind # "delete"
      /\ \A y \in Assets : y # x => store'[y] = store[y]
      /\ tx' = [tx EXCEPT ![w] = Idle]
  BY <1>0, ChangeRow DEF Change
<1>2. /\ clock' = clock + 1 /\ log' = log \cup {e} /\ stamped' = stamped
      /\ overtaken' = overtaken \cup RemovalsOf(x)
      /\ since' = IF store'[x].status = store[x].status THEN since
                  ELSE [since EXCEPT ![x] = clock']
  BY <1>0 DEF Change, Tick
<1>3. e.asset = x /\ e.type = "edicao" /\ e.at = clock'
  BY <1>0 DEF Logged
<1>4. NewEntry(e)
  <2>1. t.seen.status \in Statuses /\ t.want.status \in Statuses
    BY <1>1 DEF Requests, Rows
  <2> QED BY <1>0, <1>1, <1>2, <2>1 DEF NewEntry, Logged, Entry, Times, TrackType
<1> HIDE DEF e
<1>5. TrackType' /\ Stamps'
  <2>1. clock' \in Nat /\ log' \subseteq Entry /\ Stamps'
    BY <1>2, <1>4, NewEntryStamps
  <2>2. since' \in [Assets -> Nat] /\ overtaken' \subseteq Workers
    BY <1>1, <1>2, <2>1 DEF TrackType, RemovalsOf
  <2> QED BY <1>2, <1>3, <2>1, <2>2 DEF TrackType
<1>6. ASSUME NEW y \in Assets PROVE LogKnows(y)'
  <2>1. CASE y = x
    BY <1>0, <2>1, ChangedKnows
  <2>2. CASE y # x
    <3>1. since'[y] = since[y]
      BY <1>1, <1>2, <2>2 DEF TrackType
    <3> QED BY <1>1, <1>2, <1>3, <2>2, <3>1, OthersKnow
  <2> QED BY <2>1, <2>2
<1>7. ASSUME NEW v \in Workers PROVE Claims(v)'
  <2>1. stamped[w] = 0 /\ tx'[v] = IF v = w THEN Idle ELSE tx[v]
    BY <1>1 DEF Claims, TypeOK
  <2>2. CASE v = w \/ tx[v] = Idle
    <3>1. tx'[v] = Idle /\ stamped'[v] = 0
      BY <1>2, <2>1, <2>2 DEF Claims, Idle
    <3> QED BY <3>1 DEF Claims, Idle
  <2>3. CASE v # w /\ tx[v] # Idle /\ tx[v].asset # x
    <3>1. PICK y : y = tx[v].asset
      OBVIOUS
    <3>2. Edits(y)' = Edits(y) /\ Registration(y)' = Registration(y) /\ Starts(y)' = Starts(y)
      BY <1>2, <1>3, <2>3, <3>1, NewEntrySets
    <3> QED BY <1>2, <2>1, <2>3, <3>1, <3>2, ClaimsStay
  <2>4. CASE v # w /\ tx[v] # Idle /\ tx[v].asset = x
    <3>1. Registration(x)' = Registration(x) /\ Starts(x) \subseteq Starts(x)'
      BY <1>2, <1>3, NewEntrySets
    <3>2. tx[v].kind = "delete" => v \in overtaken'
      BY <1>2, <2>4 DEF RemovalsOf
    <3>3. tx'[v] = tx[v] /\ stamped'[v] = stamped[v]
      BY <1>2, <2>1, <2>4
    <3> QED BY <2>4, <3>1, <3>2, <3>3 DEF Claims
  <2> QED BY <2>2, <2>3, <2>4
<1> QED BY <1>5, <1>6, <1>7 DEF Kept

LEMMA RemoveKeeps ==
    ASSUME TrackInv, NEW w \in Workers, Remove(w)
    PROVE  Kept
<1> USE DEF TrackInv
<1> DEFINE t == tx[w]
           e == Logged(w, stamped[w], "remocao", NoStatus)
<1>0. PICK x : x = t.asset
  OBVIOUS
<1>1. t # Idle /\ t \in Requests /\ x \in Assets /\ stamped[w] # 0
  BY <1>0 DEF Remove, CommitDelete, Idle, TypeOK, Requests
<1>2. /\ tx' = [tx EXCEPT ![w] = Idle] /\ store' = [store EXCEPT ![x] = Deleted]
      /\ log' = log \cup {e} /\ stamped' = [stamped EXCEPT ![w] = 0]
      /\ overtaken' = overtaken \ {w} /\ UNCHANGED <<clock, since>>
  BY <1>0 DEF Remove, CommitDelete, End
<1>3. /\ e \in Entry /\ e.asset = x /\ e.type = "remocao" /\ e.at = stamped[w]
      /\ e.before = t.seen.status /\ (e.overtaken <=> w \in overtaken)
  <2>1. t.seen.status \in Statuses /\ stamped[w] \in Nat
    BY <1>1 DEF Requests, Rows, TrackType
  <2>2. /\ e.asset = x /\ e.type = "remocao" /\ e.at = stamped[w]
        /\ e.before = t.seen.status /\ (e.overtaken <=> w \in overtaken)
    BY <1>0 DEF Logged
  <2>3. e \in Entry
    BY <1>0, <1>1, <2>1 DEF Logged, Entry, Times
  <2> QED BY <2>2, <2>3
<1> HIDE DEF e
<1>4. TrackType'
  <2>1. t.seen.status \in Statuses
    BY <1>1 DEF Requests, Rows
  <2> QED BY <1>1, <1>2, <1>3, <2>1 DEF TrackType
<1>5. Stamps'
  <2>1. \A v \in Workers : stamped'[v] = IF v = w THEN 0 ELSE stamped[v]
    BY <1>2 DEF TrackType
  <2>2. e.at <= clock /\ \A f \in log : f.at # e.at
    BY <1>1, <1>3 DEF Stamps
  <2>3. \A v \in Workers : stamped'[v] <= clock
    BY <2>1, <1>1 DEF Stamps, TrackType
  <2>4. \A v \in Workers, f \in log' : stamped'[v] # 0 => f.at # stamped'[v]
    BY <1>1, <1>2, <1>3, <2>1 DEF Stamps
  <2>5. \A u, v \in Workers : u # v /\ stamped'[u] # 0 => stamped'[v] # stamped'[u]
    BY <2>1 DEF Stamps
  <2> QED BY <1>2, <2>2, <2>3, <2>4, <2>5 DEF Stamps
<1>6. /\ ByCode(x)' = ByCode(x) \cup {e} /\ Told(x)' = Told(x) /\ Edits(x)' = Edits(x)
      /\ Removals(x)' = Removals(x) \cup {e} /\ Registration(x)' = Registration(x)
      /\ Starts(x)' = Starts(x) /\ CreatedAt(x)' = CreatedAt(x)
  BY <1>2, <1>3, NewEntrySets
<1>7. LogKnows(x)'
  <2>1. LogKnows(x) /\ store'[x] = Deleted
    BY <1>1, <1>2 DEF TypeOK
  <2>2. Registered(x)' /\ StatusTold(x)' /\ SinceTold(x)'
    BY <1>6, <2>1, NoRowAssumption DEF LogKnows, Registered, StatusTold, SinceTold
  <2>3. AnalysisTold(x)'
    BY <1>6, <2>1, NoRowAssumption DEF LogKnows, AnalysisTold
  <2>4. Latest(Edits(x))' = Latest(Edits(x))
    BY <1>6 DEF Latest
  <2>5. t.kind = "delete" /\ Claims(w)
    BY DEF Remove, CommitDelete
  <2>6. ~e.overtaken => /\ \A f \in Edits(x) : f.at < e.at
                        /\ \A f \in Latest(Edits(x)) : f.after = e.before
    BY <1>0, <1>1, <1>3, <2>5 DEF Claims
  <2>7. RemovalLast(x)'
    BY <1>6, <2>1, <2>4, <2>6 DEF LogKnows, RemovalLast
  <2> QED BY <2>2, <2>3, <2>7 DEF LogKnows
<1>8. ASSUME NEW y \in Assets PROVE LogKnows(y)'
  <2>1. CASE y # x
    BY <1>2, <1>3, <2>1, OthersKnow DEF TypeOK
  <2> QED BY <1>7, <2>1
<1>9. ASSUME NEW v \in Workers PROVE Claims(v)'
  <2>1. CASE v = w
    <3>1. tx'[v] = Idle /\ stamped'[v] = 0
      BY <1>2, <2>1 DEF TypeOK, TrackType
    <3> QED BY <3>1 DEF Claims, Idle
  <2>2. CASE v # w
    <3>0. PICK y : y = tx[v].asset
      OBVIOUS
    <3>1. Edits(y)' = Edits(y) /\ Registration(y)' = Registration(y) /\ Starts(y)' = Starts(y)
      <4>1. CASE y = x
        BY <1>6, <4>1
      <4>2. CASE y # x
        BY <1>2, <1>3, <4>2, NewEntrySets
      <4> QED BY <4>1, <4>2
    <3>2. tx'[v] = tx[v] /\ stamped'[v] = stamped[v] /\ (v \in overtaken => v \in overtaken')
      BY <1>2, <2>2 DEF TypeOK, TrackType
    <3> QED BY <3>0, <3>1, <3>2, ClaimsStay
  <2> QED BY <2>1, <2>2
<1> QED BY <1>4, <1>5, <1>8, <1>9 DEF Kept

LEMMA TrackStep == TrackInv /\ [TrackNext]_allVars => TrackInv'
<1> SUFFICES ASSUME TrackInv, [TrackNext]_allVars PROVE TrackInv'
  OBVIOUS
<1>1. (TypeOK /\ StatusRead)'
  BY TrackingStep, TypeStep, StatusStep DEF TrackInv
<1>2. ASSUME UNCHANGED <<vars, clock, log, stamped, since, overtaken>> PROVE Kept
  <2>1. UNCHANGED <<store, tx, log, since, clock, stamped, overtaken>>
    BY <1>2 DEF vars
  <2>2. TrackType' /\ Stamps'
    BY <2>1 DEF TrackInv, TrackType, Stamps
  <2>3. \A x \in Assets : LogKnows(x)'
    BY <2>1, QuietKnows DEF TrackInv, StatusKept
  <2>4. \A y : Edits(y)' = Edits(y) /\ Registration(y)' = Registration(y) /\ Starts(y)' = Starts(y)
    BY <2>1 DEF ByCode, Edits, Registration, Starts
  <2>5. ASSUME NEW v \in Workers PROVE Claims(v)'
    <3>1. PICK y : y = tx[v].asset
      OBVIOUS
    <3> QED BY <2>1, <2>4, <3>1, ClaimsStay DEF TrackInv
  <2> QED BY <2>2, <2>3, <2>5 DEF Kept
<1>3. ASSUME NEW w \in Workers,
             Register(w) \/ Change(w) \/ LogRemoval(w) \/ Remove(w) \/ Unlogged(w)
      PROVE  Kept
  BY <1>3, RegisterKeeps, ChangeUnloggedKeeps, ChangeLoggedKeeps, LogRemovalKeeps, RemoveKeeps,
     UnloggedKeeps
<1>4. ASSUME ReadRow \/ ReadLogs \/ ReadRemoval PROVE Kept
  <2>1. UNCHANGED <<vars, clock, log, stamped, since, overtaken>>
    BY <1>4 DEF ReadRow, ReadLogs, ReadRemoval
  <2> QED BY <1>2, <2>1
<1>5. ASSUME UNCHANGED allVars PROVE Kept
  <2>1. UNCHANGED <<vars, clock, log, stamped, since, overtaken>>
    BY <1>5 DEF allVars, trackVars
  <2> QED BY <1>2, <2>1
<1>6. Kept
  BY <1>3, <1>4, <1>5 DEF TrackNext
<1> QED BY <1>1, <1>6 DEF TrackInv, Kept

-----------------------------------------------------------------------------
(* What was read. *)

(* A panel that has read a row knows when its status began: at the start, at   *)
(* its registration, or at an entry that its second statement will find.       *)
RowRead ==
    report # NoReport /\ (report.removed = 0 \/ ~report.read) =>
        /\ report.removed = 0
        /\ report.asset \in Assets /\ report.status \in Statuses
        /\ report.created = CreatedAt(report.asset)
        /\ store[report.asset] \in Rows \cup {Deleted}
        /\ \/ report.since \in {0, report.created}
           \/ \E e \in Edits(report.asset) : e.at = report.since
        /\ report.status = "new" => report.since = report.created

ReportInv ==
    /\ report \in Reports \cup {NoReport}
    /\ RowRead
    /\ CurrentNotOverstated /\ ApprovalAfterAnalysis /\ RemovalEndsTimeline

LEMMA SmallestMoment ==
    ASSUME NEW S, S \subseteq Nat, S # {}
    PROVE  Earliest(S) # {}
<1>1. PICK m \in S : \A n \in S : <<n, m>> \notin OpToRel(<, Nat)
  BY WFMin, NatLessThanWellFounded, Zenon
<1>2. \A n \in S : ~ n < m
  BY <1>1, Zenon DEF OpToRel
<1>3. \A n \in S : m <= n
  BY <1>2
<1> QED BY <1>3 DEF Earliest

LEMMA CreatedMoment ==
    ASSUME log \subseteq Entry, NEW x
    PROVE  CreatedAt(x) \in Nat
BY DEF CreatedAt, Registration, ByCode, Entry, Times

LEMMA TimelineMoments ==
    ASSUME NEW r \in Reports
    PROVE  \A f \in Timeline(r) : f.at \in Nat
BY DEF Timeline, Event, Transitions, Reports, Entry, Times

(* Once a process is registered its history only grows. *)
LEMMA HistoryGrows ==
    ASSUME TrackInv, [TrackNext]_allVars, NEW x \in Assets, store[x] \in Rows \cup {Deleted}
    PROVE  /\ Edits(x) \subseteq Edits(x)'
           /\ CreatedAt(x)' = CreatedAt(x)
           /\ store'[x] \in Rows \cup {Deleted}
<1> DEFINE Grown == Edits(x) \subseteq Edits(x)' /\ CreatedAt(x)' = CreatedAt(x)
<1>1. store'[x] \in Rows \cup {Deleted}
  BY TrackingStep, NextKeepsStatus DEF TrackInv, StepKeepsStatus
<1>2. ASSUME log' = log PROVE Grown
  BY <1>2 DEF Edits, ByCode, CreatedAt, Registration
<1>3. ASSUME NEW e, log' = log \cup {e}, e.type = "edicao" \/ e.type = "remocao" \/ e.asset # x
      PROVE  Grown
  BY <1>3, NewEntrySets
<1>4. ASSUME NEW w \in Workers, Register(w) PROVE Grown
  <2>1. PICK y \in Assets :
          /\ store[y] = Absent
          /\ log' = log \cup {[asset |-> y, at |-> clock', type |-> "cadastro", before |-> NoStatus,
                               after |-> store'[y].status, overtaken |-> FALSE]}
    BY <1>4 DEF Register
  <2>2. y # x
    BY <2>1, NoRowAssumption
  <2> QED BY <1>3, <2>1, <2>2
<1>5. ASSUME NEW w \in Workers, Change(w) \/ LogRemoval(w) \/ Remove(w) \/ Unlogged(w) PROVE Grown
  <2>1. \/ log' = log
        \/ log' = log \cup {Logged(w, clock', "edicao", tx[w].want.status)}
        \/ log' = log \cup {Logged(w, stamped[w], "remocao", NoStatus)}
    BY <1>5 DEF Change, LogRemoval, Remove, Unlogged
  <2>2. \A at, type, after : Logged(w, at, type, after).type = type
    BY DEF Logged
  <2> QED BY <1>2, <1>3, <2>1, <2>2
<1>6. ASSUME ReadRow \/ ReadLogs \/ ReadRemoval \/ UNCHANGED allVars PROVE Grown
  BY <1>2, <1>6 DEF ReadRow, ReadLogs, ReadRemoval, allVars, trackVars
<1>7. Grown
  BY <1>4, <1>5, <1>6 DEF TrackNext
<1> QED BY <1>1, <1>7

(* A timeline built on all the entries of a registered process. *)
LEMMA ApprovalLater ==
    ASSUME NEW x, log \subseteq Entry, AnalysisTold(x),
           NEW r \in Reports, r.logs = ByCode(x), Registrations(r) # {},
           NEW approval \in FirstApprovedAt(r)
    PROVE  \E start \in AnalysisStartedAt(r) : start < approval
<1> DEFINE Started == {f \in Timeline(r) : f.before = "new" /\ f.after = "analysis"}
           moments == {e.at : e \in Started}
<1>1. Registrations(r) = Registration(x) /\ Transitions(r) = Edits(x)
  BY DEF Registrations, Registration, Transitions, Edits
<1>2. PICK f \in Timeline(r) : f.after = "approved" /\ f.at = approval
  BY DEF FirstApprovedAt, Earliest
<1>3. PICK e \in Edits(x) : e.after = "approved" /\ e.at = approval
  <2>1. f # Event(r.created, NoStatus, InitialStatus(r)) /\ f # Event(r.removed, r.status, NoStatus)
    BY <1>2, NoStatusAssumption DEF InitialStatus, Event, Statuses
  <2>2. PICK e \in Transitions(r) : f = Event(e.at, e.before, e.after)
    BY <1>2, <2>1 DEF Timeline
  <2> QED BY <1>1, <1>2, <2>2 DEF Event
<1>4. PICK g \in Starts(x) : g.at < e.at
  BY <1>1, <1>3 DEF AnalysisTold
<1>5. Event(g.at, g.before, g.after) \in Started /\ Event(g.at, g.before, g.after).at = g.at
  BY <1>1, <1>4 DEF Starts, Timeline, Event
<1>6. g.at \in moments
  BY <1>5
<1>7. moments \subseteq Nat
  BY TimelineMoments
<1>8. PICK start \in Earliest(moments) : TRUE
  BY <1>6, <1>7, SmallestMoment
<1>9. start \in moments /\ start <= g.at
  BY <1>6, <1>8 DEF Earliest
<1>10. approval \in Nat /\ start \in Nat /\ g.at \in Nat
  BY <1>2, <1>6, <1>7, <1>9, TimelineMoments
<1>11. start < approval
  BY <1>3, <1>4, <1>9, <1>10
<1> QED BY <1>8, <1>11 DEF AnalysisStartedAt

(* The first statement reads a row whose history is known. *)
LEMMA ReadRowReports == TrackInv /\ ReadRow => ReportInv'
<1> SUFFICES ASSUME TrackInv, ReadRow PROVE ReportInv'
  OBVIOUS
<1> USE DEF TrackInv
<1>1. PICK x \in Live :
        report' = [asset |-> x, status |-> store[x].status, created |-> CreatedAt(x),
                   removed |-> 0, since |-> since[x], read |-> FALSE, logs |-> {}]
  BY DEF ReadRow
<1>2. UNCHANGED <<log, store>>
  BY DEF ReadRow, vars
<1>3. /\ x \in Assets /\ store[x] \in Rows /\ store[x].status \in Statuses
      /\ CreatedAt(x) \in Nat /\ since[x] \in Nat
  BY CreatedMoment DEF Live, Rows, TrackType
<1>4. report' \in Reports
  BY <1>1, <1>3 DEF Reports, Times
<1>5. CreatedAt(x)' = CreatedAt(x) /\ Edits(x)' = Edits(x)
  BY <1>2 DEF CreatedAt, Registration, Edits, ByCode
<1>6. since[x] \in {0, CreatedAt(x)} \/ \E e \in Edits(x) : e.at = since[x]
  <2>1. CASE since[x] = 0
    BY <2>1
  <2>2. ASSUME NEW e \in Told(x), e.at = since[x] PROVE e \in Edits(x) \/ since[x] = CreatedAt(x)
    <3>1. e \in Edits(x) \/ e \in Registration(x)
      BY DEF Told, Edits, Registration, ByCode, TrackType, Entry
    <3>2. ASSUME e \in Registration(x) PROVE CreatedAt(x) = e.at
      BY <1>3, <3>2 DEF LogKnows, Registered, CreatedAt
    <3> QED BY <2>2, <3>1, <3>2
  <2> QED BY <1>3, <2>1, <2>2 DEF LogKnows, SinceTold
<1>7. store[x].status = "new" => since[x] = CreatedAt(x)
  BY <1>3 DEF LogKnows, SinceTold
<1>8. RowRead'
  BY <1>1, <1>2, <1>3, <1>5, <1>6, <1>7 DEF RowRead
<1>9. Registrations(report)' = {}
  BY <1>1 DEF Registrations
<1> QED BY <1>1, <1>4, <1>8, <1>9
        DEF ReportInv, CurrentNotOverstated, ApprovalAfterAnalysis, RemovalEndsTimeline

LEMMA ReadLogsReports == TrackInv /\ ReportInv /\ ReadLogs => ReportInv'
<1> SUFFICES ASSUME TrackInv, ReportInv, ReadLogs PROVE ReportInv'
  OBVIOUS
<1> USE DEF TrackInv
<1> DEFINE x == report.asset
<1>1. /\ report # NoReport /\ ~report.read /\ report \in Reports
      /\ report' = [report EXCEPT !.read = TRUE, !.logs = ByAsset(x)]
      /\ UNCHANGED <<log, store>>
  BY DEF ReadLogs, ReportInv, vars
<1>2. PICK r : r = report'
  OBVIOUS
<1>3. /\ r.asset = x /\ r.status = report.status /\ r.created = report.created
      /\ r.since = report.since /\ r.removed = report.removed /\ r.read /\ r.logs = ByAsset(x)
  BY <1>1, <1>2 DEF Reports
<1>4. /\ x \in Assets /\ r.status \in Statuses /\ r.removed = 0
      /\ r.created = CreatedAt(x)
      /\ \/ r.since \in {0, r.created}
         \/ \E e \in Edits(x) : e.at = r.since
      /\ r.status = "new" => r.since = r.created
  BY <1>1, <1>3 DEF ReportInv, RowRead
<1>5. r \in Reports
  <2>1. ByAsset(x) \subseteq Entry
    BY DEF ByAsset, ByCode, TrackType
  <2> QED BY <1>1, <1>2, <2>1 DEF Reports
<1>6. RowRead'
  <2>1. CreatedAt(r.asset)' = CreatedAt(x) /\ Edits(r.asset)' = Edits(x) /\ store' = store
    BY <1>1, <1>3 DEF CreatedAt, Registration, Edits, ByCode
  <2>2. store[x] \in Rows \cup {Deleted}
    BY <1>1 DEF ReportInv, RowRead
  <2> QED BY <1>2, <1>3, <1>4, <2>1, <2>2 DEF RowRead
<1>7. ASSUME NEW start \in CurrentStart(r) PROVE start >= r.since
  <2>1. PICK f \in Latest(Timeline(r)) : f.after = r.status /\ f.at = start
    BY <1>7 DEF CurrentStart
  <2>2. f \in Timeline(r) /\ \A g \in Timeline(r) : g.at <= start
    BY <2>1 DEF Latest
  <2>3. start \in Nat /\ r.since \in Nat
    BY <1>5, <2>1, <2>2, TimelineMoments DEF Reports, Times
  <2>4. r.created <= start
    <3>1. Event(r.created, NoStatus, InitialStatus(r)) \in Timeline(r)
      BY DEF Timeline
    <3> QED BY <2>2, <3>1 DEF Event
  <2>5. CASE r.logs = {}
    <3>1. f = Event(r.created, NoStatus, InitialStatus(r))
      BY <1>4, <2>2, <2>5 DEF Timeline, Transitions
    <3>2. r.status = "new"
      BY <1>4, <2>1, <2>5, <3>1, NoStatusAssumption DEF Event, InitialStatus, Registrations
    <3> QED BY <1>4, <2>3, <2>4, <3>2
  <2>6. CASE r.logs = ByCode(x)
    <3>1. ASSUME NEW e \in Edits(x), e.at = r.since PROVE r.since <= start
      <4>1. e \in Transitions(r)
        BY <2>6 DEF Edits, Transitions
      <4>2. Event(e.at, e.before, e.after) \in Timeline(r)
        BY <4>1 DEF Timeline
      <4> QED BY <2>2, <3>1, <4>2 DEF Event
    <3> QED BY <1>4, <2>3, <2>4, <3>1
  <2> QED BY <1>3, <2>5, <2>6 DEF ByAsset
<1>8. ASSUME Registrations(r) # {}, NEW approval \in FirstApprovedAt(r)
      PROVE  \E start \in AnalysisStartedAt(r) : start < approval
  <2>1. r.logs = ByCode(x)
    BY <1>3, <1>8 DEF ByAsset, Registrations
  <2>2. AnalysisTold(x) /\ log \subseteq Entry
    BY <1>4 DEF LogKnows, TrackType
  <2> QED BY <1>5, <1>8, <2>1, <2>2, ApprovalLater
<1>9. CurrentNotOverstated' /\ ApprovalAfterAnalysis' /\ RemovalEndsTimeline'
  BY <1>2, <1>4, <1>7, <1>8 DEF CurrentNotOverstated, ApprovalAfterAnalysis, RemovalEndsTimeline
<1> QED BY <1>2, <1>5, <1>6, <1>9 DEF ReportInv

LEMMA ReadRemovalReports == TrackInv /\ ReadRemoval => ReportInv'
<1> SUFFICES ASSUME TrackInv, ReadRemoval PROVE ReportInv'
  OBVIOUS
<1> USE DEF TrackInv
<1>1. PICK e \in log :
        /\ e.type = "remocao"
        /\ report' = [asset |-> e.asset, status |-> e.before, created |-> CreatedAt(e.asset),
                      removed |-> e.at, since |-> 0, read |-> TRUE, logs |-> ByCode(e.asset)]
  BY DEF ReadRemoval
<1>2. PICK r : r = report'
  OBVIOUS
<1>3. PICK x : x = e.asset
  OBVIOUS
<1>4. /\ x \in Assets /\ e.at \in Nat /\ e.at # 0 /\ e.before \in Statuses /\ CreatedAt(x) \in Nat
      /\ ByCode(x) \subseteq Entry /\ log \subseteq Entry
  BY <1>1, <1>3, CreatedMoment DEF TrackType, Entry, Times, ByCode
<1>5. /\ r.asset = x /\ r.status = e.before /\ r.removed = e.at /\ r.read /\ r.logs = ByCode(x)
      /\ r \in Reports
  BY <1>1, <1>2, <1>3, <1>4 DEF Reports, Times
<1>6. ASSUME Registrations(r) # {}, NEW approval \in FirstApprovedAt(r)
      PROVE  \E start \in AnalysisStartedAt(r) : start < approval
  <2>1. AnalysisTold(x)
    BY <1>4 DEF LogKnows
  <2> QED BY <1>4, <1>5, <1>6, <2>1, ApprovalLater
<1>7. ASSUME NEW f \in r.logs, f.type = "remocao", f.at = r.removed, ~f.overtaken
      PROVE  /\ \A g \in Transitions(r) : g.at < r.removed
             /\ \A g \in Latest(Transitions(r)) : g.after = r.status
  <2>1. f = e
    BY <1>1, <1>5, <1>7 DEF Stamps, ByCode
  <2>2. e \in Removals(x) /\ Transitions(r) = Edits(x) /\ RemovalLast(x)
    BY <1>1, <1>3, <1>4, <1>5 DEF Removals, ByCode, Transitions, Edits, LogKnows
  <2> QED BY <1>5, <1>7, <2>1, <2>2 DEF RemovalLast
<1>8. RowRead' /\ CurrentNotOverstated' /\ ApprovalAfterAnalysis' /\ RemovalEndsTimeline'
  BY <1>2, <1>4, <1>5, <1>6, <1>7
     DEF RowRead, CurrentNotOverstated, ApprovalAfterAnalysis, RemovalEndsTimeline
<1> QED BY <1>2, <1>5, <1>8 DEF ReportInv

LEMMA ReportStep == TrackInv /\ ReportInv /\ [TrackNext]_allVars => ReportInv'
<1> SUFFICES ASSUME TrackInv, ReportInv, [TrackNext]_allVars PROVE ReportInv'
  OBVIOUS
<1>1. ASSUME report' = report PROVE ReportInv'
  <2>1. ASSUME report # NoReport, report.removed = 0 \/ ~report.read PROVE RowRead'
    <3>1. PICK x : x = report.asset
      OBVIOUS
    <3>2. x \in Assets /\ store[x] \in Rows \cup {Deleted}
      BY <2>1, <3>1 DEF ReportInv, RowRead
    <3>3. /\ Edits(x) \subseteq Edits(x)'
          /\ CreatedAt(x)' = CreatedAt(x)
          /\ store'[x] \in Rows \cup {Deleted}
      BY <3>2, HistoryGrows
    <3> QED BY <1>1, <2>1, <3>1, <3>3 DEF ReportInv, RowRead
  <2>2. RowRead'
    BY <1>1, <2>1 DEF RowRead
  <2>3. CurrentNotOverstated' /\ ApprovalAfterAnalysis' /\ RemovalEndsTimeline'
    BY <1>1 DEF ReportInv, CurrentNotOverstated, ApprovalAfterAnalysis, RemovalEndsTimeline
  <2> QED BY <1>1, <2>2, <2>3 DEF ReportInv
<1>2. ASSUME NEW w \in Workers,
             Register(w) \/ Change(w) \/ LogRemoval(w) \/ Remove(w) \/ Unlogged(w)
      PROVE  report' = report
  BY <1>2 DEF Register, Change, LogRemoval, Remove, Unlogged
<1>3. UNCHANGED allVars => report' = report
  BY DEF allVars, trackVars
<1> QED BY <1>1, <1>2, <1>3, ReadRowReports, ReadLogsReports, ReadRemovalReports DEF TrackNext

LEMMA AlwaysTracked == TrackSpec => [](TrackInv /\ ReportInv)
<1>1. TrackInit => ReportInv
  BY DEF TrackInit, ReportInv, RowRead, CurrentNotOverstated, ApprovalAfterAnalysis,
         RemovalEndsTimeline
<1>2. TrackInv /\ ReportInv /\ [TrackNext]_allVars => (TrackInv /\ ReportInv)'
  BY TrackStep, ReportStep
<1> QED BY <1>1, <1>2, TrackInitInv, PTL DEF TrackSpec, allVars

-----------------------------------------------------------------------------
(* Every variable has its type, and stamps tell changes and registrations      *)
(* apart, which is what a timeline is ordered by (process_tracking.py:127).    *)
THEOREM TrackingTyped == TrackSpec => []TrackTypeOK
<1>1. TrackInv /\ ReportInv => TrackTypeOK
  BY DEF TrackInv, ReportInv, TrackType, Stamps, TrackTypeOK, Times
<1> QED BY <1>1, AlwaysTracked, PTL

(* The entry stamped last tells the status the row has, however requests       *)
(* overlap (media_assets.py:739, 796-831).                                     *)
THEOREM LogNeverContradicts == TrackSpec => []LogTellsStatus
<1>1. TrackInv => LogTellsStatus
  BY DEF TrackInv, LogTellsStatus, LogKnows, StatusTold, Live
<1> QED BY <1>1, AlwaysTracked, PTL

(* The panel's time in the current status never begins before the row had that *)
(* status (process_tracking.py:131).                                           *)
THEOREM CurrentTimeNotOverstated == TrackSpec => []CurrentNotOverstated
BY AlwaysTracked, PTL DEF ReportInv

(* The panel finds the analysis before the approval of every process the       *)
(* system registered (process_tracking.py:128-130).                            *)
THEOREM ApprovalsFollowAnalysis == TrackSpec => []ApprovalAfterAnalysis
BY AlwaysTracked, PTL DEF ReportInv

(* The removals logged are those that happened (media_assets.py:842-858).      *)
THEOREM RemovalsLogged == TrackSpec => []RemovalsAreReal
<1>1. TrackInv => RemovalsAreReal
  BY DEF TrackInv, RemovalsAreReal, LogKnows, Registered, Removals
<1> QED BY <1>1, AlwaysTracked, PTL

(* A removal that no request overtook is the last event of its timeline        *)
(* (process_tracking.py:218-266).                                              *)
THEOREM RemovalsEndTimelines == TrackSpec => []RemovalEndsTimeline
BY AlwaysTracked, PTL DEF ReportInv
=============================================================================
