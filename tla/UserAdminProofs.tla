--------------------------- MODULE UserAdminProofs ---------------------------
(* Proofs about UserAdmin, for every set of accounts, usernames and workers. *)
EXTENDS UserAdmin, TLAPS

LEMMA TypeInit == Init => TypeOK
BY UserBoundAssumption DEF Init, TypeOK, Live

LEMMA TypeStep == TypeOK /\ [Next]_vars => TypeOK'
<1> SUFFICES ASSUME TypeOK, [Next]_vars PROVE TypeOK'
  OBVIOUS
<1> USE DEF TypeOK, Requests, Answer, Advance
<1>1. CASE UNCHANGED vars
  BY <1>1 DEF vars
<1>2. ASSUME NEW w \in Workers, Authenticate(w) PROVE TypeOK'
  <2>1. Administrator \in Accounts
    BY DEF Administrator, Accounts, Roles
  <2>2. ActiveAdmins \subseteq Users
    BY DEF ActiveAdmins
  <2> QED BY <1>2, <2>1, <2>2, UserBoundAssumption DEF Authenticate, Count
<1>3. ASSUME NEW w \in Workers, GetTarget(w) PROVE TypeOK'
  <2>1. tx[w] \in Requests
    BY <1>3 DEF GetTarget, Idle
  <2> DEFINE t == [tx[w] EXCEPT !.seen = Target(tx[w]), !.pc = AfterGet(tx[w])]
  <2>2. AfterGet(tx[w]) \in {"count", "write"} /\ Target(tx[w]) \in Accounts
    BY <1>3 DEF AfterGet, GetTarget
  <2>3. t \in Requests
    BY <2>1, <2>2
  <2>4. tx' = [tx EXCEPT ![w] = t] /\ UNCHANGED <<users, requests>>
    BY <1>3 DEF GetTarget
  <2> HIDE DEF t
  <2> QED BY <2>3, <2>4
<1>4. ASSUME NEW w \in Workers, CountAdmins(w) PROVE TypeOK'
  <2>1. tx[w] \in Requests
    BY <1>4 DEF CountAdmins, Idle
  <2> QED BY <1>4, <2>1 DEF CountAdmins
<1>5. ASSUME NEW w \in Workers, CommitCreate(w) PROVE TypeOK'
  <2>1. tx[w] \in Requests
    BY <1>5 DEF CommitCreate, Idle
  <2>2. [role |-> tx[w].want.role, active |-> TRUE] \in Accounts
    BY <2>1 DEF Accounts
  <2> QED BY <1>5, <2>1, <2>2 DEF CommitCreate
<1>6. ASSUME NEW w \in Workers, CommitDelete(w) PROVE TypeOK'
  BY <1>6 DEF CommitDelete
<1>7. ASSUME NEW w \in Workers, CommitUpdate(w) PROVE TypeOK'
  <2>1. tx[w] \in Requests
    BY <1>7 DEF CommitUpdate, Idle
  <2>2. Merged(tx[w]) \in Accounts
    BY <1>7, <2>1 DEF CommitUpdate, Merged, Accounts
  <2> QED BY <1>7, <2>1, <2>2 DEF CommitUpdate
<1>8. ASSUME NEW w \in Workers, Abort(w) PROVE TypeOK'
  BY <1>8 DEF Abort
<1>10. ASSUME NEW w \in Workers, Refuse(w) PROVE TypeOK'
  BY <1>10 DEF Refuse
<1>9. CASE Bootstrap
  <2>1. Administrator \in Accounts
    BY DEF Administrator, Accounts, Roles
  <2> QED BY <1>9, <2>1, UserBoundAssumption DEF Bootstrap, Count
<1> QED BY <1>1, <1>2, <1>3, <1>4, <1>5, <1>6, <1>7, <1>8, <1>9, <1>10 DEF Next

(* Accounts and requests always have their types (users.py:25-105). *)
THEOREM UserTypeCorrect == Spec => []TypeOK
BY TypeInit, TypeStep, PTL DEF Spec

-----------------------------------------------------------------------------
(* Past its checks, a request that targets its own actor changes nothing. *)
SelfUnchanged ==
    \A w \in Workers :
        tx[w].pc \in {"count", "write"} /\ tx[w].kind # "create" /\ tx[w].target = tx[w].actor =>
            tx[w].kind = "update" /\ tx[w].want = Administrator /\ tx[w].seen = Administrator

LEMMA SelfInit == Init => SelfUnchanged
BY DEF Init, SelfUnchanged, Idle

LEMMA SelfStep == TypeOK /\ SelfUnchanged /\ [Next]_vars => SelfUnchanged'
<1> SUFFICES ASSUME TypeOK, SelfUnchanged, [Next]_vars,
                    NEW v \in Workers,
                    tx'[v].pc \in {"count", "write"}, tx'[v].kind # "create",
                    tx'[v].target = tx'[v].actor
             PROVE  /\ tx'[v].kind = "update" /\ tx'[v].want = Administrator
                    /\ tx'[v].seen = Administrator
  BY DEF SelfUnchanged
<1>1. CASE tx'[v] = tx[v]
  BY <1>1 DEF SelfUnchanged
<1>2. CASE tx'[v] = Idle
  BY <1>2 DEF Idle
<1>3. CASE Authenticate(v)
  BY <1>3 DEF Authenticate, Advance, TypeOK
<1>4. CASE GetTarget(v)
  <2>1. tx[v] \in Requests
    BY <1>4 DEF GetTarget, TypeOK, Idle
  <2>2. MayChange(tx[v]) /\ tx'[v].seen = Target(tx[v])
        /\ tx'[v].target = tx[v].target /\ tx'[v].actor = tx[v].actor
        /\ tx'[v].kind = tx[v].kind /\ tx'[v].want = tx[v].want
    <3> DEFINE t == [tx[v] EXCEPT !.seen = Target(tx[v]), !.pc = AfterGet(tx[v])]
    <3>1. t.seen = Target(tx[v]) /\ t.target = tx[v].target /\ t.actor = tx[v].actor
          /\ t.kind = tx[v].kind /\ t.want = tx[v].want
      BY <2>1 DEF Requests
    <3>2. tx'[v] = t /\ MayChange(tx[v])
      BY <1>4 DEF GetTarget, Advance, TypeOK
    <3> QED BY <3>1, <3>2
  <2> QED BY <2>2 DEF MayChange, Target
<1>5. CASE CountAdmins(v)
  <2>1. tx[v] \in Requests /\ tx[v].pc = "count"
    BY <1>5 DEF CountAdmins, TypeOK, Idle
  <2>2. /\ tx'[v].target = tx[v].target /\ tx'[v].actor = tx[v].actor /\ tx'[v].seen = tx[v].seen
        /\ tx'[v].kind = tx[v].kind /\ tx'[v].want = tx[v].want
    BY <1>5, <2>1 DEF CountAdmins, Advance, TypeOK, Idle, Requests
  <2> QED BY <2>1, <2>2 DEF SelfUnchanged
<1> QED
  <2>1. ASSUME NEW w \in Workers, Next, w # v,
               \/ Authenticate(w) \/ GetTarget(w) \/ CountAdmins(w) \/ Refuse(w) \/ CommitCreate(w)
               \/ CommitDelete(w) \/ CommitUpdate(w) \/ Abort(w)
        PROVE  tx'[v] = tx[v]
    BY <2>1 DEF Authenticate, GetTarget, CountAdmins, Refuse, CommitCreate, CommitDelete,
                CommitUpdate, Abort, Answer, Advance, TypeOK
  <2>2. ASSUME Refuse(v) \/ CommitCreate(v) \/ CommitDelete(v) \/ CommitUpdate(v) \/ Abort(v)
        PROVE  tx'[v] = Idle
    BY <2>2 DEF Refuse, CommitCreate, CommitDelete, CommitUpdate, Abort, Answer, TypeOK
  <2>3. ASSUME Bootstrap PROVE tx'[v] = tx[v]
    BY <2>3 DEF Bootstrap
  <2> QED BY <1>1, <1>2, <1>3, <1>4, <1>5, <2>1, <2>2, <2>3 DEF Next, vars

(* A write by a request whose actor is still an active administrator leaves    *)
(* that administrator in place.                                                *)
LEMMA ActorSurvives ==
    ASSUME TypeOK, SelfUnchanged, NEW w \in Workers, CommitDelete(w) \/ CommitUpdate(w),
           tx[w].actor \in ActiveAdmins
    PROVE  tx[w].actor \in ActiveAdmins'
<1> DEFINE t == tx[w]
<1>1. t \in Requests /\ t.pc = "write" /\ t.kind \in {"delete", "update"} /\ t.actor \in Users
  BY DEF CommitDelete, CommitUpdate, TypeOK, Idle, Requests
<1>2. CASE t.target # t.actor
  BY <1>1, <1>2 DEF CommitDelete, CommitUpdate, ActiveAdmins, TypeOK
<1>3. CASE t.target = t.actor
  <2>1. t.kind = "update" /\ t.want = t.seen
    BY <1>1, <1>3 DEF SelfUnchanged
  <2>2. Merged(t) = [role |-> users[t.target].role, active |-> users[t.target].active]
    BY <2>1 DEF Merged
  <2>3. Merged(t) = Administrator
    BY <1>3, <2>2 DEF ActiveAdmins, Administrator
  <2> QED BY <1>1, <1>3, <2>1, <2>3 DEF CommitDelete, CommitUpdate, ActiveAdmins, TypeOK
<1> QED BY <1>2, <1>3

(* Only a committed change or removal can take an administrator away. *)
LEMMA OnlyWritesRemove ==
    ASSUME TypeOK, [Next]_vars, ActiveAdmins # {}, ActiveAdmins' = {}
    PROVE  \E w \in Workers : CommitDelete(w) \/ CommitUpdate(w)
<1>1. CASE UNCHANGED users
  BY <1>1 DEF ActiveAdmins
<1>2. ASSUME NEW u \in Users, NEW row, users[u] = Absent, users' = [users EXCEPT ![u] = row]
      PROVE  FALSE
  <2>1. Administrator \in Accounts
    BY DEF Administrator, Accounts, Roles
  <2>2. \A v \in ActiveAdmins : v # u
    BY <1>2, <2>1, NoAccountAssumption DEF ActiveAdmins
  <2> QED BY <1>2, <2>2 DEF ActiveAdmins, TypeOK
<1>3. ASSUME NEW w \in Workers, CommitCreate(w) PROVE FALSE
  <2>1. tx[w].target \in Users
    BY <1>3 DEF CommitCreate, TypeOK, Idle, Requests
  <2> QED BY <1>2, <1>3, <2>1 DEF CommitCreate
<1>4. CASE Bootstrap
  BY <1>2, <1>4 DEF Bootstrap
<1> QED BY <1>1, <1>3, <1>4 DEF Next, vars, Authenticate, GetTarget, CountAdmins, Refuse, Abort

(* A request whose actor is still an active administrator never removes the    *)
(* last one, however many requests run (users.py:57-58, 87-91).                *)
THEOREM ActorAlwaysKeepsAdmin == Spec => ActorKeepsAdmin
<1>1. TypeOK /\ SelfUnchanged /\ [Next]_vars =>
        [ActiveAdmins # {} /\ ActiveAdmins' = {} =>
           \E w \in Workers : tx[w] # Idle /\ tx'[w] = Idle /\ tx[w].actor \notin ActiveAdmins]_vars
  <2> SUFFICES ASSUME TypeOK, SelfUnchanged, [Next]_vars, ActiveAdmins # {}, ActiveAdmins' = {}
               PROVE  \E w \in Workers :
                         tx[w] # Idle /\ tx'[w] = Idle /\ tx[w].actor \notin ActiveAdmins
    OBVIOUS
  <2>1. PICK w \in Workers : CommitDelete(w) \/ CommitUpdate(w)
    BY OnlyWritesRemove
  <2>2. tx[w].actor \notin ActiveAdmins
    BY <2>1, ActorSurvives
  <2>3. tx[w] # Idle /\ tx'[w] = Idle
    BY <2>1 DEF CommitDelete, CommitUpdate, Answer, TypeOK, Idle
  <2> QED BY <2>2, <2>3
<1> QED BY <1>1, TypeInit, TypeStep, SelfInit, SelfStep, PTL DEF Spec, ActorKeepsAdmin

-----------------------------------------------------------------------------
(* Requests whose actor stays what authentication found.  ActorsHeld allows any *)
(* overlap but one: an active administrator who is acting loses that only by   *)
(* the last step of a request of their own.  Reading the actor FOR UPDATE, or  *)
(* serving requests one at a time, would give it.                              *)
ActorsHeld ==
    \A w \in Workers :
        tx[w] # Idle /\ tx'[w] # Idle /\ tx[w].actor \in ActiveAdmins => tx[w].actor \in ActiveAdmins'

ActorPresent == \A w \in Workers : tx[w] # Idle => tx[w].actor \in ActiveAdmins

(* A request acts for one account, which was an administrator when it began.   *)
LEMMA ActorOfRequest ==
    ASSUME TypeOK, [Next]_vars, NEW v \in Workers, tx'[v] # Idle
    PROVE  /\ tx[v] # Idle => tx'[v].actor = tx[v].actor
           /\ tx[v] = Idle => tx'[v].actor \in ActiveAdmins'
<1>1. CASE UNCHANGED vars
  BY <1>1 DEF vars
<1>2. CASE Bootstrap
  BY <1>2 DEF Bootstrap
<1>3. ASSUME NEW w \in Workers, Authenticate(w)
      PROVE  /\ tx[v] # Idle => tx'[v].actor = tx[v].actor
             /\ tx[v] = Idle => tx'[v].actor \in ActiveAdmins'
  <2>1. CASE v = w
    BY <1>3, <2>1 DEF Authenticate, Advance, ActiveAdmins, TypeOK
  <2>2. CASE v # w
    BY <1>3, <2>2 DEF Authenticate, Advance, TypeOK
  <2> QED BY <2>1, <2>2
<1>4. ASSUME NEW w \in Workers, GetTarget(w) \/ CountAdmins(w)
      PROVE  tx[v] # Idle /\ tx'[v].actor = tx[v].actor
  <2>1. tx[w] \in Requests /\ tx[w] # Idle
    BY <1>4 DEF GetTarget, CountAdmins, TypeOK, Idle
  <2>2. \A u \in Workers \ {w} : tx'[u] = tx[u]
    BY <1>4 DEF GetTarget, CountAdmins, Advance, TypeOK
  <2>3. tx'[w].actor = tx[w].actor
    <3>1. CASE GetTarget(w)
      BY <2>1, <3>1 DEF GetTarget, Advance, TypeOK, Requests
    <3>2. CASE CountAdmins(w)
      BY <2>1, <3>2 DEF CountAdmins, Advance, TypeOK, Requests
    <3> QED BY <1>4, <3>1, <3>2
  <2> QED BY <2>1, <2>2, <2>3
<1>5. ASSUME NEW w \in Workers,
             Refuse(w) \/ CommitCreate(w) \/ CommitDelete(w) \/ CommitUpdate(w) \/ Abort(w)
      PROVE  tx'[v] = tx[v]
  BY <1>5 DEF Refuse, CommitCreate, CommitDelete, CommitUpdate, Abort, Answer, TypeOK
<1> QED BY <1>1, <1>2, <1>3, <1>4, <1>5 DEF Next

(* With any number of requests in flight the promise of users.py:66 holds as   *)
(* long as nobody takes administration from an account that is acting: once    *)
(* there is an active administrator there always is one.                       *)
THEOREM HeldAdminRemains == Spec /\ [][ActorsHeld]_vars => AdminRemains
<1>1. Init => ActorPresent
  BY DEF Init, ActorPresent
<1>2. TypeOK /\ ActorPresent /\ [Next]_vars /\ [ActorsHeld]_vars => ActorPresent'
  <2> SUFFICES ASSUME TypeOK, ActorPresent, [Next]_vars, [ActorsHeld]_vars,
                      NEW v \in Workers, tx'[v] # Idle
               PROVE  tx'[v].actor \in ActiveAdmins'
    BY DEF ActorPresent
  <2>1. CASE UNCHANGED vars
    BY <2>1 DEF vars, ActorPresent, ActiveAdmins
  <2>2. CASE ActorsHeld
    BY <2>2, ActorOfRequest DEF ActorsHeld, ActorPresent
  <2> QED BY <2>1, <2>2
<1>3. TypeOK /\ SelfUnchanged /\ ActorPresent /\ [Next]_vars =>
        [ActiveAdmins # {} => ActiveAdmins' # {}]_vars
  <2> SUFFICES ASSUME TypeOK, SelfUnchanged, ActorPresent, [Next]_vars, ActiveAdmins # {},
                      ActiveAdmins' = {}
               PROVE  FALSE
    OBVIOUS
  <2>1. PICK w \in Workers : CommitDelete(w) \/ CommitUpdate(w)
    BY OnlyWritesRemove
  <2>2. tx[w].actor \in ActiveAdmins
    BY <2>1 DEF CommitDelete, CommitUpdate, ActorPresent, Idle
  <2> QED BY <2>1, <2>2, ActorSurvives
<1> QED BY <1>1, <1>2, <1>3, TypeInit, TypeStep, SelfInit, SelfStep, PTL DEF Spec, AdminRemains

LEMMA SerialHoldsActors ==
    ASSUME \A v, w \in Workers : v = w, TypeOK, [Next]_vars
    PROVE  ActorsHeld
<1> SUFFICES ASSUME NEW v \in Workers, tx[v] # Idle, tx'[v] # Idle, tx[v].actor \in ActiveAdmins
             PROVE  tx[v].actor \in ActiveAdmins'
  BY DEF ActorsHeld
<1>1. CASE UNCHANGED vars
  BY <1>1 DEF vars, ActiveAdmins
<1>2. CASE Bootstrap
  BY <1>2 DEF Bootstrap, ActiveAdmins, TypeOK
<1>3. CASE Authenticate(v) \/ GetTarget(v) \/ CountAdmins(v)
  BY <1>3 DEF Authenticate, GetTarget, CountAdmins, ActiveAdmins
<1>4. CASE Refuse(v) \/ CommitCreate(v) \/ CommitDelete(v) \/ CommitUpdate(v) \/ Abort(v)
  BY <1>4 DEF Refuse, CommitCreate, CommitDelete, CommitUpdate, Abort, Answer, TypeOK
<1> QED BY <1>1, <1>2, <1>3, <1>4 DEF Next

(* With one worker the promise of users.py:66 holds.  The run UserAdminOverlap  *)
(* shows that it does not with two.                                            *)
THEOREM SerialAdminRemains ==
    ASSUME \A v, w \in Workers : v = w
    PROVE  Spec => AdminRemains
<1>1. TypeOK /\ [Next]_vars => [ActorsHeld]_vars
  BY SerialHoldsActors
<1>2. Spec => [][ActorsHeld]_vars
  BY <1>1, TypeInit, TypeStep, PTL DEF Spec
<1> QED BY <1>2, HeldAdminRemains, PTL
=============================================================================
