------------------------------ MODULE UserAdmin ------------------------------
(* Accounts of the panel: app/api/routes/users.py, the authentication that     *)
(* guards it (core/security.py) and the bootstrap command (bootstrap.py).      *)
(* A worker serves one request in one READ COMMITTED transaction and takes no  *)
(* lock: it reads its actor, reads its target, maybe counts, and writes.       *)
EXTENDS Integers, FiniteSets

CONSTANTS
    Users,          \* account ids (UUIDs, never reused)
    Username,       \* Username[u]: unique among the accounts that exist
    BootName,       \* BOOTSTRAP_ADMIN_USERNAME
    Workers,
    MaxRequests,    \* bound: requests served over a behaviour
    Absent, Deleted

ASSUME UsernameAssumption == DOMAIN Username = Users
ASSUME UserBoundAssumption == MaxRequests \in Nat

(* "analyst" stands for both roles without administration. *)
Roles == {"admin", "analyst"}
Accounts == [role : Roles, active : BOOLEAN]

ASSUME NoAccountAssumption ==
    Absent # Deleted /\ Absent \notin Accounts /\ Deleted \notin Accounts

VARIABLES
    users,          \* the committed table
    tx,             \* tx[w]: the request worker w serves
    requests

vars == <<users, tx, requests>>

Live == {u \in Users : users[u] \in Accounts}
Administrator == [role |-> "admin", active |-> TRUE]
ActiveAdmins == {u \in Users : users[u] = Administrator}

Idle == [pc |-> "idle"]
Requests ==
    [pc : {"get", "count", "write"}, kind : {"create", "delete", "update"}, actor : Users, target : Users,
     seen : Accounts, want : Accounts]

NameFree(name) == \A u \in Live : Username[u] # name

Count == requests < MaxRequests /\ requests' = requests + 1
Answer(w) == tx' = [tx EXCEPT ![w] = Idle]
Advance(w, t) == tx' = [tx EXCEPT ![w] = t]

-----------------------------------------------------------------------------
(* require_roles("admin"): get_current_user reads the actor once, at the start *)
(* of the request, and nothing reads it again.                                 *)
Authenticate(w) ==
    \E actor \in ActiveAdmins, target \in Users, kind \in {"create", "delete", "update"},
       want \in Accounts :
        /\ tx[w] = Idle
        /\ Count
        /\ Advance(w, [pc |-> IF kind = "create" THEN "write" ELSE "get", kind |-> kind,
                       actor |-> actor, target |-> target, seen |-> Administrator, want |-> want])
        /\ UNCHANGED users

(* session.get: the actor's own account comes from the session's identity map, *)
(* as authentication read it.                                                  *)
Target(t) == IF t.target = t.actor THEN Administrator ELSE users[t.target]

\* A mutant: an administrator may change their own account.
MayChangeSelf(t) == TRUE

(* The 409 of both handlers against acting on one's own account. *)
MayChange(t) ==
    t.target = t.actor => t.kind = "update" /\ t.want = Administrator

\* A mutant: no 404.
GetTargetUnchecked(w) ==
    LET t == tx[w] IN
    /\ t.pc = "get"
    /\ Advance(w, [t EXCEPT !.seen = Target(t), !.pc = "write"])
    /\ UNCHANGED <<users, requests>>

(* Deleting an active administrator counts the administrators first. *)
AfterGet(t) == IF t.kind = "delete" /\ Target(t) = Administrator THEN "count" ELSE "write"

GetTarget(w) ==
    LET t == tx[w] IN
    /\ t.pc = "get"
    /\ Target(t) \in Accounts
    /\ MayChange(t)
    /\ Advance(w, [t EXCEPT !.seen = Target(t), !.pc = AfterGet(t)])
    /\ UNCHANGED <<users, requests>>

CountAdmins(w) ==
    /\ tx[w].pc = "count"
    /\ Cardinality(ActiveAdmins) > 1
    /\ Advance(w, [tx[w] EXCEPT !.pc = "write"])
    /\ UNCHANGED <<users, requests>>

(* 404, or one of the two 409. *)
Refuse(w) ==
    /\ \/ tx[w].pc = "get" /\ ~(Target(tx[w]) \in Accounts /\ MayChange(tx[w]))
       \/ tx[w].pc = "count" /\ Cardinality(ActiveAdmins) <= 1
    /\ Answer(w)
    /\ UNCHANGED <<users, requests>>

(* DELETE ... WHERE id: a row already gone only warns. *)
CommitDelete(w) ==
    /\ tx[w].pc = "write" /\ tx[w].kind = "delete"
    /\ users' = [users EXCEPT ![tx[w].target] = Deleted]
    /\ Answer(w)
    /\ UNCHANGED requests

(* INSERT of a new, active account; the unique index refuses a taken username. *)
CommitCreate(w) ==
    LET t == tx[w] IN
    /\ t.pc = "write" /\ t.kind = "create"
    /\ users[t.target] = Absent
    /\ NameFree(Username[t.target])
    /\ users' = [users EXCEPT ![t.target] = [role |-> t.want.role, active |-> TRUE]]
    /\ Answer(w)
    /\ UNCHANGED requests

(* UPDATE of the columns that differ from what was read. *)
Merged(t) ==
    [role |-> IF t.want.role # t.seen.role THEN t.want.role ELSE users[t.target].role,
     active |-> IF t.want.active # t.seen.active THEN t.want.active ELSE users[t.target].active]

CommitUpdate(w) ==
    /\ tx[w].pc = "write" /\ tx[w].kind = "update"
    /\ users[tx[w].target] \in Accounts
    /\ users' = [users EXCEPT ![tx[w].target] = Merged(tx[w])]
    /\ Answer(w)
    /\ UNCHANGED requests

(* An UPDATE of a row that is gone (StaleDataError), a username or an e-mail   *)
(* already taken, a lost connection: the transaction rolls back.               *)
Abort(w) ==
    /\ tx[w] # Idle
    /\ Answer(w)
    /\ UNCHANGED <<users, requests>>

(* ensure_admin: nothing happens while an account has the bootstrap username,  *)
(* whatever its role and whether it is active.                                 *)
Bootstrap ==
    \E u \in Users :
        /\ Count
        /\ Username[u] = BootName
        /\ users[u] = Absent
        /\ NameFree(BootName)
        /\ users' = [users EXCEPT ![u] = Administrator]
        /\ UNCHANGED tx

-----------------------------------------------------------------------------
Init ==
    /\ users \in [Users -> Accounts \cup {Absent}]
    /\ \A u, v \in Live : u # v => Username[u] # Username[v]
    /\ tx = [w \in Workers |-> Idle]
    /\ requests = 0

Next ==
    \/ Bootstrap
    \/ \E w \in Workers :
        \/ Authenticate(w) \/ GetTarget(w) \/ CountAdmins(w) \/ Refuse(w)
        \/ CommitCreate(w) \/ CommitDelete(w) \/ CommitUpdate(w) \/ Abort(w)

Spec == Init /\ [][Next]_vars

-----------------------------------------------------------------------------
(* Every variable has its type. *)
TypeOK ==
    /\ users \in [Users -> Accounts \cup {Absent, Deleted}]
    /\ tx \in [Workers -> {Idle} \cup Requests]
    /\ requests \in 0..MaxRequests

(* The last active administrator never falls to a request whose own actor is   *)
(* still one (users.py:57-58, 87-91): whatever else runs, two requests must    *)
(* overlap, one of them acting for an administrator who no longer is.          *)
ActorKeepsAdmin ==
    [][ActiveAdmins # {} /\ ActiveAdmins' = {} =>
        \E w \in Workers : tx[w] # Idle /\ tx'[w] = Idle /\ tx[w].actor \notin ActiveAdmins]_vars

(* Once there is an active administrator there always is one (users.py:66).    *)
AdminRemains == [][ActiveAdmins # {} => ActiveAdmins' # {}]_vars
=============================================================================
