----------------------------- MODULE RadiusRules -----------------------------
(* Where a process gets its radius: the rules an administrator keeps           *)
(* (media_rules.py), the registration that applies one (create_media_asset),   *)
(* the radius an administrator previews and then confirms                      *)
(* (radius-reassessment, media_assets.py) and the rule a public draft was      *)
(* opened under (public_submissions.py).                                       *)
(*                                                                             *)
(* A rule has no lock of its own: only the confirmation of a radius reads it   *)
(* FOR UPDATE.  Its updated_at is the instant its last update BEGAN (the       *)
(* trigger set_updated_at writes now()).  Every instant is taken once.         *)
EXTENDS Integers

CONSTANTS
    Types,          \* media types
    Assets, Drafts, \* ids (UUIDs, never reused)
    Workers,        \* concurrent requests
    Radii,          \* radii in metres
    Limits,         \* area limits, in square metres
    Areas,          \* areas a vehicle may have, in square metres
    InitialRules,   \* rules a table may hold when the behaviour begins
    InitialAssets,  \* processes registered before
    LegacyDrafts,   \* drafts an older version left open, without a snapshot
    Start, MaxTime, \* first instant, and the bound on instants
    Absent, Deleted, Finalized, Nothing

ASSUME QuantitiesAssumption ==
    /\ Radii \subseteq Nat \ {0} /\ Limits \subseteq Nat \ {0} /\ Areas \subseteq Nat \ {0}
    /\ MaxTime \in Nat /\ Start \in 0..MaxTime

Times == 0..MaxTime

(* What a rule says.  0 stands for NULL; the limit and the radius above it are *)
(* written together (ck_media_rules_threshold_pair).                           *)
Values ==
    {v \in [base : Radii, limit : Limits \cup {0}, above : Radii \cup {0}, active : BOOLEAN] :
        v.limit = 0 <=> v.above = 0}

(* A row of media_rules.  created stands for the row's id too. *)
Rules == [says : Values, created : Times, updated : Times]

(* A vehicle's area, or the band its owner declared, or neither. *)
Sizes ==
    {s \in [area : Areas \cup {0}, band : {"none", "within", "above"}] :
        s.area # 0 => s.band = "none"}

Vehicles == [type : Types, size : Sizes]
Processes == [type : Types, size : Sizes, radius : Radii]

(* observed: the limit the form displayed, 0 when an old tab does not say.     *)
Open == [vehicle : Vehicles, observed : Limits \cup {0}, snapshot : Values \cup {Nothing}, created : Times]

(* What a preview displayed, and of which vehicle. *)
Previews == [vehicle : Vehicles, registered : Radii, stamp : Times, radius : Radii]

ASSUME InitialRulesAssumption ==
    InitialRules \subseteq {r \in Rules : r.created <= Start /\ r.updated <= Start}
ASSUME InitialAssetsAssumption == InitialAssets \subseteq Processes
ASSUME LegacyDraftsAssumption ==
    LegacyDrafts \subseteq {d \in Open : d.snapshot = Nothing /\ d.created <= Start}
ASSUME NoRecordAssumption ==
    /\ Absent \notin Rules \cup Processes \cup Open
    /\ Deleted \notin Processes \cup {Absent} /\ Finalized \notin Open \cup {Absent}
    /\ Nothing \notin Values \cup Previews

VARIABLES
    now,            \* the last instant taken
    rules,          \* rules[t]: the committed rule of a type, or Absent
    assets,         \* assets[x]: the committed process, Absent or Deleted
    drafts,         \* drafts[d]: the committed draft, Absent or Finalized
    shown,          \* shown[x]: the last preview of x displayed, or Nothing
    tx,             \* tx[w]: the request worker w serves
    opened          \* history: the values under which a draft was opened

vars == <<now, rules, assets, drafts, shown, tx, opened>>

Idle == [pc |-> "idle"]
Requests ==
    [pc : {"edit"}, type : Types, seen : Rules, want : Values, began : Times]
        \cup [pc : {"remove"}, type : Types, seen : Rules]
        \cup [pc : {"register"}, process : Processes]
        \cup [pc : {"preview"}, asset : Assets, seen : Processes]
        \cup [pc : {"rule"}, asset : Assets, sent : Previews]
        \cup [pc : {"confirm"}, asset : Assets, sent : Previews, type : Types, radius : Radii]
        \cup [pc : {"open"}, draft : Open]
        \cup [pc : {"finalize"}, draft : Drafts, process : Processes]

Live == {x \in Assets : assets[x] \in Processes}

Advance(w, t) == tx' = [tx EXCEPT ![w] = t]
Answer(w) == Advance(w, Idle)
Tick == now < MaxTime /\ now' = now + 1

-----------------------------------------------------------------------------
(* calculate_rule_radius.  It refuses a vehicle of unknown area under a rule   *)
(* with a limit.                                                               *)
Computable(v, size) == v.limit # 0 => size.area # 0 \/ size.band # "none"

AboveLimit(v, size) == IF size.area # 0 THEN size.area > v.limit ELSE size.band = "above"

RadiusOf(v, size) == IF v.limit # 0 /\ AboveLimit(v, size) THEN v.above ELSE v.base

(* active_rule_for_type *)
Active(t) == rules[t] # Absent /\ rules[t].says.active

\* A mutant: nobody locks a rule.
RuleFreeAlways(t) == TRUE

(* Row locks of SELECT ... FOR UPDATE, kept until the transaction ends. *)
RuleFree(t) == \A w \in Workers : ~(tx[w].pc = "confirm" /\ tx[w].type = t)
AssetFree(x) == \A w \in Workers : ~(tx[w].pc \in {"rule", "confirm"} /\ tx[w].asset = x)
DraftFree(d) == \A w \in Workers : ~(tx[w].pc = "finalize" /\ tx[w].draft = d)

-----------------------------------------------------------------------------
(* The administrator's rules. *)

CreateRule(w) ==
    \E t \in Types, v \in Values :
        /\ tx[w] = Idle
        /\ Tick
        /\ rules[t] = Absent
        /\ rules' = [rules EXCEPT ![t] = [says |-> v, created |-> now', updated |-> now']]
        /\ UNCHANGED <<assets, drafts, shown, tx, opened>>

(* update_media_rule up to its write: the payload is merged over the row read  *)
(* and validated whole.  The same values stand for another name or description. *)
BeginEdit(w) ==
    \E t \in Types, v \in Values :
        /\ tx[w] = Idle
        /\ Tick
        /\ rules[t] # Absent
        /\ Advance(w, [pc |-> "edit", type |-> t, seen |-> rules[t], want |-> v, began |-> now'])
        /\ UNCHANGED <<rules, assets, drafts, shown, opened>>

SameRow(t, row) == rules[t] # Absent /\ rules[t].created = row.created

(* The columns that differ from what was read, onto the row as it is now.      *)
Merged(t) ==
    [f \in DOMAIN t.want |->
        IF t.want[f] # t.seen.says[f] THEN t.want[f] ELSE rules[t.type].says[f]]

\* A mutant: no constraint on the pair.
CommitEditUnpaired(w) ==
    LET t == tx[w] IN
    /\ t.pc = "edit"
    /\ SameRow(t.type, t.seen) /\ RuleFree(t.type)
    /\ rules' = [rules EXCEPT ![t.type].says = Merged(t), ![t.type].updated = t.began]
    /\ Answer(w)
    /\ UNCHANGED <<now, assets, drafts, shown, opened>>

(* The check constraint refuses a limit without its radius (see Abort).        *)
CommitEdit(w) ==
    LET t == tx[w] IN
    /\ t.pc = "edit"
    /\ SameRow(t.type, t.seen) /\ RuleFree(t.type)
    /\ Merged(t) \in Values
    /\ rules' = [rules EXCEPT ![t.type].says = Merged(t), ![t.type].updated = t.began]
    /\ Answer(w)
    /\ UNCHANGED <<now, assets, drafts, shown, opened>>

(* delete_media_rule up to its write: no process of the type. *)
BeginRemove(w) ==
    \E t \in Types :
        /\ tx[w] = Idle
        /\ Tick
        /\ rules[t] # Absent
        /\ \A x \in Live : assets[x].type # t
        /\ Advance(w, [pc |-> "remove", type |-> t, seen |-> rules[t]])
        /\ UNCHANGED <<rules, assets, drafts, shown, opened>>

CommitRemove(w) ==
    LET t == tx[w] IN
    /\ t.pc = "remove"
    /\ RuleFree(t.type)
    /\ rules' = IF SameRow(t.type, t.seen) THEN [rules EXCEPT ![t.type] = Absent] ELSE rules
    /\ Answer(w)
    /\ UNCHANGED <<now, assets, drafts, shown, opened>>

-----------------------------------------------------------------------------
(* Processes. *)

(* create_media_asset up to its insertion; the rule is read without a lock.    *)
BeginRegister(w) ==
    \E vehicle \in Vehicles :
        LET rule == rules[vehicle.type] IN
        /\ tx[w] = Idle
        /\ Tick
        /\ Active(vehicle.type)
        /\ Computable(rule.says, vehicle.size)
        /\ Advance(w, [pc |-> "register", process |->
             [type |-> vehicle.type, size |-> vehicle.size,
              radius |-> RadiusOf(rule.says, vehicle.size)]])
        /\ UNCHANGED <<rules, assets, drafts, shown, opened>>

CommitRegister(w) ==
    \E x \in Assets :
        /\ tx[w].pc = "register"
        /\ assets[x] = Absent
        /\ assets' = [assets EXCEPT ![x] = tx[w].process]
        /\ Answer(w)
        /\ UNCHANGED <<now, rules, drafts, shown, opened>>

(* The other handlers of a process (see AssetReview): none reads a rule or     *)
(* writes a radius, but any may change the type and the size, or remove it.    *)
Rewrite(w) ==
    \E x \in Live, vehicle \in Vehicles :
        /\ tx[w] = Idle
        /\ Tick
        /\ AssetFree(x)
        /\ assets' = [assets EXCEPT ![x] = [@ EXCEPT !.type = vehicle.type, !.size = vehicle.size]]
        /\ UNCHANGED <<rules, drafts, shown, tx, opened>>

Remove(w) ==
    \E x \in Live :
        /\ tx[w] = Idle
        /\ Tick
        /\ AssetFree(x)
        /\ assets' = [assets EXCEPT ![x] = Deleted]
        /\ UNCHANGED <<rules, drafts, shown, tx, opened>>

-----------------------------------------------------------------------------
(* The radius of a process under the present rule: previewed, then confirmed.  *)

VehicleOf(process) == [type |-> process.type, size |-> process.size]

(* reassessment_preview: a declared band is no area. *)
CanReassess(process) ==
    /\ Active(process.type)
    /\ rules[process.type].says.limit # 0 => process.size.area # 0

PreviewOf(process) ==
    [vehicle |-> VehicleOf(process), registered |-> process.radius,
     stamp |-> rules[process.type].updated,
     radius |-> RadiusOf(rules[process.type].says, process.size)]

(* preview_radius_reassessment reads the process, and then the rule.           *)
BeginPreview(w) ==
    \E x \in Live :
        /\ tx[w] = Idle
        /\ Tick
        /\ Advance(w, [pc |-> "preview", asset |-> x, seen |-> assets[x]])
        /\ UNCHANGED <<rules, assets, drafts, shown, opened>>

Display(w) ==
    LET t == tx[w] IN
    /\ t.pc = "preview"
    /\ CanReassess(t.seen)
    /\ shown' = [shown EXCEPT ![t.asset] = PreviewOf(t.seen)]
    /\ Answer(w)
    /\ UNCHANGED <<now, rules, assets, drafts, opened>>

(* confirm_radius_reassessment: the process is locked, then its rule.          *)
LockAsset(w) ==
    \E x \in Live :
        /\ tx[w] = Idle
        /\ Tick
        /\ shown[x] # Nothing
        /\ AssetFree(x)
        /\ Advance(w, [pc |-> "rule", asset |-> x, sent |-> shown[x]])
        /\ UNCHANGED <<rules, assets, drafts, shown, opened>>

\* A mutant: the stamp of the rule is not compared.
RadiusMatches(x, sent) == assets[x].radius = sent.registered

(* The two expected values the client sends back. *)
PreviewMatches(x, sent) ==
    /\ assets[x].radius = sent.registered
    /\ rules[assets[x].type].updated = sent.stamp

LockRule(w) ==
    LET t == tx[w]
        process == assets[t.asset]
    IN /\ t.pc = "rule"
       /\ RuleFree(process.type)
       /\ CanReassess(process)
       /\ PreviewMatches(t.asset, t.sent)
       /\ Advance(w, [pc |-> "confirm", asset |-> t.asset, sent |-> t.sent, type |-> process.type,
                      radius |-> RadiusOf(rules[process.type].says, process.size)])
       /\ UNCHANGED <<now, rules, assets, drafts, shown, opened>>

CommitConfirm(w) ==
    /\ tx[w].pc = "confirm"
    /\ assets' = [assets EXCEPT ![tx[w].asset].radius = tx[w].radius]
    /\ Answer(w)
    /\ UNCHANGED <<now, rules, drafts, shown, opened>>

-----------------------------------------------------------------------------
(* Public drafts (see PublicDrafts for their protocol). *)

(* validate_public_vehicle_rule *)
VehicleValid(v, vehicle, observed) ==
    /\ v.limit = 0 => vehicle.size.band = "none"
    /\ observed # 0 => observed = v.limit
    /\ Computable(v, vehicle.size)

(* Only a draft without a snapshot has its created_at compared: a new one's is *)
(* the instant its request began, a little early.                              *)
BeginOpen(w) ==
    \E vehicle \in Vehicles, observed \in Limits \cup {0} :
        LET v == rules[vehicle.type].says IN
        /\ tx[w] = Idle
        /\ Tick
        /\ Active(vehicle.type)
        /\ VehicleValid(v, vehicle, observed)
        /\ Advance(w, [pc |-> "open", draft |->
             [vehicle |-> vehicle, observed |-> observed, snapshot |-> v, created |-> now']])
        /\ UNCHANGED <<rules, assets, drafts, shown, opened>>

CommitOpen(w) ==
    \E d \in Drafts :
        /\ tx[w].pc = "open"
        /\ drafts[d] = Absent
        /\ drafts' = [drafts EXCEPT ![d] = tx[w].draft]
        /\ opened' = [opened EXCEPT ![d] = tx[w].draft.snapshot]
        /\ Answer(w)
        /\ UNCHANGED <<now, rules, assets, shown>>

(* area_rule_snapshot: the three values a radius is computed from. *)
Snapshot(v) == <<v.base, v.limit, v.above>>

\* A mutant: an unchanged base radius is enough.
DraftRuleBaseOnly(draft, rule) ==
    draft.snapshot # Nothing => draft.snapshot.base = rule.says.base

(* validate_draft_area_rule: a declared band speaks of the limit its owner     *)
(* saw.  Without a snapshot the stamps decide.                                 *)
DraftRuleUnchanged(draft, rule) ==
    draft.vehicle.size.band # "none" =>
        IF draft.snapshot # Nothing
        THEN Snapshot(draft.snapshot) = Snapshot(rule.says)
        ELSE /\ rule.created <= draft.created
             /\ rule.updated < draft.created
             /\ rule.created <= rule.updated

(* finalize_public_submission up to its insertions; the rule is read without a *)
(* lock, after the files were validated.                                       *)
BeginFinalize(w) ==
    \E d \in Drafts :
        LET draft == drafts[d]
            vehicle == draft.vehicle
            rule == rules[vehicle.type]
        IN /\ tx[w] = Idle
           /\ draft \notin {Absent, Finalized}
           /\ Tick
           /\ DraftFree(d)
           /\ Active(vehicle.type)
           /\ DraftRuleUnchanged(draft, rule)
           /\ VehicleValid(rule.says, vehicle, draft.observed)
           /\ Advance(w, [pc |-> "finalize", draft |-> d, process |->
                [type |-> vehicle.type, size |-> vehicle.size,
                 radius |-> RadiusOf(rule.says, vehicle.size)]])
           /\ UNCHANGED <<rules, assets, drafts, shown, opened>>

CommitFinalize(w) ==
    \E x \in Assets :
        /\ tx[w].pc = "finalize"
        /\ assets[x] = Absent
        /\ assets' = [assets EXCEPT ![x] = tx[w].process]
        /\ drafts' = [drafts EXCEPT ![tx[w].draft] = Finalized]
        /\ Answer(w)
        /\ UNCHANGED <<now, rules, shown, opened>>

(* The request ends without effect: 409 or 422, the row to update is gone, the *)
(* constraint on the pair, a lost connection.                                  *)
Abort(w) ==
    /\ tx[w] # Idle
    /\ Answer(w)
    /\ UNCHANGED <<now, rules, assets, drafts, shown, opened>>

-----------------------------------------------------------------------------
(* When a legacy draft was opened the rule was as it is now, unless a later    *)
(* update says otherwise: then nobody knows.                                   *)
OpenedUnder(draft) ==
    IF draft # Absent /\ rules[draft.vehicle.type].updated < draft.created
    THEN rules[draft.vehicle.type].says ELSE Nothing

Init ==
    /\ now = Start
    /\ rules \in [Types -> InitialRules]
    /\ assets \in [Assets -> InitialAssets \cup {Absent}]
    /\ drafts \in [Drafts -> LegacyDrafts \cup {Absent}]
    /\ shown = [x \in Assets |-> Nothing]
    /\ tx = [w \in Workers |-> Idle]
    /\ opened = [d \in Drafts |-> OpenedUnder(drafts[d])]

Next == \E w \in Workers :
    \/ CreateRule(w) \/ BeginEdit(w) \/ CommitEdit(w) \/ BeginRemove(w) \/ CommitRemove(w)
    \/ BeginRegister(w) \/ CommitRegister(w) \/ Rewrite(w) \/ Remove(w)
    \/ BeginPreview(w) \/ Display(w) \/ LockAsset(w) \/ LockRule(w) \/ CommitConfirm(w)
    \/ BeginOpen(w) \/ CommitOpen(w) \/ BeginFinalize(w) \/ CommitFinalize(w)
    \/ Abort(w)

Spec == Init /\ [][Next]_vars

-----------------------------------------------------------------------------
(* Every variable has its type. *)
TypeOK ==
    /\ now \in Times
    /\ rules \in [Types -> Rules \cup {Absent}]
    /\ assets \in [Assets -> Processes \cup {Absent, Deleted}]
    /\ drafts \in [Drafts -> Open \cup {Absent, Finalized}]
    /\ shown \in [Assets -> Previews \cup {Nothing}]
    /\ tx \in [Workers -> {Idle} \cup Requests]
    /\ opened \in [Drafts -> Values \cup {Nothing}]

(* A confirmed radius is the one the rule in force gives the process as it is, *)
(* at the moment it is committed: the two FOR UPDATE of                        *)
(* confirm_radius_reassessment (media_assets.py:703-706) leave no gap between  *)
(* reading and writing.                                                        *)
ConfirmedIsCurrent ==
    [][\A w \in Workers :
        CommitConfirm(w) =>
            LET process == assets[tx[w].asset] IN
            CanReassess(process) /\ tx[w].radius = RadiusOf(rules[process.type].says, process.size)]_vars

(* If the process kept its type and area since the preview, the radius applied *)
(* is the one displayed: whatever happened to the rule, also twice, also       *)
(* removed and created again, shows in its stamp (media_assets.py:710-712).    *)
UnchangedIsShown ==
    [][\A w \in Workers :
        CommitConfirm(w) /\ VehicleOf(assets[tx[w].asset]) = tx[w].sent.vehicle =>
            tx[w].radius = tx[w].sent.radius]_vars

(* A declared band ("above the limit") gives the radius it meant when the      *)
(* draft was opened, or the draft is not finalized                             *)
(* (public_submissions.py:238-261, README.md:5).                               *)
DraftRadiusKept ==
    [][\A w \in Workers :
        CommitFinalize(w) /\ tx[w].process.size.band # "none" =>
            /\ opened[tx[w].draft] # Nothing
            /\ tx[w].process.radius = RadiusOf(opened[tx[w].draft], tx[w].process.size)]_vars
=============================================================================
