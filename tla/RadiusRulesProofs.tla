--------------------------- MODULE RadiusRulesProofs ---------------------------
(* Proofs about RadiusRules, for every number of types, processes, drafts and  *)
(* workers, and every radius, limit and area.                                  *)
EXTENDS RadiusRules, TLAPS

(* Who has locked a process finds it there. *)
Holding(w) == tx[w].pc \in {"rule", "confirm"}
Held == \A w \in Workers : Holding(w) => assets[tx[w].asset] \in Processes

(* What a confirmation is about to write stays true of the locked process and  *)
(* of the locked rule.                                                         *)
Confirming(w) ==
    tx[w].pc = "confirm" =>
        LET process == assets[tx[w].asset] IN
        /\ tx[w].type = process.type
        /\ CanReassess(process)
        /\ tx[w].radius = RadiusOf(rules[process.type].says, process.size)
        /\ VehicleOf(process) = tx[w].sent.vehicle => tx[w].radius = tx[w].sent.radius

(* Two updates of rules never leave the same stamp: an edit in flight carries  *)
(* an instant of its own.                                                      *)
Editing(w) == tx[w].pc = "edit"
StampsUnique ==
    /\ Start <= now
    /\ \A t \in Types : rules[t] # Absent => rules[t].updated <= now
    /\ \A w \in Workers : Editing(w) =>
         /\ Start < tx[w].began /\ tx[w].began <= now
         /\ \A t \in Types : rules[t] # Absent => rules[t].updated # tx[w].began
         /\ \A v \in Workers : Editing(v) /\ tx[v].began = tx[w].began => v = w

(* As long as a rule keeps the stamp a preview displayed, it gives the vehicle *)
(* previewed the radius displayed.                                             *)
Explained(p) ==
    LET t == p.vehicle.type IN
    /\ p.stamp <= now
    /\ \A w \in Workers : Editing(w) => tx[w].began # p.stamp
    /\ rules[t] # Absent /\ rules[t].updated = p.stamp =>
         p.radius = RadiusOf(rules[t].says, p.vehicle.size)
PreviewsExplained ==
    /\ \A x \in Assets : shown[x] # Nothing => Explained(shown[x])
    /\ \A w \in Workers : Holding(w) => Explained(tx[w].sent)

(* What a draft says of the rule it was opened under.                          *)
DraftKnown(d) ==
    LET draft == drafts[d]
        rule == rules[draft.vehicle.type]
    IN draft \in Open =>
         IF draft.snapshot # Nothing THEN opened[d] = draft.snapshot
         ELSE /\ draft.created <= Start
              /\ rule # Absent /\ rule.updated < draft.created => opened[d] = rule.says

(* What a finalization is about to write stays true of its draft. *)
Finalizing(w) ==
    tx[w].pc = "finalize" =>
        /\ drafts[tx[w].draft] # Absent
        /\ tx[w].process.size.band # "none" =>
             /\ opened[tx[w].draft] # Nothing
             /\ tx[w].process.radius = RadiusOf(opened[tx[w].draft], tx[w].process.size)

DraftsKnown ==
    /\ \A d \in Drafts : DraftKnown(d)
    /\ \A w \in Workers : Finalizing(w)
    /\ \A w \in Workers : tx[w].pc = "open" => tx[w].draft.snapshot # Nothing

ConfirmInv == \A w \in Workers : Confirming(w)
Inv == TypeOK /\ Held /\ ConfirmInv /\ StampsUnique /\ PreviewsExplained /\ DraftsKnown

-----------------------------------------------------------------------------
(* Types. *)

(* What a request holds at each program counter. *)
LEMMA RequestFields ==
    ASSUME TypeOK, NEW w \in Workers
    PROVE  /\ tx[w].pc \in {"edit", "remove"} => tx[w].type \in Types /\ tx[w].seen \in Rules
           /\ tx[w].pc = "edit" => tx[w].want \in Values /\ tx[w].began \in Times
           /\ tx[w].pc = "register" => tx[w].process \in Processes
           /\ tx[w].pc = "preview" => tx[w].asset \in Assets /\ tx[w].seen \in Processes
           /\ tx[w].pc \in {"rule", "confirm"} => tx[w].asset \in Assets /\ tx[w].sent \in Previews
           /\ tx[w].pc = "confirm" => tx[w].type \in Types /\ tx[w].radius \in Radii
           /\ tx[w].pc = "open" => tx[w].draft \in Open
           /\ tx[w].pc = "finalize" => tx[w].draft \in Drafts /\ tx[w].process \in Processes
<1>1. tx[w] \in {Idle} \cup Requests
  BY DEF TypeOK
<1>2. CASE tx[w] = Idle
  BY <1>2 DEF Idle
<1>3. CASE tx[w] \in Requests
  BY <1>3 DEF Requests
<1> QED BY <1>1, <1>2, <1>3

(* A rule gives every vehicle it can measure a radius, and a rule without a    *)
(* limit gives every vehicle one.                                              *)
LEMMA RadiusInRadii ==
    ASSUME NEW v \in Values, NEW size
    PROVE  RadiusOf(v, size) \in Radii
BY QuantitiesAssumption DEF RadiusOf, Values

LEMMA TickNow == TypeOK /\ Tick => now' \in Times /\ now' = now + 1 /\ now \in Nat
BY QuantitiesAssumption DEF TypeOK, Tick, Times

LEMMA ActiveRule ==
    ASSUME TypeOK, NEW t \in Types, Active(t)
    PROVE  rules[t] \in Rules /\ rules[t].says \in Values /\ rules[t].updated \in Times
BY DEF TypeOK, Active, Rules

LEMMA TypeInit == Init => TypeOK
<1> SUFFICES ASSUME Init PROVE TypeOK
  OBVIOUS
<1>1. rules \in [Types -> Rules]
  BY InitialRulesAssumption DEF Init
<1>2. drafts \in [Drafts -> Open \cup {Absent}]
  BY LegacyDraftsAssumption DEF Init
<1>3. ASSUME NEW d \in Drafts PROVE OpenedUnder(drafts[d]) \in Values \cup {Nothing}
  <2>1. CASE drafts[d] = Absent
    BY <2>1 DEF OpenedUnder
  <2>2. CASE drafts[d] \in Open
    <3>1. drafts[d].vehicle.type \in Types
      BY <2>2 DEF Open, Vehicles
    <3>2. rules[drafts[d].vehicle.type].says \in Values
      BY <1>1, <3>1 DEF Rules
    <3> QED BY <3>2 DEF OpenedUnder
  <2> QED BY <1>2, <2>1, <2>2
<1>4. opened \in [Drafts -> Values \cup {Nothing}]
  BY <1>3 DEF Init
<1>5. assets \in [Assets -> Processes \cup {Absent}]
  BY InitialAssetsAssumption DEF Init
<1> QED BY <1>1, <1>2, <1>4, <1>5, QuantitiesAssumption DEF Init, TypeOK, Times

LEMMA TypeStep == TypeOK /\ Held /\ [Next]_vars => TypeOK'
<1> SUFFICES ASSUME TypeOK, Held, [Next]_vars PROVE TypeOK'
  OBVIOUS
<1> USE DEF TypeOK, Answer, Advance
<1>1. CASE UNCHANGED vars
  BY <1>1 DEF vars
<1>2. ASSUME NEW w \in Workers, CreateRule(w) PROVE TypeOK'
  <2>1. PICK t \in Types, v \in Values :
          rules' = [rules EXCEPT ![t] = [says |-> v, created |-> now', updated |-> now']]
    BY <1>2 DEF CreateRule
  <2>2. now' \in Times
    BY <1>2, TickNow DEF CreateRule
  <2>3. [says |-> v, created |-> now', updated |-> now'] \in Rules
    BY <2>2 DEF Rules
  <2> QED BY <1>2, <2>1, <2>2, <2>3 DEF CreateRule
<1>3. ASSUME NEW w \in Workers, BeginEdit(w) PROVE TypeOK'
  <2>1. now' \in Times
    BY <1>3, TickNow DEF BeginEdit
  <2>2. PICK t \in Types, v \in Values :
          /\ rules[t] # Absent
          /\ tx' = [tx EXCEPT ![w] =
               [pc |-> "edit", type |-> t, seen |-> rules[t], want |-> v, began |-> now']]
    BY <1>3 DEF BeginEdit
  <2>3. [pc |-> "edit", type |-> t, seen |-> rules[t], want |-> v, began |-> now'] \in Requests
    BY <2>1, <2>2 DEF Requests
  <2> QED BY <1>3, <2>1, <2>2, <2>3 DEF BeginEdit
<1>4. ASSUME NEW w \in Workers, CommitEdit(w) PROVE TypeOK'
  <2>1. tx[w].type \in Types /\ tx[w].began \in Times /\ rules[tx[w].type] \in Rules
    BY <1>4, RequestFields DEF CommitEdit, SameRow
  <2>2. [rules[tx[w].type] EXCEPT !.says = Merged(tx[w]), !.updated = tx[w].began] \in Rules
    BY <1>4, <2>1 DEF CommitEdit, Rules
  <2>3. rules' = [rules EXCEPT ![tx[w].type] =
                   [rules[tx[w].type] EXCEPT !.says = Merged(tx[w]), !.updated = tx[w].began]]
    BY <1>4, <2>1 DEF CommitEdit
  <2> QED BY <1>4, <2>1, <2>2, <2>3 DEF CommitEdit
<1>5. ASSUME NEW w \in Workers, BeginRemove(w) PROVE TypeOK'
  <2>1. PICK t \in Types :
          /\ rules[t] # Absent
          /\ tx' = [tx EXCEPT ![w] = [pc |-> "remove", type |-> t, seen |-> rules[t]]]
    BY <1>5 DEF BeginRemove
  <2>2. [pc |-> "remove", type |-> t, seen |-> rules[t]] \in Requests
    BY <2>1 DEF Requests
  <2> QED BY <1>5, <2>1, <2>2, TickNow DEF BeginRemove
<1>6. ASSUME NEW w \in Workers, CommitRemove(w) PROVE TypeOK'
  BY <1>6 DEF CommitRemove
<1>7. ASSUME NEW w \in Workers, BeginRegister(w) PROVE TypeOK'
  <2>1. PICK vehicle \in Vehicles :
          /\ Active(vehicle.type)
          /\ tx' = [tx EXCEPT ![w] = [pc |-> "register", process |->
                      [type |-> vehicle.type, size |-> vehicle.size,
                       radius |-> RadiusOf(rules[vehicle.type].says, vehicle.size)]]]
    BY <1>7 DEF BeginRegister
  <2>2. vehicle.type \in Types /\ vehicle.size \in Sizes
    BY DEF Vehicles
  <2>3. RadiusOf(rules[vehicle.type].says, vehicle.size) \in Radii
    BY <2>1, <2>2, ActiveRule, RadiusInRadii
  <2>4. [pc |-> "register", process |->
          [type |-> vehicle.type, size |-> vehicle.size,
           radius |-> RadiusOf(rules[vehicle.type].says, vehicle.size)]] \in Requests
    BY <2>2, <2>3 DEF Requests, Processes
  <2> QED BY <1>7, <2>1, <2>4, TickNow DEF BeginRegister
<1>8. ASSUME NEW w \in Workers, CommitRegister(w) PROVE TypeOK'
  BY <1>8, RequestFields DEF CommitRegister
<1>9. ASSUME NEW w \in Workers, Rewrite(w) PROVE TypeOK'
  <2>1. PICK x \in Live, vehicle \in Vehicles :
          assets' = [assets EXCEPT ![x] = [@ EXCEPT !.type = vehicle.type, !.size = vehicle.size]]
    BY <1>9 DEF Rewrite
  <2>2. x \in Assets /\ [assets[x] EXCEPT !.type = vehicle.type, !.size = vehicle.size] \in Processes
    BY DEF Live, Processes, Vehicles
  <2> QED BY <1>9, <2>1, <2>2, TickNow DEF Rewrite
<1>10. ASSUME NEW w \in Workers, Remove(w) PROVE TypeOK'
  BY <1>10, TickNow DEF Remove, Live
<1>11. ASSUME NEW w \in Workers, BeginPreview(w) PROVE TypeOK'
  <2>1. PICK x \in Live : tx' = [tx EXCEPT ![w] = [pc |-> "preview", asset |-> x, seen |-> assets[x]]]
    BY <1>11 DEF BeginPreview
  <2>2. [pc |-> "preview", asset |-> x, seen |-> assets[x]] \in Requests
    BY DEF Live, Requests
  <2> QED BY <1>11, <2>1, <2>2, TickNow DEF BeginPreview
<1>12. ASSUME NEW w \in Workers, Display(w) PROVE TypeOK'
  <2>1. tx[w].asset \in Assets /\ tx[w].seen \in Processes
    BY <1>12, RequestFields DEF Display
  <2>2. PreviewOf(tx[w].seen) \in Previews
    <3>1. tx[w].seen.type \in Types /\ tx[w].seen.size \in Sizes /\ tx[w].seen.radius \in Radii
      BY <2>1 DEF Processes
    <3>2. rules[tx[w].seen.type].says \in Values /\ rules[tx[w].seen.type].updated \in Times
      BY <1>12, <3>1, ActiveRule DEF Display, CanReassess
    <3> QED BY <3>1, <3>2, RadiusInRadii DEF PreviewOf, Previews, VehicleOf, Vehicles
  <2> QED BY <1>12, <2>1, <2>2 DEF Display
<1>13. ASSUME NEW w \in Workers, LockAsset(w) PROVE TypeOK'
  <2>1. PICK x \in Live :
          shown[x] # Nothing /\ tx' = [tx EXCEPT ![w] = [pc |-> "rule", asset |-> x, sent |-> shown[x]]]
    BY <1>13 DEF LockAsset
  <2>2. [pc |-> "rule", asset |-> x, sent |-> shown[x]] \in Requests
    BY <2>1 DEF Live, Requests
  <2> QED BY <1>13, <2>1, <2>2, TickNow DEF LockAsset
<1>14. ASSUME NEW w \in Workers, LockRule(w) PROVE TypeOK'
  <2> DEFINE process == assets[tx[w].asset]
             radius == RadiusOf(rules[process.type].says, process.size)
             t == [pc |-> "confirm", asset |-> tx[w].asset, sent |-> tx[w].sent,
                   type |-> process.type, radius |-> radius]
  <2>1. tx[w].asset \in Assets /\ tx[w].sent \in Previews /\ process \in Processes
    BY <1>14, RequestFields DEF LockRule, Held, Holding
  <2>2. process.type \in Types
    BY <2>1 DEF Processes
  <2>3. radius \in Radii
    BY <1>14, <2>2, ActiveRule, RadiusInRadii DEF LockRule, CanReassess
  <2>4. t \in Requests
    BY <2>1, <2>2, <2>3 DEF Requests
  <2>5. tx' = [tx EXCEPT ![w] = t] /\ UNCHANGED <<now, rules, assets, drafts, shown, opened>>
    BY <1>14 DEF LockRule
  <2> HIDE DEF t
  <2> QED BY <2>4, <2>5
<1>15. ASSUME NEW w \in Workers, CommitConfirm(w) PROVE TypeOK'
  <2>1. tx[w].asset \in Assets /\ tx[w].radius \in Radii /\ assets[tx[w].asset] \in Processes
    BY <1>15, RequestFields DEF CommitConfirm, Held, Holding
  <2>2. [assets[tx[w].asset] EXCEPT !.radius = tx[w].radius] \in Processes
    BY <2>1 DEF Processes
  <2> QED BY <1>15, <2>1, <2>2 DEF CommitConfirm
<1>16. ASSUME NEW w \in Workers, BeginOpen(w) PROVE TypeOK'
  <2>1. now' \in Times
    BY <1>16, TickNow DEF BeginOpen
  <2>2. PICK vehicle \in Vehicles, observed \in Limits \cup {0} :
          /\ Active(vehicle.type)
          /\ tx' = [tx EXCEPT ![w] = [pc |-> "open", draft |->
                      [vehicle |-> vehicle, observed |-> observed,
                       snapshot |-> rules[vehicle.type].says, created |-> now']]]
    BY <1>16 DEF BeginOpen
  <2>3. rules[vehicle.type].says \in Values
    BY <2>2, ActiveRule DEF Vehicles
  <2>4. [pc |-> "open", draft |->
           [vehicle |-> vehicle, observed |-> observed,
            snapshot |-> rules[vehicle.type].says, created |-> now']] \in Requests
    BY <2>1, <2>3 DEF Requests, Open
  <2> QED BY <1>16, <2>1, <2>2, <2>4 DEF BeginOpen
<1>17. ASSUME NEW w \in Workers, CommitOpen(w) PROVE TypeOK'
  <2>1. tx[w].draft \in Open /\ tx[w].draft.snapshot \in Values \cup {Nothing}
    BY <1>17, RequestFields DEF CommitOpen, Open
  <2> QED BY <1>17, <2>1 DEF CommitOpen
<1>18. ASSUME NEW w \in Workers, BeginFinalize(w) PROVE TypeOK'
  <2>1. PICK d \in Drafts :
          /\ drafts[d] \notin {Absent, Finalized}
          /\ Active(drafts[d].vehicle.type)
          /\ tx' = [tx EXCEPT ![w] = [pc |-> "finalize", draft |-> d, process |->
                      [type |-> drafts[d].vehicle.type, size |-> drafts[d].vehicle.size,
                       radius |-> RadiusOf(rules[drafts[d].vehicle.type].says, drafts[d].vehicle.size)]]]
    BY <1>18 DEF BeginFinalize
  <2> DEFINE vehicle == drafts[d].vehicle
  <2>2. vehicle.type \in Types /\ vehicle.size \in Sizes
    BY <2>1 DEF Open, Vehicles
  <2>3. RadiusOf(rules[vehicle.type].says, vehicle.size) \in Radii
    BY <2>1, <2>2, ActiveRule, RadiusInRadii
  <2>4. [pc |-> "finalize", draft |-> d, process |->
          [type |-> vehicle.type, size |-> vehicle.size,
           radius |-> RadiusOf(rules[vehicle.type].says, vehicle.size)]] \in Requests
    BY <2>2, <2>3 DEF Requests, Processes
  <2> QED BY <1>18, <2>1, <2>4, TickNow DEF BeginFinalize
<1>19. ASSUME NEW w \in Workers, CommitFinalize(w) PROVE TypeOK'
  BY <1>19, RequestFields DEF CommitFinalize
<1>20. ASSUME NEW w \in Workers, Abort(w) PROVE TypeOK'
  BY <1>20 DEF Abort
<1> QED
  BY <1>1, <1>2, <1>3, <1>4, <1>5, <1>6, <1>7, <1>8, <1>9, <1>10, <1>11, <1>12, <1>13, <1>14,
     <1>15, <1>16, <1>17, <1>18, <1>19, <1>20 DEF Next

-----------------------------------------------------------------------------
(* What a step may do to each part of the state. *)

LEMMA NowStep ==
    ASSUME TypeOK, [Next]_vars
    PROVE  now \in Nat /\ now' \in Nat /\ now' \in {now, now + 1}
<1>1. now' = now \/ Tick
  BY DEF Next, vars, CreateRule, BeginEdit, CommitEdit, BeginRemove, CommitRemove, BeginRegister,
     CommitRegister, Rewrite, Remove, BeginPreview, Display, LockAsset, LockRule, CommitConfirm,
     BeginOpen, CommitOpen, BeginFinalize, CommitFinalize, Abort
<1>2. now \in Nat
  BY QuantitiesAssumption DEF TypeOK, Times
<1> QED BY <1>1, <1>2 DEF Tick

(* A worker's request after a step: unchanged, ended, or just begun or moved.  *)
LEMMA RequestStep ==
    ASSUME TypeOK, [Next]_vars, NEW v \in Workers
    PROVE  \/ tx'[v] = tx[v] \/ tx'[v] = Idle
           \/ BeginEdit(v) \/ BeginRemove(v) \/ BeginRegister(v) \/ BeginPreview(v)
           \/ LockAsset(v) \/ LockRule(v) \/ BeginOpen(v) \/ BeginFinalize(v)
<1>1. ASSUME NEW w \in Workers,
             \/ CreateRule(w) \/ CommitEdit(w) \/ CommitRemove(w) \/ CommitRegister(w) \/ Rewrite(w)
             \/ Remove(w) \/ Display(w) \/ CommitConfirm(w) \/ CommitOpen(w) \/ CommitFinalize(w)
             \/ Abort(w)
      PROVE  tx'[v] = tx[v] \/ tx'[v] = Idle
  <2>1. tx' = tx \/ Answer(w)
    BY <1>1 DEF CreateRule, CommitEdit, CommitRemove, CommitRegister, Rewrite, Remove, Display,
       CommitConfirm, CommitOpen, CommitFinalize, Abort
  <2> QED BY <2>1 DEF Answer, Advance, TypeOK
<1>2. ASSUME NEW w \in Workers,
             \/ BeginEdit(w) \/ BeginRemove(w) \/ BeginRegister(w) \/ BeginPreview(w)
             \/ LockAsset(w) \/ LockRule(w) \/ BeginOpen(w) \/ BeginFinalize(w)
      PROVE  tx'[v] = tx[v] \/ v = w
  <2>1. \E t : Advance(w, t)
    BY <1>2 DEF BeginEdit, BeginRemove, BeginRegister, BeginPreview, LockAsset, LockRule, BeginOpen,
       BeginFinalize
  <2> QED BY <2>1 DEF Advance, TypeOK
<1>3. tx' = tx \/ \E w \in Workers :
        \/ CreateRule(w) \/ BeginEdit(w) \/ CommitEdit(w) \/ BeginRemove(w) \/ CommitRemove(w)
        \/ BeginRegister(w) \/ CommitRegister(w) \/ Rewrite(w) \/ Remove(w)
        \/ BeginPreview(w) \/ Display(w) \/ LockAsset(w) \/ LockRule(w) \/ CommitConfirm(w)
        \/ BeginOpen(w) \/ CommitOpen(w) \/ BeginFinalize(w) \/ CommitFinalize(w)
        \/ Abort(w)
  BY DEF Next, vars
<1> QED BY <1>1, <1>2, <1>3

(* A rule changes only when no confirmation has locked it; what is written     *)
(* carries the instant its writer began.                                       *)
LEMMA RulesStep ==
    ASSUME TypeOK, [Next]_vars, NEW t \in Types, rules'[t] # rules[t]
    PROVE  \/ rules'[t] = Absent /\ RuleFree(t)
           \/ rules[t] = Absent /\ rules'[t].updated = now' /\ now' = now + 1
           \/ /\ RuleFree(t) /\ rules[t] # Absent
              /\ \E w \in Workers :
                    Editing(w) /\ rules'[t].updated = tx[w].began /\ tx'[w] = Idle
<1>1. ASSUME NEW w \in Workers, CreateRule(w)
      PROVE  rules[t] = Absent /\ rules'[t].updated = now' /\ now' = now + 1
  BY <1>1 DEF CreateRule, Tick, TypeOK
<1>2. ASSUME NEW w \in Workers, CommitEdit(w)
      PROVE  /\ RuleFree(t) /\ rules[t] # Absent
             /\ Editing(w) /\ rules'[t].updated = tx[w].began /\ tx'[w] = Idle
  <2>1. t = tx[w].type /\ rules[t] \in Rules
    BY <1>2 DEF CommitEdit, SameRow, TypeOK
  <2>2. rules'[t].updated = tx[w].began
    BY <1>2, <2>1 DEF CommitEdit, Rules, TypeOK
  <2> QED BY <1>2, <2>1, <2>2 DEF CommitEdit, SameRow, Editing, Answer, Advance, TypeOK
<1>3. ASSUME NEW w \in Workers, CommitRemove(w)
      PROVE  rules'[t] = Absent /\ RuleFree(t)
  BY <1>3 DEF CommitRemove, TypeOK
<1>4. \E w \in Workers : CreateRule(w) \/ CommitEdit(w) \/ CommitRemove(w)
  BY DEF Next, vars, BeginEdit, BeginRemove, BeginRegister, CommitRegister, Rewrite, Remove,
     BeginPreview, Display, LockAsset, LockRule, CommitConfirm, BeginOpen, CommitOpen,
     BeginFinalize, CommitFinalize, Abort
<1> QED BY <1>1, <1>2, <1>3, <1>4

(* A locked process keeps its type and its size. *)
LEMMA AssetsStep ==
    ASSUME TypeOK, Held, [Next]_vars, NEW x \in Assets, assets[x] \in Processes, ~AssetFree(x)
    PROVE  /\ assets'[x] \in Processes
           /\ assets'[x].type = assets[x].type /\ assets'[x].size = assets[x].size
<1>1. ASSUME NEW w \in Workers, CommitConfirm(w)
      PROVE  /\ assets'[x] \in Processes
             /\ assets'[x].type = assets[x].type /\ assets'[x].size = assets[x].size
  <2>1. tx[w].asset \in Assets /\ tx[w].radius \in Radii
    BY <1>1, RequestFields DEF CommitConfirm
  <2>2. CASE x = tx[w].asset
    BY <1>1, <2>1, <2>2 DEF CommitConfirm, Processes, TypeOK
  <2>3. CASE x # tx[w].asset
    BY <1>1, <2>1, <2>3 DEF CommitConfirm, TypeOK
  <2> QED BY <2>2, <2>3
<1>2. ASSUME NEW w \in Workers, CommitRegister(w) \/ CommitFinalize(w) PROVE assets'[x] = assets[x]
  BY <1>2, NoRecordAssumption DEF CommitRegister, CommitFinalize, TypeOK
<1>3. ASSUME NEW w \in Workers, Rewrite(w) \/ Remove(w) PROVE assets'[x] = assets[x]
  BY <1>3 DEF Rewrite, Remove, TypeOK
<1>4. CASE assets' = assets
  BY <1>4
<1>5. \/ assets' = assets
      \/ \E w \in Workers : \/ CommitConfirm(w) \/ CommitRegister(w) \/ CommitFinalize(w)
                             \/ Rewrite(w) \/ Remove(w)
  BY DEF Next, vars, CreateRule, BeginEdit, CommitEdit, BeginRemove, CommitRemove, BeginRegister,
     BeginPreview, Display, LockAsset, LockRule, BeginOpen, CommitOpen, BeginFinalize, Abort
<1> QED BY <1>1, <1>2, <1>3, <1>4, <1>5

-----------------------------------------------------------------------------
(* Locks. *)

LEMMA HeldInit == Init => Held
BY DEF Init, Held, Holding, Idle

(* A request that holds a lock after a step held it before, or has just taken  *)
(* the process's or the rule's.                                                *)
LEMMA HoldingStep ==
    ASSUME TypeOK, [Next]_vars, NEW v \in Workers, Holding(v)'
    PROVE  \/ tx'[v] = tx[v]
           \/ LockAsset(v) /\ tx'[v].asset \in Live /\ shown[tx'[v].asset] # Nothing
                           /\ tx'[v].sent = shown[tx'[v].asset]
           \/ LockRule(v) /\ Holding(v) /\ tx'[v].asset = tx[v].asset /\ tx'[v].sent = tx[v].sent
<1>1. CASE LockAsset(v)
  <2>1. PICK x \in Live :
          shown[x] # Nothing /\ tx' = [tx EXCEPT ![v] = [pc |-> "rule", asset |-> x, sent |-> shown[x]]]
    BY <1>1 DEF LockAsset, Advance
  <2>2. tx'[v] = [pc |-> "rule", asset |-> x, sent |-> shown[x]]
    BY <2>1 DEF TypeOK
  <2> QED BY <1>1, <2>1, <2>2
<1>2. CASE LockRule(v)
  BY <1>2 DEF LockRule, Advance, TypeOK, Holding
<1>3. CASE \/ BeginEdit(v) \/ BeginRemove(v) \/ BeginRegister(v) \/ BeginPreview(v)
           \/ BeginOpen(v) \/ BeginFinalize(v)
  BY <1>3 DEF BeginEdit, BeginRemove, BeginRegister, BeginPreview, BeginOpen, BeginFinalize,
     Advance, TypeOK, Holding
<1>4. CASE tx'[v] = Idle
  BY <1>4 DEF Holding, Idle
<1> QED BY <1>1, <1>2, <1>3, <1>4, RequestStep

LEMMA HeldStep == TypeOK /\ Held /\ [Next]_vars => Held'
<1> SUFFICES ASSUME TypeOK, Held, [Next]_vars, NEW v \in Workers, Holding(v)'
             PROVE  assets'[tx'[v].asset] \in Processes
  BY DEF Held
<1>1. CASE LockAsset(v) /\ tx'[v].asset \in Live
  BY <1>1 DEF LockAsset, Live
<1>2. CASE Holding(v) /\ tx'[v].asset = tx[v].asset
  <2>1. tx[v].asset \in Assets /\ assets[tx[v].asset] \in Processes
    BY <1>2, RequestFields DEF Held, Holding
  <2>2. ~AssetFree(tx[v].asset)
    BY <1>2 DEF AssetFree, Holding
  <2> QED BY <1>2, <2>1, <2>2, AssetsStep
<1>3. tx'[v] = tx[v] => Holding(v)
  BY DEF Holding
<1> QED BY <1>1, <1>2, <1>3, HoldingStep

LEMMA ConfirmInit == Init => ConfirmInv
BY DEF Init, ConfirmInv, Confirming, Idle

LEMMA ConfirmStep ==
    TypeOK /\ Held /\ ConfirmInv /\ PreviewsExplained /\ [Next]_vars => ConfirmInv'
<1> SUFFICES ASSUME TypeOK, Held, ConfirmInv, PreviewsExplained, [Next]_vars,
                    NEW v \in Workers, tx'[v].pc = "confirm"
             PROVE  Confirming(v)'
  BY DEF ConfirmInv, Confirming
<1>1. CASE LockRule(v)
  <2> DEFINE process == assets[tx[v].asset]
             sent == tx[v].sent
             radius == RadiusOf(rules[process.type].says, process.size)
  <2>1. /\ CanReassess(process) /\ PreviewMatches(tx[v].asset, sent)
        /\ tx'[v] = [pc |-> "confirm", asset |-> tx[v].asset, sent |-> sent,
                     type |-> process.type, radius |-> radius]
        /\ UNCHANGED <<now, rules, assets>>
    BY <1>1 DEF LockRule, Advance, TypeOK
  <2>2. ASSUME VehicleOf(process) = sent.vehicle PROVE radius = sent.radius
    <3>1. sent.vehicle.type = process.type /\ sent.vehicle.size = process.size
      BY <2>2 DEF VehicleOf
    <3>2. Explained(sent)
      BY <1>1 DEF PreviewsExplained, Holding, LockRule
    <3>3. rules[process.type] # Absent /\ rules[process.type].updated = sent.stamp
      BY <2>1 DEF CanReassess, Active, PreviewMatches
    <3> QED BY <3>1, <3>2, <3>3 DEF Explained
  <2>3. /\ tx'[v].asset = tx[v].asset /\ tx'[v].sent = sent /\ tx'[v].type = process.type
        /\ tx'[v].radius = radius
    BY <2>1
  <2>4. assets'[tx'[v].asset] = process /\ CanReassess(process)'
    BY <2>1, <2>3 DEF CanReassess, Active
  <2>5. radius = RadiusOf(rules'[process.type].says, process.size)
    BY <2>1
  <2> QED BY <2>2, <2>3, <2>4, <2>5 DEF Confirming
<1>2. CASE tx'[v] = tx[v]
  <2> DEFINE x == tx[v].asset
  <2>1. x \in Assets /\ tx[v].type \in Types /\ assets[x] \in Processes
    BY <1>2, RequestFields DEF Held, Holding
  <2>2. ~AssetFree(x) /\ ~RuleFree(tx[v].type)
    BY <1>2 DEF AssetFree, RuleFree
  <2>3. assets'[x].type = assets[x].type /\ assets'[x].size = assets[x].size
    BY <2>1, <2>2, AssetsStep
  <2>4. Confirming(v)
    BY DEF ConfirmInv
  <2>5. tx[v].type = assets[x].type /\ rules[tx[v].type] # Absent
    BY <1>2, <2>4 DEF Confirming, CanReassess, Active
  <2>6. rules'[tx[v].type] = rules[tx[v].type]
    BY <2>1, <2>2, <2>5, RulesStep
  <2> QED BY <1>2, <2>3, <2>4, <2>5, <2>6 DEF Confirming, CanReassess, Active, VehicleOf
<1>3. ~LockAsset(v)
  BY DEF LockAsset, Advance, TypeOK
<1>4. Holding(v)'
  BY DEF Holding
<1> QED BY <1>1, <1>2, <1>3, <1>4, HoldingStep

-----------------------------------------------------------------------------
(* Stamps. *)

LEMMA StampsInit == Init => StampsUnique
<1> SUFFICES ASSUME Init PROVE StampsUnique
  OBVIOUS
<1>1. \A t \in Types : rules[t].updated <= now
  BY InitialRulesAssumption DEF Init
<1>2. \A w \in Workers : ~Editing(w)
  BY DEF Init, Editing, Idle
<1>3. Start <= now
  BY QuantitiesAssumption DEF Init
<1> QED BY <1>1, <1>2, <1>3 DEF StampsUnique

(* An edit in flight after a step was in flight before, or has just taken the  *)
(* next instant.                                                               *)
LEMMA EditingStep ==
    ASSUME TypeOK, [Next]_vars, NEW v \in Workers, Editing(v)'
    PROVE  \/ tx'[v] = tx[v] /\ Editing(v)
           \/ /\ now' = now + 1 /\ tx'[v].began = now' /\ UNCHANGED rules
              /\ \A w \in Workers \ {v} : tx'[w] = tx[w]
<1>1. CASE BeginEdit(v)
  BY <1>1 DEF BeginEdit, Tick, Advance, TypeOK
<1>2. CASE \/ BeginRemove(v) \/ BeginRegister(v) \/ BeginPreview(v) \/ LockAsset(v) \/ LockRule(v)
           \/ BeginOpen(v) \/ BeginFinalize(v)
  BY <1>2 DEF BeginRemove, BeginRegister, BeginPreview, LockAsset, LockRule, BeginOpen,
     BeginFinalize, Advance, TypeOK, Editing
<1>3. CASE tx'[v] = Idle
  BY <1>3 DEF Editing, Idle
<1>4. CASE tx'[v] = tx[v]
  BY <1>4 DEF Editing
<1> QED BY <1>1, <1>2, <1>3, <1>4, RequestStep

LEMMA StampsStep == TypeOK /\ StampsUnique /\ [Next]_vars => StampsUnique'
<1> SUFFICES ASSUME TypeOK, StampsUnique, [Next]_vars PROVE StampsUnique'
  OBVIOUS
<1>1. now \in Nat /\ now' \in Nat /\ now' \in {now, now + 1} /\ Start \in Nat
      /\ Start <= now
  BY NowStep, QuantitiesAssumption DEF StampsUnique
<1>2. \A t \in Types : rules[t] # Absent => rules[t].updated \in Nat /\ rules[t].updated <= now
  BY QuantitiesAssumption DEF TypeOK, StampsUnique, Rules, Times
<1>3. \A w \in Workers : Editing(w) => tx[w].began \in Nat
  BY RequestFields, QuantitiesAssumption DEF Editing, Times
<1>4. ASSUME NEW t \in Types, rules'[t] # Absent PROVE rules'[t].updated <= now'
  <2>1. CASE rules'[t] = rules[t]
    BY <1>1, <1>2, <1>4, <2>1
  <2>2. CASE rules'[t] # rules[t]
    BY <1>1, <1>3, <1>4, <2>2, RulesStep DEF StampsUnique
  <2> QED BY <2>1, <2>2
<1>5. ASSUME NEW w \in Workers, Editing(w)'
      PROVE  /\ Start < tx'[w].began /\ tx'[w].began <= now'
             /\ \A t \in Types : rules'[t] # Absent => rules'[t].updated # tx'[w].began
             /\ \A v \in Workers : Editing(v)' /\ tx'[v].began = tx'[w].began => v = w
  <2>1. CASE tx'[w] = tx[w] /\ Editing(w)
    <3>1. Start < tx'[w].began /\ tx'[w].began <= now'
      BY <1>1, <1>3, <2>1 DEF StampsUnique
    <3>2. ASSUME NEW t \in Types, rules'[t] # Absent PROVE rules'[t].updated # tx'[w].began
      <4>1. CASE rules'[t] = rules[t]
        BY <2>1, <3>2, <4>1 DEF StampsUnique
      <4>2. CASE now' = now + 1 /\ rules'[t].updated = now'
        BY <1>1, <1>3, <2>1, <4>2 DEF StampsUnique
      <4>3. CASE \E v \in Workers : Editing(v) /\ rules'[t].updated = tx[v].began /\ tx'[v] = Idle
        <5>1. tx'[w] # Idle
          BY <2>1 DEF Editing, Idle
        <5> QED BY <2>1, <4>3, <5>1 DEF StampsUnique
      <4> QED BY <3>2, <4>1, <4>2, <4>3, RulesStep
    <3>3. ASSUME NEW v \in Workers, Editing(v)', tx'[v].began = tx'[w].began PROVE v = w
      <4>1. CASE tx'[v] = tx[v] /\ Editing(v)
        BY <2>1, <3>3, <4>1 DEF StampsUnique
      <4>2. CASE now' = now + 1 /\ tx'[v].began = now'
        <5>1. tx[w].began <= now /\ tx[w].began \in Nat
          BY <1>3, <2>1 DEF StampsUnique
        <5> QED BY <1>1, <2>1, <3>3, <4>2, <5>1
      <4> QED BY <3>3, <4>1, <4>2, EditingStep
    <3> QED BY <3>1, <3>2, <3>3
  <2>2. CASE /\ now' = now + 1 /\ tx'[w].began = now' /\ UNCHANGED rules
             /\ \A v \in Workers \ {w} : tx'[v] = tx[v]
    <3>1. Start < tx'[w].began
      BY <1>1, <2>2
    <3>2. \A t \in Types : rules'[t] # Absent => rules'[t].updated # tx'[w].began
      BY <1>1, <1>2, <2>2
    <3>3. ASSUME NEW v \in Workers, Editing(v)', tx'[v].began = tx'[w].began, v # w PROVE FALSE
      <4>1. Editing(v) /\ tx'[v] = tx[v]
        BY <2>2, <3>3 DEF Editing
      <4> QED BY <1>1, <1>3, <2>2, <3>3, <4>1 DEF StampsUnique
    <3> QED BY <1>1, <2>2, <3>1, <3>2, <3>3
  <2> QED BY <1>5, <2>1, <2>2, EditingStep
<1> QED BY <1>1, <1>4, <1>5 DEF StampsUnique

-----------------------------------------------------------------------------
(* Previews. *)

LEMMA PreviewsInit == Init => PreviewsExplained
BY DEF Init, PreviewsExplained, Holding, Idle

(* No step makes a rule keep the stamp of a preview and say something else. *)
LEMMA ExplainedStep ==
    ASSUME TypeOK, StampsUnique, [Next]_vars, NEW p \in Previews, Explained(p)
    PROVE  Explained(p)'
<1> DEFINE t == p.vehicle.type
<1>1. t \in Types /\ p.stamp \in Nat /\ now \in Nat /\ now' \in {now, now + 1}
  BY NowStep, QuantitiesAssumption DEF Previews, Vehicles, Times
<1>2. p.stamp <= now'
  BY <1>1 DEF Explained
<1>3. ASSUME NEW w \in Workers, Editing(w)' PROVE tx'[w].began # p.stamp
  <2>1. CASE tx'[w] = tx[w] /\ Editing(w)
    BY <2>1 DEF Explained
  <2>2. CASE now' = now + 1 /\ tx'[w].began = now'
    BY <1>1, <2>2 DEF Explained
  <2> QED BY <1>3, <2>1, <2>2, EditingStep
<1>4. ASSUME rules'[t] # Absent, rules'[t].updated = p.stamp
      PROVE  p.radius = RadiusOf(rules'[t].says, p.vehicle.size)
  <2>1. CASE rules'[t] = rules[t]
    BY <1>4, <2>1 DEF Explained
  <2>2. CASE rules'[t] # rules[t]
    <3>1. rules'[t].updated = now + 1 \/ \E w \in Workers : Editing(w) /\ rules'[t].updated = tx[w].began
      BY <1>1, <1>4, <2>2, RulesStep
    <3> QED BY <1>1, <1>4, <3>1 DEF Explained
  <2> QED BY <2>1, <2>2
<1> QED BY <1>2, <1>3, <1>4 DEF Explained

LEMMA PreviewsStep == TypeOK /\ StampsUnique /\ PreviewsExplained /\ [Next]_vars => PreviewsExplained'
<1> SUFFICES ASSUME TypeOK, StampsUnique, PreviewsExplained, [Next]_vars PROVE PreviewsExplained'
  OBVIOUS
<1>1. ASSUME NEW x \in Assets, shown'[x] # Nothing PROVE Explained(shown[x])'
  <2>1. CASE shown'[x] = shown[x]
    <3>1. shown[x] \in Previews /\ Explained(shown[x])
      BY <1>1, <2>1 DEF TypeOK, PreviewsExplained
    <3>2. \A p \in Previews : Explained(p) => Explained(p)'
      BY ExplainedStep
    <3> QED BY <2>1, <3>1, <3>2 DEF Explained
  <2>2. CASE shown'[x] # shown[x]
    <3>1. PICK w \in Workers : Display(w)
      BY <2>2 DEF Next, vars, CreateRule, BeginEdit, CommitEdit, BeginRemove, CommitRemove,
         BeginRegister, CommitRegister, Rewrite, Remove, BeginPreview, LockAsset, LockRule,
         CommitConfirm, BeginOpen, CommitOpen, BeginFinalize, CommitFinalize, Abort
    <3> DEFINE seen == tx[w].seen
               p == PreviewOf(seen)
    <3>2. shown'[x] = p /\ UNCHANGED <<now, rules>> /\ Active(seen.type)
      BY <2>2, <3>1 DEF Display, CanReassess, TypeOK
    <3>3. seen.type \in Types
      BY <3>1, RequestFields DEF Display, Processes
    <3>4. \A v \in Workers : Editing(v)' => Editing(v) /\ tx'[v] = tx[v]
      BY <3>1 DEF Display, Answer, Advance, TypeOK, Editing, Idle
    <3>5. /\ p.vehicle.type = seen.type /\ p.vehicle.size = seen.size
          /\ p.stamp = rules[seen.type].updated
          /\ p.radius = RadiusOf(rules[seen.type].says, seen.size)
      BY DEF PreviewOf, VehicleOf
    <3>6. rules[seen.type] # Absent
      BY <3>2 DEF Active
    <3> HIDE DEF p, seen
    <3>7. p.stamp <= now
      BY <3>3, <3>5, <3>6 DEF StampsUnique
    <3>8. \A v \in Workers : Editing(v) => tx[v].began # p.stamp
      BY <3>3, <3>5, <3>6 DEF StampsUnique
    <3>9. shown'[x].stamp <= now'
      BY <3>2, <3>7
    <3>10. \A v \in Workers : Editing(v)' => tx'[v].began # shown'[x].stamp
      BY <3>2, <3>4, <3>8
    <3>11. shown'[x].radius = RadiusOf(rules'[shown'[x].vehicle.type].says, shown'[x].vehicle.size)
      BY <3>2, <3>5
    <3> QED BY <3>9, <3>10, <3>11 DEF Explained
  <2> QED BY <2>1, <2>2
<1>2. ASSUME NEW w \in Workers, Holding(w)' PROVE Explained(tx[w].sent)'
  <2>1. PICK p \in Previews : tx'[w].sent = p /\ Explained(p)
    <3>1. CASE Holding(w) /\ tx'[w].sent = tx[w].sent
      BY <3>1, RequestFields DEF PreviewsExplained, Holding
    <3>2. CASE tx'[w].asset \in Live /\ shown[tx'[w].asset] # Nothing /\ tx'[w].sent = shown[tx'[w].asset]
      BY <3>2 DEF PreviewsExplained, TypeOK, Live
    <3>3. tx'[w] = tx[w] => Holding(w)
      BY <1>2 DEF Holding
    <3> QED BY <1>2, <3>1, <3>2, <3>3, HoldingStep
  <2>2. Explained(p)'
    BY <2>1, ExplainedStep
  <2> QED BY <2>1, <2>2 DEF Explained
<1> QED BY <1>1, <1>2 DEF PreviewsExplained

-----------------------------------------------------------------------------
(* Drafts. *)

LEMMA DraftsInit == Init => DraftsKnown
<1> SUFFICES ASSUME Init PROVE DraftsKnown
  OBVIOUS
<1>1. ASSUME NEW d \in Drafts, drafts[d] \in Open PROVE DraftKnown(d)
  <2>1. drafts[d].snapshot = Nothing /\ drafts[d].created <= Start
    BY <1>1, LegacyDraftsAssumption, NoRecordAssumption DEF Init
  <2>2. opened[d] = OpenedUnder(drafts[d])
    BY DEF Init
  <2> QED BY <1>1, <2>1, <2>2, NoRecordAssumption DEF DraftKnown, OpenedUnder
<1>2. \A w \in Workers : tx[w].pc = "idle"
  BY DEF Init, Idle
<1> QED BY <1>1, <1>2 DEF DraftsKnown, DraftKnown, Finalizing

(* A draft stays in the table with what is known of its opening. *)
LEMMA DraftsFrame ==
    ASSUME TypeOK, [Next]_vars, NEW d \in Drafts
    PROVE  \/ drafts'[d] = drafts[d] /\ opened'[d] = opened[d]
           \/ drafts'[d] = Finalized /\ opened'[d] = opened[d]
           \/ /\ drafts[d] = Absent
              /\ \E w \in Workers : /\ tx[w].pc = "open" /\ drafts'[d] = tx[w].draft
                                    /\ opened'[d] = tx[w].draft.snapshot
<1>1. ASSUME NEW w \in Workers, CommitOpen(w)
      PROVE  \/ drafts'[d] = drafts[d] /\ opened'[d] = opened[d]
             \/ /\ drafts[d] = Absent
                /\ tx[w].pc = "open" /\ drafts'[d] = tx[w].draft
                /\ opened'[d] = tx[w].draft.snapshot
  <2>1. PICK e \in Drafts :
          /\ tx[w].pc = "open" /\ drafts[e] = Absent
          /\ drafts' = [drafts EXCEPT ![e] = tx[w].draft]
          /\ opened' = [opened EXCEPT ![e] = tx[w].draft.snapshot]
    BY <1>1 DEF CommitOpen
  <2> QED BY <2>1 DEF TypeOK
<1>2. ASSUME NEW w \in Workers, CommitFinalize(w)
      PROVE  drafts'[d] \in {drafts[d], Finalized} /\ opened'[d] = opened[d]
  BY <1>2 DEF CommitFinalize, TypeOK
<1>3. UNCHANGED <<drafts, opened>> \/ \E w \in Workers : CommitOpen(w) \/ CommitFinalize(w)
  BY DEF Next, vars, CreateRule, BeginEdit, CommitEdit, BeginRemove, CommitRemove, BeginRegister,
     CommitRegister, Rewrite, Remove, BeginPreview, Display, LockAsset, LockRule, CommitConfirm,
     BeginOpen, BeginFinalize, Abort
<1> QED BY <1>1, <1>2, <1>3

(* The radius of a band depends only on what the snapshot keeps. *)
LEMMA SnapshotDecides ==
    ASSUME NEW u \in Values, NEW v \in Values, Snapshot(u) = Snapshot(v), NEW size
    PROVE  RadiusOf(u, size) = RadiusOf(v, size)
BY DEF Snapshot, RadiusOf, AboveLimit

LEMMA DraftsStep == TypeOK /\ StampsUnique /\ DraftsKnown /\ [Next]_vars => DraftsKnown'
<1> SUFFICES ASSUME TypeOK, StampsUnique, DraftsKnown, [Next]_vars PROVE DraftsKnown'
  OBVIOUS
<1>1. ASSUME NEW d \in Drafts, drafts'[d] \in Open PROVE DraftKnown(d)'
  <2>1. CASE drafts'[d] = drafts[d] /\ opened'[d] = opened[d]
    <3> DEFINE draft == drafts[d]
               t == draft.vehicle.type
    <3>1. draft \in Open /\ DraftKnown(d) /\ t \in Types
      BY <1>1, <2>1 DEF DraftsKnown, Open, Vehicles
    <3>2. CASE draft.snapshot # Nothing
      BY <2>1, <3>1, <3>2 DEF DraftKnown
    <3>3. CASE draft.snapshot = Nothing
      <4>1. draft.created <= Start /\ draft.created \in Nat /\ Start \in Nat
        BY <3>1, <3>3, QuantitiesAssumption DEF DraftKnown, Open, Times
      <4>2. ASSUME rules'[t] # Absent, rules'[t].updated < draft.created
            PROVE  rules'[t] = rules[t]
        <5> SUFFICES ASSUME rules'[t] # rules[t] PROVE FALSE
          OBVIOUS
        <5>1. CASE rules'[t].updated = now' /\ now' = now + 1
          <6>1. Start <= now /\ now \in Nat
            BY NowStep DEF StampsUnique
          <6> QED BY <4>1, <4>2, <5>1, <6>1
        <5>2. CASE \E w \in Workers : Editing(w) /\ rules'[t].updated = tx[w].began
          <6>1. PICK w \in Workers : Editing(w) /\ rules'[t].updated = tx[w].began
            BY <5>2
          <6>2. tx[w].began \in Nat /\ Start < tx[w].began
            BY <6>1, RequestFields, QuantitiesAssumption DEF StampsUnique, Editing, Times
          <6> QED BY <4>1, <4>2, <6>1, <6>2
        <5> QED BY <3>1, <4>2, <5>1, <5>2, RulesStep
      <4> QED BY <2>1, <3>1, <3>3, <4>1, <4>2 DEF DraftKnown
    <3> QED BY <3>2, <3>3
  <2>2. CASE \E w \in Workers : /\ tx[w].pc = "open" /\ drafts'[d] = tx[w].draft
                                 /\ opened'[d] = tx[w].draft.snapshot
    BY <2>2 DEF DraftKnown, DraftsKnown
  <2> QED BY <1>1, <2>1, <2>2, DraftsFrame, NoRecordAssumption
<1>2. ASSUME NEW w \in Workers, tx'[w].pc = "finalize" PROVE Finalizing(w)'
  <2>1. CASE tx'[w] = tx[w]
    <3>1. tx[w].draft \in Drafts /\ Finalizing(w)
      BY <1>2, <2>1, RequestFields DEF DraftsKnown
    <3>2. drafts'[tx[w].draft] # Absent /\ opened'[tx[w].draft] = opened[tx[w].draft]
      BY <1>2, <2>1, <3>1, DraftsFrame, NoRecordAssumption DEF Finalizing
    <3> QED BY <1>2, <2>1, <3>1, <3>2 DEF Finalizing
  <2>2. CASE BeginFinalize(w)
    <3>1. PICK d \in Drafts :
            LET draft == drafts[d]
                vehicle == draft.vehicle
                rule == rules[vehicle.type]
            IN /\ draft \notin {Absent, Finalized}
               /\ Active(vehicle.type)
               /\ DraftRuleUnchanged(draft, rule)
               /\ tx' = [tx EXCEPT ![w] = [pc |-> "finalize", draft |-> d, process |->
                    [type |-> vehicle.type, size |-> vehicle.size,
                     radius |-> RadiusOf(rule.says, vehicle.size)]]]
               /\ UNCHANGED <<drafts, opened>>
      BY <2>2 DEF BeginFinalize, Advance
    <3> DEFINE draft == drafts[d]
               size == draft.vehicle.size
               rule == rules[draft.vehicle.type]
    <3>2. draft \in Open /\ draft.vehicle.type \in Types /\ DraftKnown(d)
      BY <3>1 DEF TypeOK, Open, Vehicles, DraftsKnown
    <3>3. rule # Absent /\ rule.says \in Values
      BY <3>1, <3>2, ActiveRule DEF Active
    <3>4. ASSUME size.band # "none"
          PROVE  opened[d] # Nothing /\ RadiusOf(rule.says, size) = RadiusOf(opened[d], size)
      <4>1. CASE draft.snapshot # Nothing
        <5>1. opened[d] = draft.snapshot /\ draft.snapshot \in Values
          BY <3>2, <4>1 DEF DraftKnown, Open
        <5>2. Snapshot(draft.snapshot) = Snapshot(rule.says)
          BY <3>1, <3>4, <4>1 DEF DraftRuleUnchanged
        <5> QED BY <3>3, <4>1, <5>1, <5>2, SnapshotDecides
      <4>2. CASE draft.snapshot = Nothing
        <5>1. rule.updated < draft.created
          BY <3>1, <3>4, <4>2 DEF DraftRuleUnchanged
        <5>2. opened[d] = rule.says
          BY <3>2, <3>3, <4>2, <5>1 DEF DraftKnown
        <5> QED BY <3>3, <5>2, NoRecordAssumption
      <4> QED BY <4>1, <4>2
    <3>5. tx'[w] = [pc |-> "finalize", draft |-> d, process |->
                     [type |-> draft.vehicle.type, size |-> size, radius |-> RadiusOf(rule.says, size)]]
      BY <3>1 DEF TypeOK
    <3>6. UNCHANGED <<drafts, opened>> /\ draft # Absent
      BY <3>1
    <3> HIDE DEF size, rule
    <3> QED BY <3>4, <3>5, <3>6 DEF Finalizing
  <2>3. ~\/ BeginEdit(w) \/ BeginRemove(w) \/ BeginRegister(w) \/ BeginPreview(w)
         \/ LockAsset(w) \/ LockRule(w) \/ BeginOpen(w)
    BY <1>2 DEF BeginEdit, BeginRemove, BeginRegister, BeginPreview, LockAsset, LockRule, BeginOpen,
       Advance, TypeOK
  <2> QED BY <1>2, <2>1, <2>2, <2>3, RequestStep DEF Idle
<1>3. ASSUME NEW w \in Workers, tx'[w].pc = "open" PROVE tx'[w].draft.snapshot # Nothing
  <2>1. CASE tx'[w] = tx[w]
    BY <1>3, <2>1 DEF DraftsKnown
  <2>2. CASE BeginOpen(w)
    <3>1. PICK vehicle \in Vehicles, observed \in Limits \cup {0} :
            /\ Active(vehicle.type)
            /\ tx' = [tx EXCEPT ![w] = [pc |-> "open", draft |->
                 [vehicle |-> vehicle, observed |-> observed,
                  snapshot |-> rules[vehicle.type].says, created |-> now']]]
      BY <2>2 DEF BeginOpen, Advance
    <3>2. rules[vehicle.type].says \in Values
      BY <3>1, ActiveRule DEF Vehicles
    <3>3. tx'[w].draft.snapshot = rules[vehicle.type].says
      BY <3>1 DEF TypeOK
    <3> QED BY <3>2, <3>3, NoRecordAssumption
  <2>3. ~\/ BeginEdit(w) \/ BeginRemove(w) \/ BeginRegister(w) \/ BeginPreview(w)
         \/ LockAsset(w) \/ LockRule(w) \/ BeginFinalize(w)
    BY <1>3 DEF BeginEdit, BeginRemove, BeginRegister, BeginPreview, LockAsset, LockRule,
       BeginFinalize, Advance, TypeOK
  <2> QED BY <1>3, <2>1, <2>2, <2>3, RequestStep DEF Idle
<1> QED BY <1>1, <1>2, <1>3 DEF DraftsKnown, DraftKnown, Finalizing

-----------------------------------------------------------------------------
LEMMA Invariant == Spec => []Inv
<1>1. Init => Inv
  BY TypeInit, HeldInit, ConfirmInit, StampsInit, PreviewsInit, DraftsInit DEF Inv
<1>2. Inv /\ [Next]_vars => Inv'
  BY TypeStep, HeldStep, ConfirmStep, StampsStep, PreviewsStep, DraftsStep DEF Inv
<1> QED BY <1>1, <1>2, PTL DEF Spec

(* Every reachable state is well typed; in particular two edits that each      *)
(* write half of a pair never leave a limit without its radius                 *)
(* (media_rules.py:88-95).                                                     *)
THEOREM RadiusTypeCorrect == Spec => []TypeOK
BY Invariant, PTL DEF Inv

(* No edit of a rule or of a process comes between the reading and the writing *)
(* of a confirmed radius (media_assets.py:703-730).                            *)
THEOREM ConfirmationsAreCurrent == Spec => ConfirmedIsCurrent
<1> DEFINE Current ==
      \A w \in Workers :
        CommitConfirm(w) =>
            LET process == assets[tx[w].asset] IN
            CanReassess(process) /\ tx[w].radius = RadiusOf(rules[process.type].says, process.size)
<1>1. Inv /\ [Next]_vars => [Current]_vars
  BY DEF Inv, ConfirmInv, Confirming, CommitConfirm
<1> QED BY <1>1, Invariant, PTL DEF Spec, ConfirmedIsCurrent

(* The radius of a process that kept its type and area is confirmed as it was  *)
(* displayed, whatever happened to its rule (media_assets.py:710-714).         *)
THEOREM UnchangedAreShown == Spec => UnchangedIsShown
<1> DEFINE Shown ==
      \A w \in Workers :
        CommitConfirm(w) /\ VehicleOf(assets[tx[w].asset]) = tx[w].sent.vehicle =>
            tx[w].radius = tx[w].sent.radius
<1>1. Inv /\ [Next]_vars => [Shown]_vars
  BY DEF Inv, ConfirmInv, Confirming, CommitConfirm
<1> QED BY <1>1, Invariant, PTL DEF Spec, UnchangedIsShown

(* A declared band gives the radius of the rule its draft was opened under     *)
(* (public_submissions.py:238-261, 457-464).                                   *)
THEOREM BandsKeepTheirRadius == Spec => DraftRadiusKept
<1> DEFINE Kept ==
      \A w \in Workers :
        CommitFinalize(w) /\ tx[w].process.size.band # "none" =>
            /\ opened[tx[w].draft] # Nothing
            /\ tx[w].process.radius = RadiusOf(opened[tx[w].draft], tx[w].process.size)
<1>1. Inv /\ [Next]_vars => [Kept]_vars
  BY DEF Inv, DraftsKnown, Finalizing, CommitFinalize
<1> QED BY <1>1, Invariant, PTL DEF Spec, DraftRadiusKept
=============================================================================
