------------------------- MODULE EntityCalls_proofs --------------------------
(***************************************************************************)
(* What the modules that follow one call about Accounts and Identities     *)
(* promise, proved module by module, and what all modules promise.         *)
(***************************************************************************)
EXTENDS AssetCalls_proofs

-----------------------------------------------------------------------------
(* Accounts *)

LEMMA AccountsInit == Accounts!Init => AccountsInv
<1> SUFFICES ASSUME Accounts!Init PROVE AccountsInv
  OBVIOUS
<1> DEFINE kind == [k \in AccountKeys |-> IF k = First THEN "primary" ELSE "secondary"]
<1>1. /\ chain.kind = kind /\ call = Accounts!Idle /\ \E s \in Scopes : chain.scope = [k \in AccountKeys |-> s]
      /\ chain \in [kind : {kind}, scope : {[k \in AccountKeys |-> s] : s \in Scopes}, frozen : BOOLEAN]
  BY DEF Accounts!Init
<1>2. kind \in [AccountKeys -> Accounts!Kinds] /\ chain.scope \in [AccountKeys -> Scopes]
  BY <1>1 DEF Accounts!Kinds
<1>3. AccountsOne(kind)
  BY AccountAssumption DEF AccountsOne
<1> HIDE DEF kind
<1>4. chain \in Accounts!Chains
  BY <1>1, <1>2 DEF Accounts!Chains
<1> QED BY <1>1, <1>3, <1>4 DEF AccountsInv, AccountsTyped, AccountsCall, Accounts!Idle, Idle, Accounts!NoArgs, NoArgs

(* The primary Account stays when others go.                               *)
LEMMA AccountsGoes ==
  ASSUME AccountsTyped, NEW keys, \A k \in keys : Accounts!Kind(k) = "secondary", chain' = Accounts!Gone(keys) PROVE AccountsTyped'
<1> DEFINE kind == [k \in AccountKeys |-> IF k \in keys THEN "none" ELSE chain.kind[k]]
<1>1. chain' = [chain EXCEPT !.kind = kind]
  BY DEF Accounts!Gone
<1>2. kind \in [AccountKeys -> Accounts!Kinds]
  BY DEF AccountsTyped, Accounts!Chains, Accounts!Kinds
<1>3. \A k \in AccountKeys : kind[k] = "primary" <=> chain.kind[k] = "primary"
  BY DEF Accounts!Kind
<1> HIDE DEF kind
<1>4. chain' \in Accounts!Chains /\ chain'.kind = kind
  BY <1>1, <1>2 DEF AccountsTyped, Accounts!Chains
<1> QED BY <1>3, <1>4 DEF AccountsTyped, AccountsOne

LEMMA AccountsStages ==
  ASSUME AccountsCall
  PROVE  /\ call.op = "none" => call = Idle
         /\ [call EXCEPT !.stale = TRUE].op = call.op
         /\ call.op = "leave" => AccountsLeave
         /\ call.op = "remove" => AccountsRemove
         /\ call.op = "scope" => AccountsScope
         /\ call.op = "freeze" => AccountsFreeze
BY DEF AccountsCall, AccountsLeave, AccountsRemove, AccountsScope, AccountsFreeze, Of, Idle

LEMMA AccountsStale ==
  ASSUME AccountsCall, NEW after, Accounts!Happens(after) PROVE AccountsCall'
<1>1. CASE call = Idle
  BY <1>1 DEF Accounts!Happens, AccountsCall, Idle
<1>2. CASE call # Idle
  <2>1. call' = [call EXCEPT !.stale = TRUE]
    BY <1>2, AccountsStages DEF Accounts!Happens
  <2> QED BY <1>2, <2>1 DEF AccountsCall, AccountsLeave, Fresh, Of, AccountsRemove, AccountsScope, AccountsFreeze
<1> QED BY <1>1, <1>2

LEMMA AccountsNext == AccountsInv /\ Accounts!Next => AccountsInv'
<1> SUFFICES ASSUME AccountsInv, Accounts!Next PROVE AccountsInv'
  OBVIOUS
<1> USE DEF Idle, NoArgs, Accounts!Idle, Accounts!NoArgs, Accounts!Calls, Accounts!Answers, Accounts!Check, Accounts!Keep,
        Accounts!Refuse, Accounts!Built, Accounts!Dispatches
<1>0. AccountsCall /\ AccountsTyped
  BY DEF AccountsInv
<1>1. ASSUME UNCHANGED chain, AccountsCall' PROVE AccountsInv'
  BY <1>0, <1>1 DEF AccountsInv, AccountsTyped, Accounts!Chains, AccountsOne
<1>2. ASSUME NEW after, Accounts!Happens(after), AccountsTyped' PROVE AccountsInv'
  BY <1>0, <1>2, AccountsStale DEF AccountsInv
<1>3. ASSUME AccountsTyped', call' = Idle PROVE AccountsInv'
  BY <1>3 DEF AccountsInv, AccountsCall
<1>4. ASSUME UNCHANGED chain, call' = Idle PROVE AccountsInv'
  BY <1>1, <1>4 DEF AccountsCall
<1>5. ASSUME NEW signer \in AccountKeys, Accounts!Leave(signer) PROVE AccountsInv'
  <2>1. AccountsLeave'
    BY <1>5 DEF Accounts!Leave, AccountsLeave, Of
  <2> QED BY <1>1, <1>5, <2>1 DEF Accounts!Leave, AccountsCall
<1>6. ASSUME NEW signer \in AccountKeys, NEW keys \in SUBSET AccountKeys, Accounts!Remove(signer, keys) PROVE AccountsInv'
  <2>1. AccountsRemove'
    BY <1>6 DEF Accounts!Remove, AccountsRemove, Of, Accounts!Member, Accounts!Kind
  <2> QED BY <1>1, <1>6, <2>1 DEF Accounts!Remove, AccountsCall
<1>7. ASSUME NEW signer \in AccountKeys, NEW keys \in SUBSET AccountKeys, NEW scope \in Scopes, Accounts!SetScope(signer, keys, scope) PROVE AccountsInv'
  <2>1. AccountsScope'
    BY <1>7 DEF Accounts!SetScope, AccountsScope, Of
  <2> QED BY <1>1, <1>7, <2>1 DEF Accounts!SetScope, AccountsCall
<1>8. ASSUME NEW signer \in AccountKeys, NEW on \in BOOLEAN, Accounts!Freeze(signer, on) PROVE AccountsInv'
  <2>1. AccountsFreeze'
    BY <1>8 DEF Accounts!Freeze, AccountsFreeze, Of, Accounts!Member, Accounts!Kind
  <2> QED BY <1>1, <1>8, <2>1 DEF Accounts!Freeze, AccountsCall
<1>9. CASE Accounts!ReadFrozen /\ call' # Idle
  <2>1. CASE AccountsLeave
    <3>1. call' = [call EXCEPT !.left = @ \ {"frozen"}] /\ chain' = chain
      BY <1>9, <2>1 DEF Accounts!ReadFrozen, AccountsLeave, Of
    <3>2. AccountsLeave'
      BY <2>1, <3>1 DEF AccountsLeave, Of, Fresh, Accounts!Kind
    <3> QED BY <1>1, <3>1, <3>2 DEF AccountsCall
  <2>2. CASE AccountsRemove
    <3>1. call' = [call EXCEPT !.left = @ \ {"frozen"}] /\ chain' = chain
      BY <1>9, <2>2 DEF Accounts!ReadFrozen, AccountsRemove, Of
    <3>2. AccountsRemove'
      BY <2>2, <3>1 DEF AccountsRemove, Of, Fresh, Accounts!Member, Accounts!Kind, Accounts!Secondary
    <3> QED BY <1>1, <3>1, <3>2 DEF AccountsCall
  <2>3. CASE AccountsScope
    <3>1. call' = [call EXCEPT !.left = @ \ {"frozen"}] /\ chain' = chain
      BY <1>9, <2>3 DEF Accounts!ReadFrozen, AccountsScope, Of
    <3>2. AccountsScope'
      BY <2>3, <3>1 DEF AccountsScope, Of, Fresh, Accounts!Primary, Accounts!Kind, Accounts!Secondary
    <3> QED BY <1>1, <3>1, <3>2 DEF AccountsCall
  <2>4. CASE AccountsFreeze
    <3>1. call' = [call EXCEPT !.left = @ \ {"frozen"}] /\ chain' = chain
      BY <1>9, <2>4 DEF Accounts!ReadFrozen, AccountsFreeze, Of
    <3>2. AccountsFreeze'
      BY <2>4, <3>1 DEF AccountsFreeze, Of, Fresh, Accounts!Member, Accounts!Kind
    <3> QED BY <1>1, <3>1, <3>2 DEF AccountsCall
  <2>5. "frozen" \in call.left
    BY <1>9 DEF Accounts!ReadFrozen
  <2> QED BY <1>0, <2>1, <2>2, <2>3, <2>4, <2>5 DEF AccountsCall, Idle
<1>10. CASE Accounts!ReadRecords /\ call' # Idle
  <2>1. CASE AccountsLeave
    <3>1. call' = [call EXCEPT !.left = @ \ {"records"}] /\ chain' = chain /\ Accounts!Secondary({call.args.signer})
      BY <1>10, <2>1 DEF Accounts!ReadRecords, AccountsLeave, Of
    <3>2. AccountsLeave'
      BY <2>1, <3>1 DEF AccountsLeave, Of, Fresh, Accounts!Kind, Accounts!Secondary
    <3> QED BY <1>1, <3>1, <3>2 DEF AccountsCall
  <2>2. CASE AccountsRemove
    <3>1. call' = [call EXCEPT !.left = @ \ {"records"}] /\ chain' = chain /\ Accounts!Secondary(call.args.keys)
      BY <1>10, <2>2 DEF Accounts!ReadRecords, AccountsRemove, Of
    <3>2. AccountsRemove'
      BY <2>2, <3>1 DEF AccountsRemove, Of, Fresh, Accounts!Member, Accounts!Kind, Accounts!Secondary
    <3> QED BY <1>1, <3>1, <3>2 DEF AccountsCall
  <2>3. CASE AccountsScope
    <3>1. call' = [call EXCEPT !.left = @ \ {"records"}] /\ chain' = chain /\ Accounts!Secondary(call.args.keys)
      BY <1>10, <2>3 DEF Accounts!ReadRecords, AccountsScope, Of
    <3>2. AccountsScope'
      BY <2>3, <3>1 DEF AccountsScope, Of, Fresh, Accounts!Primary, Accounts!Kind, Accounts!Secondary
    <3> QED BY <1>1, <3>1, <3>2 DEF AccountsCall
  <2> QED BY <1>0, <1>10, <2>1, <2>2, <2>3, AccountsStages DEF Accounts!ReadRecords
<1>11. CASE Accounts!ReadPrimary /\ call' # Idle
  <2>1. CASE AccountsRemove
    <3>1. call' = [call EXCEPT !.left = @ \ {"primary"}] /\ chain' = chain
      BY <1>11, <2>1 DEF Accounts!ReadPrimary, AccountsRemove, Of
    <3>2. AccountsRemove'
      BY <2>1, <3>1 DEF AccountsRemove, Of, Fresh, Accounts!Member, Accounts!Kind, Accounts!Secondary
    <3> QED BY <1>1, <3>1, <3>2 DEF AccountsCall
  <2>2. CASE AccountsScope
    <3>1. call' = [call EXCEPT !.left = @ \ {"primary"}] /\ chain' = chain /\ Accounts!Primary(call.args.signer)
      BY <1>11, <2>2 DEF Accounts!ReadPrimary, AccountsScope, Of
    <3>2. AccountsScope'
      BY <2>2, <3>1 DEF AccountsScope, Of, Fresh, Accounts!Primary, Accounts!Kind, Accounts!Secondary
    <3> QED BY <1>1, <3>1, <3>2 DEF AccountsCall
  <2> QED BY <1>0, <1>11, <2>1, <2>2, AccountsStages DEF Accounts!ReadPrimary
<1>12. CASE Accounts!ReadState /\ call' # Idle
  <2>1. AccountsFreeze
    BY <1>0, <1>12, AccountsStages DEF Accounts!ReadState
  <2>2. call' = [call EXCEPT !.left = @ \ {"state"}] /\ chain' = chain
    BY <1>12, <2>1 DEF Accounts!ReadState, AccountsFreeze, Of
  <2>3. AccountsFreeze'
    BY <2>1, <2>2 DEF AccountsFreeze, Of, Fresh, Accounts!Member, Accounts!Kind
  <2> QED BY <1>1, <2>2, <2>3 DEF AccountsCall
<1>13. CASE call' = Idle /\ (Accounts!ReadFrozen \/ Accounts!ReadRecords \/ Accounts!ReadPrimary \/ Accounts!ReadState)
  BY <1>0, <1>4, <1>13 DEF Accounts!ReadFrozen, Accounts!ReadRecords, Accounts!ReadPrimary,
      Accounts!ReadState
<1>14. CASE Accounts!DispatchLeave
  <2>1. call' = Idle /\ (chain' = chain \/ (Accounts!Kind(call.args.signer) = "secondary" /\ chain' = Accounts!Gone({call.args.signer})))
    BY <1>14 DEF Accounts!DispatchLeave, Accounts!Accepted
  <2>2. chain' = chain \/ AccountsTyped'
    BY <1>0, <2>1, AccountsGoes
  <2> QED BY <1>3, <1>4, <2>1, <2>2
<1>15. CASE Accounts!DispatchRemove
  <2>1. /\ call' = Idle
        /\ chain' = chain \/ ((\A k \in call.args.keys : Accounts!Kind(k) = "secondary") /\ chain' = Accounts!Gone(call.args.keys))
    BY <1>15 DEF Accounts!DispatchRemove, Accounts!Accepted
  <2>2. chain' = chain \/ AccountsTyped'
    BY <1>0, <2>1, AccountsGoes
  <2> QED BY <1>3, <1>4, <2>1, <2>2
<1>16. CASE Accounts!DispatchScope
  <2> DEFINE scope == [k \in AccountKeys |-> IF k \in call.args.keys THEN call.args.scope ELSE chain.scope[k]]
  <2>1. call' = Idle /\ (chain' = chain \/ chain' = [chain EXCEPT !.scope = scope])
    BY <1>16 DEF Accounts!DispatchScope
  <2>2. scope \in [AccountKeys -> Scopes]
    BY <1>0, <1>16, AccountsStages DEF Accounts!DispatchScope, AccountsScope, Of, AccountsTyped, Accounts!Chains
  <2> HIDE DEF scope
  <2>3. chain' = chain \/ AccountsTyped'
    BY <1>0, <2>1, <2>2 DEF AccountsTyped, Accounts!Chains
  <2> QED BY <1>3, <1>4, <2>1, <2>3
<1>17. CASE Accounts!DispatchFreeze
  <2>1. call.args.on \in BOOLEAN
    BY <1>0, <1>17, AccountsStages DEF Accounts!DispatchFreeze, AccountsFreeze, Of
  <2>2. call' = Idle /\ (chain' = chain \/ chain' = [chain EXCEPT !.frozen = call.args.on])
    BY <1>17 DEF Accounts!DispatchFreeze
  <2>3. chain' = chain \/ AccountsTyped'
    BY <1>0, <2>1, <2>2 DEF AccountsTyped, Accounts!Chains
  <2> QED BY <1>3, <1>4, <2>2, <2>3
<1>18. ASSUME NEW k \in AccountKeys, Accounts!Rotate(k) PROVE AccountsInv'
  <2> DEFINE kind == [l \in AccountKeys |-> IF l = k THEN "primary" ELSE IF Accounts!Primary(l) THEN "none" ELSE chain.kind[l]]
  <2>1. Accounts!Happens([chain EXCEPT !.kind = kind])
    BY <1>18 DEF Accounts!Rotate
  <2>2. kind \in [AccountKeys -> Accounts!Kinds] /\ AccountsOne(kind)
    BY <1>0 DEF AccountsTyped, Accounts!Chains, Accounts!Kinds, AccountsOne, Accounts!Primary, Accounts!Kind
  <2> HIDE DEF kind
  <2>3. AccountsTyped'
    BY <1>0, <2>1, <2>2 DEF Accounts!Happens, AccountsTyped, Accounts!Chains
  <2> QED BY <1>2, <2>1, <2>3
<1>19. ASSUME NEW k \in AccountKeys, Accounts!Join(k) PROVE AccountsInv'
  <2> DEFINE kind == [chain.kind EXCEPT ![k] = "secondary"]
  <2>1. Accounts!Happens([chain EXCEPT !.kind = kind]) /\ chain.kind[k] = "none"
    BY <1>19 DEF Accounts!Join, Accounts!Kind
  <2>2. kind \in [AccountKeys -> Accounts!Kinds] /\ AccountsOne(kind)
    BY <1>0, <2>1 DEF AccountsTyped, Accounts!Chains, Accounts!Kinds, AccountsOne
  <2> HIDE DEF kind
  <2>3. AccountsTyped'
    BY <1>0, <2>1, <2>2 DEF Accounts!Happens, AccountsTyped, Accounts!Chains
  <2> QED BY <1>2, <2>1, <2>3
<1>20. ASSUME NEW k \in AccountKeys, Accounts!Part(k) PROVE AccountsInv'
  <2>1. Accounts!Happens(Accounts!Gone({k})) /\ \A l \in {k} : Accounts!Kind(l) = "secondary"
    BY <1>20 DEF Accounts!Part
  <2>2. AccountsTyped'
    BY <1>0, <2>1, AccountsGoes DEF Accounts!Happens
  <2> QED BY <1>2, <2>1, <2>2
<1>21. CASE Accounts!OthersFreeze
  BY <1>0, <1>2, <1>21 DEF Accounts!OthersFreeze, Accounts!Happens, AccountsTyped, Accounts!Chains
<1> QED
  BY <1>5, <1>6, <1>7, <1>8, <1>9, <1>10, <1>11, <1>12, <1>13, <1>14, <1>15, <1>16, <1>17, <1>18, <1>19,
     <1>20, <1>21
     DEF Accounts!Next, Accounts!CallsKeys

LEMMA AccountsStutter == AccountsInv /\ UNCHANGED <<chain, call>> => AccountsInv'
BY DEF AccountsInv, AccountsTyped, Accounts!Chains, AccountsOne, AccountsLeave, Of, Fresh, Accounts!Kind, AccountsRemove,
       Accounts!Member, Accounts!Secondary, AccountsScope, Accounts!Primary, AccountsFreeze, AccountsCall, Idle

LEMMA AccountsOK == AccountsInv => Accounts!TypeOK /\ Accounts!RevertedOnlyIfStale
<1> SUFFICES ASSUME AccountsInv PROVE Accounts!TypeOK /\ Accounts!RevertedOnlyIfStale
  OBVIOUS
<1>1. Accounts!TypeOK
  <2>1. call.op \in {"none", "leave", "remove", "scope", "freeze"} /\ call.left \subseteq {"frozen", "records", "primary", "state"}
    BY DEF AccountsInv, AccountsCall, AccountsLeave, AccountsRemove, AccountsScope, AccountsFreeze, Of, Idle
  <2> QED BY <2>1 DEF AccountsInv, AccountsTyped, AccountsOne, Accounts!TypeOK, Accounts!Primary, Accounts!Kind
<1>2. ASSUME Accounts!Built, Accounts!Fresh PROVE AccountsExcused
  <2> USE DEF Accounts!Built, Accounts!Fresh, Fresh, AccountsExcused, Accounts!Accepted
  <2>0. \A k \in AccountKeys : Accounts!Member(k) => Accounts!Kind(k) = "secondary" \/ Accounts!Primary(k)
    BY DEF Accounts!Member, Accounts!Kind, Accounts!Primary, AccountsInv, AccountsTyped, Accounts!Chains, Accounts!Kinds
  <2>1. CASE AccountsLeave
    BY <1>2, <2>1 DEF AccountsLeave, Of
  <2>2. CASE AccountsRemove
    BY <1>2, <2>0, <2>2 DEF AccountsRemove, Of, Accounts!Secondary
  <2>3. CASE AccountsScope
    BY <1>2, <2>3 DEF AccountsScope, Of, Accounts!Secondary
  <2>4. CASE AccountsFreeze
    BY <1>2, <2>0, <2>4 DEF AccountsFreeze, Of
  <2> QED BY <1>2, <2>1, <2>2, <2>3, <2>4 DEF AccountsInv, AccountsCall, Idle
<1> QED BY <1>1, <1>2 DEF Accounts!RevertedOnlyIfStale, AccountsExcused

LEMMA AccountsRefused == AccountsInv /\ Accounts!Next => Accounts!TurnedAwayRightly
<1> SUFFICES ASSUME AccountsInv, Accounts!Next, Accounts!TurnedAway, Accounts!Fresh
             PROVE  AccountsBarred
  BY DEF Accounts!TurnedAwayRightly, AccountsBarred
<1> USE DEF Accounts!Answers, Accounts!Check, Accounts!Keep, AccountsBarred
<1>0. AccountsCall /\ AccountsTyped /\ ~Accounts!Built /\ call.op # "none" /\ call'.op = "none"
  BY DEF AccountsInv, Accounts!TurnedAway, Accounts!Ends
<1> USE DEF Accounts!Keep, Accounts!Refuse, Accounts!Idle, Idle
<1>1. DOMAIN call = {"op", "args", "read", "left", "stale"} /\ call.op \in {"leave", "remove", "scope", "freeze"}
  BY <1>0 DEF AccountsCall, AccountsLeave, AccountsRemove, AccountsScope, AccountsFreeze, Of
<1>2. CASE Accounts!ReadFrozen
  <2>1. chain.frozen /\ Accounts!Kind(call.args.signer) = "secondary"
    BY <1>0, <1>1, <1>2 DEF Accounts!ReadFrozen
  <2> QED BY <1>1, <2>1 DEF Accounts!Accepted, Accounts!Primary
<1>3. CASE Accounts!ReadRecords
  <2>1. CASE call.op = "leave"
    BY <1>0, <1>1, <1>3, <2>1 DEF Accounts!ReadRecords, Accounts!Secondary, Accounts!Accepted
  <2>2. CASE call.op \in {"remove", "scope"}
    <3>1. ~Accounts!Secondary(call.args.keys)
      BY <1>0, <1>1, <1>3, <2>2 DEF Accounts!ReadRecords
    <3> QED BY <2>2, <3>1 DEF Accounts!Secondary, Accounts!Accepted
  <2> QED BY <1>3, <2>1, <2>2 DEF Accounts!ReadRecords
<1>4. CASE Accounts!ReadPrimary
  <2>1. CASE call.op = "remove"
    <3>1. ~(\A k \in call.args.keys : ~Accounts!Primary(k))
      BY <1>0, <1>1, <1>4, <2>1 DEF Accounts!ReadPrimary
    <3> QED BY <2>1, <3>1 DEF Accounts!Primary, Accounts!Accepted
  <2>2. CASE call.op = "scope"
    <3>1. ~Accounts!Primary(call.args.signer)
      BY <1>0, <1>1, <1>4, <2>2 DEF Accounts!ReadPrimary
    <3> QED BY <2>2, <3>1 DEF Accounts!Accepted
  <2> QED BY <1>4, <2>1, <2>2 DEF Accounts!ReadPrimary
<1>5. CASE Accounts!ReadState
  BY <1>0, <1>1, <1>5 DEF Accounts!ReadState
<1>6. CASE Accounts!DispatchLeave \/ Accounts!DispatchRemove \/ Accounts!DispatchScope \/ Accounts!DispatchFreeze
  BY <1>0, <1>6 DEF Accounts!DispatchLeave, Accounts!DispatchRemove, Accounts!DispatchScope, Accounts!DispatchFreeze, Accounts!Dispatches
<1>7. ASSUME NEW after, Accounts!Happens(after) PROVE FALSE
  BY <1>0, <1>7, AccountsStages DEF Accounts!Happens
<1> QED
  BY <1>0, <1>1, <1>2, <1>3, <1>4, <1>5, <1>6, <1>7 DEF Accounts!Next, Accounts!Calls, Accounts!CallsKeys, Accounts!Leave,
     Accounts!Remove, Accounts!SetScope, Accounts!Freeze, Accounts!Rotate, Accounts!Join, Accounts!Part,
     Accounts!OthersFreeze

-----------------------------------------------------------------------------
(* Subsidies *)

LEMMA SubsidiesInit == Subsidies!Init => SubsidiesInv
BY DEF Subsidies!Init, SubsidiesInv, SubsidiesTyped, SubsidiesCall, Subsidies!Idle, Idle, Subsidies!NoArgs, NoArgs

LEMMA SubsidiesStages ==
  ASSUME SubsidiesCall
  PROVE  /\ call.op = "none" => call = Idle
         /\ [call EXCEPT !.stale = TRUE].op = call.op
         /\ call.op = "allowance" => SubsidiesAllowance
         /\ call.op = "quit" => SubsidiesQuit
         /\ call.op = "transfer" => SubsidiesTransfer \/ SubsidiesCdd
BY DEF SubsidiesCall, SubsidiesAllowance, SubsidiesQuit, SubsidiesTransfer, SubsidiesCdd, Of, Idle

LEMMA SubsidiesStale ==
  ASSUME SubsidiesCall, NEW after, Subsidies!Happens(after) PROVE SubsidiesCall'
<1>1. CASE call = Idle
  BY <1>1 DEF Subsidies!Happens, SubsidiesCall, Idle
<1>2. CASE call # Idle
  <2>1. call' = [call EXCEPT !.stale = TRUE]
    BY <1>2, SubsidiesStages DEF Subsidies!Happens
  <2> QED BY <1>2, <2>1 DEF SubsidiesCall, SubsidiesAllowance, Fresh, Of, SubsidiesQuit, SubsidiesTransfer, SubsidiesCdd
<1> QED BY <1>1, <1>2

LEMMA SubsidiesNext == SubsidiesInv /\ Subsidies!Next => SubsidiesInv'
<1> SUFFICES ASSUME SubsidiesInv, Subsidies!Next PROVE SubsidiesInv'
  OBVIOUS
<1> USE DEF Idle, NoArgs, Subsidies!Idle, Subsidies!NoArgs, Subsidies!Calls, Subsidies!Answers, Subsidies!Check, Subsidies!Keep,
        Subsidies!Refuse, Subsidies!Built, Subsidies!Dispatches
<1>0. SubsidiesCall /\ SubsidiesTyped
  BY DEF SubsidiesInv
<1>1. ASSUME UNCHANGED chain, SubsidiesCall' PROVE SubsidiesInv'
  BY <1>0, <1>1 DEF SubsidiesInv, SubsidiesTyped, Subsidies!Chains
<1>2. ASSUME NEW after, Subsidies!Happens(after), SubsidiesTyped' PROVE SubsidiesInv'
  BY <1>0, <1>2, SubsidiesStale DEF SubsidiesInv
<1>3. ASSUME SubsidiesTyped', call' = Idle PROVE SubsidiesInv'
  BY <1>3 DEF SubsidiesInv, SubsidiesCall
<1>4. ASSUME UNCHANGED chain, call' = Idle PROVE SubsidiesInv'
  BY <1>1, <1>4 DEF SubsidiesCall
<1>5. ASSUME NEW how \in {"set", "increase", "decrease"}, NEW n \in Amounts, Subsidies!Modify(how, n) PROVE SubsidiesInv'
  <2>1. SubsidiesAllowance'
    BY <1>5 DEF Subsidies!Modify, SubsidiesAllowance, Of
  <2> QED BY <1>1, <1>5, <2>1 DEF Subsidies!Modify, SubsidiesCall
<1>6. ASSUME Subsidies!Quit PROVE SubsidiesInv'
  <2>1. SubsidiesQuit'
    BY <1>6 DEF Subsidies!Quit, SubsidiesQuit, Of
  <2> QED BY <1>1, <1>6, <2>1 DEF Subsidies!Quit, SubsidiesCall
<1>7. ASSUME NEW n \in Amounts, Subsidies!Transfer(n) PROVE SubsidiesInv'
  <2>1. SubsidiesTransfer'
    BY <1>7 DEF Subsidies!Transfer, SubsidiesTransfer, Of
  <2> QED BY <1>1, <1>7, <2>1 DEF Subsidies!Transfer, SubsidiesCall
<1>8. CASE Subsidies!ReadSubsidy /\ call' # Idle
  <2>1. CASE SubsidiesAllowance
    <3>1. call' = [call EXCEPT !.left = @ \ {"subsidy"}] /\ chain' = chain /\ chain.payer = "subsidizer" /\ Subsidies!MayChange(call.args.how, call.args.amount)
      BY <1>8, <2>1 DEF Subsidies!ReadSubsidy, SubsidiesAllowance, Of
    <3>2. SubsidiesAllowance'
      BY <2>1, <3>1 DEF SubsidiesAllowance, Of, Fresh, Subsidies!MayChange, Subsidies!Enough
    <3> QED BY <1>1, <3>1, <3>2 DEF SubsidiesCall
  <2>2. CASE SubsidiesQuit
    <3>1. call' = [call EXCEPT !.left = @ \ {"subsidy"}] /\ chain' = chain /\ chain.payer = "subsidizer"
      BY <1>8, <2>2 DEF Subsidies!ReadSubsidy, SubsidiesQuit, Of
    <3>2. SubsidiesQuit'
      BY <2>2, <3>1 DEF SubsidiesQuit, Of, Fresh
    <3> QED BY <1>1, <3>1, <3>2 DEF SubsidiesCall
  <2> QED BY <1>0, <1>8, <2>1, <2>2, SubsidiesStages DEF Subsidies!ReadSubsidy
<1>9. ASSUME NEW r, SubsidiesTransfer, r \in call.left, r = "balance" => call.args.amount <= chain.free, Subsidies!Then(r)
      PROVE  SubsidiesInv'
  <2>1. CASE call.left = {r}
    <3>1. call' = [call EXCEPT !.read = NoArgs, !.left = {"senderCdd", "receiverCdd"}] /\ chain' = chain
      BY <1>9, <2>1 DEF Subsidies!Then, SubsidiesTransfer, Of
    <3>2. Fresh => call.args.amount <= chain.free
      BY <1>9, <2>1 DEF SubsidiesTransfer
    <3>3. SubsidiesCdd'
      BY <1>9, <3>1, <3>2 DEF SubsidiesTransfer, SubsidiesCdd, Of, Fresh
    <3> QED BY <1>1, <3>1, <3>3 DEF SubsidiesCall
  <2>2. CASE call.left # {r}
    <3>1. call' = [call EXCEPT !.read = NoArgs, !.left = @ \ {r}] /\ chain' = chain /\ call.left \ {r} # {}
      BY <1>9, <2>2 DEF Subsidies!Then, SubsidiesTransfer, Of
    <3>2. SubsidiesTransfer'
      BY <1>9, <3>1 DEF SubsidiesTransfer, Of, Fresh
    <3> QED BY <1>1, <3>1, <3>2 DEF SubsidiesCall
  <2> QED BY <2>1, <2>2
<1>10. CASE Subsidies!ReadBalance /\ call' # Idle
  <2>1. SubsidiesTransfer
    BY <1>0, <1>10, SubsidiesStages DEF Subsidies!ReadBalance, SubsidiesCdd, Of
  <2>2. "balance" \in call.left /\ ~(call.args.amount > chain.free) /\ Subsidies!Then("balance")
    BY <1>10 DEF Subsidies!ReadBalance
  <2>3. call.args.amount <= chain.free
    BY <1>0, <2>1, <2>2, PortfolioAssumption, SubsidyAssumption DEF SubsidiesTransfer, Of, SubsidiesTyped, Subsidies!Chains
  <2> QED BY <1>9, <2>1, <2>2, <2>3
<1>11. CASE Subsidies!ReadReceiver
  <2>1. SubsidiesTransfer
    BY <1>0, <1>11, SubsidiesStages DEF Subsidies!ReadReceiver, SubsidiesCdd, Of
  <2> QED BY <1>9, <1>11, <2>1 DEF Subsidies!ReadReceiver
<1>12. CASE Subsidies!ReadCdd /\ call' # Idle
  <2>1. SubsidiesCdd
    BY <1>0, <1>12, SubsidiesStages DEF Subsidies!ReadCdd, SubsidiesTransfer, Of
  <2>2. PICK r \in {"senderCdd", "receiverCdd"} :
          /\ call' = [call EXCEPT !.left = @ \ {r}] /\ chain' = chain
          /\ r = "senderCdd" => "sender" \in chain.cdd
          /\ r = "receiverCdd" => "receiver" \in chain.cdd
    BY <1>12, <2>1 DEF Subsidies!ReadCdd, SubsidiesCdd, Of
  <2>3. SubsidiesCdd'
    BY <2>1, <2>2 DEF SubsidiesCdd, Of, Fresh
  <2> QED BY <1>1, <2>2, <2>3 DEF SubsidiesCall
<1>13. CASE call' = Idle /\ (Subsidies!ReadSubsidy \/ Subsidies!ReadBalance \/ Subsidies!ReadCdd)
  BY <1>0, <1>4, <1>13 DEF Subsidies!ReadSubsidy, Subsidies!ReadBalance, Subsidies!ReadCdd, Subsidies!Then
<1>14. CASE Subsidies!DispatchAllowance
  <2>1. call.args \in [how : {"set", "increase", "decrease"}, amount : Amounts]
    BY <1>0, <1>14, SubsidiesStages DEF Subsidies!DispatchAllowance, SubsidiesAllowance, Of
  <2> DEFINE left == Subsidies!Allowed(call.args.how, call.args.amount)
  <2>2. /\ left <= Limit /\ call' = Idle
        /\ chain' = chain \/ (Subsidies!Accepted /\ chain' = [chain EXCEPT !.left = left])
    BY <1>14 DEF Subsidies!DispatchAllowance
  <2>3. call.args.amount \in Nat /\ chain.left \in Nat
    <3>1. call.args.amount \in Amounts
      BY <2>1
    <3>2. chain.left \in 0 .. Limit
      BY <1>0 DEF SubsidiesTyped, Subsidies!Chains
    <3>3. call.args.amount \in Nat
      BY <3>1, PortfolioAssumption
    <3>4. chain.left \in Nat
      BY <3>2, SubsidyAssumption
    <3> QED BY <3>3, <3>4
  <2>4. ASSUME Subsidies!Accepted PROVE left \in Nat /\ chain.payer = "subsidizer"
    <3>1. chain.payer = "subsidizer" /\ (call.args.how = "decrease" => call.args.amount <= chain.left)
      BY <1>14, <2>4 DEF Subsidies!DispatchAllowance, Subsidies!Accepted
    <3>2. call.args.how \in {"set", "increase", "decrease"}
      BY <2>1
    <3> QED BY <2>3, <3>1, <3>2 DEF Subsidies!Allowed
  <2> HIDE DEF left
  <2>5. ASSUME Subsidies!Accepted PROVE left \in 0 .. Limit
    BY <2>2, <2>4, <2>5, SubsidyAssumption
  <2>6. SubsidiesTyped'
    BY <1>0, <2>2, <2>4, <2>5 DEF SubsidiesTyped, Subsidies!Chains
  <2> QED BY <1>3, <2>2, <2>6
<1>15. CASE Subsidies!DispatchQuit
  <2>0. 0 \in 0 .. Limit
    BY SubsidyAssumption
  <2>1. SubsidiesTyped'
    BY <1>0, <1>15, <2>0 DEF Subsidies!DispatchQuit, SubsidiesTyped, Subsidies!Chains
  <2> QED BY <1>3, <1>15, <2>1 DEF Subsidies!DispatchQuit
<1>16. CASE Subsidies!DispatchTransfer
  <2>1. call.args.amount \in Nat
    BY <1>0, <1>16, SubsidiesStages, PortfolioAssumption DEF Subsidies!DispatchTransfer, SubsidiesTransfer, SubsidiesCdd, Of
  <2>2. Subsidies!Accepted => chain.free - call.args.amount \in 0 .. Limit
    <3>1. Subsidies!Accepted => call.args.amount <= chain.free
      BY <1>16 DEF Subsidies!DispatchTransfer, Subsidies!Accepted
    <3> QED BY <1>0, <2>1, <3>1, SubsidyAssumption DEF SubsidiesTyped, Subsidies!Chains
  <2>3. SubsidiesTyped'
    BY <1>0, <1>16, <2>2 DEF Subsidies!DispatchTransfer, SubsidiesTyped, Subsidies!Chains
  <2> QED BY <1>3, <1>16, <2>3 DEF Subsidies!DispatchTransfer
<1>17. ASSUME NEW n \in Amounts, Subsidies!Spend(n) PROVE SubsidiesInv'
  <2>1. chain.left - n \in 0 .. Limit /\ Subsidies!Happens([chain EXCEPT !.left = chain.left - n])
    BY <1>0, <1>17, PortfolioAssumption, SubsidyAssumption DEF Subsidies!Spend, SubsidiesTyped, Subsidies!Chains
  <2>2. chain.payer = "none" => chain.left - n = 0
    <3>1. n \in Nat /\ n <= chain.left
      BY <1>17, PortfolioAssumption DEF Subsidies!Spend
    <3>2. chain.payer = "none" => chain.left = 0
      BY <1>0 DEF SubsidiesTyped
    <3> QED BY <3>1, <3>2
  <2>3. SubsidiesTyped'
    BY <1>0, <2>1, <2>2 DEF Subsidies!Happens, SubsidiesTyped, Subsidies!Chains
  <2> QED BY <1>2, <2>1, <2>3
<1>18. ASSUME NEW n \in 0 .. Limit, Subsidies!Pay(n) PROVE SubsidiesInv'
  BY <1>0, <1>2, <1>18 DEF Subsidies!Pay, Subsidies!Happens, SubsidiesTyped, Subsidies!Chains
<1>19. ASSUME NEW who \in {"subsidizer", "another", "none"}, Subsidies!Subsidize(who) PROVE SubsidiesInv'
  <2> DEFINE left == IF who = "none" THEN 0 ELSE 1
  <2>1. Subsidies!Happens([chain EXCEPT !.payer = who, !.left = left])
    BY <1>19 DEF Subsidies!Subsidize
  <2>2. left \in 0 .. Limit /\ (who = "none" => left = 0)
    BY SubsidyAssumption
  <2> HIDE DEF left
  <2>3. SubsidiesTyped'
    BY <1>0, <2>1, <2>2 DEF Subsidies!Happens, SubsidiesTyped, Subsidies!Chains
  <2> QED BY <1>2, <2>1, <2>3
<1>20. ASSUME NEW whom \in SUBSET {"sender", "receiver"}, Subsidies!Certify(whom) PROVE SubsidiesInv'
  BY <1>0, <1>2, <1>20 DEF Subsidies!Certify, Subsidies!Happens, SubsidiesTyped, Subsidies!Chains
<1> QED
  BY <1>5, <1>6, <1>7, <1>8, <1>9, <1>10, <1>11, <1>12, <1>13, <1>14, <1>15, <1>16, <1>17, <1>18, <1>19,
     <1>20
     DEF Subsidies!Next

LEMMA SubsidiesStutter == SubsidiesInv /\ UNCHANGED <<chain, call>> => SubsidiesInv'
BY DEF SubsidiesInv, SubsidiesTyped, SubsidiesCall, SubsidiesAllowance, SubsidiesQuit, SubsidiesTransfer,
       SubsidiesCdd, Fresh, Subsidies!Chains, Subsidies!MayChange, Subsidies!Enough

LEMMA SubsidiesOK == SubsidiesInv => Subsidies!TypeOK /\ Subsidies!RevertedOnlyIfStale
<1> SUFFICES ASSUME SubsidiesInv PROVE Subsidies!TypeOK /\ Subsidies!RevertedOnlyIfStale
  OBVIOUS
<1>1. Subsidies!TypeOK
  <2>1. /\ call.op \in {"none", "allowance", "quit", "transfer"}
        /\ call.left \subseteq {"subsidy", "balance", "receiver", "senderCdd", "receiverCdd"}
    BY DEF SubsidiesInv, SubsidiesCall, SubsidiesAllowance, SubsidiesQuit, SubsidiesTransfer, SubsidiesCdd, Of, Idle
  <2> QED BY <2>1 DEF SubsidiesInv, SubsidiesTyped, Subsidies!TypeOK
<1>2. ASSUME Subsidies!Built, Subsidies!Fresh PROVE Subsidies!Accepted
  <2> USE DEF Subsidies!Built, Subsidies!Fresh, Fresh
  <2>1. CASE SubsidiesAllowance
    <3>1. /\ call.op = "allowance" /\ chain.payer = "subsidizer"
          /\ (call.args.how = "decrease" => chain.left > call.args.amount)
      BY <1>2, <2>1 DEF SubsidiesAllowance, Of, Subsidies!MayChange, Subsidies!Enough
    <3>2. call.args.amount \in Nat /\ chain.left \in Nat
      BY <2>1, PortfolioAssumption DEF SubsidiesAllowance, Of, SubsidiesInv, SubsidiesTyped, Subsidies!Chains
    <3>3. call.args.how = "decrease" => call.args.amount <= chain.left
      BY <3>1, <3>2
    <3> QED BY <3>1, <3>3 DEF Subsidies!Accepted
  <2>2. CASE SubsidiesQuit
    BY <1>2, <2>2 DEF SubsidiesQuit, Of, Subsidies!Accepted
  <2>3. CASE SubsidiesTransfer
    BY <1>2, <2>3 DEF SubsidiesTransfer
  <2>4. CASE SubsidiesCdd
    <3>1. call.op = "transfer" /\ call.args.amount <= chain.free /\ {"sender", "receiver"} \subseteq chain.cdd
      BY <1>2, <2>4 DEF SubsidiesCdd, Of
    <3>2. chain.cdd = {"sender", "receiver"}
      BY <3>1 DEF SubsidiesInv, SubsidiesTyped, Subsidies!Chains
    <3> QED BY <3>1, <3>2 DEF Subsidies!Accepted
  <2> QED BY <1>2, <2>1, <2>2, <2>3, <2>4 DEF SubsidiesInv, SubsidiesCall, Idle
<1> QED BY <1>1, <1>2 DEF Subsidies!RevertedOnlyIfStale

LEMMA SubsidiesRefused == SubsidiesInv /\ Subsidies!Next => Subsidies!TurnedAwayRightly
<1> SUFFICES ASSUME SubsidiesInv, Subsidies!Next, Subsidies!TurnedAway, Subsidies!Fresh
             PROVE  ~Subsidies!Accepted \/ (call.op = "allowance" /\ call.args.how # "increase" /\ chain.left = call.args.amount)
  BY DEF Subsidies!TurnedAwayRightly
<1> USE DEF Subsidies!Answers, Subsidies!Check, Subsidies!Keep
<1>0. SubsidiesCall /\ SubsidiesTyped /\ ~Subsidies!Built /\ call.op # "none" /\ call'.op = "none"
  BY DEF SubsidiesInv, Subsidies!TurnedAway, Subsidies!Ends
<1>1. CASE Subsidies!ReadSubsidy
  <2>1. CASE SubsidiesAllowance
    <3>1. ~(chain.payer = "subsidizer" /\ Subsidies!MayChange(call.args.how, call.args.amount)) /\ call.op = "allowance"
      BY <1>0, <1>1, <2>1 DEF Subsidies!ReadSubsidy, SubsidiesAllowance, Of
    <3>2. call.args.amount \in Nat /\ chain.left \in Nat
      BY <1>0, <2>1, PortfolioAssumption DEF SubsidiesAllowance, Of, SubsidiesTyped, Subsidies!Chains
    <3>3. call.args.how = "decrease" /\ ~(chain.left > call.args.amount) =>
            ~(call.args.amount <= chain.left) \/ chain.left = call.args.amount
      BY <3>2
    <3> QED BY <3>1, <3>3 DEF Subsidies!Accepted, Subsidies!MayChange, Subsidies!Enough
  <2>2. CASE SubsidiesQuit
    BY <1>0, <1>1, <2>2 DEF Subsidies!ReadSubsidy, SubsidiesQuit, Of, Subsidies!Accepted
  <2> QED BY <1>0, <1>1, <2>1, <2>2, SubsidiesStages DEF Subsidies!ReadSubsidy
<1>2. CASE Subsidies!ReadBalance
  <2>1. call.args.amount > chain.free /\ call.op = "transfer"
    BY <1>0, <1>2, SubsidiesStages DEF Subsidies!ReadBalance, Subsidies!Then, SubsidiesTransfer, SubsidiesCdd, Of
  <2>2. call.args.amount \in Nat /\ chain.free \in Nat
    BY <1>0, <2>1, SubsidiesStages, PortfolioAssumption, SubsidyAssumption DEF SubsidiesTransfer, SubsidiesCdd, Of, SubsidiesTyped, Subsidies!Chains
  <2>3. ~(call.args.amount <= chain.free)
    BY <2>1, <2>2
  <2> QED BY <2>1, <2>3 DEF Subsidies!Accepted
<1>3. CASE Subsidies!ReadReceiver
  BY <1>0, <1>3, SubsidiesStages DEF Subsidies!ReadReceiver, Subsidies!Then, SubsidiesTransfer, SubsidiesCdd, Of
<1>4. CASE Subsidies!ReadCdd
  <2>1. ~("sender" \in chain.cdd) \/ ~("receiver" \in chain.cdd)
    BY <1>0, <1>4, SubsidiesStages DEF Subsidies!ReadCdd, SubsidiesTransfer, SubsidiesCdd, Of
  <2>2. call.op = "transfer"
    BY <1>4 DEF Subsidies!ReadCdd
  <2> QED BY <2>1, <2>2 DEF Subsidies!Accepted
<1>5. ASSUME NEW after, Subsidies!Happens(after) PROVE FALSE
  BY <1>0, <1>5, SubsidiesStages DEF Subsidies!Happens
<1> QED
  BY <1>0, <1>1, <1>2, <1>3, <1>4, <1>5
     DEF Subsidies!Next, Subsidies!Calls, Subsidies!Dispatches, Subsidies!Modify, Subsidies!Quit,
         Subsidies!Transfer, Subsidies!DispatchAllowance, Subsidies!DispatchQuit,
         Subsidies!DispatchTransfer, Subsidies!Spend, Subsidies!Pay, Subsidies!Subsidize, Subsidies!Certify

-----------------------------------------------------------------------------
(* MultiSigs *)

LEMMA MultiSigsSizes == \A set : MultiSigs!Cardinality(set) = Cardinality(set)
BY DEF Cardinality, MultiSigs!Cardinality

(* No more are listed than the list is long.                               *)
LEMMA MultiSigsListed ==
  ASSUME NEW list \in SignerLists
  PROVE  /\ MultiSigs!In(list) \subseteq Signers /\ IsFiniteSet(MultiSigs!In(list))
         /\ Cardinality(MultiSigs!In(list)) \in Nat /\ Len(list) \in Nat
         /\ Cardinality(MultiSigs!In(list)) <= Len(list)
<1> DEFINE f == [i \in 1 .. Len(list) |-> list[i]]
<1>1. list \in Seq(Signers) /\ Len(list) \in Nat /\ DOMAIN list = 1 .. Len(list)
  BY SignerAssumption
<1>2. f \in Surjection(1 .. Len(list), MultiSigs!In(list))
  BY <1>1 DEF MultiSigs!In, Surjection
<1>3. IsFiniteSet(1 .. Len(list)) /\ Cardinality(1 .. Len(list)) = Len(list)
  <2>1. 1 \in Int /\ Len(list) \in Int
    BY <1>1
  <2>2. IsFiniteSet(1 .. Len(list)) /\ Cardinality(1 .. Len(list)) = IF 1 > Len(list) THEN 0 ELSE Len(list) - 1 + 1
    BY <2>1, FS_Interval, Zenon
  <2> QED BY <1>1, <2>2
<1> HIDE DEF f
<1>4. IsFiniteSet(MultiSigs!In(list)) /\ Cardinality(MultiSigs!In(list)) <= Cardinality(1 .. Len(list))
  BY <1>2, <1>3, FS_Surjection, Zenon
<1>5. Cardinality(MultiSigs!In(list)) \in Nat
  BY <1>4, FS_CardinalityType, Zenon
<1>6. MultiSigs!In(list) \subseteq Signers
  BY <1>1 DEF MultiSigs!In
<1> QED BY <1>1, <1>3, <1>4, <1>5, <1>6

LEMMA MultiSigsInit == MultiSigs!Init => MultiSigsInv
BY DEF MultiSigs!Init, MultiSigsInv, MultiSigsTyped, MultiSigsCall, MultiSigs!Chains, MultiSigs!Idle, Idle, MultiSigs!NoArgs, NoArgs

LEMMA MultiSigsStages ==
  ASSUME MultiSigsCall
  PROVE  /\ call.op = "none" => call = Idle
         /\ [call EXCEPT !.stale = TRUE].op = call.op
         /\ call.op = "create" => MultiSigsCreate
         /\ call.op = "modify" => MultiSigsNothing \/ MultiSigsSigners \/ MultiSigsRequired \/ MultiSigsModify
BY DEF MultiSigsCall, MultiSigsCreate, MultiSigsNothing, MultiSigsSigners, MultiSigsRequired,
       MultiSigsModify, Of, Idle

LEMMA MultiSigsStale ==
  ASSUME MultiSigsCall, NEW after, MultiSigs!Happens(after) PROVE MultiSigsCall'
<1>1. CASE call = Idle
  BY <1>1 DEF MultiSigs!Happens, MultiSigsCall, Idle
<1>2. CASE call # Idle
  <2>1. call' = [call EXCEPT !.stale = TRUE]
    BY <1>2, MultiSigsStages DEF MultiSigs!Happens
  <2> QED BY <1>2, <2>1 DEF MultiSigsCall, MultiSigsCreate, Of, MultiSigsNothing, MultiSigsSigners, Fresh, MultiSigsRequired,
     MultiSigsModify
<1> QED BY <1>1, <1>2

(* What is found is a part of those there are, and of those listed.        *)
LEMMA MultiSigsFound ==
  ASSUME MultiSigsTyped, NEW list \in SignerLists
  PROVE  [add |-> MultiSigs!ToAdd(chain.signers, list), remove |-> MultiSigs!ToRemove(chain.signers, list)]
           \in [add : SUBSET Signers, remove : SUBSET Signers]
BY MultiSigsListed DEF MultiSigsTyped, MultiSigs!Chains, MultiSigs!ToAdd, MultiSigs!ToRemove

LEMMA MultiSigsNeeded == MultiSigsTyped => chain.required \in Nat
<1> SUFFICES ASSUME MultiSigsTyped PROVE chain.required \in Nat
  OBVIOUS
<1>1. chain.required \in Quorums \cup {0}
  BY DEF MultiSigsTyped, MultiSigs!Chains
<1>2. Quorums \subseteq Nat /\ 0 \in Nat
  BY SignerAssumption
<1> QED BY <1>1, <1>2

LEMMA MultiSigsNext == MultiSigsInv /\ MultiSigs!Next => MultiSigsInv'
<1> SUFFICES ASSUME MultiSigsInv, MultiSigs!Next PROVE MultiSigsInv'
  OBVIOUS
<1> USE DEF Idle, NoArgs, MultiSigs!Idle, MultiSigs!NoArgs, MultiSigs!Calls, MultiSigs!Answers, MultiSigs!Check, MultiSigs!Keep,
        MultiSigs!Refuse, MultiSigs!Built, MultiSigs!Dispatches
<1>0. MultiSigsCall /\ MultiSigsTyped
  BY DEF MultiSigsInv
<1>1. ASSUME UNCHANGED chain, MultiSigsCall' PROVE MultiSigsInv'
  BY <1>0, <1>1 DEF MultiSigsInv, MultiSigsTyped, MultiSigs!Chains
<1>2. ASSUME NEW after, MultiSigs!Happens(after), MultiSigsTyped' PROVE MultiSigsInv'
  BY <1>0, <1>2, MultiSigsStale DEF MultiSigsInv
<1>3. ASSUME MultiSigsTyped', call' = Idle PROVE MultiSigsInv'
  BY <1>3 DEF MultiSigsInv, MultiSigsCall
<1>4. ASSUME UNCHANGED chain, call' = Idle PROVE MultiSigsInv'
  BY <1>1, <1>4 DEF MultiSigsCall
<1>5. ASSUME NEW list \in SignerLists, NEW n \in Quorums, MultiSigs!Create(list, n) PROVE MultiSigsInv'
  <2>1. MultiSigsCreate'
    BY <1>5 DEF MultiSigs!Create, MultiSigsCreate, Of
  <2> QED BY <1>1, <1>5, <2>1 DEF MultiSigs!Create, MultiSigsCall
<1>6. ASSUME NEW list \in SignerLists, MultiSigs!Modify(list) PROVE MultiSigsInv'
  <2>1. MultiSigsNothing'
    BY <1>6 DEF MultiSigs!Modify, MultiSigsNothing, Of
  <2> QED BY <1>1, <1>6, <2>1 DEF MultiSigs!Modify, MultiSigsCall
<1>7. CASE MultiSigs!ReadSigners
  <2> DEFINE found == [add |-> MultiSigs!ToAdd(chain.signers, call.args.list), remove |-> MultiSigs!ToRemove(chain.signers, call.args.list)]
  <2>0. UNCHANGED chain
    BY <1>7 DEF MultiSigs!ReadSigners, MultiSigs!Then
  <2>1. CASE MultiSigsNothing
    <3>0. "required" \in call.left /\ call.left # {"signers"} /\ (call.left \ {"signers"}) \cup {} = {"required"}
      BY <2>1 DEF MultiSigsNothing
    <3>1. call' = [call EXCEPT !.read = [delta |-> found], !.left = {"required"}]
      BY <1>7, <3>0 DEF MultiSigs!ReadSigners, MultiSigs!Then
    <3>2. found \in [add : SUBSET Signers, remove : SUBSET Signers]
      BY <1>0, <2>1, MultiSigsFound DEF MultiSigsNothing, Of
    <3>3. MultiSigsDelta(found)
      BY DEF MultiSigsDelta
    <3> HIDE DEF found
    <3>4. MultiSigsSigners'
      BY <2>0, <2>1, <3>1, <3>2, <3>3 DEF MultiSigsNothing, MultiSigsSigners, Of, Fresh, MultiSigsDelta
    <3> QED BY <1>1, <2>0, <3>4 DEF MultiSigsCall
  <2>2. CASE MultiSigsRequired
    <3>1. call' = [call EXCEPT !.read = [delta |-> found, required |-> call.read.required], !.left = {"creator"}]
      BY <1>7, <2>2 DEF MultiSigs!ReadSigners, MultiSigs!Then, MultiSigsRequired, Of
    <3>2. found \in [add : SUBSET Signers, remove : SUBSET Signers]
      BY <1>0, <2>2, MultiSigsFound DEF MultiSigsRequired, Of
    <3>3. MultiSigsDelta(found)
      BY DEF MultiSigsDelta
    <3> HIDE DEF found
    <3>4. MultiSigsModify'
      BY <2>0, <2>2, <3>1, <3>2, <3>3 DEF MultiSigsRequired, MultiSigsModify, Of, Fresh, MultiSigsDelta
    <3> QED BY <1>1, <2>0, <3>4 DEF MultiSigsCall
  <2> QED BY <1>0, <1>7, <2>1, <2>2, MultiSigsStages DEF MultiSigs!ReadSigners, MultiSigsSigners, MultiSigsModify, Of
<1>8. CASE MultiSigs!ReadRequired
  <2>0. UNCHANGED chain /\ chain.required \in Quorums \cup {0}
    BY <1>0, <1>8 DEF MultiSigs!ReadRequired, MultiSigs!Then, MultiSigsTyped, MultiSigs!Chains
  <2>1. CASE MultiSigsNothing
    <3>0. "signers" \in call.left /\ call.left # {"required"} /\ (call.left \ {"required"}) \cup {} = {"signers"}
      BY <2>1 DEF MultiSigsNothing
    <3>1. call' = [call EXCEPT !.read = [required |-> chain.required], !.left = {"signers"}]
      BY <1>8, <3>0 DEF MultiSigs!ReadRequired, MultiSigs!Then
    <3>2. MultiSigsRequired'
      BY <2>0, <2>1, <3>1 DEF MultiSigsNothing, MultiSigsRequired, Of, Fresh
    <3> QED BY <1>1, <2>0, <3>2 DEF MultiSigsCall
  <2>2. CASE MultiSigsSigners
    <3>1. call' = [call EXCEPT !.read = [delta |-> call.read.delta, required |-> chain.required], !.left = {"creator"}]
      BY <1>8, <2>2 DEF MultiSigs!ReadRequired, MultiSigs!Then, MultiSigsSigners, Of
    <3>2. MultiSigsModify'
      BY <2>0, <2>2, <3>1 DEF MultiSigsSigners, MultiSigsModify, Of, Fresh, MultiSigsDelta
    <3> QED BY <1>1, <2>0, <3>2 DEF MultiSigsCall
  <2> QED BY <1>0, <1>8, <2>1, <2>2, MultiSigsStages DEF MultiSigs!ReadRequired, MultiSigsRequired, MultiSigsModify, Of
<1>9. CASE MultiSigs!ReadCreator /\ call' # Idle
  <2>1. MultiSigsModify /\ "creator" \in call.left
    BY <1>0, <1>9, MultiSigsStages DEF MultiSigs!ReadCreator, MultiSigsNothing, MultiSigsSigners, MultiSigsRequired, Of
  <2>2. call' = [call EXCEPT !.left = {}] /\ UNCHANGED chain /\ MultiSigs!MayModify
    BY <1>9, <2>1 DEF MultiSigs!ReadCreator, MultiSigsModify, Of
  <2>3. MultiSigsModify'
    BY <2>1, <2>2 DEF MultiSigsModify, Of, Fresh, MultiSigsDelta, MultiSigs!MayModify, MultiSigs!EnoughSigners
  <2> QED BY <1>1, <2>2, <2>3 DEF MultiSigsCall
<1>10. CASE call' = Idle /\ (MultiSigs!ReadCreator)
  BY <1>0, <1>4, <1>10 DEF MultiSigs!ReadCreator
<1>11. CASE MultiSigs!DispatchCreate
  <2>1. call.args \in [list : SignerLists, required : Quorums]
    BY <1>0, <1>11, MultiSigsStages DEF MultiSigs!DispatchCreate, MultiSigsCreate, Of
  <2>2. MultiSigs!In(call.args.list) \subseteq Signers /\ call.args.required \in Quorums
    BY <2>1, MultiSigsListed
  <2>3. MultiSigsTyped'
    BY <1>0, <1>11, <2>2 DEF MultiSigs!DispatchCreate, MultiSigsTyped, MultiSigs!Chains
  <2> QED BY <1>3, <1>11, <2>3 DEF MultiSigs!DispatchCreate
<1>12. CASE MultiSigs!DispatchModify
  <2>1. call.read.delta \in [add : SUBSET Signers, remove : SUBSET Signers]
    BY <1>0, <1>12, MultiSigsStages DEF MultiSigs!DispatchModify, MultiSigsModify, MultiSigsNothing, MultiSigsSigners, MultiSigsRequired, Of
  <2>2. MultiSigs!Accepted => chain.creator = "me"
    BY <1>12 DEF MultiSigs!DispatchModify, MultiSigs!Accepted
  <2>3. call' = Idle /\ (chain' = chain \/
          (MultiSigs!Accepted /\ chain' = [chain EXCEPT !.signers = @ \ call.read.delta.remove,
                                                !.asked = @ \cup call.read.delta.add]))
    BY <1>12 DEF MultiSigs!DispatchModify
  <2>4. MultiSigsTyped'
    BY <1>0, <2>1, <2>2, <2>3 DEF MultiSigsTyped, MultiSigs!Chains
  <2> QED BY <1>3, <2>3, <2>4
<1>13. ASSUME NEW s \in Signers, MultiSigs!Accept(s) PROVE MultiSigsInv'
  <2>1. MultiSigsTyped'
    BY <1>0, <1>13 DEF MultiSigs!Accept, MultiSigs!Happens, MultiSigsTyped, MultiSigs!Chains
  <2> QED BY <1>2, <1>13, <2>1 DEF MultiSigs!Accept
<1>14. ASSUME NEW s \in Signers, MultiSigs!Leave(s) PROVE MultiSigsInv'
  <2>1. MultiSigsTyped'
    BY <1>0, <1>14 DEF MultiSigs!Leave, MultiSigs!Happens, MultiSigsTyped, MultiSigs!Chains
  <2> QED BY <1>2, <1>14, <2>1 DEF MultiSigs!Leave
<1>15. ASSUME NEW n \in Quorums, MultiSigs!Require(n) PROVE MultiSigsInv'
  <2>1. MultiSigsTyped'
    BY <1>0, <1>15 DEF MultiSigs!Require, MultiSigs!Happens, MultiSigsTyped, MultiSigs!Chains
  <2> QED BY <1>2, <1>15, <2>1 DEF MultiSigs!Require
<1> QED
  BY <1>5, <1>6, <1>7, <1>8, <1>9, <1>10, <1>11, <1>12, <1>13, <1>14, <1>15
     DEF MultiSigs!Next

LEMMA MultiSigsStutter == MultiSigsInv /\ UNCHANGED <<chain, call>> => MultiSigsInv'
BY DEF MultiSigsInv, MultiSigsTyped, MultiSigsCall, MultiSigsCreate, MultiSigsNothing, MultiSigsSigners,
       MultiSigsRequired, MultiSigsModify, Fresh, MultiSigs!Chains, MultiSigsDelta

LEMMA MultiSigsOK == MultiSigsInv => MultiSigs!TypeOK /\ MultiSigs!RevertedOnlyIfStale
<1> SUFFICES ASSUME MultiSigsInv PROVE MultiSigs!TypeOK /\ MultiSigs!RevertedOnlyIfStale
  OBVIOUS
<1>1. MultiSigs!TypeOK
  <2>1. call.op \in {"none", "create", "modify"} /\ call.left \subseteq {"signers", "required", "creator"}
    BY DEF MultiSigsInv, MultiSigsCall, MultiSigsCreate, MultiSigsNothing, MultiSigsSigners, MultiSigsRequired, MultiSigsModify, Of, Idle
  <2> QED BY <2>1 DEF MultiSigsInv, MultiSigsTyped, MultiSigs!TypeOK
<1>2. ASSUME MultiSigs!Built, MultiSigs!Fresh PROVE MultiSigsExcused
  <2> USE DEF MultiSigs!Built, MultiSigs!Fresh, Fresh
  <2>1. CASE MultiSigsCreate
    <3>1. /\ call.op = "create" /\ call.args.list \in SignerLists /\ call.args.required \in Nat
          /\ call.args.required <= Len(call.args.list)
      BY <2>1, SignerAssumption DEF MultiSigsCreate, Of
    <3>2. Cardinality(MultiSigs!In(call.args.list)) \in Nat /\ Len(call.args.list) \in Nat
      BY <3>1, MultiSigsListed
    <3>3. \/ call.args.required <= Cardinality(MultiSigs!In(call.args.list))
          \/ Cardinality(MultiSigs!In(call.args.list)) < Len(call.args.list)
      BY <3>1, <3>2
    <3>4. \/ call.args.required <= MultiSigs!Cardinality(MultiSigs!In(call.args.list))
          \/ MultiSigs!Cardinality(MultiSigs!In(call.args.list)) < Len(call.args.list)
      BY <3>3, MultiSigsSizes, Zenon
    <3> QED BY <3>1, <3>4 DEF MultiSigsExcused, MultiSigs!Accepted
  <2>2. CASE MultiSigsModify
    <3> DEFINE list == call.args.list
               stay == chain.signers \cap MultiSigs!In(list)
    <3>1. /\ call.op = "modify" /\ list \in SignerLists /\ chain.creator = "me"
          /\ call.read.delta.add = MultiSigs!In(list) \ chain.signers
          /\ call.read.delta.remove = chain.signers \ MultiSigs!In(list)
          /\ chain.required <= Len(list)
      BY <1>2, <2>2 DEF MultiSigsModify, Of, MultiSigsDelta, MultiSigs!ToAdd, MultiSigs!ToRemove
    <3>2. chain.required \in Nat /\ chain.signers \ call.read.delta.remove = stay
      BY <3>1, MultiSigsNeeded DEF MultiSigsInv
    <3>3. IsFiniteSet(MultiSigs!In(list)) /\ stay \subseteq MultiSigs!In(list)
      BY <3>1, MultiSigsListed
    <3>4. Cardinality(stay) \in Nat
      <4>1. IsFiniteSet(stay)
        BY <3>3, FS_Subset, Zenon
      <4> QED BY <4>1, FS_CardinalityType, Zenon
    <3>5. Cardinality(stay) >= chain.required \/ Cardinality(stay) < chain.required
      BY <3>2, <3>4
    <3>6. MultiSigs!Cardinality(stay) >= chain.required \/ MultiSigs!Cardinality(stay) < chain.required
      BY <3>5, MultiSigsSizes, Zenon
    <3>7. call.read.delta.add \cap chain.signers = {} /\ call.read.delta.remove \subseteq chain.signers
      BY <3>1
    <3>8. CASE MultiSigs!Cardinality(stay) >= chain.required
      <4>1. MultiSigs!Cardinality(chain.signers \ call.read.delta.remove) >= chain.required
        BY <3>2, <3>8, Zenon
      <4> QED BY <3>1, <3>7, <4>1 DEF MultiSigsExcused, MultiSigs!Accepted
    <3>9. CASE MultiSigs!Cardinality(stay) < chain.required
      BY <3>1, <3>9 DEF MultiSigsExcused
    <3> QED BY <3>6, <3>8, <3>9
  <2> QED BY <1>2, <2>1, <2>2 DEF MultiSigsInv, MultiSigsCall, MultiSigsNothing, MultiSigsSigners, MultiSigsRequired, Idle
<1> QED BY <1>1, <1>2 DEF MultiSigs!RevertedOnlyIfStale, MultiSigsExcused

LEMMA MultiSigsRefused == MultiSigsInv /\ MultiSigs!Next => MultiSigs!TurnedAwayRightly
<1> SUFFICES ASSUME MultiSigsInv, MultiSigs!Next, MultiSigs!TurnedAway, MultiSigs!Fresh
             PROVE  MultiSigsBarred
  BY DEF MultiSigs!TurnedAwayRightly, MultiSigsBarred
<1> USE DEF MultiSigs!Answers, MultiSigs!Check, MultiSigs!Keep, MultiSigsBarred
<1>0. MultiSigsCall /\ MultiSigsTyped /\ ~MultiSigs!Built /\ call.op # "none" /\ call'.op = "none"
  BY DEF MultiSigsInv, MultiSigs!TurnedAway, MultiSigs!Ends
<1>1. CASE MultiSigs!ReadCreator
  <2>1. MultiSigsModify
    BY <1>0, <1>1, MultiSigsStages DEF MultiSigs!ReadCreator, MultiSigsNothing, MultiSigsSigners, MultiSigsRequired, Of
  <2>2. ~MultiSigs!MayModify
    BY <1>0, <1>1, <2>1 DEF MultiSigs!ReadCreator, MultiSigsModify, Of
  <2>3. /\ call.args.list \in SignerLists /\ call.read.required = chain.required
        /\ call.read.delta.add = MultiSigs!In(call.args.list) \ chain.signers
        /\ call.read.delta.remove = chain.signers \ MultiSigs!In(call.args.list)
    BY <2>1 DEF MultiSigsModify, Of, MultiSigsDelta, MultiSigs!ToAdd, MultiSigs!ToRemove, MultiSigs!Fresh, Fresh
  <2>4. chain.creator = "me" /\ chain.signers # MultiSigs!In(call.args.list) => ~(chain.required <= Len(call.args.list))
    BY <2>2, <2>3 DEF MultiSigs!MayModify, MultiSigs!EnoughSigners
  <2>5. /\ chain.required \in Nat /\ Len(call.args.list) \in Nat
        /\ Cardinality(MultiSigs!In(call.args.list)) \in Nat /\ Cardinality(MultiSigs!In(call.args.list)) <= Len(call.args.list)
    BY <1>0, <2>3, MultiSigsListed, MultiSigsNeeded
  <2>6. ~(chain.required <= Len(call.args.list)) => Cardinality(MultiSigs!In(call.args.list)) < chain.required
    BY <2>5
  <2>7. ~(chain.required <= Len(call.args.list)) => MultiSigs!Cardinality(MultiSigs!In(call.args.list)) < chain.required
    BY <2>6, MultiSigsSizes, Zenon
  <2> QED BY <2>4, <2>7
<1>2. CASE MultiSigs!ReadSigners \/ MultiSigs!ReadRequired
  <2>1. call'.op # "none"
    BY <1>0, <1>2, MultiSigsStages DEF MultiSigs!ReadSigners, MultiSigs!ReadRequired, MultiSigs!Then, MultiSigsNothing, MultiSigsSigners, MultiSigsRequired, MultiSigsModify, Of
  <2> QED BY <1>0, <2>1
<1>3. ASSUME NEW after, MultiSigs!Happens(after) PROVE FALSE
  BY <1>0, <1>3, MultiSigsStages DEF MultiSigs!Happens
<1> QED
  BY <1>0, <1>1, <1>2, <1>3
     DEF MultiSigs!Next, MultiSigs!Calls, MultiSigs!Dispatches, MultiSigs!Create, MultiSigs!Modify,
         MultiSigs!DispatchCreate, MultiSigs!DispatchModify, MultiSigs!Accept, MultiSigs!Leave,
         MultiSigs!Require

LEMMA MultiSigsDone == MultiSigsInv /\ MultiSigs!Next => MultiSigs!DoneAsAsked
<1> SUFFICES ASSUME MultiSigsInv, MultiSigs!Next, MultiSigs!Built, MultiSigs!Ends, MultiSigs!Fresh, MultiSigs!Accepted PROVE MultiSigs!DoneAsAsked
  BY DEF MultiSigs!DoneAsAsked
<1>1. MultiSigsTyped /\ MultiSigsCall /\ call.left = {}
  BY DEF MultiSigsInv, MultiSigs!Built
<1>0. ASSUME NEW after, MultiSigs!Happens(after) PROVE FALSE
  BY <1>0, <1>1, MultiSigsStages DEF MultiSigs!Happens, MultiSigs!Ends
<1>4. MultiSigs!DispatchCreate \/ MultiSigs!DispatchModify
  BY <1>0, <1>1 DEF MultiSigs!Next, MultiSigs!Create, MultiSigs!Modify, MultiSigs!Calls, MultiSigs!Built, MultiSigs!ReadSigners, MultiSigs!ReadRequired, MultiSigs!ReadCreator, MultiSigs!Answers,
     MultiSigs!Accept, MultiSigs!Leave, MultiSigs!Require
<1>2. CASE call.op = "create"
  <2>1. MultiSigsCreate
    BY <1>1, <1>2, MultiSigsStages
  <2>2. MultiSigs!DispatchCreate
    BY <1>2, <1>4 DEF MultiSigs!DispatchModify
  <2>3. chain' = [creator |-> "me", signers |-> {}, asked |-> MultiSigs!In(call.args.list), required |-> call.args.required]
    BY <2>2 DEF MultiSigs!DispatchCreate, MultiSigs!Dispatches
  <2> QED BY <1>2, <2>3 DEF MultiSigs!DoneAsAsked
<1>3. CASE call.op = "modify"
  <2>1. MultiSigsModify
    BY <1>1, <1>3, MultiSigsStages DEF MultiSigs!Built, MultiSigsNothing, MultiSigsSigners, MultiSigsRequired
  <2>2. MultiSigs!DispatchModify
    BY <1>3, <1>4 DEF MultiSigs!DispatchCreate
  <2>3. /\ chain' = [chain EXCEPT !.signers = @ \ call.read.delta.remove, !.asked = @ \cup call.read.delta.add]
        /\ chain \in MultiSigs!Chains
    BY <1>1, <2>2 DEF MultiSigs!DispatchModify, MultiSigs!Dispatches, MultiSigsTyped
  <2>4. /\ call.read.delta.add = MultiSigs!In(call.args.list) \ chain.signers
        /\ call.read.delta.remove = chain.signers \ MultiSigs!In(call.args.list)
    BY <2>1 DEF MultiSigsModify, MultiSigsDelta, MultiSigs!ToAdd, MultiSigs!ToRemove, MultiSigs!Fresh, Fresh
  <2> QED BY <1>3, <2>3, <2>4 DEF MultiSigs!Chains, MultiSigs!DoneAsAsked
<1> QED BY <1>1, <1>2, <1>3, MultiSigsStages DEF MultiSigs!Built, MultiSigsCall, MultiSigsCreate, MultiSigsNothing, MultiSigsSigners, MultiSigsRequired, MultiSigsModify, Of, Idle

-----------------------------------------------------------------------------
(* Agents *)

LEMMA AgentsSizes == \A set : Agents!Cardinality(set) = Cardinality(set)
BY DEF Cardinality, Agents!Cardinality

LEMMA AgentsInit == Agents!Init => AgentsInv
<1> SUFFICES ASSUME Agents!Init PROVE AgentsInv
  OBVIOUS
<1> DEFINE group == [p \in People |-> IF p = "me" THEN "full" ELSE Agents!Nobody]
           custom == [g \in Customs |-> Agents!Nobody]
<1>1. /\ group \in [People -> Agents!Groups \cup {Agents!Nobody}] /\ custom \in [Customs -> Agents!Perms \cup {Agents!Nobody}]
      /\ \A p \in People : group[p] \in {"full", Agents!Nobody}
  BY DEF Agents!Groups, Agents!Known
<1>2. group["me"] = "full"
  BY AgentAssumption
<1>3. chain = [group |-> group, custom |-> custom, asked |-> {}] /\ call = Agents!Idle
  BY DEF Agents!Init
<1> HIDE DEF group, custom
<1>4. chain \in Agents!Chains
  BY <1>1, <1>3 DEF Agents!Chains
<1>5. "me" \in Agents!In("full") /\ "full" \in Agents!Known
  BY <1>2, <1>3, AgentAssumption DEF Agents!In, Agents!Known
<1>6. \A p \in People : chain.group[p] \in Agents!Known \cup Agents!InUse \cup {Agents!Nobody}
  BY <1>1, <1>3, <1>5
<1> QED BY <1>3, <1>4, <1>5, <1>6 DEF AgentsInv, AgentsTyped, AgentsCall, Agents!Idle, Idle, Agents!NoArgs, NoArgs

LEMMA AgentsStages ==
  ASSUME AgentsCall
  PROVE  /\ call.op = "none" => call = Idle
         /\ [call EXCEPT !.stale = TRUE].op = call.op
         /\ call.op = "create" => AgentsCreate
         /\ call.op = "set" => AgentsSet
         /\ call.op = "move" => AgentsBoth \/ AgentsGroup \/ AgentsAgents \/ AgentsGroups \/ AgentsFound \/ AgentsMove
         /\ call.op = "remove" => AgentsRemove
         /\ call.op = "waive" => AgentsWaive
         /\ call.op = "appoint" => AgentsAppoint
BY DEF AgentsCall, AgentsCreate, AgentsSet, AgentsBoth, AgentsGroup, AgentsAgents, AgentsGroups,
       AgentsFound, AgentsMove, AgentsRemove, AgentsWaive, AgentsAppoint, AgentsMoving, Of, Idle

LEMMA AgentsStale ==
  ASSUME AgentsCall, NEW after, Agents!Happens(after), Agents!InUse \subseteq Agents!InUse' PROVE AgentsCall'
<1>1. CASE call = Idle
  BY <1>1 DEF Agents!Happens, AgentsCall, Idle
<1>2. CASE call # Idle
  <2>1. call' = [call EXCEPT !.stale = TRUE]
    BY <1>2, AgentsStages DEF Agents!Happens
  <2>2. CASE AgentsCreate
    BY <2>1, <2>2 DEF AgentsCall, AgentsCreate, Fresh, Of
  <2>3. CASE AgentsSet
    BY <2>1, <2>3 DEF AgentsCall, AgentsSet, Of
  <2>4. CASE AgentsBoth
    BY <2>1, <2>4 DEF AgentsCall, AgentsBoth, Of, AgentsMoving, AgentsArgs
  <2>5. CASE AgentsGroup
    BY <2>1, <2>5 DEF AgentsCall, AgentsGroup, Fresh, Of, AgentsMoving, AgentsArgs
  <2>6. CASE AgentsAgents
    BY <2>1, <2>6 DEF AgentsCall, AgentsAgents, Fresh, Of, AgentsMoving, AgentsArgs
  <2>7. CASE AgentsGroups
    BY <2>1, <2>7 DEF AgentsCall, AgentsGroups, Fresh, Of, AgentsMoving, AgentsArgs
  <2>8. CASE AgentsFound
    BY <2>1, <2>8 DEF AgentsCall, AgentsFound, Fresh, Of, AgentsMoving, AgentsArgs
  <2>9. CASE AgentsMove
    BY <2>1, <2>9 DEF AgentsCall, AgentsMove, Fresh, Of, AgentsMoving, AgentsArgs
  <2>10. CASE AgentsRemove
    BY <2>1, <2>10 DEF AgentsCall, AgentsRemove, Fresh, Of
  <2>11. CASE AgentsWaive
    BY <2>1, <2>11 DEF AgentsCall, AgentsWaive, Fresh, Of
  <2>12. CASE AgentsAppoint
    BY <2>1, <2>12 DEF AgentsCall, AgentsAppoint, Of
  <2> QED BY <1>2, <2>2, <2>3, <2>4, <2>5, <2>6, <2>7, <2>8, <2>9, <2>10, <2>11, <2>12 DEF AgentsCall
<1> QED BY <1>1, <1>2

(* A custom group gets permissions, or comes to be.                        *)
LEMMA AgentsCustom ==
  ASSUME AgentsTyped, NEW g \in Customs, NEW perms \in Agents!Perms, chain' = [chain EXCEPT !.custom[g] = perms]
  PROVE  AgentsTyped' /\ Agents!InUse \subseteq Agents!InUse'
<1> DEFINE custom == [chain.custom EXCEPT ![g] = perms]
<1>1. chain' = [chain EXCEPT !.custom = custom]
  OBVIOUS
<1>2. /\ custom \in [Customs -> Agents!Perms \cup {Agents!Nobody}] /\ perms # Agents!Nobody
      /\ \A h \in Customs : custom[h] # Agents!Nobody \/ custom[h] = chain.custom[h]
  BY AgentAssumption DEF AgentsTyped, Agents!Chains, Agents!Perms, Agents!Known, Agents!Nobody
<1> HIDE DEF custom
<1>3. chain' \in Agents!Chains /\ chain'.custom = custom /\ chain'.group = chain.group
  BY <1>1, <1>2 DEF AgentsTyped, Agents!Chains
<1>4. Agents!InUse \subseteq Agents!InUse'
  BY <1>2, <1>3 DEF Agents!InUse
<1> QED BY <1>3, <1>4 DEF AgentsTyped, Agents!In

(* Somebody else keeps full permissions.                                   *)
LEMMA AgentsRegroup ==
  ASSUME AgentsTyped, NEW who \in People, NEW g \in Agents!Known \cup Agents!InUse \cup {Agents!Nobody},
         chain.group[who] # "full" \/ Agents!In("full") # {who}, chain' = [chain EXCEPT !.group[who] = g]
  PROVE  AgentsTyped' /\ Agents!InUse' = Agents!InUse
<1> DEFINE group == [chain.group EXCEPT ![who] = g]
<1>1. chain' = [chain EXCEPT !.group = group]
  OBVIOUS
<1>2. PICK p \in People : p # who /\ chain.group[p] = "full"
  BY DEF AgentsTyped, Agents!In
<1>3. /\ group \in [People -> Agents!Groups \cup {Agents!Nobody}] /\ group[p] = "full"
      /\ \A q \in People : group[q] = chain.group[q] \/ group[q] = g
  BY <1>2 DEF AgentsTyped, Agents!Chains, Agents!Groups, Agents!InUse
<1> HIDE DEF group
<1>4. chain' \in Agents!Chains /\ chain'.group = group /\ chain'.custom = chain.custom
  BY <1>1, <1>3 DEF AgentsTyped, Agents!Chains
<1>5. p \in Agents!In("full")'
  BY <1>3, <1>4 DEF Agents!In
<1>6. Agents!InUse' = Agents!InUse
  BY <1>4 DEF Agents!InUse
<1>7. \A q \in People : chain'.group[q] \in Agents!Known \cup Agents!InUse \cup {Agents!Nobody}
  BY <1>3, <1>4 DEF AgentsTyped
<1> QED BY <1>4, <1>5, <1>6, <1>7 DEF AgentsTyped

(* Into a group that comes to be for it.                                   *)
LEMMA AgentsInto ==
  ASSUME AgentsTyped, NEW who \in People, NEW perms \in Agents!Perms, NEW g \in Customs, Agents!In("full") # {who},
         chain' = [chain EXCEPT !.custom[g] = perms, !.group[who] = g]
  PROVE  AgentsTyped'
<1> DEFINE custom == [chain.custom EXCEPT ![g] = perms]
           group  == [chain.group EXCEPT ![who] = g]
<1>1. chain' = [chain EXCEPT !.custom = custom, !.group = group]
  OBVIOUS
<1>2. PICK p \in People : p # who /\ chain.group[p] = "full"
  BY DEF AgentsTyped, Agents!In
<1>3. /\ group \in [People -> Agents!Groups \cup {Agents!Nobody}] /\ group[p] = "full"
      /\ \A q \in People : group[q] = chain.group[q] \/ group[q] = g
  BY <1>2 DEF AgentsTyped, Agents!Chains, Agents!Groups
<1>4. /\ custom \in [Customs -> Agents!Perms \cup {Agents!Nobody}] /\ custom[g] # Agents!Nobody
      /\ \A h \in Customs : custom[h] # Agents!Nobody \/ custom[h] = chain.custom[h]
  BY AgentAssumption DEF AgentsTyped, Agents!Chains, Agents!Perms, Agents!Known, Agents!Nobody
<1> HIDE DEF custom, group
<1>5. chain' \in Agents!Chains /\ chain'.group = group /\ chain'.custom = custom
  BY <1>1, <1>3, <1>4 DEF AgentsTyped, Agents!Chains
<1>6. p \in Agents!In("full")'
  BY <1>3, <1>5 DEF Agents!In
<1>7. Agents!InUse \subseteq Agents!InUse' /\ g \in Agents!InUse'
  BY <1>4, <1>5 DEF Agents!InUse
<1>8. \A q \in People : chain'.group[q] \in Agents!Known \cup Agents!InUse' \cup {Agents!Nobody}
  BY <1>3, <1>5, <1>7 DEF AgentsTyped
<1> QED BY <1>5, <1>6, <1>8 DEF AgentsTyped

LEMMA AgentsNew == Agents!Room => Agents!New \in Customs /\ Agents!New \notin Agents!InUse
<1> SUFFICES ASSUME Agents!Room PROVE Agents!New \in Customs /\ Agents!New \notin Agents!InUse
  OBVIOUS
<1>1. \E g \in Customs : g \notin Agents!InUse
  BY DEF Agents!Room, Agents!InUse
<1> QED BY <1>1 DEF Agents!New

(* Of reads that agree, the one found last is the one that is asked about. *)
LEMMA AgentsLast ==
  ASSUME NEW who \in People
  PROVE  Agents!LastFull(chain.group[who], chain.group) <=> Agents!In("full") = {who}
<1>1. ASSUME Agents!In("full") = {who} PROVE chain.group[who] = "full"
  BY <1>1 DEF Agents!In
<1>2. ASSUME NEW p \in People, Agents!In("full") = {p}, chain.group[who] = "full" PROVE p = who
  BY <1>2 DEF Agents!In
<1> QED BY <1>1, <1>2 DEF Agents!LastFull, Agents!In

LEMMA AgentsJudged ==
  ASSUME NEW r, NEW agents, NEW current, AgentsJudging(r, agents, current), call' # Idle
  PROVE  AgentsCall' /\ UNCHANGED chain
<1> USE DEF Agents!Keep, Agents!Refuse, Agents!Idle, Idle, Agents!NoArgs, NoArgs
<1>1. /\ UNCHANGED chain /\ ~(Agents!LastFull(current, agents) \/ agents[call.args.who] = Agents!Nobody)
  BY DEF AgentsJudging, Agents!Judge
<1>2. Fresh => Agents!MayDemote(call.args.who)
  BY <1>1, AgentsLast DEF AgentsJudging, AgentsMoving, AgentsArgs, Agents!Moves, Agents!MayDemote
<1>3. call.args \in Agents!Moves /\ (call.left \ {r}) = {}
  BY DEF AgentsJudging, AgentsMoving, AgentsArgs
<1>4. CASE call.args.group = Agents!Nobody
  <2>1. call' = [call EXCEPT !.read = [current |-> current], !.left = {"groups"}]
    BY <1>1, <1>3, <1>4 DEF AgentsJudging, Agents!Judge
  <2>2. AgentsGroups'
    BY <1>1, <1>2, <1>4, <2>1 DEF AgentsJudging, AgentsGroups, AgentsMoving, AgentsArgs, Of, Fresh, Agents!MayDemote, Agents!In, Agents!InUse
  <2> QED BY <1>1, <2>2 DEF AgentsCall
<1>5. CASE call.args.group # Agents!Nobody
  <2>1. call' = [call EXCEPT !.read = [target |-> call.args.group], !.left = {}]
    BY <1>1, <1>3, <1>5 DEF AgentsJudging, Agents!Judge
  <2>2. AgentsMove'
    BY <1>1, <1>2, <1>5, <2>1 DEF AgentsJudging, AgentsMove, AgentsMoving, AgentsArgs, Of, Fresh, Agents!MayDemote, Agents!In, Agents!InUse
  <2> QED BY <1>1, <2>2 DEF AgentsCall
<1> QED BY <1>4, <1>5

(* A group that is like what is asked for, or none.                        *)
LEMMA AgentsMatch ==
  ASSUME NEW found \in SUBSET Customs, NEW perms, Agents!Alike(found, perms) # {}
  PROVE  Agents!Match(found, perms) \in found \cup Agents!Known /\ Agents!PermsOf(Agents!Match(found, perms)) = perms
<1>1. Agents!Match(found, perms) \in Agents!Alike(found, perms)
  BY DEF Agents!Match
<1> QED BY <1>1 DEF Agents!Alike

LEMMA AgentsNext == AgentsInv /\ Agents!Next => AgentsInv'
<1> SUFFICES ASSUME AgentsInv, Agents!Next PROVE AgentsInv'
  OBVIOUS
<1> USE DEF Idle, NoArgs, Agents!Idle, Agents!NoArgs, Agents!Calls, Agents!Answers, Agents!Check, Agents!Keep,
        Agents!Refuse, Agents!Built, Agents!Dispatches
<1>0. AgentsCall /\ AgentsTyped
  BY DEF AgentsInv
<1>1. ASSUME UNCHANGED chain, AgentsCall' PROVE AgentsInv'
  BY <1>0, <1>1 DEF AgentsInv, AgentsTyped, Agents!Chains, Agents!In, Agents!InUse
<1>2. ASSUME NEW after, Agents!Happens(after), AgentsTyped', Agents!InUse \subseteq Agents!InUse' PROVE AgentsInv'
  BY <1>0, <1>2, AgentsStale DEF AgentsInv
<1>3. ASSUME AgentsTyped', call' = Idle PROVE AgentsInv'
  BY <1>3 DEF AgentsInv, AgentsCall
<1>4. ASSUME UNCHANGED chain, call' = Idle PROVE AgentsInv'
  BY <1>1, <1>4 DEF AgentsCall
<1>5. ASSUME NEW perms \in Agents!Perms, Agents!CreateGroup(perms) PROVE AgentsInv'
  <2>1. AgentsCreate'
    BY <1>5 DEF Agents!CreateGroup, AgentsCreate, Of
  <2> QED BY <1>1, <1>5, <2>1 DEF Agents!CreateGroup, AgentsCall
<1>6. ASSUME NEW g \in Agents!InUse, NEW perms \in Agents!Perms, Agents!SetPermissions(g, perms) PROVE AgentsInv'
  <2>1. AgentsSet'
    BY <1>6 DEF Agents!SetPermissions, AgentsSet, Of, Agents!InUse
  <2> QED BY <1>1, <1>6, <2>1 DEF Agents!SetPermissions, AgentsCall
<1>7. ASSUME NEW args \in Agents!Moves, Agents!Move(args), (args.group = Agents!Nobody) # (args.perms = Agents!Nobody),
             args.group \in Agents!Known \cup Agents!InUse \cup {Agents!Nobody}
      PROVE  AgentsInv'
  <2>1. args.group = Agents!Nobody <=> args.perms # Agents!Nobody
    BY <1>7
  <2>2. AgentsBoth'
    BY <1>7, <2>1 DEF Agents!Move, AgentsBoth, AgentsMoving, AgentsArgs, Of, Agents!InUse
  <2> QED BY <1>1, <1>7, <2>2 DEF Agents!Move, AgentsCall
<1>8. ASSUME NEW who \in People, Agents!RemoveAgent(who) PROVE AgentsInv'
  <2>1. AgentsRemove'
    BY <1>8 DEF Agents!RemoveAgent, AgentsRemove, Of
  <2> QED BY <1>1, <1>8, <2>1 DEF Agents!RemoveAgent, AgentsCall
<1>9. ASSUME Agents!Waive PROVE AgentsInv'
  <2>1. AgentsWaive'
    BY <1>9 DEF Agents!Waive, AgentsWaive, Of
  <2> QED BY <1>1, <1>9, <2>1 DEF Agents!Waive, AgentsCall
<1>10. ASSUME NEW who \in People, Agents!Appoint(who) PROVE AgentsInv'
  <2>1. AgentsAppoint'
    BY <1>10 DEF Agents!Appoint, AgentsAppoint, Of
  <2> QED BY <1>1, <1>10, <2>1 DEF Agents!Appoint, AgentsCall
<1>11. CASE Agents!ReadAgents /\ call' # Idle
  <2>0. call' = [call EXCEPT !.left = call.left \ {"agents"}] /\ chain' = chain /\ "agents" \in call.left
    BY <1>11 DEF Agents!ReadAgents
  <2>1. CASE AgentsRemove
    <3>1. Agents!MayRemove
      BY <1>11, <2>1 DEF Agents!ReadAgents, AgentsRemove, Of
    <3>2. Agents!MayDemote(call.args.who)
      BY <2>1, <3>1, AgentsLast DEF AgentsRemove, Of, Agents!MayRemove, Agents!MayDemote
    <3>3. AgentsRemove'
      BY <2>0, <2>1, <3>2 DEF AgentsRemove, Of, Fresh, Agents!MayDemote, Agents!In
    <3> QED BY <1>1, <2>0, <3>3 DEF AgentsCall
  <2>2. CASE AgentsWaive
    <3>1. chain.group["me"] # Agents!Nobody
      BY <1>11, <2>2 DEF Agents!ReadAgents, AgentsWaive, Of
    <3>2. AgentsWaive'
      BY <2>0, <2>2, <3>1 DEF AgentsWaive, Of, Fresh
    <3> QED BY <1>1, <2>0, <3>2 DEF AgentsCall
  <2>3. CASE AgentsAppoint
    <3>1. AgentsAppoint'
      BY <2>0, <2>3 DEF AgentsAppoint, Of
    <3> QED BY <1>1, <2>0, <3>1 DEF AgentsCall
  <2> QED BY <1>0, <1>11, <2>1, <2>2, <2>3, AgentsStages DEF Agents!ReadAgents
<1>12. CASE Agents!ReadMoved /\ call' # Idle
  <2>1. CASE AgentsBoth
    <3>1. CASE "agents" \in call.left /\ call' = [call EXCEPT !.read = [agents |-> chain.group], !.left = {"group"}]
      <4>1. UNCHANGED chain
        BY <1>12, <2>1 DEF Agents!ReadMoved, AgentsBoth, AgentsMoving
      <4>2. AgentsGroup'
        BY <2>1, <3>1, <4>1 DEF AgentsBoth, AgentsGroup, AgentsMoving, AgentsArgs, Of, Fresh, Agents!InUse
      <4> QED BY <1>1, <4>1, <4>2 DEF AgentsCall
    <3>2. CASE call' = [call EXCEPT !.read = [current |-> chain.group[call.args.who]], !.left = {"agents"}]
      <4>1. UNCHANGED chain
        BY <1>12, <2>1 DEF Agents!ReadMoved, AgentsBoth, AgentsMoving
      <4>2. AgentsAgents'
        BY <2>1, <3>2, <4>1 DEF AgentsBoth, AgentsAgents, AgentsMoving, AgentsArgs, Of, Fresh, Agents!InUse
      <4> QED BY <1>1, <4>1, <4>2 DEF AgentsCall
    <3>3. /\ call.left = {"agents", "group"} /\ (call.left \ {"agents"}) \cup {} = {"group"}
          /\ (call.left \ {"group"}) \cup {} = {"agents"}
      BY <2>1 DEF AgentsBoth, AgentsMoving
    <3> QED BY <1>12, <3>1, <3>2, <3>3 DEF Agents!ReadMoved
  <2>2. CASE AgentsGroup
    <3>1. AgentsJudging("group", call.read.agents, chain.group[call.args.who])
      BY <1>12, <2>2 DEF Agents!ReadMoved, AgentsGroup, AgentsMoving, AgentsJudging
    <3> QED BY <1>1, <1>12, <3>1, AgentsJudged
  <2>3. CASE AgentsAgents
    <3>1. AgentsJudging("agents", chain.group, call.read.current)
      BY <1>12, <2>3 DEF Agents!ReadMoved, AgentsAgents, AgentsMoving, AgentsJudging
    <3> QED BY <1>1, <1>12, <3>1, AgentsJudged
  <2>4. "agents" \in call.left \/ "group" \in call.left
    BY <1>12 DEF Agents!ReadMoved
  <2>5. call.op = "move"
    BY <1>12 DEF Agents!ReadMoved
  <2> QED BY <1>0, <2>1, <2>2, <2>3, <2>4, <2>5, AgentsStages DEF AgentsGroups, AgentsFound, AgentsMove, AgentsMoving
<1>13. CASE Agents!ReadGroups
  <2>0. UNCHANGED chain
    BY <1>13 DEF Agents!ReadGroups
  <2>1. CASE AgentsCreate
    <3>1. call' = [call EXCEPT !.read = [found |-> Agents!InUse, current |-> Agents!Nobody], !.left = {"permissions"}]
      <4>0. "groups" \in call.left
        BY <1>13 DEF Agents!ReadGroups
      <4>1. (call.left \ {"groups"}) \cup {"permissions"} = {"permissions"} /\ call.op # "move"
        BY <2>1, <4>0 DEF AgentsCreate, Of
      <4> QED BY <1>13, <4>1 DEF Agents!ReadGroups
    <3>2. AgentsCreate'
      BY <2>0, <2>1, <3>1 DEF AgentsCreate, Of, Fresh, Agents!InUse
    <3> QED BY <1>1, <2>0, <3>2 DEF AgentsCall
  <2>2. CASE AgentsGroups
    <3>1. call' = [call EXCEPT !.read = [found |-> Agents!InUse, current |-> call.read.current], !.left = {"permissions"}]
      <4>1. (call.left \ {"groups"}) \cup {"permissions"} = {"permissions"} /\ call.op = "move"
        BY <2>2 DEF AgentsGroups, AgentsMoving, Of
      <4> QED BY <1>13, <4>1 DEF Agents!ReadGroups
    <3>2. AgentsFound'
      BY <2>0, <2>2, <3>1 DEF AgentsGroups, AgentsFound, AgentsMoving, AgentsArgs, Of, Fresh, Agents!InUse, Agents!MayDemote, Agents!In
    <3> QED BY <1>1, <2>0, <3>2 DEF AgentsCall
  <2>3. call.op \in {"create", "move"} /\ "groups" \in call.left
    BY <1>13 DEF Agents!ReadGroups
  <2> QED BY <1>0, <2>1, <2>2, <2>3, AgentsStages DEF AgentsBoth, AgentsGroup, AgentsAgents, AgentsFound, AgentsMove, AgentsMoving
<1>14. CASE Agents!ReadPermissions /\ call' # Idle
  <2>0. UNCHANGED chain
    BY <1>14 DEF Agents!ReadPermissions, Agents!Target
  <2>1. CASE AgentsCreate
    <3>1. call' = [call EXCEPT !.left = call.left \ {"permissions"}] /\ Agents!Alike(call.read.found, call.args.perms) = {}
          /\ "permissions" \in call.left
      BY <1>14, <2>1 DEF Agents!ReadPermissions, AgentsCreate, Of
    <3>2. Fresh => AgentsAlone(call.args.perms) /\ "groups" \notin call.left
      BY <2>1, <3>1 DEF AgentsCreate, Of, AgentsAlone, Agents!Alike
    <3>3. AgentsCreate'
      BY <2>0, <2>1, <3>1, <3>2 DEF AgentsCreate, Of, Fresh, Agents!InUse, AgentsAlone, Agents!PermsOf, Agents!PermsIn
    <3> QED BY <1>1, <2>0, <3>3 DEF AgentsCall
  <2>2. CASE AgentsSet
    <3>1. call' = [call EXCEPT !.left = call.left \ {"permissions"}]
      BY <1>14, <2>2 DEF Agents!ReadPermissions, AgentsSet, Of
    <3>2. AgentsSet'
      BY <2>2, <3>1 DEF AgentsSet, Of
    <3> QED BY <1>1, <2>0, <3>2 DEF AgentsCall
  <2>3. CASE AgentsFound
    <3> DEFINE target == IF Agents!Alike(call.read.found, call.args.perms) = {} THEN Agents!Nobody
                         ELSE Agents!Match(call.read.found, call.args.perms)
    <3>1. call' = [call EXCEPT !.read = [target |-> target], !.left = {}]
      <4>1. (call.left \ {"permissions"}) \cup {} = {} /\ call.op = "move"
        BY <2>3 DEF AgentsFound, AgentsMoving, Of
      <4> QED BY <1>14, <4>1 DEF Agents!ReadPermissions, Agents!Target
    <3>2. call.read.found \in SUBSET Customs /\ call.read.found \subseteq Agents!InUse
      BY <2>3 DEF AgentsFound, Agents!InUse
    <3>3. target \in Agents!Known \cup Agents!InUse \cup {Agents!Nobody}
      BY <3>2, AgentsMatch
    <3>4. Fresh => AgentsTarget(target, call.args.perms)
      <4>1. CASE Agents!Alike(call.read.found, call.args.perms) = {}
        <5>1. Fresh => AgentsAlone(call.args.perms)
          BY <2>3, <4>1 DEF AgentsFound, AgentsAlone, Agents!Alike
        <5> QED BY <4>1, <5>1 DEF AgentsTarget
      <4>2. CASE Agents!Alike(call.read.found, call.args.perms) # {}
        <5>1. target \in Agents!InUse \cup Agents!Known /\ Agents!PermsOf(target) = call.args.perms
          BY <3>2, <4>2, AgentsMatch
        <5>2. target # Agents!Nobody
          BY <5>1, AgentAssumption DEF Agents!InUse, Agents!Known, Agents!Nobody
        <5> QED BY <5>1, <5>2 DEF AgentsTarget
      <4> QED BY <4>1, <4>2
    <3> HIDE DEF target
    <3>5. AgentsMove'
      BY <2>0, <2>3, <3>1, <3>3, <3>4
      DEF AgentsFound, AgentsMove, AgentsMoving, AgentsArgs, Of, Fresh, Agents!InUse, Agents!MayDemote, Agents!In, AgentsTarget, AgentsAlone, Agents!PermsOf, Agents!PermsIn
    <3> QED BY <1>1, <2>0, <3>5 DEF AgentsCall
  <2>4. call.op \in {"create", "set", "move"} /\ "permissions" \in call.left
    BY <1>14 DEF Agents!ReadPermissions
  <2> QED BY <1>0, <2>1, <2>2, <2>3, <2>4, AgentsStages DEF AgentsBoth, AgentsGroup, AgentsAgents, AgentsGroups, AgentsMove, AgentsMoving
<1>15. CASE call' = Idle /\ (Agents!ReadAgents \/ Agents!ReadMoved \/ Agents!ReadPermissions)
  BY <1>0, <1>4, <1>15 DEF Agents!ReadAgents, Agents!ReadMoved, Agents!ReadPermissions, Agents!Judge,
      Agents!Target
<1>16. CASE Agents!DispatchCreate
  <2>1. call.args.perms \in Agents!Perms
    BY <1>0, <1>16, AgentsStages DEF Agents!DispatchCreate, AgentsCreate, Of
  <2>2. Agents!New \in Customs /\ call' = Idle /\ (chain' = chain \/ chain' = [chain EXCEPT !.custom[Agents!New] = call.args.perms])
    BY <1>16, AgentsNew DEF Agents!DispatchCreate
  <2>3. chain' = chain \/ AgentsTyped'
    BY <1>0, <2>1, <2>2, AgentsCustom
  <2> QED BY <1>3, <1>4, <2>2, <2>3
<1>17. CASE Agents!DispatchSet
  <2>1. call.args.perms \in Agents!Perms /\ call.args.group \in Customs
    BY <1>0, <1>17, AgentsStages DEF Agents!DispatchSet, AgentsSet, Of
  <2>2. call' = Idle /\ (chain' = chain \/ chain' = [chain EXCEPT !.custom[call.args.group] = call.args.perms])
    BY <1>17 DEF Agents!DispatchSet
  <2>3. chain' = chain \/ AgentsTyped'
    BY <1>0, <2>1, <2>2, AgentsCustom
  <2> QED BY <1>3, <1>4, <2>2, <2>3
<1>18. CASE Agents!DispatchMove
  <2>1. AgentsMove
    BY <1>0, <1>18, AgentsStages DEF Agents!DispatchMove, AgentsBoth, AgentsGroup, AgentsAgents, AgentsGroups, AgentsFound, AgentsMoving
  <2>2. call' = Idle /\ call.args \in Agents!Moves
    BY <1>18, <2>1 DEF Agents!DispatchMove, AgentsMove, AgentsMoving, AgentsArgs
  <2>3. CASE ~Agents!Accepted
    BY <1>4, <1>18, <2>2, <2>3 DEF Agents!DispatchMove
  <2>4. CASE Agents!Accepted /\ call.read.target = Agents!Nobody
    <3>1. Agents!New \in Customs /\ chain' = [chain EXCEPT !.custom[Agents!New] = call.args.perms, !.group[call.args.who] = Agents!New]
      BY <1>18, <2>4, AgentsNew DEF Agents!DispatchMove
    <3>2. call.args.who \in People /\ Agents!In("full") # {call.args.who} /\ call.args.perms \in Agents!Perms
      BY <1>18, <2>1, <2>2, <2>4 DEF Agents!Moves, Agents!Accepted, Agents!MayDemote, Agents!DispatchMove, AgentsMove, AgentsMoving, AgentsArgs
    <3>3. AgentsTyped'
      BY <1>0, <3>1, <3>2, AgentsInto
    <3> QED BY <1>3, <2>2, <3>3
  <2>5. CASE Agents!Accepted /\ call.read.target # Agents!Nobody
    <3>1. chain' = [chain EXCEPT !.group[call.args.who] = call.read.target]
      BY <1>18, <2>5 DEF Agents!DispatchMove
    <3>2. call.args.who \in People /\ Agents!In("full") # {call.args.who}
      BY <1>18, <2>2, <2>5 DEF Agents!Moves, Agents!Accepted, Agents!MayDemote, Agents!DispatchMove
    <3>3. AgentsTyped'
      BY <1>0, <2>1, <3>1, <3>2, AgentsRegroup DEF AgentsMove
    <3> QED BY <1>3, <2>2, <3>3
  <2> QED BY <2>3, <2>4, <2>5
<1>19. CASE Agents!DispatchRemove
  <2>1. call.args.who \in People
    BY <1>0, <1>19, AgentsStages, AgentAssumption DEF Agents!DispatchRemove, AgentsRemove, AgentsWaive, Of
  <2>2. call' = Idle /\ (chain' = chain \/ (Agents!In("full") # {call.args.who} /\ chain' = [chain EXCEPT !.group[call.args.who] = Agents!Nobody]))
    BY <1>19 DEF Agents!DispatchRemove, Agents!Accepted, Agents!MayDemote
  <2>3. chain' = chain \/ AgentsTyped'
    BY <1>0, <2>1, <2>2, AgentsRegroup
  <2> QED BY <1>3, <1>4, <2>2, <2>3
<1>20. CASE Agents!DispatchAppoint
  <2>1. call.args.who \in People
    BY <1>0, <1>20, AgentsStages DEF Agents!DispatchAppoint, AgentsAppoint, Of
  <2>2. AgentsTyped'
    BY <1>0, <1>20, <2>1 DEF Agents!DispatchAppoint, AgentsTyped, Agents!Chains, Agents!In, Agents!InUse
  <2> QED BY <1>3, <1>20, <2>2 DEF Agents!DispatchAppoint
<1>21. ASSUME NEW who \in People, NEW g \in Agents!Groups \cup {Agents!Nobody}, Agents!OthersMove(who, g) PROVE AgentsInv'
  <2>1. AgentsTyped' /\ Agents!InUse' = Agents!InUse
    BY <1>0, <1>21, AgentsRegroup DEF Agents!OthersMove, Agents!Happens
  <2> QED BY <1>2, <1>21, <2>1 DEF Agents!OthersMove
<1>22. ASSUME NEW perms \in Own, Agents!OthersGroup(perms) PROVE AgentsInv'
  <2>1. AgentsTyped' /\ Agents!InUse \subseteq Agents!InUse'
    BY <1>0, <1>22, AgentsNew, AgentsCustom DEF Agents!OthersGroup, Agents!Happens, Agents!Perms
  <2> QED BY <1>2, <1>22, <2>1 DEF Agents!OthersGroup
<1>23. ASSUME NEW perms \in Own, NEW g \in Agents!InUse, Agents!OthersSet(g, perms) PROVE AgentsInv'
  <2>1. g \in Customs /\ perms \in Agents!Perms
    BY DEF Agents!InUse, Agents!Perms
  <2>2. AgentsTyped' /\ Agents!InUse \subseteq Agents!InUse'
    BY <1>0, <1>23, <2>1, AgentsCustom DEF Agents!OthersSet, Agents!Happens
  <2> QED BY <1>2, <1>23, <2>2 DEF Agents!OthersSet
<1>24. ASSUME NEW who \in People, Agents!Accept(who) PROVE AgentsInv'
  <2> DEFINE group == [chain.group EXCEPT ![who] = "caa"]
  <2>1. Agents!Happens([chain EXCEPT !.asked = chain.asked \ {who}, !.group = group]) /\ chain.group[who] = Agents!Nobody
    BY <1>24 DEF Agents!Accept
  <2>2. /\ group \in [People -> Agents!Groups \cup {Agents!Nobody}]
        /\ \A p \in People : chain.group[p] = "full" => group[p] = "full"
        /\ \A p \in People : group[p] = chain.group[p] \/ group[p] \in Agents!Known
    BY <1>0, <2>1 DEF AgentsTyped, Agents!Chains, Agents!Groups, Agents!Known, Agents!Nobody
  <2> HIDE DEF group
  <2>3. chain' \in Agents!Chains /\ chain'.group = group /\ chain'.custom = chain.custom
    BY <1>0, <2>1, <2>2 DEF Agents!Happens, AgentsTyped, Agents!Chains
  <2>4. Agents!InUse' = Agents!InUse /\ Agents!In("full") \subseteq Agents!In("full")'
    BY <2>2, <2>3 DEF Agents!InUse, Agents!In
  <2>5. AgentsTyped'
    BY <1>0, <2>2, <2>3, <2>4 DEF AgentsTyped
  <2> QED BY <1>2, <2>1, <2>4, <2>5
<1> QED
  BY <1>5, <1>6, <1>7, <1>8, <1>9, <1>10, <1>11, <1>12, <1>13, <1>14, <1>15, <1>16, <1>17, <1>18, <1>19,
     <1>20, <1>21, <1>22, <1>23, <1>24
     DEF Agents!Next

LEMMA AgentsStutter == AgentsInv /\ UNCHANGED <<chain, call>> => AgentsInv'
BY DEF AgentsInv, AgentsTyped, Agents!Chains, Agents!In, Agents!InUse, AgentsCreate, Of, Fresh, AgentsAlone, Agents!PermsOf,
       Agents!PermsIn, AgentsSet, AgentsBoth, AgentsMoving, AgentsArgs, AgentsGroup, AgentsAgents, AgentsGroups,
       Agents!MayDemote, AgentsFound, AgentsMove, AgentsTarget, AgentsRemove, AgentsWaive, AgentsAppoint, AgentsCall, Idle

LEMMA AgentsOK == AgentsInv => Agents!TypeOK /\ Agents!RevertedOnlyIfStale
<1> SUFFICES ASSUME AgentsInv PROVE Agents!TypeOK /\ Agents!RevertedOnlyIfStale
  OBVIOUS
<1>1. Agents!TypeOK
  <2>1. /\ call.op \in {"none", "create", "set", "move", "remove", "waive", "appoint"}
        /\ call.left \subseteq {"agents", "group", "groups", "permissions"}
    BY DEF AgentsInv, AgentsCall, AgentsCreate, AgentsSet, AgentsBoth, AgentsGroup, AgentsAgents, AgentsGroups, AgentsFound, AgentsMove, AgentsRemove, AgentsWaive, AgentsAppoint,
       AgentsMoving, Of, Idle
  <2> QED BY <2>1 DEF AgentsInv, AgentsTyped, Agents!TypeOK
<1>2. ASSUME Agents!Built, Agents!Fresh PROVE AgentsExcused
  <2> USE DEF Agents!Built, Agents!Fresh, Fresh, AgentsExcused, Agents!Accepted
  <2>1. CASE AgentsMove
    BY <1>2, <2>1 DEF AgentsMove
  <2>2. CASE AgentsRemove
    BY <1>2, <2>2 DEF AgentsRemove
  <2>3. CASE AgentsWaive
    BY <1>2, <2>3 DEF AgentsWaive, Of, Agents!MayDemote
  <2>4. CASE AgentsCreate \/ AgentsSet \/ AgentsAppoint
    BY <2>4 DEF AgentsCreate, AgentsSet, AgentsAppoint, Of
  <2> QED BY <1>2, <2>1, <2>2, <2>3, <2>4 DEF AgentsInv, AgentsCall, AgentsBoth, AgentsGroup, AgentsAgents, AgentsGroups, AgentsFound, AgentsMoving, Idle
<1> QED BY <1>1, <1>2 DEF Agents!RevertedOnlyIfStale, AgentsExcused

LEMMA AgentsRefused == AgentsInv /\ Agents!Next => Agents!TurnedAwayRightly
<1> SUFFICES ASSUME AgentsInv, Agents!Next, Agents!TurnedAway, Agents!Fresh
             PROVE  AgentsBarred
  BY DEF Agents!TurnedAwayRightly, AgentsBarred
<1> USE DEF Agents!Answers, Agents!Check, Agents!Keep, AgentsBarred
<1>0. AgentsCall /\ AgentsTyped /\ ~Agents!Built /\ call.op # "none" /\ call'.op = "none"
  BY DEF AgentsInv, Agents!TurnedAway, Agents!Ends
<1> USE DEF Agents!Keep, Agents!Refuse, Agents!Idle, Idle
<1>1. DOMAIN call = {"op", "args", "read", "left", "stale"}
  BY <1>0 DEF AgentsCall, AgentsCreate, AgentsSet, AgentsBoth, AgentsGroup, AgentsAgents, AgentsGroups, AgentsFound, AgentsMove, AgentsRemove, AgentsWaive, AgentsAppoint, AgentsMoving, Of
<1>2. ASSUME NEW r, NEW agents, NEW current, AgentsJudging(r, agents, current) PROVE AgentsBarred
  <2>1. call.op = "move" /\ agents = chain.group /\ current = chain.group[call.args.who]
    BY <1>2 DEF AgentsJudging, AgentsMoving, Of, Agents!Fresh, Fresh
  <2>2. \/ Agents!LastFull(current, agents)
        \/ agents[call.args.who] = Agents!Nobody
        \/ call.args.group = current
    BY <1>0, <1>1, <1>2, <2>1 DEF AgentsJudging, Agents!Judge
  <2>3. ~Agents!MayDemote(call.args.who) \/ chain.group[call.args.who] = call.args.group
    BY <1>2, <2>1, <2>2, AgentsLast DEF AgentsJudging, AgentsMoving, AgentsArgs, Agents!Moves,
                                       Agents!MayDemote
  <2> QED BY <2>1, <2>3
<1>3. CASE Agents!ReadAgents
  <2>1. CASE call.op = "remove"
    <3>1. ~Agents!MayRemove
      BY <1>0, <1>1, <1>3, <2>1 DEF Agents!ReadAgents
    <3>2. call.args.who \in People
      BY <1>0, <2>1, AgentsStages DEF AgentsRemove, Of
    <3> QED BY <2>1, <3>1, <3>2, AgentsLast DEF Agents!MayRemove, Agents!MayDemote
  <2>2. CASE call.op = "waive"
    <3>1. ~(chain.group["me"] # Agents!Nobody)
      BY <1>0, <1>1, <1>3, <2>2 DEF Agents!ReadAgents
    <3>2. call.args.who = "me"
      BY <1>0, <2>2, AgentsStages DEF AgentsWaive, Of
    <3> QED BY <2>2, <3>1, <3>2 DEF Agents!MayDemote
  <2>3. CASE call.op = "appoint"
    <3>1. Agents!In("caa") # {}
      BY <1>0, <1>1, <1>3, <2>3 DEF Agents!ReadAgents
    <3> QED BY <2>3, <3>1 DEF Agents!In
  <2> QED BY <1>3, <2>1, <2>2, <2>3 DEF Agents!ReadAgents
<1>4. CASE Agents!ReadMoved
  <2>0. call.op = "move" /\ ("agents" \in call.left \/ "group" \in call.left)
    BY <1>4 DEF Agents!ReadMoved
  <2>1. CASE AgentsBoth
    <3>1. chain.group[call.args.who] = Agents!Nobody
      BY <1>0, <1>1, <1>4, <2>1 DEF Agents!ReadMoved, AgentsBoth, AgentsMoving
    <3> QED BY <2>0, <3>1 DEF Agents!MayDemote
  <2>2. CASE AgentsGroup
    <3>1. chain.group[call.args.who] = Agents!Nobody \/ AgentsJudging("group", call.read.agents, chain.group[call.args.who])
      BY <1>4, <2>2 DEF Agents!ReadMoved, AgentsGroup, AgentsMoving, AgentsJudging
    <3> QED BY <1>2, <2>0, <3>1 DEF Agents!MayDemote
  <2>3. CASE AgentsAgents
    <3>1. AgentsJudging("agents", chain.group, call.read.current)
      BY <1>4, <2>3 DEF Agents!ReadMoved, AgentsAgents, AgentsMoving, AgentsJudging
    <3> QED BY <1>2, <3>1
  <2> QED BY <1>0, <2>0, <2>1, <2>2, <2>3, AgentsStages DEF AgentsGroups, AgentsFound, AgentsMove, AgentsMoving
<1>5. CASE Agents!ReadGroups
  BY <1>0, <1>5 DEF Agents!ReadGroups
<1>6. CASE Agents!ReadPermissions
  <2>1. CASE call.op = "create"
    <3>1. AgentsCreate /\ "permissions" \in call.left
      BY <1>0, <1>6, <2>1, AgentsStages DEF Agents!ReadPermissions
    <3>2. Agents!Alike(call.read.found, call.args.perms) # {}
      BY <1>0, <1>1, <1>6, <2>1 DEF Agents!ReadPermissions
    <3>3. call.read.found = Agents!InUse
      BY <3>1 DEF AgentsCreate, Agents!Fresh, Fresh
    <3> QED BY <2>1, <3>2, <3>3 DEF Agents!Alike
  <2>2. CASE call.op = "set"
    BY <1>0, <1>1, <1>6, <2>2 DEF Agents!ReadPermissions
  <2>3. CASE call.op = "move"
    <3>1. AgentsFound
      BY <1>0, <1>6, <2>3, AgentsStages DEF Agents!ReadPermissions, AgentsBoth, AgentsGroup, AgentsAgents, AgentsGroups, AgentsMove, AgentsMoving
    <3>2. /\ Agents!Alike(call.read.found, call.args.perms) # {}
          /\ Agents!Match(call.read.found, call.args.perms) = call.read.current
      BY <1>0, <1>1, <1>6, <2>3 DEF Agents!ReadPermissions, Agents!Target
    <3>3. call.read.found \in SUBSET Customs /\ call.read.current = chain.group[call.args.who]
      BY <3>1 DEF AgentsFound, Agents!InUse, Agents!Fresh, Fresh
    <3>4. Agents!PermsOf(chain.group[call.args.who]) = call.args.perms
      BY <3>2, <3>3, AgentsMatch
    <3> QED BY <2>3, <3>4
  <2> QED BY <1>6, <2>1, <2>2, <2>3 DEF Agents!ReadPermissions
<1>7. CASE Agents!DispatchMove \/ Agents!DispatchCreate \/ Agents!DispatchSet \/ Agents!DispatchRemove \/ Agents!DispatchAppoint
  BY <1>0, <1>7 DEF Agents!DispatchMove, Agents!DispatchCreate, Agents!DispatchSet, Agents!DispatchRemove, Agents!DispatchAppoint, Agents!Dispatches
<1>8. ASSUME NEW after, Agents!Happens(after) PROVE FALSE
  BY <1>0, <1>8, AgentsStages DEF Agents!Happens
<1> QED
  BY <1>0, <1>1, <1>2, <1>3, <1>4, <1>5, <1>6, <1>7, <1>8 DEF Agents!Next, Agents!Calls, Agents!CreateGroup,
     Agents!SetPermissions, Agents!Move, Agents!RemoveAgent, Agents!Waive, Agents!Appoint, Agents!OthersMove,
     Agents!OthersGroup, Agents!OthersSet, Agents!Accept
(* Of the groups there are none has the permissions but the new one.       *)
LEMMA AgentsOnly ==
  ASSUME AgentsTyped, NEW perms, perms # Agents!Nobody, AgentsAlone(perms), Agents!New \in Customs, Agents!New \notin Agents!InUse,
         \A g \in Agents!Groups : Agents!PermsIn(chain', g) = IF g = Agents!New THEN perms ELSE Agents!PermsOf(g)
  PROVE  /\ \A g \in Agents!Groups : Agents!PermsOf(g) # perms
         /\ Agents!Cardinality({g \in Agents!Groups : Agents!PermsIn(chain', g) = perms}) = 1
<1>1. \A g \in Agents!Groups : Agents!PermsOf(g) # perms
  BY DEF AgentsAlone, Agents!Groups, Agents!InUse, Agents!PermsOf, Agents!PermsIn
<1>2. {g \in Agents!Groups : Agents!PermsIn(chain', g) = perms} = {Agents!New}
  BY <1>1 DEF Agents!Groups
<1>3. Agents!Cardinality({Agents!New}) = Cardinality({Agents!New})
  BY AgentsSizes
<1>4. Cardinality({Agents!New}) = 1
  BY FS_Singleton, Zenon
<1>5. Agents!Cardinality({Agents!New}) = 1
  BY <1>3, <1>4
<1> QED BY <1>1, <1>2, <1>5, Zenon

LEMMA AgentsDone == AgentsInv /\ Agents!Next => Agents!DoneAsAsked
<1> SUFFICES ASSUME AgentsInv, Agents!Next, Agents!Built, Agents!Ends, Agents!Fresh, Agents!Accepted, call.op \in {"create", "move"}, call.args.perms # Agents!Nobody PROVE Agents!DoneAsAsked
  BY DEF Agents!DoneAsAsked
<1>0. AgentsCall /\ AgentsTyped /\ call.left = {}
  BY DEF AgentsInv, Agents!Built
<1>1. ASSUME NEW after, Agents!Happens(after) PROVE FALSE
  BY <1>0, <1>1, AgentsStages DEF Agents!Happens, Agents!Ends
<1>2. Agents!DispatchCreate \/ Agents!DispatchMove
  BY <1>0, <1>1 DEF Agents!Next, Agents!CreateGroup, Agents!SetPermissions, Agents!Move, Agents!RemoveAgent, Agents!Waive, Agents!Appoint, Agents!Calls, Agents!Built,
     Agents!ReadAgents, Agents!ReadMoved, Agents!ReadGroups, Agents!ReadPermissions, Agents!Answers, Agents!DispatchSet, Agents!DispatchRemove,
     Agents!DispatchAppoint, Agents!OthersMove, Agents!OthersGroup, Agents!OthersSet, Agents!Accept
<1> DEFINE perms == call.args.perms
           made(c) == \A g \in Agents!Groups : Agents!PermsIn(c, g) = IF g = Agents!New THEN perms ELSE Agents!PermsOf(g)
<1>3. ASSUME AgentsAlone(perms), Agents!New \in Customs, Agents!New \notin Agents!InUse, made(chain')
      PROVE  Agents!Cardinality({g \in Agents!Groups : Agents!PermsIn(chain', g) = perms}) =
               IF \E g \in Agents!Groups : Agents!PermsOf(g) = perms
                 THEN Agents!Cardinality({g \in Agents!Groups : Agents!PermsOf(g) = perms})
                 ELSE 1
  BY <1>0, <1>3, AgentsOnly
<1>4. CASE Agents!DispatchCreate
  <2>1. AgentsCreate /\ call.op = "create"
    BY <1>0, <1>4, AgentsStages DEF Agents!DispatchCreate
  <2>2. AgentsAlone(perms)
    BY <1>0, <2>1 DEF AgentsCreate, Agents!Fresh, Fresh
  <2>3. Agents!New \in Customs /\ Agents!New \notin Agents!InUse /\ chain' = [chain EXCEPT !.custom[Agents!New] = perms]
    BY <1>4, AgentsNew DEF Agents!DispatchCreate, Agents!Dispatches
  <2>4. made(chain')
    BY <1>0, <2>3 DEF AgentsTyped, Agents!Chains, Agents!PermsOf, Agents!PermsIn
  <2> QED BY <1>3, <2>1, <2>2, <2>3, <2>4 DEF Agents!DoneAsAsked
<1>5. CASE Agents!DispatchMove
  <2>1. AgentsMove /\ call.op = "move"
    BY <1>0, <1>5, AgentsStages DEF Agents!DispatchMove, AgentsBoth, AgentsGroup, AgentsAgents, AgentsGroups, AgentsFound, AgentsMoving
  <2>2. AgentsTarget(call.read.target, perms) /\ call.args \in Agents!Moves
    BY <2>1 DEF AgentsMove, AgentsMoving, AgentsArgs, Agents!Fresh, Fresh
  <2>3. CASE call.read.target = Agents!Nobody
    <3>1. /\ Agents!New \in Customs /\ Agents!New \notin Agents!InUse
          /\ chain' = [chain EXCEPT !.custom[Agents!New] = perms, !.group[call.args.who] = Agents!New]
      BY <1>5, <2>3, AgentsNew DEF Agents!DispatchMove, Agents!Dispatches
    <3>2. chain'.custom = [chain.custom EXCEPT ![Agents!New] = perms] /\ chain'.group = [chain.group EXCEPT ![call.args.who] = Agents!New]
      BY <1>0, <3>1 DEF AgentsTyped, Agents!Chains
    <3>3. made(chain') /\ chain'.group[call.args.who] = Agents!New
      BY <1>0, <2>2, <3>1, <3>2 DEF AgentsTyped, Agents!Chains, Agents!PermsOf, Agents!PermsIn, Agents!Moves
    <3>4. AgentsAlone(perms)
      BY <2>2, <2>3 DEF AgentsTarget
    <3>5. Agents!PermsIn(chain', Agents!New) = perms
      BY <3>1, <3>3 DEF Agents!Groups
    <3> QED BY <1>3, <3>1, <3>3, <3>4, <3>5 DEF Agents!DoneAsAsked
  <2>4. CASE call.read.target # Agents!Nobody
    <3>1. chain' = [chain EXCEPT !.group[call.args.who] = call.read.target]
      BY <1>5, <2>4 DEF Agents!DispatchMove, Agents!Dispatches
    <3>2. chain'.custom = chain.custom /\ chain'.group[call.args.who] = call.read.target
      BY <1>0, <2>2, <3>1 DEF AgentsTyped, Agents!Chains, Agents!Moves
    <3>3. \A g : Agents!PermsIn(chain', g) = Agents!PermsOf(g)
      BY <3>2 DEF Agents!PermsIn, Agents!PermsOf
    <3>4. Agents!PermsOf(call.read.target) = perms /\ call.read.target \in Agents!Groups
      BY <2>1, <2>2, <2>4 DEF AgentsTarget, AgentsMove, Agents!Groups, Agents!InUse
    <3>5. {g \in Agents!Groups : Agents!PermsIn(chain', g) = perms} = {g \in Agents!Groups : Agents!PermsOf(g) = perms}
      BY <3>3
    <3>6. Agents!PermsIn(chain', chain'.group[call.args.who]) = perms
      BY <3>2, <3>3, <3>4
    <3> QED BY <3>4, <3>5, <3>6 DEF Agents!DoneAsAsked
  <2> QED BY <2>3, <2>4
<1> QED BY <1>2, <1>4, <1>5

-----------------------------------------------------------------------------
(* Restrictions *)

LEMMA LimitsSizes == \A set : Limits!Cardinality(set) = Cardinality(set)
BY DEF Cardinality, Limits!Cardinality

LEMMA LimitsFinite ==
  ASSUME NEW set, set \subseteq Limits!Restrictions
  PROVE  /\ IsFiniteSet(set) /\ Limits!Cardinality(set) \in Nat
         /\ \A r \in Limits!Restrictions \ set : Limits!Cardinality(set \cup {r}) = Limits!Cardinality(set) + 1
<1>1. IsFiniteSet(RestrictionKinds) /\ IsFiniteSet(Values)
  BY RestrictionAssumption
<1>2. IsFiniteSet(RestrictionKinds \X Values)
  BY <1>1, FS_Product, Zenon
<1>3. IsFiniteSet(set)
  BY <1>2, FS_Subset, Zenon DEF Limits!Restrictions
<1>4. Cardinality(set) \in Nat
  BY <1>3, FS_CardinalityType, Zenon
<1>5. \A r \in Limits!Restrictions \ set : Cardinality(set \cup {r}) = Cardinality(set) + 1
  <2> TAKE r \in Limits!Restrictions \ set
  <2>1. Cardinality(set \cup {r}) = IF r \in set THEN Cardinality(set) ELSE Cardinality(set) + 1
    BY <1>3, FS_AddElement, Zenon
  <2> QED BY <2>1
<1> QED BY <1>3, <1>4, <1>5, LimitsSizes

LEMMA LimitsConditions == call.args \in LimitsSets => Limits!Conditions \in SUBSET Limits!Restrictions
BY DEF Limits!Conditions, Limits!Restrictions, LimitsSets

LEMMA LimitsNone == Limits!Cardinality({}) = 0
<1>1. Cardinality({}) = 0
  BY FS_EmptySet, Zenon
<1> QED BY <1>1, LimitsSizes

LEMMA LimitsInit == Limits!Init => LimitsInv
<1> SUFFICES ASSUME Limits!Init PROVE LimitsInv
  OBVIOUS
<1>1. /\ chain.restrictions = {} /\ chain.stats \in SUBSET RestrictionKinds
      /\ chain.exempt = [k \in RestrictionKinds |-> {}] /\ call = Limits!Idle
      /\ chain \in [stats : SUBSET RestrictionKinds, restrictions : {{}}, exempt : {[k \in RestrictionKinds |-> {}]}]
  BY DEF Limits!Init
<1>2. chain.exempt \in [RestrictionKinds -> SUBSET Exempted]
  BY <1>1
<1>3. chain \in Limits!Chains
  BY <1>1, <1>2 DEF Limits!Chains
<1>4. Limits!Valid(chain)
  <2>1. Limits!Cardinality(chain.restrictions) = 0 /\ MaxConditions \in Nat
    BY <1>1, LimitsNone, RestrictionAssumption
  <2>2. 0 <= MaxConditions
    BY <2>1
  <2> QED BY <1>1, <2>1, <2>2 DEF Limits!Valid
<1> QED BY <1>1, <1>3, <1>4 DEF LimitsInv, LimitsTyped, LimitsCall, Limits!Idle, Idle, Limits!NoArgs, NoArgs

LEMMA LimitsStages ==
  ASSUME LimitsCall
  PROVE  /\ call.op = "none" => call = Idle
         /\ [call EXCEPT !.stale = TRUE].op = call.op
         /\ call.op = "enable" => LimitsEnable
         /\ call.op = "disable" => LimitsDisable
         /\ call.op = "add" => LimitsAdd
         /\ call.op = "set" => LimitsNeeded \/ LimitsReading \/ LimitsSet
BY DEF LimitsCall, LimitsEnable, LimitsDisable, LimitsAdd, LimitsNeeded,
       LimitsReading, LimitsSet, Of, Idle

LEMMA LimitsStale ==
  ASSUME LimitsCall, NEW after, Limits!Happens(after) PROVE LimitsCall'
<1>1. CASE call = Idle
  BY <1>1 DEF Limits!Happens, LimitsCall, Idle
<1>2. CASE call # Idle
  <2>1. call' = [call EXCEPT !.stale = TRUE]
    BY <1>2, LimitsStages DEF Limits!Happens
  <2> QED BY <1>2, <2>1 DEF LimitsCall, LimitsEnable, Fresh, Of, LimitsDisable, LimitsAdd, LimitsNeeded, LimitsReading,
     LimitsSet, Limits!Conditions
<1> QED BY <1>1, <1>2

(* What is sent is a set of what there may be.                             *)
LEMMA LimitsAfterIn ==
  ASSUME LimitsTyped, LimitsCall, Limits!Built PROVE Limits!After \in Limits!Chains
<1> USE DEF Limits!Built
<1>1. CASE LimitsEnable \/ LimitsDisable
  BY <1>1 DEF LimitsEnable, LimitsDisable, Of, Limits!After, LimitsTyped, Limits!Chains
<1>2. CASE LimitsAdd
  <2> DEFINE exempt == [chain.exempt EXCEPT ![call.args.kind] = @ \cup call.args.exempted]
  <2>1. Limits!After = [chain EXCEPT !.restrictions = call.read.conditions, !.exempt = exempt]
    BY <1>2 DEF LimitsAdd, Of, Limits!After
  <2>2. exempt \in [RestrictionKinds -> SUBSET Exempted] /\ call.read.conditions \in SUBSET Limits!Restrictions
    BY <1>2 DEF LimitsAdd, Of, LimitsTyped, Limits!Chains
  <2> HIDE DEF exempt
  <2> QED BY <2>1, <2>2 DEF LimitsTyped, Limits!Chains
<1>3. CASE LimitsSet
  <2> DEFINE exempt == [chain.exempt EXCEPT ![call.args.kind] = (@ \cup call.read.set) \ call.read.remove]
  <2>1. Limits!After = [chain EXCEPT !.restrictions = call.read.conditions, !.exempt = exempt]
    BY <1>3 DEF LimitsSet, Of, Limits!After
  <2>2. exempt \in [RestrictionKinds -> SUBSET Exempted] /\ call.read.conditions \in SUBSET Limits!Restrictions
    BY <1>3, LimitsConditions DEF LimitsSet, Of, LimitsSets, LimitsTyped, Limits!Chains
  <2> HIDE DEF exempt
  <2> QED BY <2>1, <2>2 DEF LimitsTyped, Limits!Chains
<1>4. ~LimitsNeeded /\ ~LimitsReading /\ call # Idle
  BY DEF LimitsNeeded, LimitsReading, Idle
<1> QED BY <1>1, <1>2, <1>3, <1>4 DEF LimitsCall

LEMMA LimitsNext == LimitsInv /\ Limits!Next => LimitsInv'
<1> SUFFICES ASSUME LimitsInv, Limits!Next PROVE LimitsInv'
  OBVIOUS
<1> USE DEF Idle, NoArgs, Limits!Idle, Limits!NoArgs, Limits!Calls, Limits!Answers, Limits!Check, Limits!Keep,
        Limits!Refuse, Limits!Built, Limits!Dispatches
<1>0. LimitsCall /\ LimitsTyped
  BY DEF LimitsInv
<1>1. ASSUME UNCHANGED chain, LimitsCall' PROVE LimitsInv'
  BY <1>0, <1>1 DEF LimitsInv, LimitsTyped, Limits!Chains, Limits!Valid
<1>2. ASSUME NEW after, Limits!Happens(after), LimitsTyped' PROVE LimitsInv'
  BY <1>0, <1>2, LimitsStale DEF LimitsInv
<1>3. ASSUME LimitsTyped', call' = Idle PROVE LimitsInv'
  BY <1>3 DEF LimitsInv, LimitsCall
<1>4. ASSUME UNCHANGED chain, call' = Idle PROVE LimitsInv'
  BY <1>1, <1>4 DEF LimitsCall
<1>5. ASSUME NEW kind \in RestrictionKinds, Limits!Enable(kind) PROVE LimitsInv'
  <2>1. LimitsEnable'
    BY <1>5 DEF Limits!Enable, LimitsEnable, Of
  <2> QED BY <1>1, <1>5, <2>1 DEF Limits!Enable, LimitsCall
<1>6. ASSUME NEW kind \in RestrictionKinds, Limits!Disable(kind) PROVE LimitsInv'
  <2>1. LimitsDisable'
    BY <1>6 DEF Limits!Disable, LimitsDisable, Of
  <2> QED BY <1>1, <1>6, <2>1 DEF Limits!Disable, LimitsCall
<1>7. ASSUME NEW kind \in RestrictionKinds, NEW value \in Values, NEW exempted \in SUBSET Exempted, Limits!Add(kind, value, exempted) PROVE LimitsInv'
  <2>1. LimitsAdd'
    BY <1>7 DEF Limits!Add, LimitsAdd, Of
  <2> QED BY <1>1, <1>7, <2>1 DEF Limits!Add, LimitsCall
<1>8. ASSUME NEW kind \in RestrictionKinds, NEW values \in SUBSET Values, NEW exempted \in SUBSET Exempted, Limits!Set(kind, values, exempted) PROVE LimitsInv'
  <2>1. LimitsNeeded'
    BY <1>8 DEF Limits!Set, LimitsNeeded, Of, LimitsSets
  <2> QED BY <1>1, <1>8, <2>1 DEF Limits!Set, LimitsCall
<1>9. CASE Limits!ReadStats /\ call' # Idle
  <2>1. LimitsEnable
    BY <1>0, <1>9, LimitsStages DEF Limits!ReadStats
  <2> DEFINE stats == chain.stats \cup {call.args.kind}
  <2>2. call' = [call EXCEPT !.read = [stats |-> stats], !.left = @ \ {"stats"}] /\ chain' = chain
        /\ call.args.kind \notin chain.stats
    BY <1>9, <2>1 DEF Limits!ReadStats, LimitsEnable, Of
  <2>3. stats \subseteq RestrictionKinds
    BY <1>0, <2>1 DEF LimitsEnable, Of, LimitsTyped, Limits!Chains
  <2>4. LimitsEnable'
    BY <2>1, <2>2, <2>3 DEF LimitsEnable, Of, Fresh
  <2> QED BY <1>1, <2>2, <2>4 DEF LimitsCall
<1>10. CASE Limits!ReadUse /\ call' # Idle
  <2>1. LimitsDisable
    BY <1>0, <1>10, LimitsStages DEF Limits!ReadUse
  <2> DEFINE stats == chain.stats \ {call.args.kind}
  <2>2. call' = [call EXCEPT !.read = [stats |-> stats], !.left = @ \ {"both"}] /\ chain' = chain
        /\ Limits!MayDisable(call.args.kind)
    BY <1>10, <2>1 DEF Limits!ReadUse, LimitsDisable, Of
  <2>3. stats \subseteq RestrictionKinds
    BY <1>0, <2>1 DEF LimitsDisable, Of, LimitsTyped, Limits!Chains
  <2>4. LimitsDisable'
    BY <2>1, <2>2, <2>3 DEF LimitsDisable, Of, Fresh, Limits!MayDisable
  <2> QED BY <1>1, <2>2, <2>4 DEF LimitsCall
<1>11. CASE Limits!ReadBoth /\ call' # Idle
  <2>1. LimitsAdd
    BY <1>0, <1>11, LimitsStages DEF Limits!ReadBoth
  <2> DEFINE r == <<call.args.kind, call.args.value>>
             conditions == chain.restrictions \cup {r}
  <2>2. call' = [call EXCEPT !.read = [conditions |-> conditions], !.left = @ \ {"both"}] /\ chain' = chain
        /\ Limits!MayAdd(r)
    BY <1>11, <2>1 DEF Limits!ReadBoth, LimitsAdd, Of
  <2>3. conditions \subseteq Limits!Restrictions
    BY <1>0, <2>1 DEF LimitsAdd, Of, LimitsTyped, Limits!Chains, Limits!Restrictions
  <2>4. LimitsAdd'
    BY <2>1, <2>2, <2>3 DEF LimitsAdd, Of, Fresh, Limits!MayAdd
  <2> QED BY <1>1, <2>2, <2>4 DEF LimitsCall
<1>12. CASE Limits!ReadNeeded /\ call' # Idle
  <2>1. LimitsNeeded
    BY <1>0, <1>12, LimitsStages DEF Limits!ReadNeeded, LimitsReading, LimitsSet
  <2>2. call' = [call EXCEPT !.read = [others |-> 0, same |-> {}], !.left = {"same", "others"}] /\ chain' = chain
        /\ LimitsNeeds
    BY <1>12, <2>1 DEF Limits!ReadNeeded, LimitsNeeded, Of, LimitsNeeds
  <2>3. LimitsReading'
    BY <2>1, <2>2 DEF LimitsNeeded, LimitsReading, Of, Fresh, LimitsNeeds
  <2> QED BY <1>1, <2>2, <2>3 DEF LimitsCall
<1>13. CASE Limits!ReadSame
  <2>1. LimitsReading
    BY <1>0, <1>13, LimitsStages DEF Limits!ReadSame, LimitsNeeded, LimitsSet
  <2> DEFINE left == (call.left \ {"same"}) \cup (IF "others" \in call.left THEN {} ELSE {"exempt"})
             read == [call.read EXCEPT !.same = LimitsOf]
  <2>2. call' = [call EXCEPT !.read = read, !.left = left] /\ chain' = chain /\ "same" \in call.left
    BY <1>13, <2>1 DEF Limits!ReadSame, LimitsReading, Of, LimitsOf
  <2>3. /\ call.left = {"same", "others"} => left = {"others"}
        /\ call.left = {"same"} => left = {"exempt"}
    OBVIOUS
  <2>4. LimitsOf \in SUBSET Limits!Restrictions
    BY <1>0 DEF LimitsOf, Limits!OfKind, LimitsTyped, Limits!Chains
  <2>5. read \in [others : Nat, same : SUBSET Limits!Restrictions] /\ read.same = LimitsOf /\ read.others = call.read.others
    BY <2>1, <2>4 DEF LimitsReading
  <2> HIDE DEF left, read
  <2>6. LimitsReading'
    BY <2>1, <2>2, <2>3, <2>5 DEF LimitsReading, Of, Fresh, LimitsNeeds, LimitsOf, LimitsOthers
  <2> QED BY <1>1, <2>2, <2>6 DEF LimitsCall
<1>14. CASE Limits!ReadOthers
  <2>1. LimitsReading
    BY <1>0, <1>14, LimitsStages DEF Limits!ReadOthers, LimitsNeeded, LimitsSet
  <2> DEFINE left == (call.left \ {"others"}) \cup (IF "same" \in call.left THEN {} ELSE {"exempt"})
             read == [call.read EXCEPT !.others = LimitsOthers]
  <2>2. call' = [call EXCEPT !.read = read, !.left = left] /\ chain' = chain /\ "others" \in call.left
    BY <1>14, <2>1 DEF Limits!ReadOthers, LimitsReading, Of, LimitsOf, LimitsOthers
  <2>3. /\ call.left = {"same", "others"} => left = {"same"}
        /\ call.left = {"others"} => left = {"exempt"}
    OBVIOUS
  <2>4. LimitsOthers \in Nat
    <3>1. chain.restrictions \ LimitsOf \subseteq Limits!Restrictions
      BY <1>0 DEF LimitsTyped, Limits!Chains
    <3> QED BY <3>1, LimitsFinite DEF LimitsOthers
  <2>5. read \in [others : Nat, same : SUBSET Limits!Restrictions] /\ read.same = call.read.same /\ read.others = LimitsOthers
    BY <2>1, <2>4 DEF LimitsReading
  <2> HIDE DEF left, read
  <2>6. /\ call'.op = call.op /\ call'.args = call.args /\ call'.stale = call.stale /\ call'.read = read
        /\ call'.left = left /\ call' \in [op : {"set"}, args : LimitsSets, read : {read}, left : {left}, stale : BOOLEAN]
    BY <2>1, <2>2 DEF LimitsReading, Of
  <2>7. call.left \in {{"same", "others"}, {"others"}}
    BY <2>1, <2>2 DEF LimitsReading
  <2>8. left \in {{"same"}, {"exempt"}} /\ ("same" \notin left => "same" \notin call.left)
    BY <2>3, <2>7
  <2>9. LimitsReading'
    BY <2>1, <2>2, <2>5, <2>6, <2>8 DEF LimitsReading, Of, Fresh, LimitsNeeds, LimitsOf, LimitsOthers
  <2> QED BY <1>1, <2>2, <2>9 DEF LimitsCall
<1>15. CASE Limits!ReadExempt /\ call' # Idle
  <2>1. LimitsReading /\ call.left = {"exempt"}
    BY <1>0, <1>15, LimitsStages DEF Limits!ReadExempt, LimitsNeeded, LimitsSet, LimitsReading
  <2> DEFINE current == chain.exempt[call.args.kind]
             read == [conditions |-> Limits!Conditions, count |-> call.read.others + Limits!Cardinality(Limits!Conditions),
                      set |-> Limits!ToSet(current, call.args.exempted),
                      remove |-> Limits!ToRemove(current, call.args.exempted)]
  <2>2. call' = [call EXCEPT !.read = read, !.left = {}] /\ chain' = chain
        /\ ~(call.read.others + Limits!Cardinality(Limits!Conditions) >= MaxConditions)
    BY <1>15, <2>1 DEF Limits!ReadExempt, LimitsReading, Of
  <2>3. Limits!Cardinality(Limits!Conditions) <= MaxConditions
    <3>1. call.read.others \in Nat /\ Limits!Cardinality(Limits!Conditions) \in Nat
      BY <2>1, LimitsConditions, LimitsFinite DEF LimitsReading, Of
    <3> QED BY <2>2, <3>1, RestrictionAssumption
  <2>4. read.set \in SUBSET Exempted /\ read.remove \in SUBSET Exempted
    BY <1>0, <2>1 DEF LimitsReading, Of, LimitsSets, LimitsTyped, Limits!Chains, Limits!ToSet, Limits!ToRemove
  <2>5. /\ read.conditions = Limits!Conditions /\ read.set = Limits!ToSet(current, call.args.exempted)
        /\ read.remove = Limits!ToRemove(current, call.args.exempted)
    OBVIOUS
  <2> HIDE DEF read
  <2>6. call'.args = call.args /\ chain'.exempt = chain.exempt /\ call'.read = read
    BY <2>1, <2>2 DEF LimitsReading, Of
  <2>7. LimitsSet'
    BY <2>1, <2>2, <2>3, <2>4, <2>5, <2>6 DEF LimitsReading, LimitsSet, Of, Fresh, LimitsNeeds, Limits!Conditions
  <2> QED BY <1>1, <2>2, <2>7 DEF LimitsCall
<1>16. CASE call' = Idle /\ (Limits!ReadStats \/ Limits!ReadUse \/ Limits!ReadBoth \/ Limits!ReadNeeded \/ Limits!ReadExempt)
  BY <1>0, <1>4, <1>16 DEF Limits!ReadStats, Limits!ReadUse, Limits!ReadBoth,
      Limits!ReadNeeded, Limits!ReadExempt
<1>17. CASE Limits!Dispatch
  <2>1. call' = Idle /\ (chain' = chain \/ (chain' = Limits!After /\ Limits!Valid(Limits!After)))
    BY <1>17 DEF Limits!Dispatch, Limits!Accepted
  <2>2. Limits!After \in Limits!Chains
    BY <1>0, <1>17, LimitsAfterIn DEF Limits!Dispatch
  <2>3. chain' = chain \/ LimitsTyped'
    BY <2>1, <2>2 DEF LimitsTyped
  <2> QED BY <1>3, <1>4, <2>1, <2>3
<1>18. ASSUME NEW stats \in SUBSET RestrictionKinds, Limits!OthersStats(stats) PROVE LimitsInv'
  BY <1>0, <1>2, <1>18 DEF Limits!OthersStats, Limits!Happens, LimitsTyped, Limits!Chains
<1>19. ASSUME NEW r \in Limits!Restrictions, Limits!OthersRestrict(r) PROVE LimitsInv'
  <2> DEFINE set == IF r \in chain.restrictions THEN chain.restrictions \ {r} ELSE chain.restrictions \cup {r}
             c == [chain EXCEPT !.restrictions = set]
  <2>1. Limits!Happens(c) /\ Limits!Valid(c)
    BY <1>19 DEF Limits!OthersRestrict
  <2>2. set \in SUBSET Limits!Restrictions
    BY <1>0 DEF LimitsTyped, Limits!Chains
  <2> HIDE DEF set
  <2>3. LimitsTyped'
    BY <1>0, <2>1, <2>2 DEF Limits!Happens, LimitsTyped, Limits!Chains
  <2> QED BY <1>2, <2>1, <2>3
<1>20. ASSUME NEW kind \in RestrictionKinds, NEW h \in Exempted, Limits!OthersExempt(kind, h) PROVE LimitsInv'
  <2> DEFINE exempt == [chain.exempt EXCEPT ![kind] = IF h \in @ THEN @ \ {h} ELSE @ \cup {h}]
  <2>1. Limits!Happens([chain EXCEPT !.exempt = exempt])
    BY <1>20 DEF Limits!OthersExempt
  <2>2. exempt \in [RestrictionKinds -> SUBSET Exempted]
    BY <1>0 DEF LimitsTyped, Limits!Chains
  <2> HIDE DEF exempt
  <2>3. chain' \in Limits!Chains /\ chain'.restrictions = chain.restrictions /\ chain'.stats = chain.stats
    BY <1>0, <2>1, <2>2 DEF Limits!Happens, LimitsTyped, Limits!Chains
  <2>4. LimitsTyped'
    BY <1>0, <2>3 DEF LimitsTyped, Limits!Valid
  <2> QED BY <1>2, <2>1, <2>4
<1> QED
  BY <1>5, <1>6, <1>7, <1>8, <1>9, <1>10, <1>11, <1>12, <1>13, <1>14, <1>15, <1>16, <1>17, <1>18, <1>19,
     <1>20
     DEF Limits!Next

LEMMA LimitsStutter == LimitsInv /\ UNCHANGED <<chain, call>> => LimitsInv'
BY DEF LimitsInv, LimitsTyped, Limits!Chains, Limits!Valid, LimitsEnable, Of, Fresh, LimitsDisable, Limits!MayDisable,
       LimitsAdd, Limits!MayAdd, LimitsNeeded, LimitsReading, LimitsNeeds, LimitsOf, LimitsOthers, LimitsSet,
       Limits!Conditions, LimitsCall, Idle

LEMMA LimitsOK == LimitsInv => Limits!TypeOK /\ Limits!RevertedOnlyIfStale
<1> SUFFICES ASSUME LimitsInv PROVE Limits!TypeOK /\ Limits!RevertedOnlyIfStale
  OBVIOUS
<1>1. Limits!TypeOK
  <2>1. /\ call.op \in {"none", "enable", "disable", "add", "set"}
        /\ call.left \subseteq {"stats", "both", "same", "others", "exempt"}
    BY DEF LimitsInv, LimitsCall, LimitsEnable, LimitsDisable, LimitsAdd, LimitsNeeded, LimitsReading, LimitsSet, Of, Idle
  <2> QED BY <2>1 DEF LimitsInv, LimitsTyped, Limits!TypeOK
<1>2. ASSUME Limits!Built, Limits!Fresh PROVE Limits!Valid(Limits!After)
  <2> USE DEF Limits!Built, Limits!Fresh, Fresh
  <2>0. /\ chain \in Limits!Chains /\ Limits!Cardinality(chain.restrictions) \in Nat /\ MaxConditions \in Nat
        /\ Limits!Cardinality(chain.restrictions) <= MaxConditions
        /\ \A r \in chain.restrictions : r \in Limits!Restrictions /\ r[1] \in chain.stats
    BY LimitsFinite, RestrictionAssumption DEF LimitsInv, LimitsTyped, Limits!Chains, Limits!Valid
  <2>1. CASE LimitsEnable
    <3>1. Limits!After = [chain EXCEPT !.stats = chain.stats \cup {call.args.kind}]
      BY <1>2, <2>1 DEF LimitsEnable, Of, Limits!After
    <3> QED BY <2>0, <3>1 DEF Limits!Valid, Limits!Chains
  <2>2. CASE LimitsDisable
    <3>1. /\ Limits!After = [chain EXCEPT !.stats = chain.stats \ {call.args.kind}]
          /\ Limits!OfKind(call.args.kind, chain.restrictions) = {}
      BY <1>2, <2>2 DEF LimitsDisable, Of, Limits!After, Limits!MayDisable
    <3> QED BY <2>0, <3>1 DEF Limits!Valid, Limits!Chains, Limits!OfKind
  <2>3. CASE LimitsAdd
    <3> DEFINE r == <<call.args.kind, call.args.value>>
    <3>1. Limits!After.restrictions = chain.restrictions \cup {r} /\ Limits!After.stats = chain.stats
      BY <1>2, <2>0, <2>3 DEF LimitsAdd, Of, Limits!After, Limits!Chains
    <3>2. r \in Limits!Restrictions \ chain.restrictions /\ r[1] \in chain.stats /\ Limits!Cardinality(chain.restrictions) < MaxConditions
      BY <1>2, <2>3 DEF LimitsAdd, Of, Limits!MayAdd, Limits!Restrictions
    <3> HIDE DEF r
    <3>3. Limits!Cardinality(chain.restrictions \cup {r}) = Limits!Cardinality(chain.restrictions) + 1
      BY <2>0, <3>2, LimitsFinite
    <3>4. Limits!Cardinality(Limits!After.restrictions) <= MaxConditions
      BY <2>0, <3>1, <3>2, <3>3
    <3> QED BY <2>0, <3>1, <3>2, <3>4 DEF Limits!Valid
  <2>4. CASE LimitsSet
    <3>1. Limits!After.restrictions = Limits!Conditions /\ Limits!After.stats = chain.stats /\ LimitsNeeds
      BY <1>2, <2>0, <2>4 DEF LimitsSet, Of, Limits!After, Limits!Chains
    <3>2. \A r \in Limits!Conditions : r[1] \in chain.stats
      BY <3>1 DEF Limits!Conditions, LimitsNeeds
    <3> QED BY <2>4, <3>1, <3>2 DEF LimitsSet, Limits!Valid
  <2>5. ~LimitsNeeded /\ ~LimitsReading /\ call # Idle
    BY <1>2 DEF LimitsNeeded, LimitsReading, Idle
  <2> QED BY <2>1, <2>2, <2>3, <2>4, <2>5 DEF LimitsInv, LimitsCall
<1> QED BY <1>1, <1>2 DEF Limits!RevertedOnlyIfStale, Limits!Accepted

LEMMA LimitsRefused == LimitsInv /\ Limits!Next => Limits!TurnedAwayRightly
<1> SUFFICES ASSUME LimitsInv, Limits!Next, Limits!TurnedAway, Limits!Fresh
             PROVE  LimitsBarred(call.args.kind)
  BY DEF Limits!TurnedAwayRightly, LimitsBarred
<1> USE DEF Limits!Answers, Limits!Check, Limits!Keep, LimitsBarred
<1>0. LimitsCall /\ LimitsTyped /\ ~Limits!Built /\ call.op # "none" /\ call'.op = "none"
  BY DEF LimitsInv, Limits!TurnedAway, Limits!Ends
<1> USE DEF Limits!Keep, Limits!Refuse, Limits!Idle, Idle
<1>1. DOMAIN call = {"op", "args", "read", "left", "stale"}
  BY <1>0 DEF LimitsCall, LimitsEnable, LimitsDisable, LimitsAdd, LimitsNeeded, LimitsReading, LimitsSet, Of
<1>2. CASE Limits!ReadStats
  <2>1. call.args.kind \in chain.stats /\ call.op = "enable"
    BY <1>0, <1>1, <1>2 DEF Limits!ReadStats
  <2> QED BY <2>1
<1>3. CASE Limits!ReadUse
  <2>1. ~Limits!MayDisable(call.args.kind) /\ call.op = "disable"
    BY <1>0, <1>1, <1>3 DEF Limits!ReadUse
  <2> QED BY <2>1 DEF Limits!MayDisable
<1>4. CASE Limits!ReadBoth
  <2>1. ~Limits!MayAdd(<<call.args.kind, call.args.value>>) /\ call.op = "add"
    BY <1>0, <1>1, <1>4 DEF Limits!ReadBoth
  <2>2. call.args.kind = <<call.args.kind, call.args.value>>[1]
    OBVIOUS
  <2>3. Limits!Cardinality(chain.restrictions) \in Nat /\ MaxConditions \in Nat
    BY <1>0, LimitsFinite, RestrictionAssumption DEF LimitsTyped, Limits!Chains
  <2>4. ~(Limits!Cardinality(chain.restrictions) < MaxConditions) => Limits!Cardinality(chain.restrictions) >= MaxConditions
    BY <2>3
  <2> QED BY <2>1, <2>2, <2>4 DEF Limits!MayAdd
<1>5. CASE Limits!ReadNeeded
  <2>1. call.args.kind \notin chain.stats /\ call.op = "set"
    BY <1>0, <1>1, <1>5 DEF Limits!ReadNeeded
  <2> QED BY <2>1
<1>6. CASE Limits!ReadSame \/ Limits!ReadOthers
  BY <1>0, <1>1, <1>6 DEF Limits!ReadSame, Limits!ReadOthers
<1>7. CASE Limits!ReadExempt
  <2>1. LimitsReading /\ call.left = {"exempt"} /\ call.op = "set"
    BY <1>0, <1>7, LimitsStages DEF Limits!ReadExempt, LimitsNeeded, LimitsSet, LimitsReading
  <2>2. \/ Limits!Unchanged(chain.exempt[call.args.kind])
        \/ call.read.others + Limits!Cardinality(Limits!Conditions) >= MaxConditions
    BY <1>0, <1>1, <1>7 DEF Limits!ReadExempt
  <2>3. call.read.same = LimitsOf /\ call.read.others = LimitsOthers
    BY <2>1 DEF LimitsReading, Limits!Fresh, Fresh
  <2> QED BY <2>1, <2>2, <2>3 DEF Limits!Unchanged, LimitsOf, LimitsOthers
<1>8. CASE Limits!Dispatch
  BY <1>0, <1>8 DEF Limits!Dispatch, Limits!Dispatches
<1>9. ASSUME NEW after, Limits!Happens(after) PROVE FALSE
  BY <1>0, <1>9, LimitsStages DEF Limits!Happens
<1> QED
  BY <1>0, <1>1, <1>2, <1>3, <1>4, <1>5, <1>6, <1>7, <1>8, <1>9 DEF Limits!Next, Limits!Calls, Limits!Enable,
     Limits!Disable, Limits!Add, Limits!Set, Limits!OthersStats, Limits!OthersRestrict, Limits!OthersExempt
LEMMA LimitsDone == LimitsInv /\ Limits!Next => Limits!DoneAsAsked
<1> SUFFICES ASSUME LimitsInv, Limits!Next, Limits!Built, Limits!Ends, Limits!Fresh, Limits!Accepted PROVE Limits!DoneAsAsked
  BY DEF Limits!DoneAsAsked
<1>0. LimitsCall /\ LimitsTyped /\ call.left = {} /\ call.op # "none"
  BY DEF LimitsInv, Limits!Built
<1>1. ASSUME NEW after, Limits!Happens(after) PROVE FALSE
  BY <1>0, <1>1, LimitsStages DEF Limits!Happens, Limits!Ends
<1>2. chain' = Limits!After
  BY <1>0, <1>1 DEF Limits!Next, Limits!Enable, Limits!Disable, Limits!Add, Limits!Set, Limits!Calls, Limits!ReadStats, Limits!ReadUse, Limits!ReadBoth, Limits!ReadNeeded,
     Limits!ReadSame, Limits!ReadOthers, Limits!ReadExempt, Limits!Answers, Limits!Dispatch, Limits!Dispatches, Limits!OthersStats, Limits!OthersRestrict, Limits!OthersExempt
<1>3. chain \in Limits!Chains
  BY <1>0 DEF LimitsTyped
<1>4. CASE LimitsEnable
  <2>1. call.op = "enable" /\ chain' = [chain EXCEPT !.stats = chain.stats \cup {call.args.kind}]
    BY <1>0, <1>2, <1>4 DEF LimitsEnable, Of, Limits!After, Limits!Fresh, Fresh
  <2> QED BY <1>3, <2>1 DEF Limits!Chains, Limits!DoneAsAsked
<1>5. CASE LimitsDisable
  <2>1. call.op = "disable" /\ chain' = [chain EXCEPT !.stats = chain.stats \ {call.args.kind}]
    BY <1>0, <1>2, <1>5 DEF LimitsDisable, Of, Limits!After, Limits!Fresh, Fresh
  <2> QED BY <1>3, <2>1 DEF Limits!Chains, Limits!DoneAsAsked
<1>6. CASE LimitsAdd
  <2> DEFINE exempt == [chain.exempt EXCEPT ![call.args.kind] = @ \cup call.args.exempted]
  <2>0. /\ call.op = "add" /\ call.args.kind \in RestrictionKinds
        /\ call.read.conditions = chain.restrictions \cup {<<call.args.kind, call.args.value>>}
    BY <1>0, <1>6 DEF LimitsAdd, Of, Limits!Fresh, Fresh
  <2>1. chain' = [chain EXCEPT
          !.restrictions = chain.restrictions \cup {<<call.args.kind, call.args.value>>}, !.exempt = exempt]
    BY <1>2, <2>0 DEF Limits!After
  <2>2. exempt[call.args.kind] = chain.exempt[call.args.kind] \cup call.args.exempted
    BY <1>3, <2>0 DEF Limits!Chains
  <2> HIDE DEF exempt
  <2>3. /\ chain'.restrictions = chain.restrictions \cup {<<call.args.kind, call.args.value>>}
        /\ chain'.exempt = exempt /\ chain'.stats = chain.stats
    BY <1>3, <2>1 DEF Limits!Chains
  <2> QED BY <2>0, <2>2, <2>3 DEF Limits!DoneAsAsked
<1>7. CASE LimitsSet
  <2> DEFINE kind == call.args.kind
             exempt == [chain.exempt EXCEPT ![kind] = (@ \cup call.read.set) \ call.read.remove]
  <2>1. /\ call.op = "set" /\ kind \in RestrictionKinds
        /\ chain' = [chain EXCEPT !.restrictions = Limits!Conditions, !.exempt = exempt]
    BY <1>2, <1>7 DEF LimitsSet, Of, LimitsSets, Limits!After
  <2>2. /\ call.read.set = Limits!ToSet(chain.exempt[kind], call.args.exempted)
        /\ call.read.remove = Limits!ToRemove(chain.exempt[kind], call.args.exempted)
    BY <1>7 DEF LimitsSet, Limits!Fresh, Fresh
  <2>3. exempt[kind] = (chain.exempt[kind] \cup call.read.set) \ call.read.remove
    BY <1>3, <2>1 DEF Limits!Chains
  <2>4. exempt[kind] = call.args.exempted
    BY <2>2, <2>3 DEF Limits!ToSet, Limits!ToRemove
  <2> HIDE DEF exempt
  <2>5. chain'.restrictions = Limits!Conditions /\ chain'.exempt = exempt /\ chain'.stats = chain.stats
    BY <1>3, <2>1 DEF Limits!Chains
  <2>6. Limits!OfKind(kind, Limits!Conditions) = Limits!Conditions
    BY DEF Limits!OfKind, Limits!Conditions
  <2> QED BY <2>1, <2>4, <2>5, <2>6 DEF Limits!DoneAsAsked
<1>8. ~LimitsNeeded /\ ~LimitsReading /\ call # Idle
  BY <1>0 DEF LimitsNeeded, LimitsReading, Idle
<1> QED BY <1>0, <1>4, <1>5, <1>6, <1>7, <1>8 DEF LimitsCall

-----------------------------------------------------------------------------
(* Compliance *)
LEMMA ComplianceInit == Compliance!Init => ComplianceInv
<1> SUFFICES ASSUME Compliance!Init PROVE ComplianceInv
  OBVIOUS
<1>1. ComplianceDemands(Compliance!None)
  BY DEF ComplianceDemands, Compliance!None
<1>2. ComplianceTyped
  BY <1>1 DEF Compliance!Init, ComplianceTyped, ComplianceOf
<1> QED BY <1>2 DEF Compliance!Init, ComplianceInv, ComplianceCall, Compliance!Idle, Idle, Compliance!NoArgs, NoArgs

LEMMA ComplianceWith ==
  ASSUME ComplianceTyped, NEW reqs, ComplianceDemands(reqs)
  PROVE  ComplianceOf([chain EXCEPT !.reqs = reqs])
BY DEF ComplianceTyped, ComplianceOf

(* A requirement that is added, or left out, leaves the others as they are.*)
LEMMA ComplianceAddsOne ==
  ASSUME ComplianceTyped, NEW r \in Requirements, DOMAIN Compliance!Adding(Compliance!ToChain(r)) \subseteq RequirementIds
  PROVE  ComplianceOf([chain EXCEPT !.reqs = Compliance!Adding(Compliance!ToChain(r))])
<1> DEFINE ids == DOMAIN chain.reqs \cup {Compliance!LastId + 1}
           reqs == Compliance!Adding(Compliance!ToChain(r))
<1>1. reqs = [id \in ids |-> IF id = Compliance!LastId + 1 THEN Compliance!ToChain(r) ELSE chain.reqs[id]]
  BY DEF Compliance!Adding
<1>2. ComplianceDemands(reqs)
  BY <1>1 DEF ComplianceDemands, ComplianceTyped, ComplianceOf
<1> QED BY <1>2, ComplianceWith

LEMMA ComplianceLeavesOne ==
  ASSUME ComplianceTyped, NEW id
  PROVE  ComplianceOf([chain EXCEPT !.reqs = Compliance!Without(id)])
<1> DEFINE reqs == Compliance!Without(id)
<1>1. reqs = [i \in DOMAIN chain.reqs \ {id} |-> chain.reqs[i]]
  BY DEF Compliance!Without
<1>2. ComplianceDemands(reqs)
  BY <1>1 DEF ComplianceDemands, ComplianceTyped, ComplianceOf
<1> QED BY <1>2, ComplianceWith

LEMMA ComplianceStages ==
  ASSUME ComplianceCall
  PROVE  /\ call.op = "none" => call = Idle
         /\ [call EXCEPT !.stale = TRUE].op = call.op
         /\ call.op = "reset" => ComplianceReset
         /\ call.op = "add" => ComplianceAdd
         /\ call.op = "change" => ComplianceChange
         /\ call.op = "remove" => ComplianceRemove
         /\ call.op = "pause" => CompliancePause
         /\ call.op = "issuers" => ComplianceTrust \/ ComplianceDids
BY DEF ComplianceCall, ComplianceReset, ComplianceAdd, ComplianceChange, ComplianceRemove, CompliancePause,
       ComplianceTrust, ComplianceDids, Of, Idle

LEMMA ComplianceStale ==
  ASSUME ComplianceCall, NEW after, Compliance!Happens(after) PROVE ComplianceCall'
<1>1. CASE call = Idle
  BY <1>1 DEF Compliance!Happens, ComplianceCall, Idle
<1>2. CASE call # Idle
  <2>1. call' = [call EXCEPT !.stale = TRUE]
    BY <1>2, ComplianceStages DEF Compliance!Happens
  <2>2. CASE ComplianceReset
    BY <2>1, <2>2 DEF ComplianceCall, ComplianceReset, Fresh, Of
  <2>3. CASE ComplianceAdd
    BY <2>1, <2>3 DEF ComplianceCall, ComplianceAdd, Fresh, Of
  <2>4. CASE ComplianceChange
    BY <2>1, <2>4 DEF ComplianceCall, ComplianceChange, Fresh, Of
  <2>5. CASE ComplianceRemove
    BY <2>1, <2>5 DEF ComplianceCall, ComplianceRemove, Fresh, Of
  <2>6. CASE CompliancePause
    BY <2>1, <2>6 DEF ComplianceCall, CompliancePause, Fresh, Of
  <2>7. CASE ComplianceTrust
    BY <2>1, <2>7 DEF ComplianceCall, ComplianceTrust, Fresh, Of
  <2>8. CASE ComplianceDids
    BY <2>1, <2>8 DEF ComplianceCall, ComplianceDids, Fresh, Of
  <2> QED BY <1>2, <2>2, <2>3, <2>4, <2>5, <2>6, <2>7, <2>8 DEF ComplianceCall
<1> QED BY <1>1, <1>2

LEMMA ComplianceNext == ComplianceInv /\ Compliance!Next => ComplianceInv'
<1> SUFFICES ASSUME ComplianceInv, Compliance!Next PROVE ComplianceInv'
  OBVIOUS
<1> USE DEF Idle, NoArgs, Compliance!Idle, Compliance!NoArgs, Compliance!Calls, Compliance!Answers, Compliance!Check, Compliance!Keep,
        Compliance!Refuse, Compliance!Built, Compliance!Dispatches
<1>0. ComplianceCall /\ ComplianceTyped
  BY DEF ComplianceInv
<1>1. ASSUME UNCHANGED chain, ComplianceCall' PROVE ComplianceInv'
  BY <1>0, <1>1 DEF ComplianceInv, ComplianceTyped, ComplianceOf
<1>2. ASSUME NEW after, Compliance!Happens(after), ComplianceTyped' PROVE ComplianceInv'
  BY <1>0, <1>2, ComplianceStale DEF ComplianceInv
<1>3. ASSUME ComplianceTyped', call' = Idle PROVE ComplianceInv'
  BY <1>3 DEF ComplianceInv, ComplianceCall
<1>4. ASSUME UNCHANGED chain, call' = Idle PROVE ComplianceInv'
  BY <1>1, <1>4 DEF ComplianceCall
<1>5. ASSUME NEW set \in RequirementSets, Compliance!Reset(set) PROVE ComplianceInv'
  <2>1. ComplianceReset'
    BY <1>5 DEF Compliance!Reset, ComplianceReset, Of
  <2> QED BY <1>1, <1>5, <2>1 DEF Compliance!Reset, ComplianceCall
<1>6. ASSUME NEW r \in Requirements, Compliance!AddRequirement(r) PROVE ComplianceInv'
  <2>1. ComplianceAdd'
    BY <1>6 DEF Compliance!AddRequirement, ComplianceAdd, Of
  <2> QED BY <1>1, <1>6, <2>1 DEF Compliance!AddRequirement, ComplianceCall
<1>7. ASSUME NEW r \in Requirements, NEW id \in RequirementIds, Compliance!Change(id, r) PROVE ComplianceInv'
  <2>1. ComplianceChange'
    BY <1>7 DEF Compliance!Change, ComplianceChange, Of
  <2> QED BY <1>1, <1>7, <2>1 DEF Compliance!Change, ComplianceCall
<1>8. ASSUME NEW id \in RequirementIds, Compliance!RemoveRequirement(id) PROVE ComplianceInv'
  <2>1. ComplianceRemove'
    BY <1>8 DEF Compliance!RemoveRequirement, ComplianceRemove, Of
  <2> QED BY <1>1, <1>8, <2>1 DEF Compliance!RemoveRequirement, ComplianceCall
<1>9. ASSUME NEW on \in BOOLEAN, Compliance!Pause(on) PROVE ComplianceInv'
  <2>1. CompliancePause'
    BY <1>9 DEF Compliance!Pause, CompliancePause, Of
  <2> QED BY <1>1, <1>9, <2>1 DEF Compliance!Pause, ComplianceCall
<1>10. ASSUME NEW how \in {"add", "remove", "set"}, NEW whom \in SUBSET Issuers, Compliance!Trust(how, whom) PROVE ComplianceInv'
  <2>1. ComplianceTrust'
    BY <1>10 DEF Compliance!Trust, ComplianceTrust, Of
  <2> QED BY <1>1, <1>10, <2>1 DEF Compliance!Trust, ComplianceCall
<1>11. CASE Compliance!ReadRequirements /\ call' # Idle
  <2>1. CASE ComplianceReset
    <3>1. call' = [call EXCEPT !.left = @ \ {"requirements"}] /\ chain' = chain
      BY <1>11, <2>1 DEF Compliance!ReadRequirements, ComplianceReset, Of
    <3>2. ComplianceReset'
      BY <2>1, <3>1 DEF ComplianceReset, Of, Fresh
    <3> QED BY <1>1, <3>1, <3>2 DEF ComplianceCall
  <2>2. CASE ComplianceAdd
    <3>1. call' = [call EXCEPT !.left = @ \ {"requirements"}] /\ chain' = chain
      BY <1>11, <2>2 DEF Compliance!ReadRequirements, ComplianceAdd, Of
    <3>2. ComplianceAdd'
      BY <2>2, <3>1 DEF ComplianceAdd, Of, Fresh
    <3> QED BY <1>1, <3>1, <3>2 DEF ComplianceCall
  <2>3. CASE ComplianceChange
    <3>1. call' = [call EXCEPT !.left = @ \ {"requirements"}] /\ chain' = chain
      BY <1>11, <2>3 DEF Compliance!ReadRequirements, ComplianceChange, Of
    <3>2. ComplianceChange'
      BY <2>3, <3>1 DEF ComplianceChange, Of, Fresh
    <3> QED BY <1>1, <3>1, <3>2 DEF ComplianceCall
  <2>4. CASE ComplianceRemove
    <3>1. call' = [call EXCEPT !.left = @ \ {"requirements"}] /\ chain' = chain /\ Compliance!MayRemove(call.args.id)
      BY <1>11, <2>4 DEF Compliance!ReadRequirements, ComplianceRemove, Of
    <3>2. ComplianceRemove'
      BY <2>4, <3>1 DEF ComplianceRemove, Of, Fresh, Compliance!MayRemove
    <3> QED BY <1>1, <3>1, <3>2 DEF ComplianceCall
  <2> QED BY <1>0, <1>11, <2>1, <2>2, <2>3, <2>4, ComplianceStages DEF Compliance!ReadRequirements
<1>12. CASE Compliance!ReadState /\ call' # Idle
  <2>1. CompliancePause
    BY <1>0, <1>12, ComplianceStages DEF Compliance!ReadState
  <2>2. call' = [call EXCEPT !.left = @ \ {"state"}] /\ chain' = chain
    BY <1>12, <2>1 DEF Compliance!ReadState, CompliancePause, Of
  <2>3. CompliancePause'
    BY <2>1, <2>2 DEF CompliancePause, Of, Fresh
  <2> QED BY <1>1, <2>2, <2>3 DEF ComplianceCall
<1>13. CASE Compliance!ReadIssuers /\ call' # Idle
  <2>1. call.op = "issuers" /\ "issuers" \in call.left
    BY <1>13 DEF Compliance!ReadIssuers
  <2>2. ComplianceTrust
    BY <1>0, <2>1, ComplianceStages DEF ComplianceDids, Of
  <2> DEFINE found == [delete |-> Compliance!ToDelete(call.args.how, call.args.whom),
                       add |-> IF call.args.how = "remove" THEN {} ELSE call.args.whom]
  <2>3. call' = [call EXCEPT !.read = found, !.left = (@ \ {"issuers"}) \cup {"dids"}] /\ chain' = chain
    BY <1>13 DEF Compliance!ReadIssuers
  <2>4. /\ found.add \subseteq call.args.whom
        /\ found.delete \subseteq chain.trusted /\ found.add \cap (chain.trusted \ found.delete) = {}
    <3>1. /\ Compliance!MayTrust(call.args.how, call.args.whom) /\ call.args.how \in {"add", "remove", "set"}
          /\ call.args.whom \subseteq Issuers
      BY <1>13, <2>2 DEF Compliance!ReadIssuers, ComplianceTrust, Of
    <3> QED BY <3>1 DEF Compliance!MayTrust, Compliance!ToDelete
  <2> HIDE DEF found
  <2>5. (call.left \ {"issuers"}) \cup {"dids"} = {"dids"}
    BY <2>2 DEF ComplianceTrust
  <2>6. call' = [call EXCEPT !.read = found, !.left = {"dids"}]
    BY <2>3, <2>5
  <2>7. ComplianceDids'
    BY <2>2, <2>3, <2>4, <2>6 DEF ComplianceTrust, ComplianceDids, Of, Fresh
  <2> QED BY <1>1, <2>3, <2>7 DEF ComplianceCall
<1>14. CASE Compliance!ReadDids /\ call' # Idle
  <2>1. call.op = "issuers" /\ "dids" \in call.left
    BY <1>14 DEF Compliance!ReadDids
  <2>2. ComplianceDids
    BY <1>0, <2>1, ComplianceStages DEF ComplianceTrust, Of
  <2>3. call' = [call EXCEPT !.left = @ \ {"dids"}] /\ chain' = chain /\ call.args.whom \cap Invalid = {}
    BY <1>14, <2>2 DEF Compliance!ReadDids, ComplianceDids, Of
  <2>4. ComplianceDids'
    BY <2>2, <2>3 DEF ComplianceDids, Of, Fresh
  <2> QED BY <1>1, <2>3, <2>4 DEF ComplianceCall
<1>15. CASE call' = Idle /\ (Compliance!ReadRequirements \/ Compliance!ReadState \/ Compliance!ReadIssuers \/ Compliance!ReadDids)
  BY <1>0, <1>4, <1>15 DEF Compliance!ReadRequirements, Compliance!ReadState, Compliance!ReadIssuers,
      Compliance!ReadDids
<1>16. CASE Compliance!Dispatch
  <2>1. /\ call.op # "none" /\ call.left = {} /\ DOMAIN Compliance!After.reqs \subseteq RequirementIds
        /\ call' = Idle /\ chain' \in {Compliance!After, chain}
    BY <1>16 DEF Compliance!Dispatch
  <2>2. ComplianceOf(Compliance!After)
    <3>1. CASE ComplianceReset
      <4> DEFINE reqs == [id \in DOMAIN call.args.set |-> Compliance!ToChain(call.args.set[id])]
      <4>1. call.op = "reset" /\ call.args.set \in Seq(Requirements)
        BY <3>1, ComplianceAssumption DEF ComplianceReset, Of
      <4>2. Compliance!After = [chain EXCEPT !.reqs = reqs]
        BY <4>1 DEF Compliance!After
      <4>3. \A id \in DOMAIN call.args.set : call.args.set[id] \in Requirements
        BY <4>1
      <4>4. reqs = [id \in DOMAIN reqs |-> reqs[id]]
            /\ \A id \in DOMAIN reqs : reqs[id] \in {Compliance!ToChain(r) : r \in Requirements}
        BY <4>3
      <4> HIDE DEF reqs
      <4>5. Compliance!After.reqs = reqs
        BY <1>0, <4>2 DEF ComplianceTyped, ComplianceOf
      <4>6. ComplianceDemands(reqs)
        BY <2>1, <4>4, <4>5 DEF ComplianceDemands
      <4> QED BY <1>0, <4>2, <4>6 DEF ComplianceTyped, ComplianceOf
    <3>2. CASE ComplianceAdd
      <4>1. call.op = "add" /\ call.args.conditions \in Requirements
        BY <3>2 DEF ComplianceAdd, Of
      <4> DEFINE reqs == Compliance!Adding(Compliance!ToChain(call.args.conditions))
      <4>2. Compliance!After = [chain EXCEPT !.reqs = reqs]
        BY <4>1 DEF Compliance!After
      <4> HIDE DEF reqs
      <4>3. Compliance!After.reqs = reqs
        BY <1>0, <4>2 DEF ComplianceTyped, ComplianceOf
      <4> QED BY <1>0, <2>1, <4>1, <4>2, <4>3, ComplianceAddsOne DEF reqs
    <3>3. CASE ComplianceChange
      <4>1. call.op = "change" /\ call.args.conditions \in Requirements
        BY <3>3 DEF ComplianceChange, Of
      <4> DEFINE reqs == [id \in DOMAIN chain.reqs |->
                            IF id = call.args.id THEN Compliance!ToChain(call.args.conditions) ELSE chain.reqs[id]]
      <4>2. Compliance!After = [chain EXCEPT !.reqs = reqs]
        BY <4>1 DEF Compliance!After
      <4>3. ComplianceDemands(reqs)
        BY <1>0, <4>1 DEF ComplianceDemands, ComplianceTyped, ComplianceOf
      <4> HIDE DEF reqs
      <4> QED BY <1>0, <4>2, <4>3 DEF ComplianceTyped, ComplianceOf
    <3>4. CASE ComplianceRemove
      BY <1>0, <3>4, ComplianceLeavesOne DEF ComplianceRemove, Of, Compliance!After
    <3>5. CASE CompliancePause
      BY <1>0, <3>5 DEF CompliancePause, Of, Compliance!After, ComplianceTyped, ComplianceOf
    <3>6. CASE ComplianceDids
      <4> DEFINE trusted == (chain.trusted \ call.read.delete) \cup call.read.add
      <4>1. call.op = "issuers" /\ call.read.add \subseteq Issuers \ Invalid
        BY <2>1, <3>6 DEF ComplianceDids, Of
      <4>2. Compliance!After = [chain EXCEPT !.trusted = trusted]
        BY <4>1 DEF Compliance!After
      <4>3. trusted \subseteq Issuers \ Invalid
        BY <1>0, <4>1 DEF ComplianceTyped, ComplianceOf
      <4> HIDE DEF trusted
      <4> QED BY <1>0, <4>2, <4>3 DEF ComplianceTyped, ComplianceOf
    <3> QED BY <1>0, <2>1, <3>1, <3>2, <3>3, <3>4, <3>5, <3>6 DEF ComplianceCall, ComplianceTrust
  <2>3. ComplianceTyped'
    BY <1>0, <2>1, <2>2 DEF ComplianceTyped
  <2> QED BY <1>3, <2>1, <2>3
<1>17. ASSUME NEW r \in Requirements, Compliance!OthersAdd(r) PROVE ComplianceInv'
  <2>1. DOMAIN Compliance!Adding(Compliance!ToChain(r)) \subseteq RequirementIds
    BY <1>0, <1>17 DEF Compliance!OthersAdd, Compliance!Adding, ComplianceTyped, ComplianceOf, ComplianceDemands
  <2>2. ComplianceOf([chain EXCEPT !.reqs = Compliance!Adding(Compliance!ToChain(r))])
    BY <1>0, <2>1, ComplianceAddsOne
  <2>3. ComplianceTyped'
    BY <1>17, <2>2 DEF Compliance!OthersAdd, Compliance!Happens, ComplianceTyped
  <2> QED BY <1>2, <1>17, <2>3 DEF Compliance!OthersAdd
<1>18. ASSUME NEW id, Compliance!OthersRemove(id) PROVE ComplianceInv'
  <2>1. ComplianceTyped'
    BY <1>0, <1>18, ComplianceLeavesOne DEF Compliance!OthersRemove, Compliance!Happens, ComplianceTyped
  <2> QED BY <1>2, <1>18, <2>1 DEF Compliance!OthersRemove
<1>19. CASE Compliance!OthersPause
  BY <1>0, <1>2, <1>19 DEF Compliance!OthersPause, Compliance!Happens, ComplianceTyped, ComplianceOf
<1>20. ASSUME NEW i \in Issuers \ Invalid, Compliance!OthersTrust(i) PROVE ComplianceInv'
  <2> DEFINE trusted == IF i \in chain.trusted THEN chain.trusted \ {i} ELSE chain.trusted \cup {i}
  <2>1. Compliance!Happens([chain EXCEPT !.trusted = trusted])
    BY <1>20 DEF Compliance!OthersTrust
  <2>2. trusted \subseteq Issuers \ Invalid
    BY <1>0 DEF ComplianceTyped, ComplianceOf
  <2> HIDE DEF trusted
  <2>3. ComplianceTyped'
    BY <1>0, <2>1, <2>2 DEF Compliance!Happens, ComplianceTyped, ComplianceOf
  <2> QED BY <1>2, <2>1, <2>3
<1> QED
  BY <1>5, <1>6, <1>7, <1>8, <1>9, <1>10, <1>11, <1>12, <1>13, <1>14, <1>15, <1>16, <1>17, <1>18, <1>19,
     <1>20
     DEF Compliance!Next

LEMMA ComplianceStutter == ComplianceInv /\ UNCHANGED <<chain, call>> => ComplianceInv'
<1> SUFFICES ASSUME ComplianceInv, chain' = chain, call' = call PROVE ComplianceTyped' /\ ComplianceCall'
  BY DEF ComplianceInv
<1>1. ComplianceTyped'
  BY DEF ComplianceInv, ComplianceTyped, ComplianceOf
<1>2. ASSUME ComplianceReset PROVE ComplianceReset'
  BY <1>2 DEF ComplianceReset, Of, Fresh
<1>3. ASSUME ComplianceAdd PROVE ComplianceAdd'
  BY <1>3 DEF ComplianceAdd, Of, Fresh
<1>4. ASSUME ComplianceChange PROVE ComplianceChange'
  BY <1>4 DEF ComplianceChange, Of, Fresh
<1>5. ASSUME ComplianceRemove PROVE ComplianceRemove'
  BY <1>5 DEF ComplianceRemove, Of, Fresh
<1>6. ASSUME CompliancePause PROVE CompliancePause'
  BY <1>6 DEF CompliancePause, Of, Fresh
<1>7. ASSUME ComplianceTrust PROVE ComplianceTrust'
  BY <1>7 DEF ComplianceTrust, Of, Fresh
<1>8. ASSUME ComplianceDids PROVE ComplianceDids'
  BY <1>8 DEF ComplianceDids, Of, Fresh
<1> QED BY <1>1, <1>2, <1>3, <1>4, <1>5, <1>6, <1>7, <1>8 DEF ComplianceInv, ComplianceCall, Idle

LEMMA ComplianceOK == ComplianceInv => Compliance!TypeOK
<1> SUFFICES ASSUME ComplianceInv PROVE Compliance!TypeOK
  OBVIOUS
<1>1. chain.paused \in BOOLEAN /\ chain.trusted \subseteq Issuers \ Invalid /\ ComplianceDemands(chain.reqs)
  BY DEF ComplianceInv, ComplianceTyped, ComplianceOf
<1>2. /\ call.op \in {"none", "reset", "add", "change", "remove", "pause", "issuers"}
      /\ call.left \subseteq {"requirements", "state", "issuers", "dids"}
  BY DEF ComplianceInv, ComplianceCall, ComplianceReset, ComplianceAdd, ComplianceChange, ComplianceRemove, CompliancePause, ComplianceTrust, ComplianceDids, Of, Idle
<1> QED BY <1>1, <1>2 DEF Compliance!TypeOK, ComplianceDemands

(* What needs no summing up: removing, pausing, and the trusted issuers.   *)
LEMMA ComplianceSuffices ==
  ComplianceInv /\ call.op \notin {"reset", "add", "change"} => Compliance!RevertedOnlyIfStale
<1> SUFFICES ASSUME ComplianceInv, call.op \notin {"reset", "add", "change"}, Compliance!Built, Compliance!Fresh PROVE Compliance!Accepted
  BY DEF Compliance!RevertedOnlyIfStale
<1>0. ComplianceCall /\ Fresh /\ call.left = {} /\ call.op # "none"
  BY DEF ComplianceInv, Compliance!Built, Compliance!Fresh, Fresh
<1>1. CASE call.op = "remove"
  BY <1>0, <1>1, ComplianceStages DEF ComplianceRemove, Compliance!Accepted
<1>2. CASE call.op = "pause"
  BY <1>2 DEF Compliance!Accepted
<1>3. CASE call.op = "issuers"
  BY <1>0, <1>3, ComplianceStages DEF ComplianceTrust, ComplianceDids, Compliance!Accepted
<1> QED BY <1>0, <1>1, <1>2, <1>3, ComplianceStages DEF ComplianceCall, ComplianceReset, ComplianceAdd, ComplianceChange, ComplianceRemove, CompliancePause, ComplianceTrust, ComplianceDids, Of, Idle

LEMMA ComplianceRefused ==
  ComplianceInv /\ Compliance!Next /\ call.op \notin {"reset", "add", "change"} => Compliance!TurnedAwayRightly
<1> SUFFICES ASSUME ComplianceInv, Compliance!Next, call.op \notin {"reset", "add", "change"}, Compliance!TurnedAway, Compliance!Fresh
             PROVE  Compliance!TurnedAwayRightly
  BY DEF Compliance!TurnedAwayRightly
<1>0. ComplianceCall /\ ComplianceTyped /\ ~Compliance!Built /\ call.op # "none" /\ call'.op = "none"
  BY DEF ComplianceInv, Compliance!TurnedAway, Compliance!Ends
<1>1. ASSUME NEW after, Compliance!Happens(after) PROVE FALSE
  BY <1>0, <1>1, ComplianceStages DEF Compliance!Happens
<1>2. ASSUME Compliance!ReadRequirements PROVE ComplianceBarred
  <2>1. ComplianceRemove /\ call.op = "remove"
    BY <1>0, <1>2, ComplianceStages DEF Compliance!ReadRequirements, Compliance!Answers
  <2>2. ~Compliance!MayRemove(call.args.id)
    BY <1>0, <1>2, <2>1 DEF Compliance!ReadRequirements, Compliance!Answers, Compliance!Check, Compliance!Keep, ComplianceRemove, Of
  <2> QED BY <2>1, <2>2 DEF Compliance!MayRemove, ComplianceBarred
<1>3. ASSUME Compliance!ReadState PROVE ComplianceBarred
  <2>1. CompliancePause /\ call.op = "pause"
    BY <1>0, <1>3, ComplianceStages DEF Compliance!ReadState, Compliance!Answers
  <2>2. ~(chain.paused # call.args.on)
    BY <1>0, <1>3, <2>1 DEF Compliance!ReadState, Compliance!Check, Compliance!Keep, CompliancePause, Of
  <2> QED BY <2>1, <2>2 DEF ComplianceBarred
<1>4. ASSUME Compliance!ReadIssuers PROVE ComplianceBarred
  <2>1. ComplianceTrust /\ call.op = "issuers"
    BY <1>0, <1>4, ComplianceStages DEF Compliance!ReadIssuers, Compliance!Answers, ComplianceDids, Of
  <2>2. ~Compliance!MayTrust(call.args.how, call.args.whom) /\ call.args.how \in {"add", "remove", "set"}
    BY <1>0, <1>4, <2>1 DEF Compliance!ReadIssuers, Compliance!Keep, ComplianceTrust, Of
  <2> QED BY <2>1, <2>2 DEF Compliance!MayTrust, ComplianceBarred
<1>5. ASSUME Compliance!ReadDids PROVE ComplianceBarred
  <2>1. ComplianceDids /\ call.op = "issuers"
    BY <1>0, <1>5, ComplianceStages DEF Compliance!ReadDids, Compliance!Answers, ComplianceTrust, Of
  <2>2. call.args.whom \cap Invalid # {}
    BY <1>0, <1>5, <2>1 DEF Compliance!ReadDids, Compliance!Check, Compliance!Keep, ComplianceDids, Of
  <2> QED BY <2>1, <2>2 DEF ComplianceBarred
<1>6. ComplianceBarred
  BY <1>0, <1>1, <1>2, <1>3, <1>4, <1>5
     DEF Compliance!Next, Compliance!Calls, Compliance!Dispatches, Compliance!Dispatch, Compliance!Reset, Compliance!AddRequirement, Compliance!Change, Compliance!RemoveRequirement,
         Compliance!Pause, Compliance!Trust, Compliance!OthersAdd, Compliance!OthersRemove, Compliance!OthersPause, Compliance!OthersTrust
<1>7. CASE call.op = "remove"
  BY <1>6, <1>7 DEF Compliance!TurnedAwayRightly, Compliance!Accepted, ComplianceBarred
<1>8. CASE call.op = "pause"
  BY <1>6, <1>8 DEF Compliance!TurnedAwayRightly, ComplianceBarred
<1>9. CASE call.op = "issuers"
  BY <1>6, <1>9 DEF Compliance!TurnedAwayRightly, ComplianceBarred
<1> QED BY <1>0, <1>7, <1>8, <1>9 DEF ComplianceCall, ComplianceReset, ComplianceAdd, ComplianceChange, ComplianceRemove, CompliancePause, ComplianceTrust, ComplianceDids, Of, Idle

-----------------------------------------------------------------------------
(* Permissions *)


LEMMA PermsSame ==
  ASSUME NEW x, NEW y, Titled(x), Titled(y)
  PROVE  (x = y) <=> (x.mod = y.mod /\ x.name = y.name)
BY DEF Titled

LEMMA PermsMatch ==
  ASSUME NEW t, NEW v, Titled(t), Titled(v), Perms!IsTag(t)
  PROVE  /\ Perms!Match(t, v) <=> (v = t \/ v = Perms!Module(t.mod))
         /\ Perms!Match(v, t) <=> (v = t \/ v = Perms!Module(t.mod))
         /\ Titled(Perms!Module(t.mod)) /\ Perms!Module(t.mod).mod = t.mod /\ Perms!Module(t.mod).name = "*"
<1>1. Titled(Perms!Module(t.mod)) /\ Perms!Module(t.mod).mod = t.mod /\ Perms!Module(t.mod).name = "*"
  BY DEF Titled, Perms!Module
<1>2. (v = Perms!Module(t.mod)) <=> (v.mod = t.mod /\ v.name = "*")
  BY <1>1, PermsSame
<1>3. (v = t) <=> (v.mod = t.mod /\ v.name = t.name)
  BY PermsSame
<1> QED BY <1>1, <1>2, <1>3 DEF Perms!Match, Perms!IsTag

LEMMA PermsTags == \A t \in Tags : Titled(t) /\ Perms!IsTag(t)
BY PermissionAssumption

LEMMA PermsShape ==
  ASSUME NEW p \in PermsWritten
  PROVE  /\ p.type \in {"Null", "Include", "Exclude"} /\ (p.type = "Null" <=> p = Perms!Null)
         /\ p \in [type : {p.type}, values : {p.values}, exceptions : {p.exceptions}]
         /\ \A v \in p.values : Titled(v)
         /\ \A e \in p.exceptions : Titled(e) /\ Perms!IsTag(e) /\ Perms!Module(e.mod) \in p.values
         /\ \A v \in p.values : ~Perms!IsTag(v) => \A w \in p.values : w.mod = v.mod => w = v
<1>1. p \in WrittenPermissions /\ Perms!Buildable(p)
  BY DEF PermsWritten
<1>2. Perms!Null.type = "Null"
  BY DEF Perms!Null
<1>3. \A v \in p.values : Titled(v)
  BY <1>1, PermissionAssumption
<1>4. ASSUME NEW v \in p.values, ~Perms!IsTag(v), NEW w \in p.values, w.mod = v.mod PROVE w = v
  <2>1. w.name \in Perms!Names(v.mod, p.values)
    BY <1>4 DEF Perms!Names
  <2>2. w.name = "*" /\ v.name = "*"
    BY <1>1, <1>4, <2>1 DEF Perms!Buildable, Perms!IsTag
  <2> QED BY <1>3, <1>4, <2>2, PermsSame
<1> QED BY <1>1, <1>2, <1>3, <1>4, PermissionAssumption DEF Perms!Buildable

(* What of the pallets that are written allows, or forbids, a tag.         *)
LEMMA PermsReach ==
  ASSUME NEW p \in PermsWritten, NEW t, Titled(t), Perms!IsTag(t)
  PROVE  (\E m \in Perms!Mods(p.values) : Perms!PalletAllows(Perms!Pallet(m, p), t)) <=> (PermsLists(p.values, t) /\ t \notin p.exceptions)
<1> DEFINE whole == Perms!Module(t.mod) \in p.values
           pallet == Perms!Pallet(t.mod, p)
<1>0. Titled(Perms!Module(t.mod)) /\ Perms!Module(t.mod).mod = t.mod
  BY PermsMatch
<1>1. \A m : Perms!Pallet(m, p).mod = m
  BY DEF Perms!Pallet
<1>2. (\E m \in Perms!Mods(p.values) : Perms!PalletAllows(Perms!Pallet(m, p), t)) <=> (t.mod \in Perms!Mods(p.values) /\ Perms!PalletAllows(pallet, t))
  BY <1>1 DEF Perms!PalletAllows
<1>3. (t.name \in Perms!Names(t.mod, p.values)) <=> (t \in p.values)
  BY PermsSame, PermsShape DEF Perms!Names
<1>4. (t.name \in Perms!Names(t.mod, p.exceptions)) <=> (t \in p.exceptions)
  BY PermsSame, PermsShape DEF Perms!Names
<1>5. PermsLists(p.values, t) => t.mod \in Perms!Mods(p.values)
  BY <1>0 DEF PermsLists, Perms!Mods
<1>6. CASE whole
  <2>1. pallet \in [mod : {t.mod}, kind : {IF Perms!Names(t.mod, p.exceptions) = {} THEN "Whole" ELSE "Except"}, names : {Perms!Names(t.mod, p.exceptions)}]
    BY <1>6 DEF Perms!Pallet
  <2>2. Perms!PalletAllows(pallet, t) <=> t \notin p.exceptions
    BY <1>4, <2>1 DEF Perms!PalletAllows
  <2> QED BY <1>2, <1>5, <1>6, <2>2 DEF PermsLists
<1>7. CASE ~whole
  <2>1. pallet \in [mod : {t.mod}, kind : {"These"}, names : {Perms!Names(t.mod, p.values)}]
    BY <1>7 DEF Perms!Pallet
  <2>2. Perms!PalletAllows(pallet, t) <=> t \in p.values
    BY <1>3, <2>1 DEF Perms!PalletAllows
  <2>3. t \notin p.exceptions
    BY <1>7, PermsShape
  <2> QED BY <1>2, <1>5, <1>7, <2>2, <2>3 DEF PermsLists
<1> QED BY <1>6, <1>7

(* What is written allows what it means.                                   *)
LEMMA PermsMean ==
  ASSUME NEW p \in PermsWritten, NEW t, Titled(t), Perms!IsTag(t)
  PROVE  /\ Perms!Meant(p, t) <=> CASE p.type = "Null" -> TRUE
                                [] p.type = "Include" -> PermsLists(p.values, t) /\ t \notin p.exceptions
                                [] p.type = "Exclude" -> ~PermsLists(p.values, t) \/ t \in p.exceptions
         /\ Perms!Allows(Perms!ToExtrinsic(p), t) <=> Perms!Meant(p, t)
<1> DEFINE e == Perms!ToExtrinsic(p)
           pallets == {Perms!Pallet(m, p) : m \in Perms!Mods(p.values)}
<1>1. p.type \in {"Null", "Include", "Exclude"} /\ (p.type = "Null" <=> p = Perms!Null)
  BY PermsShape
<1>2. CASE p = Perms!Null
  <2>1. e.kind = "Whole"
    BY <1>2 DEF Perms!ToExtrinsic, Perms!Whole
  <2> HIDE DEF e
  <2>2. Perms!Allows(e, t)
    BY <2>1 DEF Perms!Allows
  <2>3. p.type = "Null"
    BY <1>1, <1>2
  <2>4. Perms!Meant(p, t)
    BY <2>3 DEF Perms!Meant
  <2> QED BY <2>2, <2>3, <2>4 DEF e
<1>3. CASE p # Perms!Null
  <2>1. e \in [kind : {IF p.type = "Include" THEN "These" ELSE "Except"}, pallets : {pallets}]
    BY <1>3 DEF Perms!ToExtrinsic
  <2>2. (\E x \in pallets : Perms!PalletAllows(x, t)) <=> (PermsLists(p.values, t) /\ t \notin p.exceptions)
    BY PermsReach
  <2> HIDE DEF e, pallets
  <2>3. Perms!Allows(e, t) <=> CASE p.type = "Include" -> PermsLists(p.values, t) /\ t \notin p.exceptions
                             [] p.type = "Exclude" -> ~PermsLists(p.values, t) \/ t \in p.exceptions
    BY <1>1, <1>3, <2>1, <2>2 DEF Perms!Allows
  <2> QED BY <1>1, <1>3, <2>3 DEF Perms!Meant, PermsLists, e
<1> QED BY <1>2, <1>3

(* What was written is read.                                               *)
LEMMA PermsRead ==
  ASSUME NEW p \in PermsWritten
  PROVE  /\ Perms!ToTransactions(Perms!ToExtrinsic(p)) = p
         /\ Perms!ToExtrinsic(p).kind = CASE p.type = "Null" -> "Whole" [] p.type = "Include" -> "These" [] p.type = "Exclude" -> "Except"
<1> DEFINE e == Perms!ToExtrinsic(p)
           pallets == {Perms!Pallet(m, p) : m \in Perms!Mods(p.values)}
           These(x) == IF x.kind = "These" THEN Perms!TagsOf(x) ELSE {Perms!Module(x.mod)}
           Except(x) == IF x.kind = "Except" THEN Perms!TagsOf(x) ELSE {}
<1>1. /\ p.type \in {"Null", "Include", "Exclude"} /\ (p.type = "Null" <=> p = Perms!Null)
      /\ p \in [type : {p.type}, values : {p.values}, exceptions : {p.exceptions}]
  BY PermsShape
<1>2. CASE p = Perms!Null
  <2>1. e = Perms!Whole /\ e.kind = "Whole"
    BY <1>2 DEF Perms!ToExtrinsic, Perms!Whole
  <2> QED BY <1>1, <1>2, <2>1 DEF Perms!ToTransactions
<1>3. CASE p # Perms!Null
  <2>1. e \in [kind : {IF p.type = "Include" THEN "These" ELSE "Except"}, pallets : {pallets}]
    BY <1>3 DEF Perms!ToExtrinsic
  <2>2. \A m : /\ Perms!Pallet(m, p).mod = m
               /\ Perms!Module(m) \notin p.values =>
                    Perms!Pallet(m, p).kind = "These" /\ Perms!Pallet(m, p).names = Perms!Names(m, p.values)
               /\ Perms!Module(m) \in p.values =>
                    /\ Perms!Pallet(m, p).names = Perms!Names(m, p.exceptions)
                    /\ Perms!Pallet(m, p).kind = IF Perms!Names(m, p.exceptions) = {} THEN "Whole" ELSE "Except"
    BY DEF Perms!Pallet
  <2>3. \A m, tags : (\A v \in tags : Titled(v)) => {[mod |-> m, name |-> n] : n \in Perms!Names(m, tags)} = {v \in tags : v.mod = m}
    <3> SUFFICES ASSUME NEW m, NEW tags, \A v \in tags : Titled(v)
                 PROVE  {[mod |-> m, name |-> n] : n \in Perms!Names(m, tags)} = {v \in tags : v.mod = m}
      OBVIOUS
    <3>1. ASSUME NEW v \in tags, v.mod = m PROVE v = [mod |-> m, name |-> v.name] /\ v.name \in Perms!Names(m, tags)
      BY <3>1 DEF Titled, Perms!Names
    <3>2. ASSUME NEW n \in Perms!Names(m, tags) PROVE \E v \in tags : v.mod = m /\ v = [mod |-> m, name |-> n]
      BY <3>1 DEF Perms!Names
    <3> QED BY <3>1, <3>2
  <2>4. \A m \in Perms!Mods(p.values) : These(Perms!Pallet(m, p)) = {v \in p.values : v.mod = m}
    <3> SUFFICES ASSUME NEW m \in Perms!Mods(p.values) PROVE These(Perms!Pallet(m, p)) = {v \in p.values : v.mod = m}
      OBVIOUS
    <3>1. CASE Perms!Module(m) \in p.values
      <4>1. Perms!Module(m).mod = m /\ ~Perms!IsTag(Perms!Module(m))
        BY DEF Perms!Module, Perms!IsTag
      <4>2. {v \in p.values : v.mod = m} = {Perms!Module(m)}
        BY <3>1, <4>1, PermsShape
      <4> QED BY <2>2, <3>1, <4>2
    <3>2. CASE Perms!Module(m) \notin p.values
      BY <2>2, <2>3, <3>2, PermsShape DEF Perms!TagsOf
    <3> QED BY <3>1, <3>2
  <2>5. \A m \in Perms!Mods(p.values) : Except(Perms!Pallet(m, p)) = {e1 \in p.exceptions : e1.mod = m}
    <3> SUFFICES ASSUME NEW m \in Perms!Mods(p.values) PROVE Except(Perms!Pallet(m, p)) = {e1 \in p.exceptions : e1.mod = m}
      OBVIOUS
    <3>1. Perms!TagsOf(Perms!Pallet(m, p)) = {[mod |-> m, name |-> n] : n \in Perms!Pallet(m, p).names}
      BY <2>2 DEF Perms!TagsOf
    <3>2. {[mod |-> m, name |-> n] : n \in Perms!Names(m, p.exceptions)} = {e1 \in p.exceptions : e1.mod = m}
      BY <2>3, PermsShape
    <3>3. CASE Perms!Module(m) \in p.values
      BY <2>2, <3>1, <3>2, <3>3
    <3>4. CASE Perms!Module(m) \notin p.values
      BY <2>2, <3>4, PermsShape
    <3> QED BY <3>3, <3>4
  <2>6. UNION {These(x) : x \in pallets} = p.values
    <3>1. \A v \in p.values : v.mod \in Perms!Mods(p.values)
      BY DEF Perms!Mods
    <3> HIDE DEF These
    <3> QED BY <2>4, <3>1
  <2>7. UNION {Except(x) : x \in pallets} = p.exceptions
    <3>1. \A e1 \in p.exceptions : e1.mod \in Perms!Mods(p.values)
      <4> SUFFICES ASSUME NEW e1 \in p.exceptions PROVE e1.mod \in Perms!Mods(p.values)
        OBVIOUS
      <4>1. Perms!Module(e1.mod) \in p.values /\ Perms!Module(e1.mod).mod = e1.mod
        BY PermsShape DEF Perms!Module
      <4> QED BY <4>1 DEF Perms!Mods
    <3> HIDE DEF Except
    <3> QED BY <2>5, <3>1
  <2>8. e.kind = (IF p.type = "Include" THEN "These" ELSE "Except") /\ e.pallets = pallets /\ e.kind # "Whole"
    BY <2>1
  <2>9. Perms!ToTransactions(e) = [type |-> IF e.kind = "These" THEN "Include" ELSE "Exclude",
                               values |-> UNION {These(x) : x \in e.pallets}, exceptions |-> UNION {Except(x) : x \in e.pallets}]
    BY <2>8 DEF Perms!ToTransactions
  <2>10. (IF e.kind = "These" THEN "Include" ELSE "Exclude") = p.type
    BY <1>1, <1>3, <2>8
  <2> HIDE DEF e, pallets, These, Except
  <2>11. Perms!ToTransactions(e) = [type |-> p.type, values |-> p.values, exceptions |-> p.exceptions]
    BY <2>6, <2>7, <2>8, <2>9, <2>10
  <2>12. Perms!ToTransactions(e) = p
    BY <1>1, <2>11
  <2> QED BY <1>1, <1>3, <2>8, <2>12 DEF e
<1> QED BY <1>2, <1>3

(* The groups said to be held are those of which all tags are allowed; of  *)
(* permissions that exclude some may be held that are not said to be.      *)
LEMMA PermsHeld ==
  ASSUME NEW p \in PermsWritten, p.type # "Null", NEW g \in TxGroups
  PROVE  /\ g \in Perms!Held(p) => \A t \in g : Perms!Meant(p, t)
         /\ p.type = "Include" /\ (\A t \in g : Perms!Meant(p, t)) => g \in Perms!Held(p)
<1>1. \A t \in g : Titled(t) /\ Perms!IsTag(t)
  BY PermissionAssumption
<1>2. \A t \in g : /\ (\E v \in p.values : Perms!Match(v, t)) <=> PermsLists(p.values, t)
                   /\ (\E x \in p.exceptions : Perms!Match(x, t)) <=> t \in p.exceptions
  <2> SUFFICES ASSUME NEW t \in g
               PROVE  /\ (\E v \in p.values : Perms!Match(v, t)) <=> PermsLists(p.values, t)
                      /\ (\E x \in p.exceptions : Perms!Match(x, t)) <=> t \in p.exceptions
    OBVIOUS
  <2>1. \A v \in p.values : Perms!Match(v, t) <=> (v = t \/ v = Perms!Module(t.mod))
    BY <1>1, PermsMatch, PermsShape
  <2>2. \A x \in p.exceptions : Perms!Match(x, t) <=> x = t
    <3> SUFFICES ASSUME NEW x \in p.exceptions PROVE Perms!Match(x, t) <=> x = t
      OBVIOUS
    <3>1. Titled(x) /\ Perms!IsTag(x)
      BY PermsShape
    <3> QED BY <1>1, <3>1 DEF Perms!Match
  <2> QED BY <2>1, <2>2 DEF PermsLists
<1>3. \A t \in g : Perms!Meant(p, t) <=> CASE p.type = "Null" -> TRUE
                                      [] p.type = "Include" -> PermsLists(p.values, t) /\ t \notin p.exceptions
                                      [] p.type = "Exclude" -> ~PermsLists(p.values, t) \/ t \in p.exceptions
  BY <1>1, PermsMean
<1>4. CASE p.type = "Include"
  <2>1. g \in Perms!Held(p) <=> \A t \in g : ~(\E x \in p.exceptions : Perms!Match(x, t)) /\ \E i \in p.values : Perms!Match(i, t)
    BY <1>4 DEF Perms!Held
  <2> QED BY <1>2, <1>3, <1>4, <2>1
<1>5. CASE p.type = "Exclude"
  <2>1. g \in Perms!Held(p) => \A t \in g : ~(\E x \in p.values : Perms!Match(x, t))
    BY <1>5 DEF Perms!Held
  <2> QED BY <1>2, <1>3, <1>5, <2>1
<1> QED BY <1>4, <1>5, PermsShape

(* Who is found to have what is asked for has permission for it, or any    *)
(* Account may send it; and who is found to lack some of it, lacks it, or  *)
(* any Account may send it.                                                *)
LEMMA PermsMissing ==
  ASSUME NEW p \in PermsWritten, NEW tags \in SUBSET Tags
  PROVE  /\ p = Perms!Null => \A t \in tags : Perms!Meant(p, t)
         /\ p # Perms!Null /\ Perms!MissingOf(tags, p) = {} => \A t \in tags : Perms!Free(t) \/ Perms!Meant(p, t)
         /\ p # Perms!Null /\ Perms!MissingOf(tags, p) # {} => \E t \in tags : ~Perms!Meant(p, t)
<1>1. \A t \in tags : Titled(t) /\ Perms!IsTag(t)
  BY PermsTags
<1>2. \A t \in tags : Perms!Meant(p, t) <=> CASE p.type = "Null" -> TRUE
                                         [] p.type = "Include" -> PermsLists(p.values, t) /\ t \notin p.exceptions
                                         [] p.type = "Exclude" -> ~PermsLists(p.values, t) \/ t \in p.exceptions
  BY <1>1, PermsMean
<1>3. \A t \in tags : \A v \in p.values \cup Exempt : Titled(v) /\ (Perms!Match(t, v) <=> (v = t \/ v = Perms!Module(t.mod)))
                                                     /\ (Perms!Match(v, t) <=> (v = t \/ v = Perms!Module(t.mod)))
  BY <1>1, PermsMatch, PermsShape, PermissionAssumption
<1>4. p.type \in {"Null", "Include", "Exclude"} /\ (p.type = "Null" <=> p = Perms!Null)
  BY PermsShape
<1>5. p = Perms!Null => \A t \in tags : Perms!Meant(p, t)
  BY <1>2, <1>4
<1>6. CASE p.type = "Include"
  <2>1. \A t \in tags : t \in Perms!MissingOf(tags, p) <=> t \in p.exceptions \/ \A v \in p.values \cup Exempt : ~Perms!Match(t, v)
    BY <1>6 DEF Perms!MissingOf
  <2>2. Perms!MissingOf(tags, p) \subseteq tags
    BY DEF Perms!MissingOf
  <2>3. ASSUME NEW t \in tags, t \notin Perms!MissingOf(tags, p) PROVE Perms!Free(t) \/ Perms!Meant(p, t)
    BY <1>2, <1>3, <1>6, <2>1, <2>3 DEF PermsLists, Perms!Free
  <2>4. ASSUME NEW t \in Perms!MissingOf(tags, p) PROVE ~Perms!Meant(p, t)
    BY <1>2, <1>3, <1>6, <2>1, <2>2, <2>4 DEF PermsLists
  <2> QED BY <1>5, <2>2, <2>3, <2>4
<1>7. CASE p.type = "Exclude"
  <2>1. \A t \in tags : t \in Perms!MissingOf(tags, p) <=> t \notin p.exceptions /\ \E v \in p.values : ~Perms!Excused(v) /\ Perms!Match(t, v)
    BY <1>7 DEF Perms!MissingOf
  <2>2. Perms!MissingOf(tags, p) \subseteq tags
    BY DEF Perms!MissingOf
  <2>3. ASSUME NEW t \in tags, PermsLists(p.values, t), ~Perms!Free(t) PROVE \E v \in p.values : ~Perms!Excused(v) /\ Perms!Match(t, v)
    <3>1. PICK v \in p.values : v = t \/ v = Perms!Module(t.mod)
      BY <2>3 DEF PermsLists
    <3>2. Perms!Match(t, v)
      BY <1>3, <3>1
    <3>3. CASE v = t
      <4>1. \A e \in Exempt : ~Perms!Match(v, e)
        BY <1>3, <2>3, <3>3 DEF Perms!Free
      <4> QED BY <1>1, <3>2, <3>3, <4>1 DEF Perms!Excused
    <3>4. CASE v = Perms!Module(t.mod)
      <4>1. ~Perms!IsTag(v)
        BY <3>4 DEF Perms!Module, Perms!IsTag
      <4> QED BY <2>3, <3>2, <3>4, <4>1 DEF Perms!Excused, Perms!Free
    <3> QED BY <3>1, <3>3, <3>4
  <2>4. ASSUME NEW t \in tags, t \notin Perms!MissingOf(tags, p) PROVE Perms!Free(t) \/ Perms!Meant(p, t)
    BY <1>2, <1>7, <2>1, <2>3, <2>4
  <2>5. ASSUME NEW t \in Perms!MissingOf(tags, p) PROVE ~Perms!Meant(p, t)
    BY <1>2, <1>3, <1>7, <2>1, <2>2, <2>5 DEF PermsLists
  <2> QED BY <1>5, <2>2, <2>4, <2>5
<1> QED BY <1>4, <1>5, <1>6, <1>7

LEMMA PermsPresent ==
  ASSUME NEW p \in PermsWritten, p # Perms!Null, NEW t \in Tags
  PROVE  Perms!Present(t, p) <=> Perms!Meant(p, t)
<1>1. Titled(t) /\ Perms!IsTag(t)
  BY PermsTags
<1>2. \A v \in p.values : Perms!Match(v, t) <=> (v = t \/ v = Perms!Module(t.mod))
  BY <1>1, PermsMatch, PermsShape
<1>3. (\E v \in p.values : Perms!Match(v, t)) <=> PermsLists(p.values, t)
  BY <1>2 DEF PermsLists
<1>4. p.type \in {"Include", "Exclude"}
  BY PermsShape
<1> QED BY <1>1, <1>3, <1>4, PermsMean DEF Perms!Present

LEMMA PermsKept == ASSUME NEW p \in PermsWritten PROVE Perms!ToExtrinsic(p) \in Perms!OnChain
BY DEF Perms!OnChain, PermsWritten

LEMMA PermsChain == ASSUME NEW e \in Perms!OnChain PROVE \E p \in PermsWritten : e = Perms!ToExtrinsic(p) /\ Perms!ToTransactions(e) = p
<1>1. PICK p \in PermsWritten : e = Perms!ToExtrinsic(p)
  BY DEF Perms!OnChain, PermsWritten
<1> QED BY <1>1, PermsRead

LEMMA PermsInit == Perms!Init => PermsInv
BY DEF Perms!Init, PermsInv, PermsTyped, PermsCall, Perms!Idle, Idle, Perms!NoArgs, NoArgs

LEMMA PermsStages ==
  ASSUME PermsCall
  PROVE  /\ call.op = "none" => call = Idle
         /\ [call EXCEPT !.stale = TRUE].op = call.op
         /\ call.op = "account" => PermsAccount
         /\ call.op = "agent" => PermsAgent
         /\ call.op = "grant" => PermsGrant
BY DEF PermsCall, PermsAccount, PermsAgent, PermsGrant, Of, Idle

LEMMA PermsStale ==
  ASSUME PermsCall, NEW after, Perms!Happens(after), (chain'.who \in Perms!Agents <=> chain.who \in Perms!Agents) PROVE PermsCall'
<1>1. CASE call = Idle
  BY <1>1 DEF Perms!Happens, PermsCall, Idle
<1>2. CASE call # Idle
  <2>1. call' = [call EXCEPT !.stale = TRUE]
    BY <1>2, PermsStages DEF Perms!Happens
  <2>2. CASE PermsAccount
    BY <2>1, <2>2 DEF PermsCall, PermsAccount, Fresh, Of, Perms!Happens
  <2>3. CASE PermsAgent
    BY <2>1, <2>3 DEF PermsCall, PermsAgent, Fresh, Of, Perms!Happens
  <2>4. CASE PermsGrant
    BY <2>1, <2>4 DEF PermsCall, PermsGrant, Fresh, Of, Perms!Happens
  <2> QED BY <1>2, <2>2, <2>3, <2>4 DEF PermsCall
<1> QED BY <1>1, <1>2

LEMMA PermsNext == PermsInv /\ Perms!Next => PermsInv'
<1> SUFFICES ASSUME PermsInv, Perms!Next PROVE PermsInv'
  OBVIOUS
<1> USE DEF Idle, NoArgs, Perms!Idle, Perms!NoArgs, Perms!Calls, Perms!Answers, Perms!Check, Perms!Keep,
        Perms!Refuse, Perms!Built, Perms!Dispatches
<1>0. PermsCall /\ PermsTyped
  BY DEF PermsInv
<1>1. ASSUME UNCHANGED chain, PermsCall' PROVE PermsInv'
  BY <1>0, <1>1 DEF PermsInv, PermsTyped
<1>2. ASSUME NEW after, Perms!Happens(after), PermsTyped', (chain'.who \in Perms!Agents <=> chain.who \in Perms!Agents) PROVE PermsInv'
  BY <1>0, <1>2, PermsStale DEF PermsInv
<1>3. ASSUME PermsTyped', call' = Idle PROVE PermsInv'
  BY <1>3 DEF PermsInv, PermsCall
<1>4. ASSUME UNCHANGED chain, call' = Idle PROVE PermsInv'
  BY <1>1, <1>4 DEF PermsCall
<1>5. ASSUME NEW need \in Requests, Perms!CheckAccount(need) PROVE PermsInv'
  <2>1. PermsAccount'
    BY <1>5 DEF Perms!CheckAccount, PermsAccount, Of
  <2> QED BY <1>1, <1>5, <2>1 DEF Perms!CheckAccount, PermsCall
<1>6. ASSUME NEW need \in Requests, Perms!CheckAgent(need) PROVE PermsInv'
  <2>1. PermsAgent'
    BY <1>6 DEF Perms!CheckAgent, PermsAgent, Of
  <2> QED BY <1>1, <1>6, <2>1 DEF Perms!CheckAgent, PermsCall
<1>7. ASSUME NEW p \in WrittenPermissions, Perms!Grant(p) PROVE PermsInv'
  <2>1. PermsGrant'
    BY <1>7 DEF Perms!Grant, PermsGrant, Of
  <2> QED BY <1>1, <1>7, <2>1 DEF Perms!Grant, PermsCall
<1>8. CASE Perms!ReadIdentity /\ call' # Idle
  <2>1. PermsAccount /\ "identity" \in call.left
    BY <1>0, <1>8, PermsStages DEF Perms!ReadIdentity
  <2>2. chain' = chain /\ call' = [call EXCEPT !.read = NoArgs, !.left = {"primary", "record"}]
    BY <1>8, <2>1 DEF Perms!ReadIdentity, PermsAccount, Of
  <2>3. call'.left = {"primary", "record"} /\ Of(call, "account", Requests, {"identity", "primary", "record"})'
    BY <2>1, <2>2 DEF PermsAccount, Of
  <2>4. PermsAccount'
    BY <2>3 DEF PermsAccount
  <2> QED BY <1>1, <2>2, <2>4 DEF PermsCall
<1>9. ASSUME NEW r \in {"primary", "record"}, NEW primary \in BOOLEAN, NEW record, call' # Idle,
             call.op = "account", r \in call.left, call.left \subseteq {r} \cup {"identity"},
             Fresh => (primary <=> chain.who = "primary") /\ record = Perms!Record, Perms!Judge(r, primary, record)
      PROVE  PermsInv'
  <2>1. PermsAccount
    BY <1>0, <1>9, PermsStages
  <2>2. call.left = {r}
    BY <1>9, <2>1 DEF PermsAccount
  <2>3. /\ chain' = chain /\ call'.left = {} /\ Of(call, "account", Requests, {"identity", "primary", "record"})'
        /\ call'.args = call.args /\ call'.stale = call.stale
    <3>1. (call.left \ {r}) \cup {} = {}
      BY <2>2
    <3>2. chain' = chain /\ (call' = [call EXCEPT !.left = {}] \/ call' = [call EXCEPT !.read = NoArgs, !.left = {}])
      <4>1. CASE primary
        BY <1>9, <3>1, <4>1 DEF Perms!Judge
      <4>2. CASE ~primary
        <5>1. Perms!Keep(r, call.read, {})
          BY <1>9, <4>2 DEF Perms!Judge
        <5>2. [call EXCEPT !.read = call.read, !.left = {}] = [call EXCEPT !.left = {}]
          BY <2>1 DEF PermsAccount, Of
        <5> QED BY <3>1, <5>1, <5>2
      <4> QED BY <1>9, <4>1, <4>2
    <3> QED BY <2>1, <3>2 DEF PermsAccount, Of
  <2>4. ASSUME Fresh, chain.who # "primary" PROVE chain.who = "secondary" /\ PermsHas(call.args)
    <3>1. ~primary /\ record = Perms!Record /\ record # {} /\ Perms!Check(r, \A c \in record : /\ Perms!HasTransactions(call.args.txs, Perms!ToTransactions(c.perms))
                                                                     /\ Perms!HasSection(call.args.assets, c.assets))
      BY <1>9, <2>4 DEF Perms!Judge
    <3>2. chain.who = "secondary" /\ record = {[perms |-> chain.perms, assets |-> chain.assets]}
      BY <3>1 DEF Perms!Record
    <3>3. \A c \in record : /\ Perms!HasTransactions(call.args.txs, Perms!ToTransactions(c.perms))
                            /\ Perms!HasSection(call.args.assets, c.assets)
      BY <1>9, <3>1
    <3> DEFINE c == [perms |-> chain.perms, assets |-> chain.assets]
    <3>4. c.perms = chain.perms /\ c.assets = chain.assets /\ c \in record
      BY <3>2
    <3> HIDE DEF c
    <3> QED BY <3>2, <3>3, <3>4 DEF PermsHas
  <2>5. Fresh' = Fresh /\ PermsHas(call.args)' = PermsHas(call.args)
    BY <2>3 DEF Fresh, PermsHas
  <2>6. PermsAccount'
    BY <2>3, <2>4, <2>5 DEF PermsAccount
  <2> QED BY <1>1, <2>3, <2>6 DEF PermsCall
<1>10. CASE Perms!ReadPrimary /\ call' # Idle
  <2>1. PermsAccount /\ "primary" \in call.left
    BY <1>0, <1>10, PermsStages DEF Perms!ReadPrimary
  <2>2. CASE "record" \in call.left
    <3> DEFINE read == [primary |-> chain.who = "primary"]
    <3>1. read.primary \in BOOLEAN /\ (read.primary <=> chain.who = "primary")
      OBVIOUS
    <3>2. chain' = chain /\ call' = [call EXCEPT !.read = read, !.left = {"record"}]
      <4>1. Perms!Keep("primary", read, {})
        BY <1>10, <2>2 DEF Perms!ReadPrimary
      <4>2. (call.left \ {"primary"}) \cup {} = {"record"}
        BY <2>1, <2>2 DEF PermsAccount, Of
      <4> HIDE DEF read
      <4> QED BY <4>1, <4>2
    <3> HIDE DEF read
    <3>3. call'.read = read /\ call'.left = {"record"} /\ call'.stale = call.stale /\ Of(call, "account", Requests, {"identity", "primary", "record"})'
      BY <2>1, <3>2 DEF PermsAccount, Of
    <3>4. PermsAccount'
      BY <3>1, <3>2, <3>3 DEF PermsAccount, Fresh
    <3> QED BY <1>1, <3>2, <3>4 DEF PermsCall
  <2>3. CASE "record" \notin call.left
    <3> DEFINE primary == chain.who = "primary"
    <3>1. Perms!Judge("primary", primary, call.read.record) /\ primary \in BOOLEAN /\ (primary <=> chain.who = "primary")
      BY <1>10, <2>3 DEF Perms!ReadPrimary
    <3> HIDE DEF primary
    <3>2. call.op = "account" /\ call.left = {"primary"}
      BY <2>1, <2>3 DEF PermsAccount, Of
    <3>3. Fresh => call.read.record = Perms!Record
      BY <2>1, <3>2 DEF PermsAccount
    <3> QED BY <1>10, <1>9, <3>1, <3>2, <3>3
  <2> QED BY <2>2, <2>3
<1>11. CASE Perms!ReadRecord /\ call' # Idle
  <2>1. PermsAccount /\ "record" \in call.left
    BY <1>0, <1>11, PermsStages DEF Perms!ReadRecord
  <2>2. CASE "primary" \in call.left
    <3>1. chain' = chain /\ call' = [call EXCEPT !.read = [record |-> Perms!Record], !.left = {"primary"}]
      <4>1. Perms!Keep("record", [record |-> Perms!Record], {})
        BY <1>11, <2>2 DEF Perms!ReadRecord
      <4>2. (call.left \ {"record"}) \cup {} = {"primary"}
        BY <2>1, <2>2 DEF PermsAccount, Of
      <4> QED BY <4>1, <4>2
    <3>2. PermsAccount'
      BY <2>1, <3>1 DEF PermsAccount, Of, Fresh, Perms!Record
    <3> QED BY <1>1, <3>1, <3>2 DEF PermsCall
  <2>3. CASE "primary" \notin call.left
    <3>1. call.op = "account" /\ call.left = {"record"} /\ Perms!Judge("record", call.read.primary, Perms!Record)
      <4>1. call.op = "account" /\ call.left = {"record"}
        BY <2>1, <2>3 DEF PermsAccount, Of
      <4>2. Perms!Judge("record", call.read.primary, Perms!Record)
        BY <1>11, <2>3 DEF Perms!ReadRecord
      <4> QED BY <4>1, <4>2
    <3>2. call.read.primary \in BOOLEAN /\ (Fresh => (call.read.primary <=> chain.who = "primary"))
      BY <2>1, <3>1 DEF PermsAccount
    <3> QED BY <1>11, <1>9, <3>1, <3>2
  <2> QED BY <2>2, <2>3
<1>12. CASE Perms!ReadGroup /\ call' # Idle
  <2>1. PermsAgent /\ "group" \in call.left
    BY <1>0, <1>12, PermsStages DEF Perms!ReadGroup
  <2>2. CASE chain.who = "custom"
    <3>1. chain' = chain /\ call' = [call EXCEPT !.read = NoArgs, !.left = {"permissions"}]
      BY <1>12, <2>1, <2>2 DEF Perms!ReadGroup, PermsAgent, Of
    <3>2. PermsAgent'
      BY <2>1, <2>2, <3>1 DEF PermsAgent, Of
    <3> QED BY <1>1, <3>1, <3>2 DEF PermsCall
  <2>3. CASE chain.who # "custom"
    <3>1. PermsMay(call.args.txs)
      BY <1>12, <2>3 DEF Perms!ReadGroup, PermsMay
    <3>2. /\ chain' = chain /\ call'.left = {} /\ call'.args = call.args
          /\ Of(call, "agent", Requests, {"group", "permissions"})'
      <4>1. call.left = {"group"}
        BY <2>1 DEF PermsAgent
      <4>2. (call.left \ {"group"}) \cup {} = {}
        BY <4>1
      <4>3. Perms!Keep("group", NoArgs, {}) \/ Perms!Keep("group", call.read, {})
        BY <1>12, <2>1, <2>3 DEF Perms!ReadGroup, PermsAgent, Of
      <4>4. chain' = chain /\ call'.left = {} /\ (call' = [call EXCEPT !.read = NoArgs, !.left = {}] \/ call' = [call EXCEPT !.read = call.read, !.left = {}])
        BY <2>1, <4>2, <4>3 DEF PermsAgent, Of
      <4> QED BY <2>1, <4>4 DEF PermsAgent, Of
    <3>3. PermsMay(call.args.txs)' = PermsMay(call.args.txs)
      BY <3>2 DEF PermsMay
    <3>4. PermsAgent'
      BY <2>1, <3>1, <3>2, <3>3 DEF PermsAgent
    <3> QED BY <1>1, <3>2, <3>4 DEF PermsCall
  <2> QED BY <2>2, <2>3
<1>13. CASE Perms!ReadPermissions /\ call' # Idle
  <2>1. PermsAgent /\ "permissions" \in call.left /\ "group" \notin call.left
    BY <1>0, <1>13, PermsStages DEF Perms!ReadPermissions, PermsAgent
  <2>2. chain' = chain /\ call' = [call EXCEPT !.left = {}]
    BY <1>13, <2>1 DEF Perms!ReadPermissions, PermsAgent, Of
  <2>3. chain.who = "custom" => PermsMay(call.args.txs)
    BY <1>13 DEF Perms!ReadPermissions, PermsMay
  <2>4. call'.args = call.args /\ call'.stale = call.stale /\ call'.left = {} /\ Of(call, "agent", Requests, {"group", "permissions"})'
    BY <2>1, <2>2 DEF PermsAgent, Of
  <2>5. PermsMay(call.args.txs)' = PermsMay(call.args.txs)
    BY <2>2, <2>4 DEF PermsMay
  <2>6. PermsAgent'
    BY <2>1, <2>2, <2>3, <2>4, <2>5 DEF PermsAgent, Fresh
  <2> QED BY <1>1, <2>2, <2>6 DEF PermsCall
<1>14. CASE Perms!Convert /\ call' # Idle
  <2>1. PermsGrant /\ "convert" \in call.left
    BY <1>0, <1>14, PermsStages DEF Perms!Convert
  <2> DEFINE read == [perms |-> Perms!ToExtrinsic(call.args.perms)]
  <2>2. chain' = chain /\ Perms!Buildable(call.args.perms) /\ call' = [call EXCEPT !.read = read, !.left = {}]
    BY <1>14, <2>1 DEF Perms!Convert, PermsGrant, Of
  <2>3. read.perms = Perms!ToExtrinsic(call.args.perms)
    OBVIOUS
  <2> HIDE DEF read
  <2>4. /\ call'.args = call.args /\ call'.read = read /\ call'.stale = call.stale /\ call.args.perms \in PermsWritten
        /\ Of(call, "grant", [perms : WrittenPermissions], {"convert"})'
    BY <2>1, <2>2 DEF PermsGrant, Of, PermsWritten
  <2>5. PermsGrant'
    BY <2>1, <2>2, <2>3, <2>4 DEF PermsGrant, Fresh
  <2> QED BY <1>1, <2>2, <2>5 DEF PermsCall
<1>15. CASE call' = Idle /\ (Perms!ReadIdentity \/ Perms!ReadPrimary \/ Perms!ReadRecord \/ Perms!ReadGroup \/ Perms!ReadPermissions \/ Perms!Convert)
  <2>1. chain' = chain
    BY <1>15 DEF Perms!ReadIdentity, Perms!ReadPrimary, Perms!ReadRecord, Perms!Judge, Perms!ReadGroup, Perms!ReadPermissions, Perms!Convert
  <2> QED BY <1>4, <1>15, <2>1
<1>16. CASE Perms!Send
  BY <1>0, <1>4, <1>16 DEF Perms!Send
<1>17. CASE Perms!DispatchGrant
  <2>1. PermsGrant /\ call.left = {} /\ call' = Idle
    BY <1>0, <1>17, PermsStages DEF Perms!DispatchGrant
  <2>2. call.read.perms \in Perms!OnChain
    BY <2>1, PermsKept DEF PermsGrant
  <2>3. PermsTyped'
    BY <1>0, <1>17, <2>2 DEF Perms!DispatchGrant, PermsTyped
  <2> QED BY <1>3, <2>1, <2>3
<1>18. ASSUME NEW who \in Perms!Keys \cup Perms!Agents, Perms!Become(who) PROVE PermsInv'
  <2> DEFINE after == [chain EXCEPT !.who = who]
  <2>1. /\ Perms!Happens(after) /\ after \in [who : Perms!Keys \cup Perms!Agents, perms : Perms!OnChain, assets : Perms!Sections]
        /\ (after.who \in Perms!Agents <=> chain.who \in Perms!Agents)
    BY <1>0, <1>18 DEF Perms!Become, PermsTyped, Perms!Keys, Perms!Agents
  <2> HIDE DEF after
  <2>2. PermsTyped' /\ (chain'.who \in Perms!Agents <=> chain.who \in Perms!Agents)
    BY <2>1 DEF Perms!Happens, PermsTyped
  <2> QED BY <1>2, <2>1, <2>2
<1>19. ASSUME NEW p \in Assigned, Perms!Assign(p) PROVE PermsInv'
  <2> DEFINE after == [chain EXCEPT !.perms = Perms!ToExtrinsic(p)]
  <2>0. Perms!ToExtrinsic(p) \in Perms!OnChain
    BY PermsKept, PermissionAssumption DEF PermsWritten
  <2>1. Perms!Happens(after) /\ after \in [who : Perms!Keys \cup Perms!Agents, perms : Perms!OnChain, assets : Perms!Sections] /\ after.who = chain.who
    BY <1>0, <1>19, <2>0 DEF Perms!Assign, PermsTyped
  <2> HIDE DEF after
  <2>2. PermsTyped' /\ (chain'.who \in Perms!Agents <=> chain.who \in Perms!Agents)
    BY <2>1 DEF Perms!Happens, PermsTyped
  <2> QED BY <1>2, <2>1, <2>2
<1> QED
  BY <1>5, <1>6, <1>7, <1>8, <1>9, <1>10, <1>11, <1>12, <1>13, <1>14, <1>15, <1>16, <1>17, <1>18, <1>19
     DEF Perms!Next

LEMMA PermsStutter == PermsInv /\ UNCHANGED <<chain, call>> => PermsInv'
<1> SUFFICES ASSUME PermsInv, chain' = chain, call' = call PROVE PermsTyped' /\ PermsCall'
  BY DEF PermsInv
<1>1. PermsTyped'
  BY DEF PermsInv, PermsTyped
<1>2. ASSUME PermsAccount PROVE PermsAccount'
  BY <1>2 DEF PermsAccount, Of, Fresh, Perms!Record, PermsHas, PermsMay
<1>3. ASSUME PermsAgent PROVE PermsAgent'
  BY <1>3 DEF PermsAgent, Of, Fresh, Perms!Record, PermsHas, PermsMay
<1>4. ASSUME PermsGrant PROVE PermsGrant'
  BY <1>4 DEF PermsGrant, Of, Fresh, Perms!Record, PermsHas, PermsMay
<1> QED BY <1>1, <1>2, <1>3, <1>4 DEF PermsInv, PermsCall, Idle

(* What the chain holds was written, and so is read and allows as written. *)
LEMMA PermsStored ==
  ASSUME PermsTyped
  PROVE  \E p \in PermsWritten :
           /\ Perms!ToTransactions(chain.perms) = p
           /\ \A t \in Tags : Perms!Allows(chain.perms, t) <=> Perms!Meant(p, t)
           /\ \A t \in Tags : p.type = "Null" => Perms!Meant(p, t)
           /\ p = Perms!Null <=> p.type = "Null"
<1>1. PICK p \in PermsWritten : chain.perms = Perms!ToExtrinsic(p) /\ Perms!ToTransactions(chain.perms) = p
  BY PermsChain DEF PermsTyped
<1>2. \A t \in Tags : (Perms!Allows(chain.perms, t) <=> Perms!Meant(p, t)) /\ (p.type = "Null" => Perms!Meant(p, t))
  BY <1>1, PermsTags, PermsMean
<1> QED BY <1>1, <1>2, PermsShape

LEMMA PermsAsked ==
  ASSUME NEW need \in Requests
  PROVE  /\ need.txs.all \in BOOLEAN /\ need.assets.all \in BOOLEAN
         /\ need.txs.of \in SUBSET Tags /\ need.assets.of \in SUBSET {"A", "B"}
         /\ Perms!Needed(need.txs, Tags) \in SUBSET Tags /\ (~need.txs.all => Perms!Needed(need.txs, Tags) = need.txs.of)
         /\ ~need.assets.all => Perms!Needed(need.assets, {"A", "B"}) = need.assets.of
<1>1. need \in [txs : [all : BOOLEAN, of : SUBSET Tags], assets : [all : BOOLEAN, of : SUBSET {"A", "B"}]]
  BY PermissionAssumption
<1> QED BY <1>1 DEF Perms!Needed

(* Found to have the permissions, it has them.                             *)
LEMMA PermsGrants ==
  ASSUME PermsTyped, NEW need \in Requests
  PROVE  /\ PermsHas(need) => /\ \A t \in Perms!Needed(need.txs, Tags) : Perms!Free(t) \/ Perms!Allows(chain.perms, t)
                              /\ \A a \in Perms!Needed(need.assets, {"A", "B"}) : Perms!Touches(chain.assets, a)
         /\ ~PermsHas(need) => \/ need.txs.all \/ need.assets.all
                               \/ \E t \in need.txs.of : ~Perms!Allows(chain.perms, t)
                               \/ \E a \in need.assets.of : ~Perms!Touches(chain.assets, a)
<1>1. PICK p \in PermsWritten : /\ Perms!ToTransactions(chain.perms) = p
                                /\ \A t \in Tags : Perms!Allows(chain.perms, t) <=> Perms!Meant(p, t)
                                /\ \A t \in Tags : p.type = "Null" => Perms!Meant(p, t)
                                /\ p = Perms!Null <=> p.type = "Null"
  BY PermsStored
<1>2. Perms!HasTransactions(need.txs, p) => \A t \in Perms!Needed(need.txs, Tags) : Perms!Free(t) \/ Perms!Allows(chain.perms, t)
  BY <1>1, PermsAsked, PermsMissing DEF Perms!HasTransactions
<1>3. ~Perms!HasTransactions(need.txs, p) => need.txs.all \/ \E t \in need.txs.of : ~Perms!Allows(chain.perms, t)
  <2>1. p # Perms!Null /\ Perms!MissingOf(need.txs.of, p) # {} => \E t \in need.txs.of : ~Perms!Meant(p, t)
    BY PermsAsked, PermsMissing
  <2> QED BY <1>1, <2>1, PermsAsked DEF Perms!HasTransactions
<1>4. \/ chain.assets.kind = "Whole"
      \/ chain.assets.kind \in {"These", "Except"} /\ chain.assets.values = {"A"}
  <2>1. chain.assets \in Perms!Sections
    BY DEF PermsTyped
  <2> QED BY <2>1 DEF Perms!Sections
<1>5. Perms!HasSection(need.assets, chain.assets) => \A a \in Perms!Needed(need.assets, {"A", "B"}) : Perms!Touches(chain.assets, a)
  BY <1>4, PermsAsked DEF Perms!HasSection, Perms!Touches
<1>6. ~Perms!HasSection(need.assets, chain.assets) => need.assets.all \/ \E a \in need.assets.of : ~Perms!Touches(chain.assets, a)
  BY <1>4, PermsAsked DEF Perms!HasSection, Perms!Touches
<1> QED BY <1>1, <1>2, <1>3, <1>5, <1>6 DEF PermsHas

(* An agent may send what it is found to be permitted.                     *)
LEMMA PermsAgents ==
  ASSUME PermsTyped, NEW need \in Requests, chain.who \in Perms!Agents, need.txs.all \/ need.txs.of # {}
  PROVE  /\ PermsMay(need.txs) => \A t \in Perms!Needed(need.txs, Tags) : Perms!AgentMay(t)
         /\ ~PermsMay(need.txs) => need.txs.all \/ \E t \in need.txs.of : ~Perms!AgentMay(t)
<1>1. PICK p \in PermsWritten : /\ Perms!ToTransactions(chain.perms) = p
                                /\ \A t \in Tags : Perms!Allows(chain.perms, t) <=> Perms!Meant(p, t)
                                /\ \A t \in Tags : p.type = "Null" => Perms!Meant(p, t)
                                /\ p = Perms!Null <=> p.type = "Null"
  BY PermsStored
<1>2. CASE chain.who \in {"nobody", "full"}
  BY <1>2, PermsAsked DEF PermsMay, Perms!AgentMay
<1>3. CASE chain.who = "custom"
  <2>1. PermsMay(need.txs) <=> (p = Perms!Null \/ (~need.txs.all /\ \A t \in need.txs.of : Perms!Present(t, p)))
    BY <1>1, <1>3 DEF PermsMay
  <2>2. \A t \in Tags : Perms!AgentMay(t) <=> Perms!Meant(p, t)
    BY <1>1, <1>3 DEF Perms!AgentMay
  <2> QED BY <1>1, <2>1, <2>2, PermsAsked, PermsPresent
<1>4. CASE chain.who \in {"meta", "pia", "caa"}
  <2>1. PermsMay(need.txs) <=> (~need.txs.all /\ \A t \in need.txs.of : ~Perms!Barred(chain.who, t))
    BY <1>4 DEF PermsMay
  <2>2. \A t \in Tags : Perms!AgentMay(t) <=> ~Perms!Barred(chain.who, t)
    <3> SUFFICES ASSUME NEW t \in Tags PROVE Perms!AgentMay(t) <=> ~Perms!Barred(chain.who, t)
      OBVIOUS
    <3>1. Titled(t)
      BY PermsTags
    <3>2. t \in {[mod |-> "asset", name |-> n] : n \in {"issue", "redeem", "controllerTransfer"}}
            <=> (t.mod = "asset" /\ t.name \in {"issue", "redeem", "controllerTransfer"})
      BY <3>1 DEF Titled
    <3> QED BY <1>4, <3>2 DEF Perms!AgentMay, Perms!Barred
  <2> QED BY <2>1, <2>2, PermsAsked
<1> QED BY <1>2, <1>3, <1>4 DEF Perms!Agents

LEMMA PermsOK == PermsInv => Perms!TypeOK /\ Perms!RevertedOnlyIfStale
<1> SUFFICES ASSUME PermsInv PROVE Perms!TypeOK /\ Perms!RevertedOnlyIfStale
  OBVIOUS
<1>0. PermsTyped /\ PermsCall
  BY DEF PermsInv
<1>1. Perms!TypeOK
  BY <1>0 DEF PermsTyped, PermsCall, PermsAccount, PermsAgent, PermsGrant, Of, Idle, Perms!TypeOK
<1>2. ASSUME Perms!Built, Perms!Fresh PROVE Perms!Accepted
  <2>0. call.op # "none" /\ call.left = {} /\ Fresh
    BY <1>2 DEF Perms!Built, Perms!Fresh, Fresh
  <2>1. CASE PermsAccount
    <3>1. call.op = "account" /\ call.args \in Requests /\ (chain.who = "primary" \/ (chain.who = "secondary" /\ PermsHas(call.args)))
      BY <2>0, <2>1 DEF PermsAccount, Of
    <3> QED BY <1>0, <3>1, PermsGrants DEF Perms!Accepted
  <2>2. CASE PermsAgent
    <3>1. /\ call.op = "agent" /\ call.args \in Requests /\ PermsMay(call.args.txs)
          /\ chain.who \in Perms!Agents /\ (call.args.txs.all \/ call.args.txs.of # {})
      BY <2>0, <2>2 DEF PermsAgent, Of
    <3> QED BY <1>0, <3>1, PermsAgents DEF Perms!Accepted
  <2>3. CASE PermsGrant
    BY <2>0, <2>3 DEF PermsGrant, Of, Perms!Accepted
  <2> QED BY <1>0, <2>0, <2>1, <2>2, <2>3 DEF PermsCall, Idle
<1> QED BY <1>1, <1>2 DEF Perms!RevertedOnlyIfStale

(* What is contradictory in permissions that cannot be built.              *)
LEMMA PermsContradict ==
  ASSUME NEW p \in WrittenPermissions, ~Perms!Buildable(p)
  PROVE  \/ \E v, w \in p.values : v # w /\ Perms!Match(v, w)
         \/ \E e \in p.exceptions : \A v \in p.values : Perms!IsTag(v) \/ v.mod # e.mod
<1>0. \A v \in p.values : Titled(v)
  BY PermissionAssumption
<1>1. ASSUME NEW v \in p.values, ~Perms!IsTag(v), Perms!Names(v.mod, p.values) # {"*"}
      PROVE  \E w \in p.values : v # w /\ Perms!Match(v, w)
  <2>1. v.name = "*" /\ v.name \in Perms!Names(v.mod, p.values)
    BY <1>1 DEF Perms!Names, Perms!IsTag
  <2>2. PICK n \in Perms!Names(v.mod, p.values) : n # "*"
    BY <1>1, <2>1
  <2>3. PICK w \in p.values : w.mod = v.mod /\ w.name = n
    BY <2>2 DEF Perms!Names
  <2> QED BY <1>1, <2>1, <2>2, <2>3 DEF Perms!Match, Perms!IsTag
<1>2. ASSUME NEW e \in p.exceptions, Perms!Module(e.mod) \notin p.values
      PROVE  \A v \in p.values : Perms!IsTag(v) \/ v.mod # e.mod
  <2> SUFFICES ASSUME NEW v \in p.values, ~Perms!IsTag(v), v.mod = e.mod PROVE FALSE
    OBVIOUS
  <2>1. v = Perms!Module(e.mod)
    BY <1>0 DEF Titled, Perms!Module, Perms!IsTag
  <2> QED BY <1>2, <2>1
<1> QED BY <1>1, <1>2 DEF Perms!Buildable

LEMMA PermsRefused == PermsInv /\ Perms!Next => Perms!TurnedAwayRightly
<1> SUFFICES ASSUME PermsInv, Perms!Next, Perms!TurnedAway, Perms!Fresh
             PROVE  PermsWithout
  BY DEF Perms!TurnedAwayRightly, PermsWithout
<1>0. PermsCall /\ PermsTyped /\ Fresh /\ ~Perms!Built /\ call.op # "none" /\ call'.op = "none"
  BY DEF PermsInv, Perms!TurnedAway, Perms!Ends, Perms!Fresh, Fresh
<1>1. DOMAIN call = {"op", "args", "read", "left", "stale"}
  BY <1>0 DEF PermsCall, PermsAccount, PermsAgent, PermsGrant, Of, Idle
<1>2. ASSUME NEW r, NEW found, NEW more, Perms!Keep(r, found, more) PROVE FALSE
  BY <1>0, <1>1, <1>2 DEF Perms!Keep
<1>3. ASSUME NEW r, NEW test, Perms!Check(r, test) PROVE ~test
  BY <1>2, <1>3 DEF Perms!Check
<1>4. ASSUME call.op = "account", chain.who = "secondary", call.args \in Requests, ~PermsHas(call.args) PROVE PermsWithout
  <2>1. CASE call.args.txs.all \/ call.args.assets.all
    BY <1>4, <2>1 DEF PermsWithout
  <2>2. CASE \E t \in call.args.txs.of : ~Perms!Allows(chain.perms, t) /\ ~call.args.txs.all
    <3>1. PICK t \in call.args.txs.of : ~Perms!Allows(chain.perms, t)
      BY <2>2
    <3>2. Perms!Needed(call.args.txs, Tags) = call.args.txs.of
      BY <1>4, <2>2, PermsAsked
    <3> QED BY <1>4, <3>1, <3>2 DEF PermsWithout, Perms!Accepted
  <2>3. CASE \E a \in call.args.assets.of : ~Perms!Touches(chain.assets, a) /\ ~call.args.assets.all
    <3>1. Perms!Needed(call.args.assets, {"A", "B"}) = call.args.assets.of
      BY <1>4, <2>3, PermsAsked
    <3> QED BY <1>4, <2>3, <3>1 DEF PermsWithout, Perms!Accepted
  <2> QED BY <1>0, <1>4, <2>1, <2>2, <2>3, PermsGrants
<1>5. ASSUME NEW r, NEW primary, call.op = "account", call.args \in Requests,
                  primary <=> chain.who = "primary", Perms!Judge(r, primary, Perms!Record)
           PROVE  PermsWithout
  <2>1. ~primary
    BY <1>2, <1>5 DEF Perms!Judge
  <2>2. CASE Perms!Record = {}
    <3>1. chain.who # "primary" /\ chain.who # "secondary"
      BY <1>5, <2>1, <2>2 DEF Perms!Record
    <3> QED BY <1>5, <3>1 DEF PermsWithout, Perms!Accepted
  <2>3. CASE Perms!Record # {}
    <3>1. chain.who = "secondary" /\ Perms!Record = {[perms |-> chain.perms, assets |-> chain.assets]}
      BY <2>3 DEF Perms!Record
    <3>2. ~ \A c \in Perms!Record : /\ Perms!HasTransactions(call.args.txs, Perms!ToTransactions(c.perms))
                                /\ Perms!HasSection(call.args.assets, c.assets)
      BY <1>5, <1>3, <2>1, <2>3 DEF Perms!Judge
    <3>3. PICK c \in Perms!Record : ~(/\ Perms!HasTransactions(call.args.txs, Perms!ToTransactions(c.perms))
                                  /\ Perms!HasSection(call.args.assets, c.assets))
      BY <3>2
    <3>4. c.perms = chain.perms /\ c.assets = chain.assets
      BY <3>1, <3>3
    <3>5. ~PermsHas(call.args)
      BY <3>3, <3>4 DEF PermsHas
    <3> QED BY <1>5, <1>4, <3>1, <3>5
  <2> QED BY <2>2, <2>3
<1>6. ASSUME PermsAgent, ~PermsMay(call.args.txs) PROVE PermsWithout
  <2>1. /\ call.op = "agent" /\ call.args \in Requests /\ chain.who \in Perms!Agents
        /\ call.args.txs.all \/ call.args.txs.of # {}
    BY <1>6 DEF PermsAgent, Of
  <2>2. call.args.txs.all \/ \E t \in call.args.txs.of : ~Perms!AgentMay(t)
    BY <1>0, <1>6, <2>1, PermsAgents
  <2>3. ~call.args.txs.all => Perms!Needed(call.args.txs, Tags) = call.args.txs.of
    BY <2>1, PermsAsked
  <2> QED BY <2>1, <2>2, <2>3 DEF PermsWithout, Perms!Accepted
<1>7. CASE Perms!ReadIdentity
  <2>1. chain.who = "stranger" /\ call.op = "account"
    BY <1>7, <1>2 DEF Perms!ReadIdentity, Perms!Answers
  <2> QED BY <2>1 DEF PermsWithout, Perms!Accepted
<1>8. CASE Perms!ReadPrimary
  <2>1. PermsAccount /\ "primary" \in call.left /\ call.op = "account" /\ call.args \in Requests
    BY <1>0, <1>8, PermsStages DEF Perms!ReadPrimary, Perms!Answers, PermsAccount, Of
  <2> DEFINE primary == chain.who = "primary"
  <2>2. "record" \notin call.left /\ Perms!Judge("primary", primary, call.read.record) /\ (primary <=> chain.who = "primary")
    BY <1>8, <1>2 DEF Perms!ReadPrimary
  <2> HIDE DEF primary
  <2>3. call.left = {"primary"}
    BY <2>1, <2>2 DEF PermsAccount, Of
  <2>4. call.read.record = Perms!Record
    BY <1>0, <2>1, <2>3 DEF PermsAccount
  <2> QED BY <1>5, <2>1, <2>2, <2>4
<1>9. CASE Perms!ReadRecord
  <2>1. PermsAccount /\ "record" \in call.left /\ call.op = "account" /\ call.args \in Requests
    BY <1>0, <1>9, PermsStages DEF Perms!ReadRecord, Perms!Answers, PermsAccount, Of
  <2>2. "primary" \notin call.left /\ Perms!Judge("record", call.read.primary, Perms!Record)
    BY <1>9, <1>2 DEF Perms!ReadRecord
  <2>3. call.left = {"record"}
    BY <2>1, <2>2 DEF PermsAccount, Of
  <2>4. call.read.primary <=> chain.who = "primary"
    BY <1>0, <2>1, <2>3 DEF PermsAccount
  <2> QED BY <1>5, <2>1, <2>2, <2>4
<1>10. CASE Perms!ReadGroup
  <2>1. PermsAgent
    BY <1>0, <1>10, PermsStages DEF Perms!ReadGroup, Perms!Answers
  <2>2. chain.who # "full" /\ chain.who # "custom"
    BY <1>10, <1>2 DEF Perms!ReadGroup
  <2>3. CASE chain.who = "nobody"
    <3>1. ~PermsMay(call.args.txs)
      BY <2>3 DEF PermsMay
    <3> QED BY <1>6, <2>1, <3>1
  <2>4. CASE chain.who # "nobody"
    <3>1. Perms!Check("group", ~call.args.txs.all /\ \A t \in call.args.txs.of : ~Perms!Barred(chain.who, t))
      BY <1>10, <2>2, <2>4 DEF Perms!ReadGroup
    <3>2. ~PermsMay(call.args.txs)
      BY <1>3, <2>2, <2>4, <3>1 DEF PermsMay
    <3> QED BY <1>6, <2>1, <3>2
  <2> QED BY <2>3, <2>4
<1>11. CASE Perms!ReadPermissions
  <2>1. PermsAgent /\ "permissions" \in call.left
    BY <1>0, <1>11, PermsStages DEF Perms!ReadPermissions, Perms!Answers
  <2>2. chain.who = "custom"
    BY <1>0, <2>1 DEF PermsAgent
  <2>3. ~PermsMay(call.args.txs)
    BY <1>11, <1>3, <2>2 DEF Perms!ReadPermissions, PermsMay
  <2> QED BY <1>6, <2>1, <2>3
<1>12. CASE Perms!Convert
  <2>1. PermsGrant
    BY <1>0, <1>12, PermsStages DEF Perms!Convert, Perms!Answers
  <2>2. call.op = "grant" /\ call.args.perms \in WrittenPermissions
    BY <2>1 DEF PermsGrant, Of
  <2>3. ~Perms!Buildable(call.args.perms)
    BY <1>12, <1>2 DEF Perms!Convert
  <2> QED BY <2>2, <2>3, PermsContradict DEF PermsWithout
<1>13. CASE Perms!Send \/ Perms!DispatchGrant
  BY <1>0, <1>13 DEF Perms!Send, Perms!DispatchGrant, Perms!Dispatches
<1>14. ASSUME NEW after, Perms!Happens(after) PROVE FALSE
  BY <1>0, <1>14, PermsStages DEF Perms!Happens
<1> QED
  BY <1>0, <1>7, <1>8, <1>9, <1>10, <1>11, <1>12, <1>13, <1>14
     DEF Perms!Next, Perms!Calls, Perms!CheckAccount, Perms!CheckAgent, Perms!Grant, Perms!Become, Perms!Assign

LEMMA PermsDone == PermsInv /\ Perms!Next => Perms!DoneAsAsked
<1> SUFFICES ASSUME PermsInv, Perms!Next PROVE Perms!DoneAsAsked
  OBVIOUS
<1>1. ASSUME Perms!Built, Perms!Ends, Perms!Accepted, call.op = "grant"
      PROVE  \A t \in Tags : Perms!Allows(chain'.perms, t) <=> Perms!Meant(call.args.perms, t)
  <2>1. PermsGrant /\ call.left = {} /\ call.op # "none" /\ call'.op = "none" /\ PermsTyped
    BY <1>1, PermsStages DEF PermsInv, Perms!Built, Perms!Ends
  <2>2. ASSUME NEW after, Perms!Happens(after) PROVE FALSE
    BY <2>1, <2>2, PermsStages DEF PermsInv, Perms!Happens
  <2>3. Perms!DispatchGrant
    BY <1>1, <2>1, <2>2 DEF Perms!Next, Perms!Calls, Perms!CheckAccount, Perms!CheckAgent, Perms!Grant, Perms!Become, Perms!Assign, Perms!Answers, Perms!Send,
       Perms!ReadIdentity, Perms!ReadPrimary, Perms!ReadRecord, Perms!ReadGroup, Perms!ReadPermissions, Perms!Convert
  <2>4. chain'.perms = call.read.perms
    BY <1>1, <2>1, <2>3 DEF Perms!DispatchGrant, Perms!Dispatches, PermsTyped
  <2>5. call.args.perms \in PermsWritten /\ chain'.perms = Perms!ToExtrinsic(call.args.perms)
    BY <2>1, <2>4 DEF PermsGrant
  <2> QED BY <2>5, PermsMean, PermsTags
<1>2. ASSUME chain'.perms.kind # "Whole", NEW g \in TxGroups
      PROVE  LET all == \A t \in g : Perms!Allows(chain'.perms, t) IN
             /\ g \in Perms!Held(Perms!ToTransactions(chain'.perms)) => all
             /\ chain'.perms.kind = "These" /\ all => g \in Perms!Held(Perms!ToTransactions(chain'.perms))
  <2>1. chain'.perms \in Perms!OnChain
    <3>1. PermsTyped'
      BY PermsNext DEF PermsInv
    <3> QED BY <3>1 DEF PermsTyped
  <2>2. PICK p \in PermsWritten : chain'.perms = Perms!ToExtrinsic(p) /\ Perms!ToTransactions(chain'.perms) = p
    BY <2>1, PermsChain
  <2>3. p.type # "Null" /\ (chain'.perms.kind = "These" <=> p.type = "Include")
    BY <1>2, <2>2, PermsRead, PermsShape
  <2>4. \A t \in g : Perms!Allows(chain'.perms, t) <=> Perms!Meant(p, t)
    <3>1. g \subseteq Tags
      BY PermissionAssumption
    <3> QED BY <2>2, <3>1, PermsMean, PermsTags
  <2>5. /\ g \in Perms!Held(p) => \A t \in g : Perms!Meant(p, t)
        /\ p.type = "Include" /\ (\A t \in g : Perms!Meant(p, t)) => g \in Perms!Held(p)
    BY <2>3, PermsHeld
  <2> QED BY <2>2, <2>3, <2>4, <2>5
<1> QED BY <1>1, <1>2 DEF Perms!DoneAsAsked

-----------------------------------------------------------------------------
(* Claims *)

LEMMA ClaimsSizes == \A set : Claims!Cardinality(set) = Cardinality(set)
BY DEF Cardinality, Claims!Cardinality

LEMMA ClaimsFew ==
  ASSUME NEW S \in SUBSET DiligenceIds
  PROVE  Claims!Cardinality(S) <= 1 <=> AtMostOne(S)
<1>1. IsFiniteSet(S)
  <2>1. IsFiniteSet(DiligenceIds)
    BY ClaimAssumption
  <2> QED BY <2>1, FS_Subset, Zenon
<1>2. Cardinality(S) \in Nat
  BY <1>1, FS_CardinalityType, Zenon
<1>3. ASSUME Cardinality(S) <= 1, NEW x \in S, NEW y \in S, x # y PROVE FALSE
  <2>1. IsFiniteSet({x}) /\ Cardinality({x}) = 1
    BY FS_Singleton, Zenon
  <2>2. {x} \in SUBSET S
    OBVIOUS
  <2>3. Cardinality({x}) = Cardinality(S) => S = {x}
    BY <1>1, <2>2, FS_Subset, Zenon
  <2>4. Cardinality({x}) <= Cardinality(S)
    BY <1>1, <2>2, FS_Subset, Zenon
  <2>5. S = {x}
    BY <1>2, <1>3, <2>1, <2>3, <2>4
  <2> QED BY <1>3, <2>5
<1>4. ASSUME AtMostOne(S) PROVE Cardinality(S) <= 1
  <2>1. CASE S = {}
    <3>1. Cardinality(S) = 0
      BY <2>1, FS_EmptySet, Zenon
    <3> QED BY <3>1
  <2>2. CASE S # {}
    <3>1. PICK x : S = {x}
      BY <1>4, <2>2 DEF AtMostOne
    <3>2. Cardinality(S) = 1
      BY <3>1, FS_Singleton, Zenon
    <3> QED BY <3>2
  <2> QED BY <2>1, <2>2
<1>5. Cardinality(S) <= 1 <=> AtMostOne(S)
  BY <1>3, <1>4 DEF AtMostOne
<1>6. Claims!Cardinality(S) = Cardinality(S)
  BY ClaimsSizes, Zenon
<1> QED BY <1>5, <1>6

LEMMA ClaimsIds ==
  ASSUME NEW claims \in SUBSET ClaimsPassable
  PROVE  /\ Claims!CddIds(claims) \subseteq DiligenceIds
         /\ \A id : id \in Claims!CddIds(claims) <=> \E c \in claims : c.kind = "cdd" /\ c.tag = id
         /\ "cdd" \in Claims!Kinds(claims) <=> Claims!CddIds(claims) # {}
<1>1. \A c \in claims : c.kind = "cdd" => c.tag \in DiligenceIds
  BY DEF ClaimsPassable, Claims!Claims, Claims!Unknown, Claims!Plain, Claims!Unique, Claims!Cdd
<1>2. \A id : id \in Claims!CddIds(claims) <=> \E c \in claims : c.kind = "cdd" /\ c.tag = id
  BY DEF Claims!CddIds
<1>3. "cdd" \in Claims!Kinds(claims) <=> \E c \in claims : c.kind = "cdd"
  BY DEF Claims!Kinds
<1> QED BY <1>1, <1>2, <1>3

LEMMA ClaimsBoth ==
  ASSUME NEW left \in SUBSET ClaimsPassable, NEW right \in SUBSET ClaimsPassable
  PROVE  Claims!CddIds(left \cup right) = Claims!CddIds(left) \cup Claims!CddIds(right)
BY DEF Claims!CddIds

LEMMA ClaimsPart ==
  ASSUME NEW right \in SUBSET ClaimsPassable, NEW left \in SUBSET right
  PROVE  Claims!CddIds(left) \subseteq Claims!CddIds(right)
BY DEF Claims!CddIds

LEMMA ClaimsPassed ==
  ASSUME NEW claims \in PassedClaims
  PROVE  claims \in SUBSET ClaimsPassable /\ AtMostOne(Claims!CddIds(claims))
<1>1. claims \in SUBSET ClaimsPassable /\ Cardinality(Claims!CddIds(claims)) <= 1
  BY ClaimAssumption DEF ClaimsPassable
<1>2. Claims!CddIds(claims) \in SUBSET DiligenceIds
  BY <1>1, ClaimsIds
<1>3. Claims!Cardinality(Claims!CddIds(claims)) = Cardinality(Claims!CddIds(claims))
  BY ClaimsSizes, Zenon
<1> QED BY <1>1, <1>2, <1>3, ClaimsFew

LEMMA ClaimsNone == ClaimsAgree({}, {})
BY DEF ClaimsAgree, AtMostOne, Claims!CddIds

LEMMA ClaimsInit == Claims!Init => ClaimsInv
<1> SUFFICES ASSUME Claims!Init PROVE ClaimsInv
  OBVIOUS
<1>1. PICK up \in BOOLEAN : chain = [mine |-> {}, theirs |-> {}, balance |-> FALSE, up |-> up,
                                     mirror |-> [mine |-> {}, theirs |-> {}]]
  BY DEF Claims!Init
<1>2. /\ chain.mine = {} /\ chain.theirs = {} /\ chain.mirror.mine = {} /\ chain.mirror.theirs = {}
      /\ chain \in [mine : SUBSET Claims!Claims, theirs : SUBSET DiligenceIds, balance : BOOLEAN, up : BOOLEAN,
                    mirror : [mine : SUBSET Claims!Claims, theirs : SUBSET DiligenceIds]]
  BY <1>1
<1>3. ClaimsTyped
  BY <1>2, ClaimsNone DEF ClaimsTyped, ClaimsOf
<1> QED BY <1>3 DEF Claims!Init, ClaimsInv, ClaimsCall, Claims!Idle, Idle, Claims!NoArgs, NoArgs

(* Accepted claims agree with the others, whichever they take the place of.*)
LEMMA ClaimsAdded ==
  ASSUME ClaimsTyped, NEW claims \in SUBSET Claims!Claims, AtMostOne(Claims!CddIds(claims)),
         Claims!CddIds(claims) # {} => Claims!AcceptsClaims(claims)
  PROVE  ClaimsAgree(Claims!Without(claims) \cup claims, chain.theirs)
<1> DEFINE mine == chain.mine
           stay == Claims!Without(claims)
           after == stay \cup claims
<1>1. mine \in SUBSET Claims!Claims /\ chain.theirs \in SUBSET DiligenceIds /\ ClaimsAgree(mine, chain.theirs)
  BY DEF ClaimsTyped, ClaimsOf, ClaimsAgree
<1>2. stay \subseteq mine
  BY DEF Claims!Without
<1>3. mine \in SUBSET ClaimsPassable /\ stay \in SUBSET ClaimsPassable /\ claims \in SUBSET ClaimsPassable /\ claims \cup mine \in SUBSET ClaimsPassable
  BY <1>1, <1>2 DEF ClaimsPassable
<1>4. Claims!CddIds(after) = Claims!CddIds(stay) \cup Claims!CddIds(claims) /\ Claims!CddIds(stay) \subseteq Claims!CddIds(mine)
  BY <1>2, <1>3, ClaimsBoth, ClaimsPart
<1>5. Claims!CddIds(claims) # {} => Claims!CddIds(stay) = {}
  <2> SUFFICES ASSUME NEW id \in Claims!CddIds(claims), NEW other \in Claims!CddIds(stay) PROVE FALSE
    OBVIOUS
  <2>1. PICK c \in claims : c.kind = "cdd"
    BY <1>3, ClaimsIds
  <2>2. PICK d \in stay : d.kind = "cdd"
    BY <1>3, ClaimsIds
  <2> QED BY <2>1, <2>2 DEF Claims!Without, Claims!Same
<1>6. Claims!CddIds(mine) \subseteq DiligenceIds /\ Claims!CddIds(claims) \subseteq DiligenceIds /\ Claims!CddIds(claims \cup mine) = Claims!CddIds(claims) \cup Claims!CddIds(mine)
  BY <1>3, ClaimsIds, ClaimsBoth
<1>7. Claims!CddIds(claims) # {} => AtMostOne((Claims!CddIds(claims \cup mine) \cup chain.theirs) \ {Default})
  <2>1. (Claims!CddIds(claims \cup mine) \cup chain.theirs) \ {Default} \in SUBSET DiligenceIds
    BY <1>1, <1>6
  <2> QED BY <2>1, ClaimsFew DEF Claims!AcceptsClaims
<1>8. AtMostOne(Claims!CddIds(after))
  BY <1>1, <1>4, <1>5 DEF AtMostOne, ClaimsAgree
<1>9. AtMostOne((Claims!CddIds(after) \cup chain.theirs) \ {Default})
  BY <1>1, <1>4, <1>6, <1>7 DEF AtMostOne, ClaimsAgree
<1> QED BY <1>1, <1>2, <1>8, <1>9 DEF ClaimsAgree

LEMMA ClaimsFewer ==
  ASSUME ClaimsTyped, NEW claims
  PROVE  ClaimsAgree(Claims!Without(claims), chain.theirs)
<1>1. chain.mine \in SUBSET Claims!Claims /\ ClaimsAgree(chain.mine, chain.theirs) /\ Claims!Without(claims) \in SUBSET chain.mine
  BY DEF ClaimsTyped, ClaimsOf, ClaimsAgree, Claims!Without
<1>2. Claims!CddIds(Claims!Without(claims)) \subseteq Claims!CddIds(chain.mine)
  <2>1. chain.mine \in SUBSET ClaimsPassable
    BY <1>1 DEF ClaimsPassable
  <2> QED BY <1>1, <2>1, ClaimsPart
<1> QED BY <1>1, <1>2 DEF ClaimsAgree, AtMostOne

LEMMA ClaimsStages ==
  ASSUME ClaimsCall
  PROVE  /\ call.op = "none" => call = Idle
         /\ [call EXCEPT !.stale = TRUE].op = call.op
         /\ call.op = "add" => ClaimsAdd
         /\ call.op = "edit" => ClaimsEdit
         /\ call.op = "revoke" => ClaimsRevoke
BY DEF ClaimsCall, ClaimsAdd, ClaimsEdit, ClaimsRevoke, Of, Idle

LEMMA ClaimsStale ==
  ASSUME ClaimsCall, NEW after, Claims!Happens(after) PROVE ClaimsCall'
<1>1. CASE call = Idle
  BY <1>1 DEF Claims!Happens, ClaimsCall, Idle
<1>2. CASE call # Idle
  <2>1. call' = [call EXCEPT !.stale = TRUE]
    BY <1>2, ClaimsStages DEF Claims!Happens
  <2> QED BY <1>2, <2>1 DEF ClaimsCall, ClaimsAdd, Fresh, Of, ClaimsEdit, ClaimsRevoke
<1> QED BY <1>1, <1>2

LEMMA ClaimsNext == ClaimsInv /\ Claims!Next => ClaimsInv'
<1> SUFFICES ASSUME ClaimsInv, Claims!Next PROVE ClaimsInv'
  OBVIOUS
<1> USE DEF Idle, NoArgs, Claims!Idle, Claims!NoArgs, Claims!Calls, Claims!Answers, Claims!Check, Claims!Keep,
        Claims!Refuse, Claims!Built, Claims!Dispatches
<1>0. ClaimsCall /\ ClaimsTyped
  BY DEF ClaimsInv
<1>1. ASSUME UNCHANGED chain, ClaimsCall' PROVE ClaimsInv'
  BY <1>0, <1>1 DEF ClaimsInv, ClaimsTyped, ClaimsOf
<1>2. ASSUME NEW after, Claims!Happens(after), ClaimsTyped' PROVE ClaimsInv'
  BY <1>0, <1>2, ClaimsStale DEF ClaimsInv
<1>3. ASSUME ClaimsTyped', call' = Idle PROVE ClaimsInv'
  BY <1>3 DEF ClaimsInv, ClaimsCall
<1>4. ASSUME UNCHANGED chain, call' = Idle PROVE ClaimsInv'
  BY <1>1, <1>4 DEF ClaimsCall
<1>5. ASSUME NEW op \in {"add", "edit", "revoke"}, NEW claims \in PassedClaims, Claims!Modify(op, claims) PROVE ClaimsInv'
  <2>1. call' = [op |-> op, args |-> [claims |-> claims], read |-> NoArgs, left |-> {"dids", "up"}, stale |-> FALSE] /\ chain' = chain
    BY <1>5 DEF Claims!Modify
  <2>2. (op = "add" => ClaimsAdd') /\ (op = "edit" => ClaimsEdit') /\ (op = "revoke" => ClaimsRevoke')
    BY <2>1 DEF ClaimsAdd, ClaimsEdit, ClaimsRevoke, Of
  <2> QED BY <1>1, <2>1, <2>2 DEF ClaimsCall
<1>6. CASE Claims!ReadDids /\ call' # Idle
  <2>1. CASE ClaimsAdd
    <3>1. call' = [call EXCEPT !.left = @ \ {"dids"}] /\ chain' = chain /\ Claims!Unknown \notin call.args.claims
      BY <1>6, <2>1 DEF Claims!ReadDids, ClaimsAdd, Of
    <3>2. ClaimsAdd'
      BY <2>1, <3>1 DEF ClaimsAdd, Of, Fresh, Claims!Synced, Claims!Known, ClaimsFits, ClaimsOurs
    <3> QED BY <1>1, <3>1, <3>2 DEF ClaimsCall
  <2>2. CASE ClaimsEdit
    <3>1. call' = [call EXCEPT !.left = @ \ {"dids"}] /\ chain' = chain /\ Claims!Unknown \notin call.args.claims
      BY <1>6, <2>2 DEF Claims!ReadDids, ClaimsEdit, Of
    <3>2. ClaimsEdit'
      BY <2>2, <3>1 DEF ClaimsEdit, Of, Fresh
    <3> QED BY <1>1, <3>1, <3>2 DEF ClaimsCall
  <2>3. CASE ClaimsRevoke
    <3>1. call' = [call EXCEPT !.left = @ \ {"dids"}] /\ chain' = chain /\ Claims!Unknown \notin call.args.claims
      BY <1>6, <2>3 DEF Claims!ReadDids, ClaimsRevoke, Of
    <3>2. ClaimsRevoke'
      BY <2>3, <3>1 DEF ClaimsRevoke, Of, Fresh
    <3> QED BY <1>1, <3>1, <3>2 DEF ClaimsCall
  <2>4. "dids" \in call.left
    BY <1>6 DEF Claims!ReadDids
  <2> QED BY <1>0, <2>1, <2>2, <2>3, <2>4 DEF ClaimsCall, Idle
<1>7. CASE Claims!ReadUp
  <2> DEFINE read == [up |-> chain.up]
  <2>1. "up" \in call.left /\ chain' = chain
    BY <1>7 DEF Claims!ReadUp
  <2>2. CASE ClaimsAdd
    <3> DEFINE more == IF "cdd" \in Claims!Kinds(call.args.claims) THEN {"heartbeat"} ELSE {}
    <3>1. call' = [call EXCEPT !.read = read, !.left = (@ \ {"up"}) \cup more]
      BY <1>7, <2>2 DEF Claims!ReadUp, Claims!Later, ClaimsAdd, Of
    <3>2. ClaimsAdd'
      BY <2>1, <2>2, <3>1 DEF ClaimsAdd, Of, Fresh
    <3> QED BY <1>1, <2>1, <3>2 DEF ClaimsCall
  <2>3. CASE ClaimsEdit
    <3> DEFINE more == IF chain.up THEN {"mirror"} ELSE {}
    <3>1. call' = [call EXCEPT !.read = read, !.left = (@ \ {"up"}) \cup more]
      BY <1>7, <2>3 DEF Claims!ReadUp, Claims!Later, ClaimsEdit, Of
    <3>2. ClaimsEdit'
      BY <2>1, <2>3, <3>1 DEF ClaimsEdit, Of, Fresh
    <3> QED BY <1>1, <2>1, <3>2 DEF ClaimsCall
  <2>4. CASE ClaimsRevoke
    <3> DEFINE more == IF chain.up THEN {"mirror"} ELSE {"balances"}
    <3>1. call' = [call EXCEPT !.read = read, !.left = (@ \ {"up"}) \cup more]
      BY <1>7, <2>4 DEF Claims!ReadUp, Claims!Later, ClaimsRevoke, Of
    <3>2. ClaimsRevoke'
      BY <2>1, <2>4, <3>1 DEF ClaimsRevoke, Of, Fresh
    <3> QED BY <1>1, <2>1, <3>2 DEF ClaimsCall
  <2> QED BY <1>0, <2>1, <2>2, <2>3, <2>4 DEF ClaimsCall
<1> USE DEF Claims!Later
<1>8. CASE Claims!ReadMirror /\ call' # Idle
  <2>1. CASE ClaimsEdit
    <3>1. call' = [call EXCEPT !.left = @ \ {"mirror"}] /\ chain' = chain /\ Claims!Issued(call.args.claims, chain.mirror.mine) /\ "mirror" \in call.left
      BY <1>8, <2>1 DEF Claims!ReadMirror, ClaimsEdit, Of
    <3>2. ClaimsEdit'
      BY <2>1, <3>1 DEF ClaimsEdit, Of, Fresh
    <3> QED BY <1>1, <3>1, <3>2 DEF ClaimsCall
  <2>2. CASE ClaimsRevoke
    <3>1. call' = [call EXCEPT !.left = (@ \ {"mirror"}) \cup {"balances"}] /\ chain' = chain /\ Claims!Issued(call.args.claims, chain.mirror.mine) /\ "mirror" \in call.left
      BY <1>8, <2>2 DEF Claims!ReadMirror, ClaimsRevoke, Of
    <3>2. ClaimsRevoke'
      BY <2>2, <3>1 DEF ClaimsRevoke, Of, Fresh
    <3> QED BY <1>1, <3>1, <3>2 DEF ClaimsCall
  <2>3. "mirror" \in call.left
    BY <1>8 DEF Claims!ReadMirror
  <2> QED BY <1>0, <2>1, <2>2, <2>3 DEF ClaimsCall, Idle, ClaimsAdd, Of
<1> HIDE DEF Claims!Later
<1>9. CASE Claims!ReadBalances /\ call' # Idle
  <2>1. ClaimsRevoke
    BY <1>0, <1>9, ClaimsStages DEF Claims!ReadBalances
  <2>2. call' = [call EXCEPT !.left = @ \ {"balances"}] /\ chain' = chain /\ (chain.balance => Claims!Unique \notin call.args.claims) /\ "balances" \in call.left
    BY <1>9, <2>1 DEF Claims!ReadBalances, ClaimsRevoke, Of
  <2>3. ClaimsRevoke'
    BY <2>1, <2>2 DEF ClaimsRevoke, Of, Fresh
  <2> QED BY <1>1, <2>2, <2>3 DEF ClaimsCall
<1>10. CASE Claims!ReadHeartbeat
  <2>1. ClaimsAdd
    BY <1>0, <1>10, ClaimsStages DEF Claims!ReadHeartbeat
  <2>2. /\ chain' = chain /\ "heartbeat" \in call.left /\ "dids" \notin call.left
        /\ call' = [call EXCEPT !.read = [up |-> chain.up], !.left = (@ \ {"heartbeat"}) \cup {"issued"}]
    BY <1>10 DEF Claims!ReadHeartbeat
  <2>3. (call.left \ {"heartbeat"}) \cup {"issued"} = {"issued"}
    BY <2>1, <2>2 DEF ClaimsAdd, Of
  <2>4. call' = [call EXCEPT !.read = [up |-> chain.up], !.left = {"issued"}] /\ chain.up \in BOOLEAN
    BY <1>0, <2>2, <2>3 DEF ClaimsTyped, ClaimsOf
  <2> DEFINE read == [up |-> chain.up]
  <2>5. (read.up <=> chain.up) /\ read.up \in BOOLEAN
    BY <2>4
  <2>6. call' = [call EXCEPT !.read = read, !.left = {"issued"}]
    BY <2>4
  <2> HIDE DEF read
  <2>7. call'.read = read /\ call'.left = {"issued"} /\ call'.args = call.args
    BY <2>1, <2>6 DEF ClaimsAdd, Of
  <2>8. Of(call, "add", [claims : PassedClaims], {"dids", "up", "heartbeat", "issued"})'
    BY <2>1, <2>6, <2>7 DEF ClaimsAdd, Of
  <2>9. ClaimsAdd'
    BY <2>1, <2>2, <2>5, <2>7, <2>8 DEF ClaimsAdd
  <2> QED BY <1>1, <2>2, <2>9 DEF ClaimsCall
<1>11. CASE Claims!ReadIssued /\ call' # Idle
  <2> DEFINE known == IF call.read.up THEN chain.mirror ELSE chain
             ids == Claims!CddIds(known.mine) \cup known.theirs
  <2>1. ClaimsAdd /\ "issued" \in call.left
    BY <1>0, <1>11, ClaimsStages DEF Claims!ReadIssued
  <2>2. /\ chain' = chain /\ call' = [call EXCEPT !.left = @ \ {"issued"}]
        /\ ids = {} \/ \E first \in ids : \A id \in Claims!CddIds(call.args.claims) : ~Claims!Clash(id, first)
    BY <1>11, <2>1 DEF Claims!ReadIssued, ClaimsAdd, Of
  <2>3. Claims!Synced => ids = ClaimsOurs
    BY DEF Claims!Synced, Claims!Known, ClaimsOurs
  <2>4. call.left \ {"issued"} = {}
    BY <2>1 DEF ClaimsAdd
  <2> HIDE DEF ids
  <2>5. Claims!Synced => ClaimsFits
    BY <2>2, <2>3 DEF ClaimsFits
  <2>6. call' = [call EXCEPT !.left = {}] /\ call'.args = call.args
    BY <2>1, <2>2, <2>4 DEF ClaimsAdd, Of
  <2>7. Claims!Synced' = Claims!Synced /\ ClaimsFits' = ClaimsFits
    BY <2>2, <2>6 DEF Claims!Synced, Claims!Known, ClaimsFits, ClaimsOurs
  <2>8. ClaimsAdd'
    BY <2>1, <2>5, <2>6, <2>7 DEF ClaimsAdd, Of
  <2> QED BY <1>1, <2>2, <2>8 DEF ClaimsCall
<1>12. CASE call' = Idle /\ (Claims!ReadDids \/ Claims!ReadMirror \/ Claims!ReadBalances \/ Claims!ReadIssued)
  BY <1>0, <1>4, <1>12 DEF Claims!ReadDids, Claims!ReadMirror, Claims!ReadBalances, Claims!ReadIssued
<1>13. chain \in [mine : SUBSET Claims!Claims, theirs : SUBSET DiligenceIds, balance : BOOLEAN, up : BOOLEAN,
                      mirror : [mine : SUBSET Claims!Claims, theirs : SUBSET DiligenceIds]]
  BY <1>0 DEF ClaimsTyped, ClaimsOf
<1>14. ASSUME NEW mine, ClaimsAgree(mine, chain.theirs) PROVE ClaimsOf([chain EXCEPT !.mine = mine])
  BY <1>0, <1>13, <1>14 DEF ClaimsTyped, ClaimsOf, ClaimsAgree
<1>15. CASE Claims!DispatchClaims
  <2> DEFINE claims == call.args.claims
             mine == Claims!Without(claims) \cup claims
  <2>1. call.op \in {"add", "edit"} /\ call.left = {}
    BY <1>15 DEF Claims!DispatchClaims
  <2>2. claims \in PassedClaims /\ Claims!Unknown \notin claims
    BY <1>0, <2>1, ClaimsStages DEF ClaimsAdd, ClaimsEdit, Of
  <2>3. claims \in SUBSET Claims!Claims /\ AtMostOne(Claims!CddIds(claims))
    BY <2>2, ClaimsPassed DEF ClaimsPassable
  <2>4. call' = Idle /\ (chain' = chain \/ (Claims!AcceptsClaims(claims) /\ chain' = [chain EXCEPT !.mine = mine]))
    BY <1>15, <2>1 DEF Claims!DispatchClaims, Claims!Accepted
  <2> HIDE DEF claims
  <2>5. Claims!AcceptsClaims(claims) => ClaimsAgree(mine, chain.theirs)
    BY <1>0, <2>3, ClaimsAdded
  <2> HIDE DEF mine
  <2>6. chain' = chain \/ ClaimsTyped'
    BY <1>14, <2>4, <2>5 DEF ClaimsTyped
  <2> QED BY <1>3, <1>4, <2>4, <2>6
<1>16. CASE Claims!DispatchRevoke
  <2> DEFINE mine == Claims!Without(call.args.claims)
  <2>1. call' = Idle /\ (chain' = chain \/ chain' = [chain EXCEPT !.mine = mine])
    BY <1>16 DEF Claims!DispatchRevoke
  <2>2. ClaimsAgree(mine, chain.theirs)
    BY <1>0, ClaimsFewer
  <2> HIDE DEF mine
  <2>3. chain' = chain \/ ClaimsTyped'
    BY <1>14, <2>1, <2>2 DEF ClaimsTyped
  <2> QED BY <1>3, <1>4, <2>1, <2>3
<1>17. ASSUME NEW after, Claims!Happens(after), ClaimsOf(after) PROVE ClaimsInv'
  <2>1. ClaimsTyped'
    BY <1>17 DEF ClaimsTyped, Claims!Happens
  <2> QED BY <1>2, <1>17, <2>1
<1>18. ASSUME NEW c \in Claims!Claims, Claims!OthersClaim(c) PROVE ClaimsInv'
  <2> DEFINE mine == Claims!Without({c}) \cup {c}
  <2>1. Claims!Happens([chain EXCEPT !.mine = mine]) /\ (c.kind = "cdd" => Claims!AcceptsClaims({c}))
    BY <1>18 DEF Claims!OthersClaim
  <2>2. {c} \in SUBSET Claims!Claims /\ {c} \in SUBSET ClaimsPassable
    BY DEF ClaimsPassable
  <2>3. AtMostOne(Claims!CddIds({c})) /\ (Claims!CddIds({c}) # {} => c.kind = "cdd")
    BY <2>2, ClaimsIds DEF AtMostOne
  <2>4. ClaimsAgree(mine, chain.theirs)
    BY <1>0, <2>1, <2>2, <2>3, ClaimsAdded
  <2> HIDE DEF mine
  <2> QED BY <1>14, <1>17, <2>1, <2>4
<1>19. ASSUME NEW c \in chain.mine, Claims!OthersRevoke(c) PROVE ClaimsInv'
  <2> DEFINE mine == Claims!Without({c})
  <2>1. Claims!Happens([chain EXCEPT !.mine = mine])
    BY <1>19 DEF Claims!OthersRevoke
  <2>2. ClaimsAgree(mine, chain.theirs)
    BY <1>0, ClaimsFewer
  <2> HIDE DEF mine
  <2> QED BY <1>14, <1>17, <2>1, <2>2
<1>20. ASSUME NEW theirs, ClaimsAgree(chain.mine, theirs), Claims!Happens([chain EXCEPT !.theirs = theirs]) PROVE ClaimsInv'
  <2>1. ClaimsOf([chain EXCEPT !.theirs = theirs])
    BY <1>0, <1>13, <1>20 DEF ClaimsTyped, ClaimsOf, ClaimsAgree
  <2> QED BY <1>17, <1>20, <2>1
<1>21. ASSUME NEW id \in DiligenceIds, Claims!OthersCdd(id) PROVE ClaimsInv'
  <2>0. ClaimsAgree(chain.mine, chain.theirs)
    BY <1>0 DEF ClaimsTyped, ClaimsOf
  <2>1. CASE Claims!Happens([chain EXCEPT !.theirs = @ \ {id}])
    <3> DEFINE theirs == chain.theirs \ {id}
    <3>1. Claims!Happens([chain EXCEPT !.theirs = theirs])
      BY <2>1
    <3>2. ClaimsAgree(chain.mine, theirs)
      BY <2>0 DEF ClaimsAgree, AtMostOne
    <3> HIDE DEF theirs
    <3> QED BY <1>20, <3>1, <3>2
  <2>2. CASE Claims!AcceptsClaims({Claims!Cdd(id)}) /\ Claims!Happens([chain EXCEPT !.theirs = @ \cup {id}])
    <3> DEFINE theirs == chain.theirs \cup {id}
               one == {Claims!Cdd(id)}
               all == (Claims!CddIds(one \cup chain.mine) \cup chain.theirs) \ {Default}
    <3>1. Claims!Happens([chain EXCEPT !.theirs = theirs])
      BY <2>2
    <3>2. one \in SUBSET ClaimsPassable /\ chain.mine \in SUBSET ClaimsPassable
      BY <1>13 DEF ClaimsPassable, Claims!Claims
    <3>3. id \in Claims!CddIds(one) /\ Claims!CddIds(one \cup chain.mine) = Claims!CddIds(one) \cup Claims!CddIds(chain.mine)
      BY <3>2, ClaimsBoth DEF Claims!CddIds, Claims!Cdd
    <3>4. Claims!CddIds(one) \subseteq DiligenceIds /\ Claims!CddIds(chain.mine) \subseteq DiligenceIds
      BY <3>2, ClaimsIds
    <3>5. all \in SUBSET DiligenceIds
      BY <1>13, <3>3, <3>4
    <3>6. AtMostOne(all)
      BY <2>2, <3>5, ClaimsFew DEF Claims!AcceptsClaims
    <3>7. ClaimsAgree(chain.mine, theirs)
      BY <2>0, <3>3, <3>6 DEF ClaimsAgree, AtMostOne
    <3> HIDE DEF theirs
    <3> QED BY <1>20, <3>1, <3>7
  <2> QED BY <1>21, <2>1, <2>2 DEF Claims!OthersCdd
<1>22. CASE Claims!OthersTrade
  <2>1. Claims!Happens([chain EXCEPT !.balance = ~@])
    BY <1>22 DEF Claims!OthersTrade
  <2>2. ClaimsOf([chain EXCEPT !.balance = ~@])
    BY <1>0, <1>13 DEF ClaimsTyped, ClaimsOf
  <2> QED BY <1>17, <2>1, <2>2
<1>23. CASE Claims!Outage
  <2>1. Claims!Happens([chain EXCEPT !.up = ~@])
    BY <1>23 DEF Claims!Outage
  <2>2. ClaimsOf([chain EXCEPT !.up = ~@])
    BY <1>0, <1>13 DEF ClaimsTyped, ClaimsOf
  <2> QED BY <1>17, <2>1, <2>2
<1>24. CASE Claims!Sync
  <2> DEFINE mirror == Claims!Known(chain)
  <2>1. Claims!Happens([chain EXCEPT !.mirror = mirror])
    BY <1>24 DEF Claims!Sync
  <2>2. /\ mirror \in [mine : SUBSET Claims!Claims, theirs : SUBSET DiligenceIds]
        /\ mirror.mine = chain.mine /\ mirror.theirs = chain.theirs
    BY <1>13 DEF Claims!Known
  <2> HIDE DEF mirror
  <2>3. ClaimsOf([chain EXCEPT !.mirror = mirror])
    BY <1>0, <1>13, <2>2 DEF ClaimsTyped, ClaimsOf
  <2> QED BY <1>17, <2>1, <2>3
<1> QED
  BY <1>5, <1>6, <1>7, <1>8, <1>9, <1>10, <1>11, <1>12, <1>13, <1>14, <1>15, <1>16, <1>17, <1>18, <1>19,
     <1>20, <1>21, <1>22, <1>23, <1>24
     DEF Claims!Next

LEMMA ClaimsStutter == ClaimsInv /\ UNCHANGED <<chain, call>> => ClaimsInv'
BY DEF ClaimsInv, ClaimsTyped, ClaimsOf, ClaimsAdd, Of, Fresh, Claims!Synced, Claims!Known, ClaimsFits, ClaimsOurs,
       ClaimsEdit, ClaimsRevoke, ClaimsCall, Idle

(* Whether the chain accepts the ids of claims.                            *)
LEMMA ClaimsAccepts ==
  ASSUME ClaimsTyped, NEW claims \in SUBSET ClaimsPassable
  PROVE  /\ Claims!AcceptsClaims(claims) <=>
              Claims!Unique \notin claims /\ AtMostOne((Claims!CddIds(claims) \cup ClaimsOurs) \ {Default})
         /\ ClaimsOurs \subseteq DiligenceIds /\ AtMostOne(ClaimsOurs \ {Default})
<1> DEFINE all == (Claims!CddIds(claims \cup chain.mine) \cup chain.theirs) \ {Default}
<1>1. chain.mine \in SUBSET ClaimsPassable /\ chain.theirs \in SUBSET DiligenceIds /\ AtMostOne(ClaimsOurs \ {Default})
  BY DEF ClaimsTyped, ClaimsOf, ClaimsAgree, ClaimsOurs, ClaimsPassable
<1>2. Claims!CddIds(claims \cup chain.mine) = Claims!CddIds(claims) \cup Claims!CddIds(chain.mine)
  BY <1>1, ClaimsBoth
<1>3. Claims!CddIds(claims) \subseteq DiligenceIds /\ Claims!CddIds(chain.mine) \subseteq DiligenceIds
  BY <1>1, ClaimsIds
<1>4. all \in SUBSET DiligenceIds /\ all = (Claims!CddIds(claims) \cup ClaimsOurs) \ {Default}
  BY <1>1, <1>2, <1>3 DEF ClaimsOurs
<1>5. Claims!Cardinality(all) <= 1 <=> AtMostOne(all)
  BY <1>4, ClaimsFew
<1> QED BY <1>1, <1>3, <1>4, <1>5 DEF Claims!AcceptsClaims, ClaimsOurs

LEMMA ClaimsOK == ClaimsInv => Claims!TypeOK /\ Claims!RevertedOnlyIfStale
<1> SUFFICES ASSUME ClaimsInv PROVE Claims!TypeOK /\ Claims!RevertedOnlyIfStale
  OBVIOUS
<1>0. ClaimsTyped /\ ClaimsCall
  BY DEF ClaimsInv
<1>1. Claims!TypeOK
  <2>1. ASSUME NEW mine, NEW theirs, ClaimsAgree(mine, theirs)
        PROVE  /\ mine \subseteq Claims!Claims /\ Claims!Cardinality(Claims!CddIds(mine)) <= 1 /\ theirs \subseteq DiligenceIds
               /\ Claims!Cardinality((Claims!CddIds(mine) \cup theirs) \ {Default}) <= 1
    <3>1. mine \in SUBSET ClaimsPassable
      BY <2>1 DEF ClaimsAgree, ClaimsPassable
    <3>2. Claims!CddIds(mine) \in SUBSET DiligenceIds /\ (Claims!CddIds(mine) \cup theirs) \ {Default} \in SUBSET DiligenceIds
      BY <2>1, <3>1, ClaimsIds DEF ClaimsAgree
    <3> QED BY <2>1, <3>2, ClaimsFew DEF ClaimsAgree
  <2>2. Claims!Known(chain).mine = chain.mine /\ Claims!Known(chain).theirs = chain.theirs
    BY DEF Claims!Known
  <2>3. ASSUME NEW c \in {Claims!Known(chain), chain.mirror} PROVE ClaimsAgree(c.mine, c.theirs)
    BY <1>0, <2>2, <2>3 DEF ClaimsTyped, ClaimsOf
  <2>4. {chain.balance, chain.up} \subseteq BOOLEAN
    BY <1>0 DEF ClaimsTyped, ClaimsOf
  <2>5. call.op \in {"none", "add", "edit", "revoke"} /\ call.left \subseteq {"dids", "up", "mirror", "balances", "heartbeat", "issued"}
    BY <1>0 DEF ClaimsCall, ClaimsAdd, ClaimsEdit, ClaimsRevoke, Of, Idle
  <2> QED BY <2>1, <2>3, <2>4, <2>5 DEF Claims!TypeOK
<1>2. ASSUME Claims!Built, Claims!Fresh PROVE ClaimsExcused
  <2> USE DEF Claims!Built, Claims!Fresh, Fresh
  <2> DEFINE claims == call.args.claims
  <2>1. CASE ClaimsAdd
    <3>1. /\ call.op = "add" /\ claims \in PassedClaims
          /\ Claims!Synced /\ "cdd" \in Claims!Kinds(claims) => ClaimsFits
      BY <1>2, <2>1 DEF ClaimsAdd, Of
    <3>2. claims \in SUBSET ClaimsPassable /\ AtMostOne(Claims!CddIds(claims))
      BY <3>1, ClaimsPassed
    <3>3. SUFFICES ASSUME Claims!Synced, Claims!Unique \notin claims, Default \notin ClaimsOurs PROVE Claims!AcceptsClaims(claims)
      BY <3>1 DEF ClaimsExcused, Claims!Accepted, ClaimsOurs
    <3>4. "cdd" \in Claims!Kinds(claims) <=> Claims!CddIds(claims) # {}
      BY <3>2, ClaimsIds
    <3>5. AtMostOne(ClaimsOurs \ {Default})
      BY <1>0, <3>2, ClaimsAccepts
    <3>6. CASE Claims!CddIds(claims) = {}
      BY <1>0, <3>2, <3>3, <3>5, <3>6, ClaimsAccepts
    <3>7. CASE Claims!CddIds(claims) # {}
      <4>1. ClaimsFits
        BY <3>1, <3>3, <3>4, <3>7
      <4>2. AtMostOne((Claims!CddIds(claims) \cup ClaimsOurs) \ {Default})
        BY <3>2, <3>3, <3>5, <4>1 DEF AtMostOne, ClaimsFits, Claims!Clash
      <4> QED BY <1>0, <3>2, <3>3, <4>2, ClaimsAccepts
    <3> QED BY <3>6, <3>7
  <2>2. CASE ClaimsEdit
    <3>1. call.op = "edit" /\ claims \in PassedClaims
      BY <2>2 DEF ClaimsEdit, Of
    <3>2. claims \in SUBSET ClaimsPassable
      BY <3>1, ClaimsPassed
    <3>3. SUFFICES ASSUME Claims!Unique \notin claims, "cdd" \notin Claims!Kinds(claims) PROVE Claims!AcceptsClaims(claims)
      BY <3>1 DEF ClaimsExcused, Claims!Accepted
    <3>4. Claims!CddIds(claims) = {}
      BY <3>2, <3>3, ClaimsIds
    <3> QED BY <1>0, <3>2, <3>3, <3>4, ClaimsAccepts
  <2>3. CASE ClaimsRevoke
    <3>1. /\ call.op = "revoke" /\ (chain.balance => Claims!Unique \notin claims)
          /\ chain.up => Claims!Issued(claims, chain.mirror.mine)
      BY <1>2, <2>3 DEF ClaimsRevoke, Of
    <3>2. Claims!Synced => chain.mirror.mine = chain.mine
      BY DEF Claims!Synced, Claims!Known
    <3> QED BY <3>1, <3>2 DEF ClaimsExcused, Claims!Accepted, Claims!AcceptsRevoke, Claims!Issued
  <2> QED BY <1>0, <1>2, <2>1, <2>2, <2>3 DEF ClaimsCall, Idle
<1> QED BY <1>1, <1>2 DEF Claims!RevertedOnlyIfStale, ClaimsExcused

LEMMA ClaimsRefused == ClaimsInv /\ Claims!Next => Claims!TurnedAwayRightly
<1> SUFFICES ASSUME ClaimsInv, Claims!Next, Claims!TurnedAway, Claims!Fresh
             PROVE  ClaimsBarred
  BY DEF Claims!TurnedAwayRightly, ClaimsBarred
<1> USE DEF Claims!Answers, Claims!Check, Claims!Keep, ClaimsBarred
<1>0. ClaimsCall /\ ClaimsTyped /\ ~Claims!Built /\ call.op # "none" /\ call'.op = "none"
  BY DEF ClaimsInv, Claims!TurnedAway, Claims!Ends
<1> USE DEF Claims!Refuse, Claims!Idle, Idle
<1>1. DOMAIN call = {"op", "args", "read", "left", "stale"} /\ Fresh
  BY <1>0 DEF ClaimsCall, ClaimsAdd, ClaimsEdit, ClaimsRevoke, Of, Claims!Fresh, Fresh
<1>2. Claims!Synced => chain.mirror.mine = chain.mine
  BY DEF Claims!Synced, Claims!Known
<1>3. CASE Claims!ReadDids
  BY <1>0, <1>1, <1>3 DEF Claims!ReadDids
<1>4. CASE Claims!ReadUp
  BY <1>0, <1>1, <1>4 DEF Claims!ReadUp
<1>5. CASE Claims!ReadMirror
  <2>1. "mirror" \in call.left /\ ~(chain.up /\ Claims!Issued(call.args.claims, chain.mirror.mine))
    BY <1>0, <1>1, <1>5 DEF Claims!ReadMirror
  <2>2. CASE ClaimsEdit
    BY <1>1, <1>2, <2>1, <2>2 DEF ClaimsEdit, Of
  <2>3. CASE ClaimsRevoke
    BY <1>1, <1>2, <2>1, <2>3 DEF ClaimsRevoke, Of, Claims!Accepted, Claims!AcceptsRevoke, Claims!Issued
  <2> QED BY <1>0, <2>1, <2>2, <2>3 DEF ClaimsCall, ClaimsAdd, Of
<1>6. CASE Claims!ReadBalances
  BY <1>0, <1>1, <1>6 DEF Claims!ReadBalances, Claims!Accepted, Claims!AcceptsRevoke
<1>7. CASE Claims!ReadHeartbeat
  BY <1>0, <1>1, <1>7 DEF Claims!ReadHeartbeat
<1>8. CASE Claims!ReadIssued
  <2> DEFINE claims == call.args.claims
             known == IF call.read.up THEN chain.mirror ELSE chain
             ids == Claims!CddIds(known.mine) \cup known.theirs
  <2>1. ClaimsAdd /\ "issued" \in call.left
    BY <1>0, <1>8, ClaimsStages DEF Claims!ReadIssued
  <2>2. ~(call.read.up /\ ~chain.up) /\ call.op = "add" /\ claims \in PassedClaims
    BY <1>1, <2>1 DEF ClaimsAdd, Of
  <2>3. \E first \in ids : \E id \in Claims!CddIds(claims) : Claims!Clash(id, first)
    BY <1>0, <1>1, <1>8, <2>2 DEF Claims!ReadIssued
  <2>4. Claims!Synced => ids = ClaimsOurs
    BY DEF Claims!Synced, Claims!Known, ClaimsOurs
  <2> HIDE DEF ids
  <2>5. Claims!Synced => ~AtMostOne((Claims!CddIds(claims) \cup ClaimsOurs) \ {Default})
    BY <2>3, <2>4 DEF AtMostOne, Claims!Clash
  <2>6. claims \in SUBSET ClaimsPassable
    BY <2>2, ClaimsPassed
  <2>7. Claims!Synced => ~Claims!AcceptsClaims(claims)
    BY <1>0, <2>5, <2>6, ClaimsAccepts
  <2> QED BY <2>2, <2>7 DEF Claims!Accepted
<1>9. ASSUME NEW after, Claims!Happens(after) PROVE FALSE
  BY <1>0, <1>9, ClaimsStages DEF Claims!Happens
<1> QED
  BY <1>0, <1>1, <1>2, <1>3, <1>4, <1>5, <1>6, <1>7, <1>8, <1>9
     DEF Claims!Next, Claims!Calls, Claims!Dispatches, Claims!Modify, Claims!DispatchClaims,
         Claims!DispatchRevoke, Claims!OthersClaim, Claims!OthersRevoke, Claims!OthersCdd,
         Claims!OthersTrade, Claims!Outage, Claims!Sync

LEMMA ClaimsDone == ClaimsInv /\ Claims!Next => Claims!DoneAsAsked
<1> SUFFICES ASSUME ClaimsInv, Claims!Next, Claims!Built, Claims!Ends, Claims!Fresh, call.op = "edit", chain.up, Claims!Synced PROVE Claims!DoneAsAsked
  BY DEF Claims!DoneAsAsked
<1> DEFINE claims == call.args.claims
           mine == Claims!Without(claims) \cup claims
<1>1. ClaimsEdit
  BY ClaimsStages DEF ClaimsInv
<1>2. Claims!Issued(claims, chain.mine)
  BY <1>1 DEF ClaimsEdit, Claims!Built, Claims!Fresh, Fresh, Claims!Synced, Claims!Known
<1>3. Claims!Kinds(mine) = Claims!Kinds(chain.mine)
  BY <1>2 DEF Claims!Kinds, Claims!Without, Claims!Issued, Claims!Same
<1>4. DOMAIN chain = {"mine", "theirs", "balance", "up", "mirror"}
  BY DEF ClaimsInv, ClaimsTyped, ClaimsOf
<1>5. call.op # "none" /\ call.left = {} /\ call'.op = "none" /\ DOMAIN call = {"op", "args", "read", "left", "stale"}
  BY <1>1 DEF Claims!Built, Claims!Ends, ClaimsEdit, Of
<1>6. CASE Claims!DispatchClaims
  <2>1. chain' = chain \/ chain' = [chain EXCEPT !.mine = mine]
    BY <1>6 DEF Claims!DispatchClaims, Claims!Dispatches
  <2>2. chain'.mine = chain.mine \/ chain'.mine = mine
    BY <1>4, <2>1
  <2> HIDE DEF mine
  <2> QED BY <1>3, <2>2 DEF Claims!DoneAsAsked
<1>7. ASSUME NEW after, Claims!Happens(after) PROVE FALSE
  BY <1>5, <1>7 DEF Claims!Happens
<1>8. call.left = {} /\ call.op = "edit"
  BY <1>5
<1> QED
  BY <1>5, <1>6, <1>7, <1>8
     DEF Claims!Next, Claims!Modify, Claims!Calls, Claims!ReadDids, Claims!ReadUp, Claims!ReadMirror, Claims!ReadBalances, Claims!ReadHeartbeat, Claims!ReadIssued,
         Claims!Answers, Claims!DispatchRevoke, Claims!OthersClaim, Claims!OthersRevoke, Claims!OthersCdd, Claims!OthersTrade, Claims!Outage, Claims!Sync

-----------------------------------------------------------------------------
(* Lists that are cut into pages *)

(* The elements of L in an order: front tells which are in front of each.  *)
Ordering(L, front) ==
  /\ front \in [L -> SUBSET L]
  /\ \A k \in L : k \notin front[k]
  /\ \A j, k \in L : j \in front[k] => front[j] \subseteq front[k]
  /\ \A j, k \in L : j # k => j \in front[k] \/ k \in front[j]
Rank(front, k) == Cardinality(front[k])

(* The page of n elements from the place s on.                             *)
PageOf(L, front, s, n) == {k \in L : Rank(front, k) \in s .. s + n - 1}

(* Each element has a place of its own, after those of the ones in front.  *)
LEMMA RanksApart ==
  ASSUME NEW L, IsFiniteSet(L), NEW front, Ordering(L, front)
  PROVE  /\ \A k \in L : /\ IsFiniteSet(front[k])
                         /\ Rank(front, k) \in Nat /\ Rank(front, k) < Cardinality(L)
         /\ \A j, k \in L : j \in front[k] => Rank(front, j) < Rank(front, k)
         /\ \A j, k \in L : Rank(front, j) < Rank(front, k) => j \in front[k]
         /\ \A j, k \in L : Rank(front, j) = Rank(front, k) => j = k
<1>0. Cardinality(L) \in Nat
  BY FS_CardinalityType
<1>1. ASSUME NEW T \in SUBSET L, NEW S \in SUBSET T, S # T
      PROVE  IsFiniteSet(S) /\ Cardinality(S) \in Nat /\ Cardinality(S) < Cardinality(T)
  <2>1. IsFiniteSet(T)
    BY FS_Subset
  <2>2. IsFiniteSet(S) /\ Cardinality(S) <= Cardinality(T) /\ Cardinality(S) # Cardinality(T)
    BY <1>1, <2>1, FS_Subset, Zenon
  <2>3. Cardinality(S) \in Nat /\ Cardinality(T) \in Nat
    BY <2>1, <2>2, FS_CardinalityType
  <2> QED BY <2>2, <2>3
<1>2. ASSUME NEW k \in L
      PROVE  IsFiniteSet(front[k]) /\ Rank(front, k) \in Nat /\ Rank(front, k) < Cardinality(L)
  <2>1. front[k] \in SUBSET L /\ front[k] # L /\ L \in SUBSET L
    BY DEF Ordering
  <2> QED BY <1>1, <2>1 DEF Rank
<1>3. ASSUME NEW j \in L, NEW k \in L, j \in front[k] PROVE Rank(front, j) < Rank(front, k)
  <2>1. front[k] \in SUBSET L /\ front[j] \in SUBSET front[k] /\ front[j] # front[k]
    BY <1>3 DEF Ordering
  <2> QED BY <1>1, <2>1 DEF Rank
<1>4. ASSUME NEW j \in L, NEW k \in L, j # k, j \notin front[k] PROVE Rank(front, k) < Rank(front, j)
  BY <1>3, <1>4 DEF Ordering
<1>5. ASSUME NEW j \in L, NEW k \in L, Rank(front, j) < Rank(front, k) PROVE j \in front[k]
  BY <1>2, <1>4, <1>5
<1>6. ASSUME NEW j \in L, NEW k \in L, Rank(front, j) = Rank(front, k) PROVE j = k
  <2>1. Rank(front, j) \in Nat /\ Rank(front, k) \in Nat
    BY <1>2
  <2>2. SUFFICES ASSUME j # k PROVE FALSE
    OBVIOUS
  <2>3. j \in front[k]
    BY <1>4, <1>6, <2>1, <2>2
  <2> QED BY <1>3, <1>6, <2>1, <2>3
<1> QED BY <1>2, <1>3, <1>5, <1>6

(* There are no more elements than places.                                 *)
LEMMA PageIsSmall ==
  ASSUME NEW L, IsFiniteSet(L), NEW front, Ordering(L, front), NEW s \in Nat, NEW n \in Nat
  PROVE  /\ IsFiniteSet(PageOf(L, front, s, n))
         /\ Cardinality(PageOf(L, front, s, n)) \in Nat /\ Cardinality(PageOf(L, front, s, n)) <= n
<1> DEFINE P == PageOf(L, front, s, n)
           T == s .. s + n - 1
           f == [k \in P |-> Rank(front, k)]
<1>1. \A j, k \in P : Rank(front, j) = Rank(front, k) => j = k
  BY RanksApart DEF PageOf
<1>2. \A k \in P : Rank(front, k) \in T
  BY DEF PageOf
<1>3. IsFiniteSet(T) /\ Cardinality(T) = n
  <2> DEFINE e == s + n - 1
  <2>1. s \in Int /\ e \in Int
    OBVIOUS
  <2> HIDE DEF e
  <2>2. IsFiniteSet(s .. e) /\ Cardinality(s .. e) = IF s > e THEN 0 ELSE e - s + 1
    BY <2>1, FS_Interval, Zenon
  <2> QED BY <2>2 DEF e
<1> HIDE DEF P, T
<1>4. f \in Injection(P, T)
  BY <1>1, <1>2 DEF Injection, IsInjective
<1>5. IsFiniteSet(P) /\ Cardinality(P) <= Cardinality(T)
  BY <1>3, <1>4, FS_Injection, Zenon
<1>6. Cardinality(P) \in Nat
  BY <1>5, FS_CardinalityType
<1> QED BY <1>3, <1>5, <1>6 DEF P

(* Of those in front of an element no more than s have a place below s.    *)
LEMMA FrontReaches ==
  ASSUME NEW L, IsFiniteSet(L), NEW front, Ordering(L, front), NEW s \in Nat, NEW k \in L
  PROVE  LET T == {j \in front[k] : s <= Rank(front, j)}
         IN  IsFiniteSet(T) /\ Cardinality(T) \in Nat /\ Rank(front, k) <= s + Cardinality(T)
<1> DEFINE T == {j \in front[k] : s <= Rank(front, j)}
           B == {j \in front[k] : Rank(front, j) < s}
<1>1. IsFiniteSet(front[k]) /\ front[k] \subseteq L /\ \A j \in L : Rank(front, j) \in Nat
  BY RanksApart DEF Ordering
<1>2. T \in SUBSET front[k] /\ B \in SUBSET front[k] /\ T \cup B = front[k] /\ T \cap B = {}
  BY <1>1
<1>3. B \in SUBSET PageOf(L, front, 0, s)
  BY <1>1 DEF PageOf
<1> HIDE DEF T, B
<1>4. IsFiniteSet(T) /\ IsFiniteSet(B)
  BY <1>1, <1>2, FS_Subset, Zenon
<1>5. Cardinality(T) \in Nat /\ Cardinality(B) \in Nat
  BY <1>4, FS_CardinalityType
<1>6. Cardinality(B) <= s
  <2>1. 0 \in Nat
    OBVIOUS
  <2>2. /\ IsFiniteSet(PageOf(L, front, 0, s)) /\ Cardinality(PageOf(L, front, 0, s)) \in Nat
        /\ Cardinality(PageOf(L, front, 0, s)) <= s
    BY <2>1, PageIsSmall, Zenon
  <2>3. Cardinality(B) <= Cardinality(PageOf(L, front, 0, s))
    BY <1>3, <2>2, FS_Subset, Zenon
  <2> QED BY <1>5, <2>2, <2>3
<1>7. Cardinality(front[k]) = Cardinality(T) + Cardinality(B)
  <2>1. Cardinality(T \cup B) = Cardinality(T) + Cardinality(B) - Cardinality({})
    BY <1>2, <1>4, FS_Union
  <2>2. Cardinality({}) = 0
    BY FS_EmptySet
  <2>3. Cardinality(front[k]) = Cardinality(T \cup B)
    BY <1>2
  <2> QED BY <1>5, <2>1, <2>2, <2>3
<1> QED BY <1>4, <1>5, <1>6, <1>7 DEF Rank, T

(* A page has the elements from its first place on without a gap, and as   *)
(* many as asked for unless the list ends.                                 *)
LEMMA PageIsFilled ==
  ASSUME NEW L, IsFiniteSet(L), NEW front, Ordering(L, front), NEW s \in Nat, NEW n \in Nat \ {0}
  PROVE  LET P == PageOf(L, front, s, n)
         IN  /\ \A k \in P : Rank(front, k) < s + Cardinality(P)
             /\ Cardinality(L) > s => P # {}
             /\ \A k \in L : Rank(front, k) >= s + n => Cardinality(P) = n
<1> DEFINE P == PageOf(L, front, s, n)
           Top(k) == {j \in front[k] : s <= Rank(front, j)}
<1>1. IsFiniteSet(P) /\ Cardinality(P) \in Nat /\ Cardinality(P) <= n
  BY PageIsSmall
<1>2. \A k \in L : Rank(front, k) \in Nat /\ front[k] \subseteq L /\ \A j \in front[k] : Rank(front, j) < Rank(front, k)
  BY RanksApart DEF Ordering
<1>3. ASSUME NEW k \in L
      PROVE  IsFiniteSet(Top(k)) /\ Cardinality(Top(k)) \in Nat /\ Rank(front, k) <= s + Cardinality(Top(k))
  BY FrontReaches
<1>4. \A T \in SUBSET P : IsFiniteSet(T) /\ Cardinality(T) <= Cardinality(P)
  BY <1>1, FS_Subset
<1>5. \A R \in SUBSET L : R # {} => \E k \in R : \A j \in R : Rank(front, k) <= Rank(front, j)
  <2> SUFFICES ASSUME NEW R \in SUBSET L, R # {} PROVE \E k \in R : \A j \in R : Rank(front, k) <= Rank(front, j)
    OBVIOUS
  <2> DEFINE ranks == {Rank(front, k) : k \in R}
  <2>1. ranks \in SUBSET Nat /\ ranks # {}
    BY <1>2
  <2> HIDE DEF ranks
  <2>2. PICK x \in ranks : \A y \in ranks : x <= y
    BY <2>1, NatSmallest
  <2> QED BY <2>2 DEF ranks
<1>6. ASSUME NEW k \in P PROVE Rank(front, k) < s + Cardinality(P)
  <2>1. k \in L /\ s <= Rank(front, k) /\ Rank(front, k) <= s + n - 1
    BY DEF PageOf
  <2>2. Top(k) \cup {k} \in SUBSET P
    BY <1>2, <2>1 DEF PageOf
  <2>3. k \notin Top(k)
    BY <2>1 DEF Ordering
  <2>4. IsFiniteSet(Top(k)) /\ Cardinality(Top(k)) \in Nat /\ Rank(front, k) <= s + Cardinality(Top(k))
    BY <1>3, <2>1
  <2> HIDE DEF Top, P
  <2>5. Cardinality(Top(k) \cup {k}) = Cardinality(Top(k)) + 1
    BY <2>3, <2>4, FS_AddElement
  <2>6. Cardinality(Top(k) \cup {k}) <= Cardinality(P)
    BY <1>4, <2>2
  <2> QED BY <1>1, <1>2, <2>1, <2>4, <2>5, <2>6
<1>7. ASSUME Cardinality(L) > s PROVE P # {}
  <2> DEFINE R == {k \in L : s <= Rank(front, k)}
  <2>1. R # {}
    <3>1. SUFFICES ASSUME R = {} PROVE FALSE
      OBVIOUS
    <3>2. L \in SUBSET PageOf(L, front, 0, s)
      BY <1>2, <3>1 DEF PageOf
    <3>3. 0 \in Nat
      OBVIOUS
    <3>4. /\ IsFiniteSet(PageOf(L, front, 0, s)) /\ Cardinality(PageOf(L, front, 0, s)) \in Nat
          /\ Cardinality(PageOf(L, front, 0, s)) <= s
      BY <3>3, PageIsSmall, Zenon
    <3>5. Cardinality(L) <= Cardinality(PageOf(L, front, 0, s)) /\ Cardinality(L) \in Nat
      BY <3>2, <3>4, FS_Subset, FS_CardinalityType, Zenon
    <3> QED BY <1>7, <3>4, <3>5
  <2>2. PICK k \in R : \A j \in R : Rank(front, k) <= Rank(front, j)
    BY <1>5, <2>1
  <2>3. k \in L /\ s <= Rank(front, k)
    BY <2>2
  <2>4. Top(k) = {}
    <3>1. \A j \in front[k] : j \in L /\ Rank(front, j) \in Nat /\ Rank(front, k) \in Nat /\ Rank(front, j) < Rank(front, k)
      BY <1>2, <2>3
    <3> QED BY <2>2, <3>1
  <2> HIDE DEF Top
  <2>5. Rank(front, k) <= s
    BY <1>3, <2>3, <2>4, FS_EmptySet
  <2>6. k \in P
    BY <1>2, <2>3, <2>5 DEF PageOf
  <2> QED BY <2>6
<1>8. ASSUME NEW l \in L, Rank(front, l) >= s + n PROVE Cardinality(P) = n
  <2> DEFINE R == {k \in L : s + n <= Rank(front, k)}
  <2>1. l \in R
    BY <1>2, <1>8
  <2>2. PICK k \in R : \A j \in R : Rank(front, k) <= Rank(front, j)
    BY <1>5, <2>1
  <2>3. k \in L /\ s + n <= Rank(front, k)
    BY <2>2
  <2>4. Top(k) \in SUBSET P
    <3>1. \A j \in front[k] : j \in L /\ Rank(front, j) \in Nat /\ Rank(front, k) \in Nat /\ Rank(front, j) < Rank(front, k)
      BY <1>2, <2>3
    <3>2. \A j \in front[k] : Rank(front, j) < s + n
      BY <2>2, <3>1
    <3> QED BY <3>1, <3>2 DEF PageOf
  <2>5. Cardinality(Top(k)) \in Nat /\ Rank(front, k) <= s + Cardinality(Top(k)) /\ Rank(front, k) \in Nat
    BY <1>2, <1>3, <2>3
  <2>6. Cardinality(Top(k)) <= Cardinality(P)
    BY <1>4, <2>4
  <2> HIDE DEF Top, P
  <2> QED BY <1>1, <2>3, <2>5, <2>6
<1> QED BY <1>6, <1>7, <1>8

-----------------------------------------------------------------------------
(* Paging *)
LEMMA PagingSizes == \A set : Paging!Cardinality(set) = Cardinality(set)
BY DEF Cardinality, Paging!Cardinality

LEMMA PagingInit == Paging!Init => PagingInv
BY DEF Paging!Init, PagingInv, PagingTyped, PagingCall, Paging!Idle, Idle, Paging!NoArgs, NoArgs

(* A list of entries is in the order of their keys, or in the other one.   *)
LEMMA PagingOrdered ==
  ASSUME NEW L \in SUBSET PageEntries
  PROVE  LET front == [k \in L |-> Paging!Ahead(k, L)]
         IN  IsFiniteSet(L) /\ Ordering(L, front) /\ \A k \in L : Rank(front, k) = PagingPlace(k, L)
<1> DEFINE front == [k \in L |-> Paging!Ahead(k, L)]
<1>1. \A k \in L : front[k] = {j \in L : IF call.op = "newest" THEN j > k ELSE j < k} /\ front[k] = Paging!Ahead(k, L)
  BY DEF Paging!Ahead
<1>2. front \in [L -> SUBSET L]
  BY DEF Paging!Ahead
<1>3. L \subseteq Nat
  BY PagingAssumption
<1>4. IsFiniteSet(L)
  BY PagingAssumption, FS_Subset
<1> HIDE DEF front
<1>5. Ordering(L, front)
  <2>1. CASE call.op = "newest"
    <3>1. \A j, k \in L : j \in front[k] <=> j > k
      BY <1>1, <2>1
    <3>2. \A k \in L : k \in Nat
      BY <1>3
    <3>3. \A k \in L : k \notin front[k]
      BY <3>1, <3>2
    <3>4. \A j, k \in L : j # k => j \in front[k] \/ k \in front[j]
      BY <3>1, <3>2
    <3>5. ASSUME NEW j \in L, NEW k \in L, j \in front[k], NEW i \in front[j] PROVE i \in front[k]
      <4>1. i \in L
        BY <1>2
      <4>2. i \in Nat /\ j \in Nat /\ k \in Nat /\ i > j /\ j > k
        BY <3>1, <3>2, <3>5, <4>1
      <4>3. i > k
        BY <4>2
      <4> QED BY <3>1, <4>1, <4>3
    <3> QED BY <1>2, <3>3, <3>4, <3>5 DEF Ordering
  <2>2. CASE call.op # "newest"
    <3>1. \A j, k \in L : j \in front[k] <=> j < k
      BY <1>1, <2>2
    <3>2. \A k \in L : k \in Nat
      BY <1>3
    <3>3. \A k \in L : k \notin front[k]
      BY <3>1, <3>2
    <3>4. \A j, k \in L : j # k => j \in front[k] \/ k \in front[j]
      BY <3>1, <3>2
    <3>5. ASSUME NEW j \in L, NEW k \in L, j \in front[k], NEW i \in front[j] PROVE i \in front[k]
      <4>1. i \in L
        BY <1>2
      <4>2. i \in Nat /\ j \in Nat /\ k \in Nat /\ i < j /\ j < k
        BY <3>1, <3>2, <3>5, <4>1
      <4>3. i < k
        BY <4>2
      <4> QED BY <3>1, <4>1, <4>3
    <3> QED BY <1>2, <3>3, <3>4, <3>5 DEF Ordering
  <2> QED BY <2>1, <2>2
<1> QED BY <1>1, <1>4, <1>5 DEF Rank, PagingPlace, front

(* The part of a list that starts at the offset.                           *)
LEMMA PagingSlices ==
  ASSUME NEW L \in SUBSET PageEntries, Paging!Start \in Nat, call.args.size \in Sizes
  PROVE  /\ Paging!Slice(L) \subseteq L /\ IsFiniteSet(Paging!Slice(L))
         /\ Cardinality(Paging!Slice(L)) \in Nat /\ Cardinality(Paging!Slice(L)) <= call.args.size
         /\ call.args.size \in Nat /\ Cardinality(L) \in Nat
         /\ Cardinality(L) > Paging!Start => Paging!Slice(L) # {}
         /\ \A k \in L :
              /\ PagingPlace(k, L) \in Nat /\ PagingPlace(k, L) < Cardinality(L)
              /\ k \in Paging!Slice(L) <=> Paging!Start <= PagingPlace(k, L) /\ PagingPlace(k, L) < Paging!Start + call.args.size
              /\ k \in Paging!Slice(L) => PagingPlace(k, L) < Paging!Start + Cardinality(Paging!Slice(L))
<1> DEFINE front == [k \in L |-> Paging!Ahead(k, L)]
           s == Paging!Start
           n == call.args.size
<1>1. IsFiniteSet(L) /\ Ordering(L, front) /\ \A k \in L : Rank(front, k) = PagingPlace(k, L)
  BY PagingOrdered
<1>2. s \in Nat /\ n \in Nat \ {0}
  BY PagingAssumption
<1>3. Paging!Slice(L) = PageOf(L, front, s, n)
  <2>1. \A k \in L : Paging!Cardinality(Paging!Ahead(k, L)) = Rank(front, k)
    BY <1>1, PagingSizes DEF PagingPlace
  <2> HIDE DEF front
  <2> QED BY <2>1 DEF Paging!Slice, PageOf
<1> HIDE DEF front, s, n
<1>4. /\ \A k \in L : Rank(front, k) \in Nat /\ Rank(front, k) < Cardinality(L)
      /\ Cardinality(L) \in Nat
  BY <1>1, RanksApart, FS_CardinalityType
<1>5. /\ IsFiniteSet(PageOf(L, front, s, n)) /\ Cardinality(PageOf(L, front, s, n)) \in Nat
      /\ Cardinality(PageOf(L, front, s, n)) <= n
  BY <1>1, <1>2, PageIsSmall
<1>6. /\ \A k \in PageOf(L, front, s, n) : Rank(front, k) < s + Cardinality(PageOf(L, front, s, n))
      /\ Cardinality(L) > s => PageOf(L, front, s, n) # {}
  BY <1>1, <1>2, PageIsFilled
<1>7. \A k \in L : k \in PageOf(L, front, s, n) <=> s <= Rank(front, k) /\ Rank(front, k) < s + n
  BY <1>2, <1>4 DEF PageOf
<1> QED BY <1>1, <1>2, <1>3, <1>4, <1>5, <1>6, <1>7 DEF s, n, PageOf

(* The entries after a key: the next page goes on after its last one.      *)
LEMMA PagingKeys ==
  ASSUME PagingTyped, Paging!Start \in Nat, call.args.size \in Sizes, call.op = "chain"
  PROVE  /\ Paging!KeyPage \subseteq Paging!AfterKey(Paging!Start)
         /\ Paging!NextKey(Paging!KeyPage) = Paging!NoNext => Paging!AfterKey(Paging!Start) \subseteq Paging!KeyPage
         /\ Paging!NextKey(Paging!KeyPage) # Paging!NoNext =>
              /\ Paging!NextKey(Paging!KeyPage) \in Nat /\ Paging!NextKey(Paging!KeyPage) > Paging!Start
              /\ \A k \in Paging!AfterKey(Paging!Start) : k \in Paging!KeyPage <=> k <= Paging!NextKey(Paging!KeyPage)
<1> DEFINE L == Paging!AfterKey(Paging!Start)
           front == [k \in L |-> Paging!Ahead(k, L)]
           n == call.args.size
           P == PageOf(L, front, 0, n)
<1>0. L \in SUBSET PageEntries /\ L \subseteq Nat /\ \A k \in L : k > Paging!Start
  BY PagingAssumption DEF Paging!AfterKey, Paging!Existing
<1>1. IsFiniteSet(L) /\ Ordering(L, front) /\ \A k \in L : Rank(front, k) = PagingPlace(k, L)
  BY <1>0, PagingOrdered
<1>2. n \in Nat \ {0} /\ 0 \in Nat
  BY PagingAssumption
<1>3. \A j, k \in L : j \in front[k] <=> j < k
  BY DEF Paging!Ahead
<1>4. Paging!KeyPage = {k \in L : Rank(front, k) < n}
  <2>1. \A k \in L : Paging!Cardinality(Paging!Ahead(k, L)) = Rank(front, k)
    BY <1>1, PagingSizes DEF PagingPlace
  <2> HIDE DEF front
  <2> QED BY <2>1 DEF Paging!KeyPage
<1> HIDE DEF front, n, L
<1>5. \A k \in L : Rank(front, k) \in Nat
  BY <1>1, RanksApart
<1>6. Paging!KeyPage = P
  BY <1>2, <1>4, <1>5 DEF PageOf
<1>7. IsFiniteSet(P) /\ Cardinality(P) \in Nat /\ Cardinality(P) <= n
  BY <1>1, <1>2, PageIsSmall
<1>8. \A k \in L : Rank(front, k) >= n => Cardinality(P) = n
  <2>1. \A k \in L : Rank(front, k) >= 0 + n => Cardinality(P) = n
    BY <1>1, <1>2, PageIsFilled
  <2> QED BY <1>2, <2>1
<1>9. Paging!Cardinality(Paging!KeyPage) = Cardinality(P)
  BY <1>6, PagingSizes
<1>10. CASE Cardinality(P) # n
  <2>1. Paging!NextKey(Paging!KeyPage) = Paging!NoNext
    BY <1>9, <1>10 DEF Paging!NextKey, n
  <2>2. L \subseteq Paging!KeyPage
    BY <1>2, <1>4, <1>5, <1>8, <1>10
  <2> QED BY <1>4, <2>1, <2>2 DEF L
<1>11. CASE Cardinality(P) = n
  <2> DEFINE below == {n - 1 - Rank(front, k) : k \in P}
  <2>1. P # {}
    BY <1>2, <1>11, FS_EmptySet
  <2>2. \A k \in P : k \in L /\ Rank(front, k) \in Nat /\ Rank(front, k) < n
    BY <1>4, <1>5, <1>6
  <2> HIDE DEF P
  <2>3. below \in SUBSET Nat /\ below # {}
    BY <1>2, <2>1, <2>2
  <2> HIDE DEF below
  <2>4. PICK x \in below : \A y \in below : x <= y
    BY <2>3, NatSmallest
  <2>5. PICK m \in P : \A k \in P : n - 1 - Rank(front, m) <= n - 1 - Rank(front, k)
    BY <2>4 DEF below
  <2>6. m \in L /\ m \in Nat
    BY <1>0, <2>2
  <2>7. ASSUME NEW k \in P PROVE k <= m
    <3>1. Rank(front, k) <= Rank(front, m)
      BY <1>2, <2>2, <2>5
    <3>2. k \in L /\ k \in Nat
      BY <1>0, <2>2
    <3>3. ~(Rank(front, m) < Rank(front, k))
      BY <1>5, <2>6, <3>1, <3>2
    <3>4. m \notin front[k]
      BY <1>1, <2>6, <3>2, <3>3, RanksApart
    <3> QED BY <1>3, <2>6, <3>2, <3>4
  <2>8. Paging!Max(P) = m
    <3>1. P \subseteq Nat
      BY <1>0, <2>2
    <3>2. \A l \in P : (\A k \in P : l >= k) <=> l = m
      BY <2>7, <3>1
    <3> QED BY <3>2 DEF Paging!Max
  <2>9. Paging!NextKey(Paging!KeyPage) = m
    BY <1>6, <1>9, <1>11, <2>8 DEF Paging!NextKey, n
  <2>10. ASSUME NEW k \in L, k <= m PROVE k \in P
    <3>1. k \in Nat /\ (k = m \/ k < m)
      BY <1>0, <2>6, <2>10
    <3>2. CASE k < m
      <4>1. k \in front[m]
        BY <1>3, <2>6, <3>2
      <4>2. Rank(front, k) < Rank(front, m)
        BY <1>1, <2>6, <4>1, RanksApart
      <4>3. Rank(front, m) < n /\ Rank(front, m) \in Nat /\ Rank(front, k) \in Nat
        BY <2>2, <1>5
      <4>4. Rank(front, k) < n
        BY <1>2, <4>2, <4>3
      <4> QED BY <1>4, <1>6, <4>4
    <3> QED BY <3>1, <3>2
  <2>11. m > Paging!Start /\ m # Paging!NoNext
    BY <1>0, <2>6 DEF Paging!NoNext
  <2>12. P \subseteq L
    BY <2>2
  <2>13. \A k \in L : k \in P <=> k <= m
    BY <2>7, <2>10
  <2> QED BY <1>6, <2>6, <2>9, <2>11, <2>12, <2>13 DEF L
<1> QED BY <1>10, <1>11

(* What a page of a list, or what was found on it, leaves for the next.    *)
LEMMA PagingOffsets ==
  ASSUME NEW L \in SUBSET PageEntries, Paging!Start \in Nat, call.args.size \in Sizes, NEW found \in SUBSET Paging!Slice(L)
  PROVE  LET next == Paging!NextOffset(Paging!Cardinality(L), Paging!Cardinality(found))
         IN  /\ next = Paging!NoNext \/ (next \in Nat /\ (found # {} => next > Paging!Start))
             /\ found = Paging!Slice(L) => next = Paging!NoNext \/ next > Paging!Start
             /\ \A k \in L :
                  /\ PagingPlace(k, L) \in Nat
                  /\ PagingPlace(k, L) < Paging!Start => k \notin Paging!Slice(L) /\ (next = Paging!NoNext \/ PagingPlace(k, L) < next)
                  /\ next = Paging!NoNext \/ PagingPlace(k, L) < next => PagingPlace(k, L) < Paging!Start \/ k \in Paging!Slice(L)
                  /\ found = Paging!Slice(L) /\ k \in found => next = Paging!NoNext \/ PagingPlace(k, L) < next
<1> DEFINE P == Paging!Slice(L)
           n == call.args.size
           s == Paging!Start
           nxt == Paging!NextOffset(Paging!Cardinality(L), Paging!Cardinality(found))
<1>1. /\ IsFiniteSet(P) /\ Cardinality(P) \in Nat /\ Cardinality(P) <= n /\ n \in Nat /\ Cardinality(L) \in Nat
      /\ Cardinality(L) > s => P # {}
      /\ \A k \in L : /\ PagingPlace(k, L) \in Nat /\ PagingPlace(k, L) < Cardinality(L)
                      /\ k \in P <=> s <= PagingPlace(k, L) /\ PagingPlace(k, L) < s + n
                      /\ k \in P => PagingPlace(k, L) < s + Cardinality(P)
  BY PagingSlices
<1>2. s \in Nat /\ found \in SUBSET P
  OBVIOUS
<1>3. nxt = IF Cardinality(L) > s + Cardinality(found) THEN s + Cardinality(found) ELSE -1
  BY PagingSizes DEF Paging!NextOffset, Paging!NoNext
<1> HIDE DEF P, n, s, nxt
<1>4. IsFiniteSet(found) /\ Cardinality(found) <= Cardinality(P)
  BY <1>1, <1>2, FS_Subset, Zenon
<1>5. Cardinality(found) \in Nat /\ (found # {} => Cardinality(found) > 0)
  <2>1. Cardinality(found) \in Nat /\ (Cardinality(found) = 0 <=> found = {})
    BY <1>4, FS_CardinalityType, FS_EmptySet
  <2> QED BY <2>1
<1>6. nxt = -1 \/ (nxt = s + Cardinality(found) /\ Cardinality(L) > s + Cardinality(found))
  BY <1>3
<1>7. nxt = -1 => Cardinality(L) <= s + Cardinality(found)
  BY <1>1, <1>2, <1>3, <1>5
<1>8. nxt = -1 \/ (nxt \in Nat /\ (found # {} => nxt > s))
  BY <1>2, <1>5, <1>6
<1>9. found = P => nxt = -1 \/ nxt > s
  <2>1. Cardinality(L) > s + Cardinality(found) => Cardinality(L) > s
    BY <1>1, <1>2, <1>5
  <2> QED BY <1>1, <1>6, <1>8, <2>1
<1>10. ASSUME NEW k \in L
       PROVE  /\ PagingPlace(k, L) \in Nat
              /\ PagingPlace(k, L) < s => k \notin P /\ (nxt = -1 \/ PagingPlace(k, L) < nxt)
              /\ nxt = -1 \/ PagingPlace(k, L) < nxt => PagingPlace(k, L) < s \/ k \in P
              /\ found = P /\ k \in found => nxt = -1 \/ PagingPlace(k, L) < nxt
  <2> DEFINE place == PagingPlace(k, L)
  <2>1. /\ place \in Nat /\ place < Cardinality(L) /\ (k \in P <=> s <= place /\ place < s + n)
        /\ k \in P => place < s + Cardinality(P)
    BY <1>1
  <2> HIDE DEF place
  <2>2. place < s => k \notin P /\ (nxt = -1 \/ place < nxt)
    BY <1>2, <1>5, <1>6, <2>1
  <2>3. nxt = -1 \/ place < nxt => place < s \/ k \in P
    BY <1>1, <1>2, <1>4, <1>5, <1>6, <1>7, <2>1
  <2>4. found = P /\ k \in found => nxt = -1 \/ place < nxt
    BY <1>2, <1>5, <1>6, <2>1
  <2> QED BY <2>1, <2>2, <2>3, <2>4 DEF place
<1> QED BY <1>8, <1>9, <1>10 DEF P, s, nxt, Paging!NoNext

LEMMA PagingStages ==
  ASSUME PagingCall
  PROVE  /\ call.op = "none" => call = Idle
         /\ call.op # "none" => PagingReading /\ call.op \in Paging!Lists
BY DEF PagingCall, PagingReading, PagingForm, Idle, Paging!Lists

(* What is told of an entry when a page is read.                           *)
LEMMA PagingMore ==
  ASSUME PagingForm, Paging!ReadPage, NEW k \in PageEntries
  PROVE  /\ call'.op = call.op /\ call'.args = call.args /\ chain' = chain
         /\ call'.read.start = Paging!NextStart /\ call'.read.told \in Paging!Told
         /\ call'.left = IF Paging!NextStart = Paging!NoNext THEN {} ELSE Paging!FirstRead(call.op)
         /\ call.left = {"page"}
         /\ call' \in [op : {call.op}, args : [size : Sizes], read : {call'.read}, left : SUBSET {"groups", "page"}, stale : BOOLEAN]
         /\ call'.read \in [start : {call'.read.start}, told : Paging!Told, list : {{}}]
         /\ k \in Paging!Page => ~Paging!Untold(k)' /\ (Paging!Untold(k) => Paging!ToldOnce(k)')
         /\ k \notin Paging!Page => (Paging!Untold(k)' <=> Paging!Untold(k)) /\ (Paging!ToldOnce(k)' <=> Paging!ToldOnce(k))
<1>1. /\ call \in [op : {call.op}, args : [size : Sizes], read : {call.read}, left : SUBSET {"groups", "page"}, stale : BOOLEAN]
      /\ call.read \in [start : {call.read.start}, told : Paging!Told, list : SUBSET PageEntries]
      /\ call.left = {"page"}
  BY DEF PagingForm, Of, Paging!ReadPage
<1> DEFINE told == [j \in PageEntries |-> call.read.told[j] + Paging!More(j)]
           read == [start |-> Paging!NextStart, told |-> told, list |-> {}]
           left == IF Paging!NextStart = Paging!NoNext THEN {} ELSE Paging!FirstRead(call.op)
<1>2. \A j \in PageEntries : /\ call.read.told[j] \in 0 .. 2
                             /\ j \in Paging!Page => told[j] # 0 /\ (call.read.told[j] = 0 => told[j] = 1)
                             /\ j \notin Paging!Page => told[j] = call.read.told[j]
                             /\ told[j] \in 0 .. 2
  BY <1>1 DEF Paging!Told, Paging!More
<1>3. told \in Paging!Told
  BY <1>2 DEF Paging!Told
<1>4. call' = [call EXCEPT !.read = read, !.left = (call.left \ {"page"}) \cup left] /\ chain' = chain
  BY DEF Paging!ReadPage, Paging!Keep
<1>5. (call.left \ {"page"}) \cup left = left
  BY <1>1
<1>6. left \in SUBSET {"groups", "page"}
  BY DEF Paging!FirstRead
<1>7. read \in [start : {Paging!NextStart}, told : Paging!Told, list : {{}}] /\ read.told = told /\ read.start = Paging!NextStart
  BY <1>3
<1> HIDE DEF left, read, told
<1>8. /\ call'.op = call.op /\ call'.args = call.args /\ call'.read = read /\ call'.left = left
      /\ call' \in [op : {call.op}, args : [size : Sizes], read : {read}, left : SUBSET {"groups", "page"}, stale : BOOLEAN]
  BY <1>1, <1>4, <1>5, <1>6
<1>9. call'.read.told = told
  BY <1>7, <1>8
<1> QED BY <1>1, <1>2, <1>3, <1>4, <1>7, <1>8, <1>9 DEF Paging!Untold, Paging!ToldOnce, left

(* The place of an entry stays while nothing ahead of it changes.          *)
LEMMA PagingNat ==
  ASSUME NEW S \in SUBSET PageEntries
  PROVE  IsFiniteSet(S) /\ Cardinality(S) \in Nat
BY PagingAssumption, FS_Subset, FS_CardinalityType

(* A page moves the entries on it, and no others, to those that were told. *)
LEMMA PagingMoves ==
  ASSUME PagingForm, Paging!ReadPage, NEW k \in PageEntries, NEW past \in BOOLEAN, NEW then \in BOOLEAN
  PROVE  /\ (past => ~Paging!Untold(k)) /\ (then => past \/ k \in Paging!Page) => (then => ~Paging!Untold(k)')
         /\ PagingOnce(k, past) /\ (past => k \notin Paging!Page /\ then) /\ (then => past \/ k \in Paging!Page) /\ (k \in Paging!Page => then)
              => IF then THEN Paging!ToldOnce(k)' ELSE Paging!Untold(k)'
<1>1. /\ k \in Paging!Page => ~Paging!Untold(k)' /\ (Paging!Untold(k) => Paging!ToldOnce(k)')
      /\ k \notin Paging!Page => (Paging!Untold(k)' <=> Paging!Untold(k)) /\ (Paging!ToldOnce(k)' <=> Paging!ToldOnce(k))
  BY PagingMore
<1> QED BY <1>1 DEF PagingOnce

(* What is told while a page is read.                                      *)
LEMMA PagingReads ==
  ASSUME PagingTyped, PagingReading, Paging!ReadPage, NEW k \in PageEntries \ chain.touched
  PROVE  PagingTells(k)'
<1>0. /\ PagingForm /\ PagingTells(k) /\ chain' = chain /\ call'.op = call.op /\ call'.read.start = Paging!NextStart
      /\ call'.left = IF Paging!NextStart = Paging!NoNext THEN {} ELSE Paging!FirstRead(call.op)
      /\ call.left = {"page"} /\ "page" \in call.left
  BY PagingMore DEF PagingReading
<1>1. Paging!Existing' = Paging!Existing /\ Paging!Existing \subseteq PageEntries
  BY <1>0 DEF Paging!Existing
<1>2. /\ PagingPlace(k, PageEntries)' = PagingPlace(k, PageEntries) /\ PagingPlace(k, Paging!Existing)' = PagingPlace(k, Paging!Existing)
      /\ Paging!Steady(PageEntries)' <=> Paging!Steady(PageEntries)
      /\ Paging!Steady(Paging!Ahead(k, PageEntries))' <=> Paging!Steady(Paging!Ahead(k, PageEntries))
  BY <1>0, <1>1 DEF PagingPlace, Paging!Ahead, Paging!Steady
<1>3. chain.has[k] \in Nat /\ (k \in Paging!Existing <=> chain.has[k] # 0)
  <2>1. chain.has[k] \in Nat
    BY PagingAssumption DEF PagingTyped, Paging!Entries
  <2> QED BY <2>1 DEF Paging!Existing
<1>4. call.op # "counted" => Paging!Start \in Nat /\ call.args.size \in Sizes
  BY <1>0 DEF PagingForm, Of, Paging!Start
<1>5. CASE chain.has[k] = 0
  <2>1. k \notin Paging!Page
    BY <1>3, <1>5 DEF Paging!Page, Paging!KeyPage, Paging!AfterKey, Paging!ClaimsPage, Paging!Slice
  <2>2. Paging!Untold(k)
    BY <1>0, <1>5 DEF PagingTells
  <2>3. Paging!Untold(k)'
    BY <1>0, <2>1, <2>2, PagingMore
  <2> QED BY <1>0, <1>5, <2>3 DEF PagingTells
<1>6. CASE chain.has[k] # 0 /\ call.op = "chain"
  <2> DEFINE past == call.left = {} \/ k <= Paging!Start
             then == (call.left = {} \/ k <= Paging!Start)'
  <2>1. Paging!Page = Paging!KeyPage /\ Paging!NextStart = Paging!NextKey(Paging!KeyPage)
    BY <1>6 DEF Paging!Page, Paging!NextStart
  <2>2. k \in Nat /\ Paging!Start \in Nat /\ (past <=> k <= Paging!Start) /\ (then <=> Paging!NextStart = Paging!NoNext \/ k <= Paging!NextStart)
    BY <1>0, <1>4, <1>6, PagingAssumption DEF Paging!Start, Paging!FirstRead
  <2>3. /\ Paging!KeyPage \subseteq Paging!AfterKey(Paging!Start)
        /\ Paging!NextKey(Paging!KeyPage) = Paging!NoNext => Paging!AfterKey(Paging!Start) \subseteq Paging!KeyPage
        /\ Paging!NextKey(Paging!KeyPage) # Paging!NoNext =>
             /\ Paging!NextKey(Paging!KeyPage) \in Nat /\ Paging!NextKey(Paging!KeyPage) > Paging!Start
             /\ \A j \in Paging!AfterKey(Paging!Start) : j \in Paging!KeyPage <=> j <= Paging!NextKey(Paging!KeyPage)
    BY <1>4, <1>6, PagingKeys
  <2>4. k \in Paging!AfterKey(Paging!Start) <=> k > Paging!Start
    BY <1>3, <1>6 DEF Paging!AfterKey
  <2>5. PagingOnce(k, past)
    BY <1>0, <1>6 DEF PagingTells
  <2> HIDE DEF past, then
  <2>6. past => k \notin Paging!Page /\ then
    BY <2>1, <2>2, <2>3, <2>4
  <2>7. (then => past \/ k \in Paging!Page) /\ (k \in Paging!Page => then)
    BY <2>1, <2>2, <2>3, <2>4
  <2>8. IF then THEN Paging!ToldOnce(k)' ELSE Paging!Untold(k)'
    <3>1. past \in BOOLEAN /\ then \in BOOLEAN
      BY DEF past, then
    <3> QED BY <1>0, <2>5, <2>6, <2>7, <3>1, PagingMoves
  <2>9. PagingOnce(k, call.left = {} \/ k <= Paging!Start)'
    BY <2>8 DEF PagingOnce, then
  <2> QED BY <1>0, <1>6, <2>9 DEF PagingTells
<1>7. CASE chain.has[k] # 0 /\ call.op = "passed"
  <2> DEFINE past == PagingPast(k, PageEntries)
             then == PagingPast(k, PageEntries)'
             next == Paging!NextOffset(Paging!Cardinality(PageEntries), Paging!Cardinality(Paging!ClaimsPage))
  <2>1. Paging!Page = Paging!ClaimsPage /\ Paging!NextStart = next /\ Paging!ClaimsPage = Paging!Slice(PageEntries) \cap Paging!Existing
    BY <1>7 DEF Paging!Page, Paging!NextStart, Paging!ClaimsPage, Paging!Listed
  <2>2. /\ past <=> PagingPlace(k, PageEntries) < Paging!Start
        /\ then <=> next = Paging!NoNext \/ PagingPlace(k, PageEntries) < next
    BY <1>0, <1>2, <1>7, <2>1 DEF Paging!Start, Paging!FirstRead, PagingPast
  <2>3. /\ PagingPlace(k, PageEntries) < Paging!Start => k \notin Paging!Slice(PageEntries) /\ (next = Paging!NoNext \/ PagingPlace(k, PageEntries) < next)
        /\ next = Paging!NoNext \/ PagingPlace(k, PageEntries) < next => PagingPlace(k, PageEntries) < Paging!Start \/ k \in Paging!Slice(PageEntries)
        /\ Paging!ClaimsPage = Paging!Slice(PageEntries) /\ k \in Paging!ClaimsPage => next = Paging!NoNext \/ PagingPlace(k, PageEntries) < next
    BY <1>4, <1>7, <2>1, PagingOffsets
  <2>4. /\ past => ~Paging!Untold(k)
        /\ Paging!Steady(PageEntries) /\ Paging!Existing = PageEntries => PagingOnce(k, past)
    BY <1>0, <1>7 DEF PagingTells
  <2> HIDE DEF past, then, next
  <2>5. then => past \/ k \in Paging!Page
    BY <1>3, <1>7, <2>1, <2>2, <2>3
  <2>6. past => k \notin Paging!Page /\ then
    BY <2>1, <2>2, <2>3
  <2>7. Paging!Existing = PageEntries => (k \in Paging!Page => then)
    <3>1. ASSUME Paging!Existing = PageEntries PROVE Paging!ClaimsPage = Paging!Slice(PageEntries)
      BY <2>1, <3>1 DEF Paging!Slice
    <3> QED BY <2>1, <2>2, <2>3, <3>1
  <2>8. /\ then => ~Paging!Untold(k)'
        /\ Paging!Steady(PageEntries) /\ Paging!Existing = PageEntries => IF then THEN Paging!ToldOnce(k)' ELSE Paging!Untold(k)'
    <3>1. past \in BOOLEAN /\ then \in BOOLEAN
      BY DEF past, then, PagingPast
    <3> QED BY <1>0, <2>4, <2>5, <2>6, <2>7, <3>1, PagingMoves
  <2>9. /\ (PagingPast(k, PageEntries) => ~Paging!Untold(k))'
        /\ (Paging!Steady(PageEntries) /\ Paging!Existing = PageEntries => PagingOnce(k, PagingPast(k, PageEntries)))'
    BY <1>1, <1>2, <2>8 DEF PagingOnce, then
  <2> QED BY <1>0, <1>7, <2>9 DEF PagingTells
<1>8. CASE chain.has[k] # 0 /\ call.op \in {"oldest", "newest"}
  <2> DEFINE past == PagingPast(k, Paging!Existing)
             then == PagingPast(k, Paging!Existing)'
             next == Paging!NextOffset(Paging!Cardinality(Paging!Existing), Paging!Cardinality(Paging!Slice(Paging!Existing)))
  <2>1. Paging!Page = Paging!Slice(Paging!Existing) /\ Paging!NextStart = next
    BY <1>8 DEF Paging!Page, Paging!NextStart
  <2>2. /\ past <=> PagingPlace(k, Paging!Existing) < Paging!Start
        /\ then <=> next = Paging!NoNext \/ PagingPlace(k, Paging!Existing) < next
    BY <1>0, <1>2, <1>8, <2>1 DEF Paging!Start, Paging!FirstRead, PagingPast
  <2>3. /\ PagingPlace(k, Paging!Existing) < Paging!Start => k \notin Paging!Slice(Paging!Existing) /\ (next = Paging!NoNext \/ PagingPlace(k, Paging!Existing) < next)
        /\ next = Paging!NoNext \/ PagingPlace(k, Paging!Existing) < next => PagingPlace(k, Paging!Existing) < Paging!Start \/ k \in Paging!Slice(Paging!Existing)
        /\ k \in Paging!Slice(Paging!Existing) => next = Paging!NoNext \/ PagingPlace(k, Paging!Existing) < next
    BY <1>1, <1>3, <1>4, <1>8, PagingOffsets
  <2>4. Paging!Steady(Paging!Ahead(k, PageEntries)) => PagingOnce(k, past)
    BY <1>0, <1>8 DEF PagingTells
  <2> HIDE DEF past, then, next
  <2>5. Paging!Steady(Paging!Ahead(k, PageEntries)) => IF then THEN Paging!ToldOnce(k)' ELSE Paging!Untold(k)'
    <3>1. past \in BOOLEAN /\ then \in BOOLEAN
      BY DEF past, then, PagingPast
    <3> QED BY <1>0, <2>1, <2>2, <2>3, <2>4, <3>1, PagingMoves
  <2>6. (Paging!Steady(Paging!Ahead(k, PageEntries)) => PagingOnce(k, PagingPast(k, Paging!Existing)))'
    BY <1>2, <2>5 DEF PagingOnce, then
  <2> QED BY <1>0, <1>8, <2>6 DEF PagingTells
<1>9. CASE chain.has[k] # 0 /\ call.op = "found" /\ Paging!Steady(Paging!Ahead(k, PageEntries))
  <2> DEFINE past == PagingPast(k, Paging!Existing)
             then == PagingPast(k, Paging!Existing)'
             L == call.read.list
             next == Paging!NextOffset(Paging!Cardinality(L), Paging!Cardinality(Paging!ClaimsPage))
  <2>1. Paging!Page = Paging!ClaimsPage /\ Paging!NextStart = next /\ Paging!ClaimsPage = Paging!Slice(L) \cap Paging!Existing
    BY <1>9 DEF Paging!Page, Paging!NextStart, Paging!ClaimsPage, Paging!Listed
  <2>2. L \in SUBSET PageEntries /\ k \in L /\ PagingPlace(k, L) = PagingPlace(k, Paging!Existing) /\ (Paging!Steady(PageEntries) => L = Paging!Existing)
    BY <1>0, <1>9 DEF PagingTells, PagingPlace, PagingForm
  <2>3. /\ past => ~Paging!Untold(k)
        /\ Paging!Steady(PageEntries) => PagingOnce(k, past)
    BY <1>0, <1>9 DEF PagingTells
  <2> HIDE DEF L
  <2>4. /\ past <=> PagingPlace(k, L) < Paging!Start
        /\ then <=> next = Paging!NoNext \/ PagingPlace(k, L) < next
    BY <1>0, <1>2, <1>9, <2>1, <2>2 DEF Paging!Start, Paging!FirstRead, PagingPast
  <2>5. /\ PagingPlace(k, L) < Paging!Start => k \notin Paging!Slice(L) /\ (next = Paging!NoNext \/ PagingPlace(k, L) < next)
        /\ next = Paging!NoNext \/ PagingPlace(k, L) < next => PagingPlace(k, L) < Paging!Start \/ k \in Paging!Slice(L)
        /\ Paging!ClaimsPage = Paging!Slice(L) /\ k \in Paging!ClaimsPage => next = Paging!NoNext \/ PagingPlace(k, L) < next
    BY <1>4, <1>9, <2>1, <2>2, PagingOffsets
  <2> HIDE DEF past, then, next
  <2>6. then => past \/ k \in Paging!Page
    BY <1>3, <1>9, <2>1, <2>4, <2>5
  <2>7. past => k \notin Paging!Page /\ then
    BY <2>1, <2>4, <2>5
  <2>8. Paging!Steady(PageEntries) => (k \in Paging!Page => then)
    <3>1. ASSUME L = Paging!Existing PROVE Paging!ClaimsPage = Paging!Slice(L)
      BY <2>1, <3>1 DEF Paging!Slice
    <3> QED BY <2>1, <2>2, <2>4, <2>5, <3>1
  <2>9. /\ then => ~Paging!Untold(k)'
        /\ Paging!Steady(PageEntries) => IF then THEN Paging!ToldOnce(k)' ELSE Paging!Untold(k)'
    <3>1. past \in BOOLEAN /\ then \in BOOLEAN
      BY DEF past, then, PagingPast
    <3> QED BY <1>0, <2>3, <2>6, <2>7, <2>8, <3>1, PagingMoves
  <2>10. /\ (PagingPast(k, Paging!Existing) => ~Paging!Untold(k))'
         /\ (Paging!Steady(PageEntries) => PagingOnce(k, PagingPast(k, Paging!Existing)))'
    BY <1>2, <2>9 DEF PagingOnce, then
  <2>11. "page" \notin call'.left
    BY <1>0, <1>9 DEF Paging!FirstRead
  <2> QED BY <1>0, <1>9, <2>10, <2>11 DEF PagingTells
<1>10. CASE chain.has[k] # 0 /\ call.op = "found" /\ ~Paging!Steady(Paging!Ahead(k, PageEntries))
  BY <1>0, <1>2, <1>10 DEF PagingTells
<1>11. CASE chain.has[k] # 0 /\ call.op = "counted"
  BY <1>0, <1>11 DEF PagingTells
<1>12. call.op \in Paging!Lists
  BY <1>0 DEF PagingForm
<1> QED BY <1>5, <1>6, <1>7, <1>8, <1>9, <1>10, <1>11, <1>12 DEF Paging!Lists

(* What others change is no longer steady, and what stays keeps its place. *)
LEMMA PagingKeeps ==
  ASSUME PagingTyped, PagingReading, NEW j \in PageEntries, NEW claims \in Claimed,
         chain' = [chain EXCEPT !.has[j] = claims, !.touched = @ \cup {j}], call' = [call EXCEPT !.stale = TRUE],
         NEW k \in PageEntries \ chain.touched, k # j
  PROVE  PagingTells(k)'
<1>0. PagingForm /\ PagingTells(k)
  BY DEF PagingReading
<1>1. call'.op = call.op /\ call'.left = call.left /\ call'.read = call.read
  <2>1. call \in [op : {call.op}, args : [size : Sizes], read : {call.read}, left : SUBSET {"groups", "page"}, stale : BOOLEAN]
    BY <1>0 DEF PagingForm, Of
  <2> QED BY <2>1
<1>2. chain'.has = [chain.has EXCEPT ![j] = claims] /\ chain'.touched = chain.touched \cup {j}
      /\ chain.has \in [PageEntries -> Claimed]
  BY DEF PagingTyped, Paging!Entries
<1>3. \A l \in PageEntries : l # j => (l \in Paging!Existing' <=> l \in Paging!Existing) /\ chain'.has[l] = chain.has[l]
  BY <1>2 DEF Paging!Existing
<1>4. \A S : S \subseteq PageEntries => (Paging!Steady(S)' <=> Paging!Steady(S) /\ j \notin S)
  BY <1>2 DEF Paging!Steady
<1>5. \A S : Paging!Ahead(k, S)' = Paging!Ahead(k, S)
  BY <1>1 DEF Paging!Ahead
<1>6. Paging!Steady(PageEntries)' <=> FALSE
  BY <1>4
<1>7. Paging!Steady(Paging!Ahead(k, PageEntries))' => Paging!Steady(Paging!Ahead(k, PageEntries)) /\ Paging!Ahead(k, Paging!Existing)' = Paging!Ahead(k, Paging!Existing)
  <2>1. SUFFICES ASSUME Paging!Steady(Paging!Ahead(k, PageEntries))'
                 PROVE  Paging!Steady(Paging!Ahead(k, PageEntries)) /\ Paging!Ahead(k, Paging!Existing)' = Paging!Ahead(k, Paging!Existing)
    OBVIOUS
  <2>2. chain'.touched \cap Paging!Ahead(k, PageEntries) = {}
    BY <1>1, <2>1 DEF Paging!Steady, Paging!Ahead
  <2>3. j \notin Paging!Ahead(k, PageEntries) /\ Paging!Steady(Paging!Ahead(k, PageEntries))
    BY <1>2, <2>2 DEF Paging!Steady
  <2>4. Paging!Existing \subseteq PageEntries /\ Paging!Existing' \subseteq PageEntries
    BY DEF Paging!Existing
  <2>5. Paging!Ahead(k, Paging!Existing)' = Paging!Ahead(k, Paging!Existing)
    BY <1>1, <1>3, <2>3, <2>4 DEF Paging!Ahead
  <2> QED BY <2>3, <2>5
<1>8. (Paging!Untold(k)' <=> Paging!Untold(k)) /\ (Paging!ToldOnce(k)' <=> Paging!ToldOnce(k))
  BY <1>1 DEF Paging!Untold, Paging!ToldOnce
<1>9. \A S : PagingPast(k, S)' <=> PagingPast(k, S)
  BY <1>1, <1>5 DEF PagingPast, PagingPlace, Paging!Start
<1>10. Paging!Steady(Paging!Ahead(k, PageEntries))' => (PagingPast(k, Paging!Existing)' <=> PagingPast(k, Paging!Existing))
  BY <1>1, <1>7 DEF PagingPast, PagingPlace, Paging!Start
<1>11. chain'.has[k] = chain.has[k]
  BY <1>3
<1>12. CASE chain.has[k] = 0
  BY <1>0, <1>8, <1>11, <1>12 DEF PagingTells
<1>13. CASE chain.has[k] # 0 /\ call.op = "chain"
  BY <1>0, <1>1, <1>8, <1>11, <1>13 DEF PagingTells, PagingOnce, Paging!Start
<1>14. CASE chain.has[k] # 0 /\ call.op = "passed"
  BY <1>0, <1>1, <1>6, <1>8, <1>9, <1>11, <1>14 DEF PagingTells
<1>15. CASE chain.has[k] # 0 /\ call.op \in {"oldest", "newest"}
  BY <1>0, <1>1, <1>7, <1>8, <1>10, <1>11, <1>15 DEF PagingTells, PagingOnce
<1>16. CASE chain.has[k] # 0 /\ call.op = "found"
  <2>1. Paging!Ahead(k, call.read.list)' = Paging!Ahead(k, call.read.list)
    BY <1>1 DEF Paging!Ahead
  <2> QED BY <1>0, <1>1, <1>6, <1>7, <1>8, <1>10, <1>11, <1>16, <2>1 DEF PagingTells
<1>17. CASE chain.has[k] # 0 /\ call.op = "counted"
  BY <1>1, <1>11, <1>17 DEF PagingTells
<1>18. call.op \in Paging!Lists
  BY <1>0 DEF PagingForm
<1> QED BY <1>12, <1>13, <1>14, <1>15, <1>16, <1>17, <1>18 DEF Paging!Lists

LEMMA PagingNext == PagingInv /\ Paging!Next => PagingInv'
<1> SUFFICES ASSUME PagingInv, Paging!Next PROVE PagingInv'
  OBVIOUS
<1>0. PagingTyped /\ PagingCall /\ chain.has \in [PageEntries -> Claimed] /\ chain.touched \subseteq PageEntries
  BY DEF PagingInv, PagingTyped, Paging!Entries
<1>1. ASSUME chain' = chain, PagingForm', \A k \in PageEntries \ chain.touched : PagingTells(k)' PROVE PagingInv'
  <2>1. PagingTyped'
    BY <1>0, <1>1 DEF PagingTyped, Paging!Entries
  <2>2. PagingReading'
    BY <1>1 DEF PagingReading
  <2> QED BY <2>1, <2>2 DEF PagingInv, PagingCall
<1>2. ASSUME NEW list \in Paging!Lists, NEW size \in Sizes, Paging!Begin(list, size) PROVE PagingInv'
  <2> DEFINE told == [k \in PageEntries |-> 0]
  <2>1. told \in Paging!Told
    BY DEF Paging!Told
  <2>2. /\ chain' = chain
        /\ call' = [op |-> list, args |-> [size |-> size], read |-> [start |-> 0, told |-> told, list |-> {}],
                    left |-> Paging!FirstRead(list), stale |-> FALSE]
    BY <1>2 DEF Paging!Begin, Paging!Idle
  <2>3. Paging!FirstRead(list) \in SUBSET {"groups", "page"} /\ Paging!FirstRead(list) # {} /\ ("page" \in Paging!FirstRead(list) => list # "found")
        /\ (Paging!FirstRead(list) \in {{"page"}, {}} \/ (list = "found" /\ Paging!FirstRead(list) = {"groups"}))
    BY DEF Paging!FirstRead
  <2>4. \A k \in PageEntries : told[k] = 0
    OBVIOUS
  <2> HIDE DEF told
  <2>5. call'.op = list /\ call'.args = [size |-> size] /\ call'.left = Paging!FirstRead(list)
        /\ call'.read = [start |-> 0, told |-> told, list |-> {}]
    BY <2>2
  <2>6. PagingForm'
    BY <2>1, <2>2, <2>3, <2>5 DEF PagingForm, Of
  <2>7. ASSUME NEW k \in PageEntries \ chain.touched PROVE PagingTells(k)'
    <3>1. Paging!Untold(k)'
      BY <2>4, <2>5 DEF Paging!Untold
    <3>2. \A S \in SUBSET PageEntries : ~PagingPast(k, S)'
      <4>1. \A S \in SUBSET PageEntries : Paging!Ahead(k, S)' \in SUBSET PageEntries
        BY DEF Paging!Ahead
      <4>2. \A S \in SUBSET PageEntries : PagingPlace(k, S)' \in Nat
        BY <4>1, PagingNat DEF PagingPlace
      <4>3. call'.left # {} /\ call'.read.start = 0
        BY <2>3, <2>5
      <4> QED BY <4>2, <4>3 DEF PagingPast, Paging!Start
    <3>3. Paging!Existing' \in SUBSET PageEntries /\ ~PagingPast(k, PageEntries)'
      BY <3>2 DEF Paging!Existing
    <3>4. ~PagingPast(k, Paging!Existing)'
      <4>1. Paging!Ahead(k, Paging!Existing)' \in SUBSET PageEntries
        BY <3>3 DEF Paging!Ahead
      <4>2. PagingPlace(k, Paging!Existing)' \in Nat
        BY <4>1, PagingNat DEF PagingPlace
      <4>3. call'.left # {} /\ call'.read.start = 0
        BY <2>3, <2>5
      <4> QED BY <4>2, <4>3 DEF PagingPast, Paging!Start
    <3>5. ~(k <= Paging!Start)' /\ call'.left # {} /\ ("page" \in call'.left => call'.op # "found")
      BY <2>3, <2>5, PagingAssumption DEF Paging!Start
    <3> QED BY <3>1, <3>3, <3>4, <3>5 DEF PagingTells, PagingOnce
  <2> QED BY <1>1, <2>2, <2>6, <2>7
<1>3. CASE Paging!ReadGroups
  <2>1. PagingReading /\ call.op = "found" /\ "groups" \in call.left
    BY <1>0, <1>3, PagingStages DEF Paging!ReadGroups, Paging!Answers, Idle
  <2> DEFINE read == [call.read EXCEPT !.list = Paging!Existing]
  <2>2. call.left = {"groups"} /\ Paging!Existing \in SUBSET PageEntries
        /\ call \in [op : {call.op}, args : [size : Sizes], read : {call.read}, left : SUBSET {"groups", "page"}, stale : BOOLEAN]
        /\ call.read \in [start : {call.read.start}, told : Paging!Told, list : SUBSET PageEntries]
        /\ call.read.start \in Nat
    BY <2>1 DEF PagingReading, PagingForm, Of, Paging!Existing
  <2>3. call' = [call EXCEPT !.read = read, !.left = {"page"}] /\ chain' = chain
    <3>1. (call.left \ {"groups"}) \cup {"page"} = {"page"}
      BY <2>2
    <3> QED BY <1>3, <3>1 DEF Paging!ReadGroups, Paging!Keep
  <2>4. /\ read \in [start : {call.read.start}, told : Paging!Told, list : SUBSET PageEntries]
        /\ read.start = call.read.start /\ read.told = call.read.told /\ read.list = Paging!Existing
    BY <2>2
  <2> HIDE DEF read
  <2>5. call'.op = call.op /\ call'.args = call.args /\ call'.read = read /\ call'.left = {"page"}
        /\ call' \in [op : {call.op}, args : [size : Sizes], read : {read}, left : SUBSET {"groups", "page"}, stale : BOOLEAN]
    BY <2>2, <2>3
  <2>6. PagingForm'
    BY <2>1, <2>2, <2>4, <2>5 DEF PagingForm, Of, Paging!Lists
  <2>7. ASSUME NEW k \in PageEntries \ chain.touched PROVE PagingTells(k)'
    <3>1. PagingTells(k)
      BY <2>1, <2>7 DEF PagingReading
    <3>2. (Paging!Untold(k)' <=> Paging!Untold(k)) /\ (Paging!ToldOnce(k)' <=> Paging!ToldOnce(k))
      BY <2>4, <2>5 DEF Paging!Untold, Paging!ToldOnce
    <3>3. Paging!Existing' = Paging!Existing /\ (\A S : Paging!Steady(S)' <=> Paging!Steady(S)) /\ (\A S : Paging!Ahead(k, S)' = Paging!Ahead(k, S))
      BY <2>3, <2>5 DEF Paging!Existing, Paging!Steady, Paging!Ahead
    <3>4. Paging!Steady(Paging!Ahead(k, PageEntries))' <=> Paging!Steady(Paging!Ahead(k, PageEntries))
      BY <2>3, <2>5 DEF Paging!Steady, Paging!Ahead
    <3>5. PagingPast(k, Paging!Existing)' <=> PagingPast(k, Paging!Existing)
      BY <2>2, <2>3, <2>4, <2>5, <3>3 DEF PagingPast, PagingPlace, Paging!Start, Paging!Ahead
    <3>6. chain.has[k] # 0 => k \in Paging!Existing
      <4>1. chain.has[k] \in Nat
        BY <1>0, PagingAssumption
      <4> QED BY <4>1 DEF Paging!Existing
    <3>7. call'.read.list = Paging!Existing' /\ Paging!Ahead(k, call.read.list)' = Paging!Ahead(k, Paging!Existing)'
      BY <2>4, <2>5, <3>3 DEF Paging!Ahead
    <3> QED BY <2>1, <2>3, <2>5, <3>1, <3>2, <3>3, <3>4, <3>5, <3>6, <3>7 DEF PagingTells, PagingOnce
  <2> QED BY <1>1, <2>3, <2>6, <2>7
<1>4. CASE Paging!ReadPage
  <2>1. PagingReading
    BY <1>0, <1>4, PagingStages DEF Paging!ReadPage
  <2>2. PagingForm /\ call.args.size \in Sizes /\ (call.op # "counted" => Paging!Start \in Nat)
    BY <1>4, <2>1 DEF PagingReading, PagingForm, Of, Paging!Start, Paging!ReadPage
  <2>3. chain' = chain /\ \A k \in PageEntries \ chain.touched : PagingTells(k)'
    <3>1. chain' = chain
      BY <1>4 DEF Paging!ReadPage, Paging!Keep
    <3> QED BY <1>0, <1>4, <2>1, <3>1, PagingReads
  <2>4. call.op # "counted" => Paging!NextStart = Paging!NoNext \/ Paging!NextStart \in Nat
    <3>1. CASE call.op = "chain"
      <4>1. Paging!NextKey(Paging!KeyPage) = Paging!NoNext \/ Paging!NextKey(Paging!KeyPage) \in Nat
        BY <1>0, <2>2, <3>1, PagingKeys
      <4> QED BY <3>1, <4>1 DEF Paging!NextStart
    <3>2. ASSUME call.op \in Paging!Lists \ {"chain", "counted"}
          PROVE  Paging!NextStart = Paging!NoNext \/ Paging!NextStart \in Nat
      <4> DEFINE L == IF call.op \in {"passed", "found"} THEN Paging!Listed ELSE Paging!Existing
                 found == IF call.op \in {"passed", "found"} THEN Paging!ClaimsPage ELSE Paging!Slice(Paging!Existing)
      <4>1. Paging!NextStart = Paging!NextOffset(Paging!Cardinality(L), Paging!Cardinality(found))
        BY <3>2 DEF Paging!NextStart, Paging!Page, Paging!Lists
      <4>2. L \in SUBSET PageEntries /\ found \in SUBSET Paging!Slice(L)
        BY <2>2 DEF Paging!Listed, Paging!Existing, Paging!ClaimsPage, PagingForm
      <4> HIDE DEF L, found
      <4> QED BY <2>2, <3>2, <4>1, <4>2, PagingOffsets
    <3> QED BY <2>2, <3>1, <3>2 DEF PagingForm
  <2>5. PagingForm'
    <3>1. /\ call'.op = call.op /\ call'.read.start = Paging!NextStart
          /\ call'.left = IF Paging!NextStart = Paging!NoNext THEN {} ELSE Paging!FirstRead(call.op)
          /\ call' \in [op : {call.op}, args : [size : Sizes], read : {call'.read}, left : SUBSET {"groups", "page"}, stale : BOOLEAN]
          /\ call'.read \in [start : {call'.read.start}, told : Paging!Told, list : {{}}]
      <4>1. CASE PageEntries # {}
        BY <1>4, <2>2, <4>1, PagingMore
      <4>2. CASE PageEntries = {}
        <5> DEFINE told == [j \in PageEntries |-> call.read.told[j] + Paging!More(j)]
                   read == [start |-> Paging!NextStart, told |-> told, list |-> {}]
                   left == IF Paging!NextStart = Paging!NoNext THEN {} ELSE Paging!FirstRead(call.op)
        <5>1. told \in Paging!Told
          BY <4>2 DEF Paging!Told
        <5>2. /\ call \in [op : {call.op}, args : [size : Sizes], read : {call.read}, left : SUBSET {"groups", "page"}, stale : BOOLEAN]
              /\ call.left = {"page"}
          BY <1>4, <2>2 DEF PagingForm, Of, Paging!ReadPage
        <5>3. (call.left \ {"page"}) \cup left = left /\ left \in SUBSET {"groups", "page"}
          BY <5>2 DEF Paging!FirstRead
        <5>4. call' = [call EXCEPT !.read = read, !.left = (call.left \ {"page"}) \cup left]
          BY <1>4 DEF Paging!ReadPage, Paging!Keep
        <5>5. read \in [start : {Paging!NextStart}, told : Paging!Told, list : {{}}] /\ read.start = Paging!NextStart
          BY <5>1
        <5> HIDE DEF told, read, left
        <5> QED BY <5>2, <5>3, <5>4, <5>5 DEF left
      <4> QED BY <4>1, <4>2
    <3>2. call'.left \in {{"page"}, {}} \/ (call.op = "found" /\ call'.left = {"groups"})
      BY <3>1 DEF Paging!FirstRead
    <3> QED BY <2>2, <2>4, <3>1, <3>2 DEF PagingForm, Of
  <2> QED BY <1>1, <2>3, <2>5
<1>5. CASE Paging!Return
  <2>1. PagingTyped'
    BY <1>0, <1>5 DEF Paging!Return, PagingTyped, Paging!Entries
  <2> QED BY <1>5, <2>1 DEF Paging!Return, PagingInv, PagingCall, Paging!Idle, Idle, Paging!NoArgs, NoArgs
<1>6. ASSUME NEW j \in PageEntries, NEW claims \in Claimed, Paging!Change(j, claims) PROVE PagingInv'
  <2>1. /\ chain' = [chain EXCEPT !.has[j] = claims, !.touched = @ \cup {j}]
        /\ call' = IF call.op = "none" THEN call ELSE [call EXCEPT !.stale = TRUE]
    BY <1>6 DEF Paging!Change, Paging!Happens
  <2>2. PagingTyped'
    BY <1>0, <2>1 DEF PagingTyped, Paging!Entries
  <2>3. CASE call.op = "none"
    BY <1>0, <2>1, <2>2, <2>3, PagingStages DEF PagingInv, PagingCall, Idle
  <2>4. CASE call.op # "none"
    <3>1. PagingReading /\ call' = [call EXCEPT !.stale = TRUE]
      BY <1>0, <2>1, <2>4, PagingStages
    <3>2. chain'.touched = chain.touched \cup {j}
      BY <1>0, <2>1 DEF PagingTyped
    <3>3. \A k \in PageEntries \ chain'.touched : PagingTells(k)'
      BY <1>0, <2>1, <3>1, <3>2, PagingKeeps
    <3>4. call \in [op : {call.op}, args : [size : Sizes], read : {call.read}, left : SUBSET {"groups", "page"}, stale : BOOLEAN]
      BY <3>1 DEF PagingReading, PagingForm, Of
    <3>5. /\ call'.op = call.op /\ call'.read = call.read /\ call'.left = call.left
          /\ call' \in [op : {call.op}, args : [size : Sizes], read : {call.read}, left : SUBSET {"groups", "page"}, stale : BOOLEAN]
      BY <3>1, <3>4
    <3>6. PagingForm'
      BY <3>1, <3>5 DEF PagingReading, PagingForm, Of
    <3> QED BY <2>2, <3>3, <3>6 DEF PagingInv, PagingCall, PagingReading
  <2> QED BY <2>3, <2>4
<1> QED BY <1>2, <1>3, <1>4, <1>5, <1>6 DEF Paging!Next

LEMMA PagingStutter == PagingInv /\ UNCHANGED <<chain, call>> => PagingInv'
<1> SUFFICES ASSUME PagingInv, chain' = chain, call' = call PROVE PagingTyped' /\ PagingCall'
  BY DEF PagingInv
<1>1. PagingTyped'
  BY DEF PagingInv, PagingTyped, Paging!Entries
<1>2. ASSUME PagingReading PROVE PagingReading'
  <2>1. PagingForm'
    BY <1>2 DEF PagingReading, PagingForm, Of
  <2>2. ASSUME NEW k \in PageEntries \ chain.touched PROVE PagingTells(k)'
    BY <1>2 DEF PagingReading, PagingTells, PagingOnce, PagingPast, PagingPlace, Paging!Ahead, Paging!Steady, Paging!Existing, Paging!Untold, Paging!ToldOnce, Paging!Start
  <2> QED BY <2>1, <2>2 DEF PagingReading
<1> QED BY <1>1, <1>2 DEF PagingInv, PagingCall, Idle

LEMMA PagingOK == PagingInv => Paging!TypeOK
BY DEF PagingInv, PagingTyped, PagingCall, PagingReading, PagingForm, Of, Idle, Paging!TypeOK

(* When no page is left all that has not changed was told; and a page that *)
(* is left leads further.                                                  *)
LEMMA PagingWhole == PagingInv /\ call.op # "counted" => Paging!PagesAreWhole /\ Paging!PagesGoOn
<1> SUFFICES ASSUME PagingInv, call.op # "counted" PROVE Paging!PagesAreWhole /\ Paging!PagesGoOn
  OBVIOUS
<1>0. PagingTyped /\ PagingCall
  BY DEF PagingInv
<1>1. ASSUME Paging!Built, NEW k \in PageEntries \ chain.touched
      PROVE  IF chain.has[k] = 0 THEN Paging!Untold(k)
             ELSE /\ call.op = "chain" => Paging!ToldOnce(k)
                  /\ call.op = "passed" => ~Paging!Untold(k) /\ (Paging!Steady(PageEntries) /\ Paging!Existing = PageEntries => Paging!ToldOnce(k))
                  /\ Paging!Steady(Paging!Ahead(k, PageEntries)) =>
                       /\ call.op \in {"oldest", "newest"} => Paging!ToldOnce(k)
                       /\ call.op = "found" => ~Paging!Untold(k) /\ (Paging!Steady(PageEntries) => Paging!ToldOnce(k))
                       /\ call.op = "counted" /\ (\A j \in Paging!Ahead(k, PageEntries) : chain.has[j] <= 1) => Paging!ToldOnce(k)
  <2>1. PagingReading /\ call.left = {} /\ call.op \in Paging!Lists
    BY <1>0, <1>1, PagingStages DEF Paging!Built
  <2>2. PagingTells(k)
    BY <2>1 DEF PagingReading
  <2>3. CASE chain.has[k] = 0
    BY <2>2, <2>3 DEF PagingTells
  <2>4. CASE chain.has[k] # 0 /\ call.op = "chain"
    BY <2>1, <2>2, <2>4 DEF PagingTells, PagingOnce
  <2>5. CASE chain.has[k] # 0 /\ call.op = "passed"
    BY <2>1, <2>2, <2>5 DEF PagingTells, PagingOnce, PagingPast
  <2>6. CASE chain.has[k] # 0 /\ call.op = "found"
    BY <2>1, <2>2, <2>6 DEF PagingTells, PagingOnce, PagingPast
  <2>7. CASE chain.has[k] # 0 /\ call.op \in {"oldest", "newest"}
    BY <2>1, <2>2, <2>7 DEF PagingTells, PagingOnce, PagingPast
  <2> QED BY <2>1, <2>3, <2>4, <2>5, <2>6, <2>7 DEF Paging!Lists
<1>2. Paging!PagesAreWhole
  BY <1>1 DEF Paging!PagesAreWhole
<1>3. ASSUME "page" \in call.left
      PROVE  \/ Paging!NextStart = Paging!NoNext \/ Paging!NextStart > Paging!Start
             \/ call.op \in {"passed", "found"} /\ Paging!Page = {}
  <2>1. PagingForm /\ call.args.size \in Sizes /\ Paging!Start \in Nat
    BY <1>0, <1>3 DEF PagingCall, PagingReading, PagingForm, Of, Paging!Start, Idle
  <2>2. CASE call.op = "chain"
    <3>1. Paging!NextKey(Paging!KeyPage) = Paging!NoNext \/ Paging!NextKey(Paging!KeyPage) > Paging!Start
      BY <1>0, <2>1, <2>2, PagingKeys
    <3> QED BY <2>2, <3>1 DEF Paging!NextStart
  <2>3. CASE call.op \in {"passed", "found"}
    <3> DEFINE next == Paging!NextOffset(Paging!Cardinality(Paging!Listed), Paging!Cardinality(Paging!ClaimsPage))
    <3>1. Paging!NextStart = next /\ Paging!Page = Paging!ClaimsPage
      BY <2>3 DEF Paging!NextStart, Paging!Page
    <3>2. Paging!Listed \in SUBSET PageEntries /\ Paging!ClaimsPage \in SUBSET Paging!Slice(Paging!Listed)
      BY <2>1 DEF Paging!Listed, Paging!ClaimsPage, PagingForm
    <3>3. next = Paging!NoNext \/ (Paging!ClaimsPage # {} => next > Paging!Start)
      BY <2>1, <3>2, PagingOffsets
    <3> QED BY <2>3, <3>1, <3>3
  <2>4. CASE call.op \in {"oldest", "newest"}
    <3> DEFINE next == Paging!NextOffset(Paging!Cardinality(Paging!Existing), Paging!Cardinality(Paging!Slice(Paging!Existing)))
    <3>1. Paging!NextStart = next
      BY <2>4 DEF Paging!NextStart, Paging!Page
    <3>2. Paging!Existing \in SUBSET PageEntries
      BY DEF Paging!Existing
    <3>3. next = Paging!NoNext \/ next > Paging!Start
      BY <2>1, <3>2, PagingOffsets
    <3> QED BY <3>1, <3>3
  <2> QED BY <2>1, <2>2, <2>3, <2>4 DEF PagingForm, Paging!Lists
<1> QED BY <1>2, <1>3 DEF Paging!PagesGoOn

LEMMA PagingDone ==
  PagingInv /\ Paging!Next /\ (call.op # "counted")' => Paging!PagesAreWhole' /\ Paging!PagesGoOn'
<1>1. PagingInv /\ Paging!Next => PagingInv'
  BY PagingNext
<1>2. (PagingInv /\ call.op # "counted" => Paging!PagesAreWhole /\ Paging!PagesGoOn)'
  BY PagingWhole, PTL
<1> QED BY <1>1, <1>2

-----------------------------------------------------------------------------
(* Connection *)

LEMMA ConnInit == Conn!Init => ConnInv
BY DEF Conn!Init, ConnInv, ConnRests, Conn!Idle, Idle, Conn!NoArgs, NoArgs

LEMMA ConnStages ==
  ASSUME ConnInv
  PROVE  /\ call.op \in {"none", "connect", "disconnect"}
         /\ call.op = "none" <=> ConnRests
         /\ call.op = "disconnect" <=> ConnLeaves
         /\ "open" \in call.left <=> ConnOpen
         /\ "node" \in call.left \/ "spec" \in call.left <=> ConnVersions
         /\ "api" \in call.left <=> ConnApi
         /\ "context" \in call.left <=> ConnContext
         /\ "v1" \in call.left <=> ConnV1
         /\ "v2" \in call.left <=> ConnV2
         /\ "indexer" \in call.left <=> ConnIndexer
         /\ call.op # "none" /\ call.left = {} <=> ConnReady
BY DEF ConnInv, ConnRests, ConnGoing, ConnOpen, ConnVersions, ConnForever, ConnApi, ConnContext, ConnV1, ConnV2, ConnIndexer, ConnReady, ConnLeaves, ConnAt, Of, Idle

LEMMA ConnStutter == ConnInv /\ UNCHANGED <<chain, call>> => ConnInv'
BY DEF ConnInv, ConnRests, ConnGoing, ConnOpen, ConnVersions, ConnForever, ConnApi, ConnContext, ConnV1, ConnV2, ConnIndexer, ConnReady, ConnLeaves, ConnAt, Of, Fresh,
   Conn!Chains, Conn!Welcome, Idle

(* What happens meanwhile opens and closes nothing.                        *)
LEMMA ConnStale ==
  ASSUME ConnInv, NEW after \in Conn!Chains, Conn!Happens(after),
         after.open = chain.open, after.client = chain.client, after.refused = chain.refused
  PROVE  ConnInv'
<1>0. chain' = after /\ chain'.open = chain.open /\ chain'.client = chain.client /\ chain'.refused = chain.refused
  BY DEF Conn!Happens
<1>1. CASE ConnRests
  BY <1>0, <1>1 DEF ConnInv, ConnRests, Conn!Happens, Idle
<1>2. CASE ConnGoing
  <2>1. call.op # "none" /\ call' = [call EXCEPT !.stale = TRUE]
    BY <1>2 DEF Conn!Happens, ConnGoing, ConnOpen, ConnVersions, ConnForever, ConnApi, ConnContext, ConnV1, ConnV2, ConnIndexer, ConnReady, ConnLeaves, ConnAt, Of
  <2>2. ASSUME NEW lefts, NEW open, ConnAt(lefts, open) PROVE ConnAt(lefts, open)' /\ ~Fresh'
    BY <1>0, <2>1, <2>2 DEF ConnAt, Of, Fresh
  <2>3. CASE ~ConnLeaves
    BY <1>0, <1>2, <2>2, <2>3
    DEF ConnInv, ConnGoing, ConnOpen, ConnVersions, ConnForever, ConnApi, ConnContext, ConnV1, ConnV2, ConnIndexer, ConnReady
  <2>4. CASE ConnLeaves
    BY <1>0, <2>1, <2>4 DEF ConnInv, ConnGoing, ConnLeaves, Of
  <2> QED BY <2>3, <2>4
<1> QED BY <1>1, <1>2 DEF ConnInv

LEMMA ConnNext == ConnInv /\ Conn!Next => ConnInv'
<1> SUFFICES ASSUME ConnInv, Conn!Next PROVE ConnInv'
  OBVIOUS
<1> USE DEF Idle, NoArgs, Conn!Idle, Conn!NoArgs, Conn!Answers, Conn!Goes, Conn!RefusedAt, Conn!Built
<1>0. chain \in Conn!Chains
  BY DEF ConnInv
<1>1. ASSUME chain' = chain, ConnRests' \/ ConnGoing' PROVE ConnInv'
  BY <1>0, <1>1 DEF ConnInv
<1>2. CASE Conn!Connect
  <2>1. ConnRests /\ chain.open = {}
    BY <1>2, ConnStages DEF Conn!Connect, ConnRests
  <2>2. chain' = [chain EXCEPT !.open = {"socket"}]
    BY <1>2, <2>1 DEF Conn!Connect
  <2>3. chain' \in Conn!Chains /\ chain'.open = {"socket"} /\ chain'.client = chain.client /\ chain'.refused = chain.refused
    BY <1>0, <2>2 DEF Conn!Chains
  <2>4. ConnOpen'
    BY <1>2, <2>3 DEF Conn!Connect, ConnOpen, ConnAt, Of
  <2> QED BY <2>3, <2>4 DEF ConnInv, ConnGoing
<1>3. ASSUME NEW where \in {"versions", "nodeError", "context", "v1", "v2", "unreachable"}, NEW open, Conn!RefusedAt(where, open),
             chain.client = "none", open = IF where \in {"versions", "nodeError"} THEN {"socket"} ELSE IF where = "unreachable" THEN {} ELSE {"api"}
      PROVE  ConnInv'
  <2>1. chain' = [chain EXCEPT !.refused = where, !.open = open] /\ call' = Idle
    BY <1>3
  <2>2. open \in SUBSET {"socket", "api"}
    BY <1>3
  <2>3. chain' \in Conn!Chains /\ chain'.open = open /\ chain'.refused = where /\ chain'.client = "none"
    BY <1>0, <1>3, <2>1, <2>2 DEF Conn!Chains
  <2> QED BY <1>3, <2>1, <2>3 DEF ConnInv, ConnRests
<1>4. CASE Conn!SocketOpens
  <2>1. ConnOpen /\ call' = [call EXCEPT !.left = {"node", "spec"}] /\ chain' = chain
    BY <1>4, ConnStages DEF Conn!SocketOpens
  <2>2. ConnVersions'
    BY <2>1 DEF ConnOpen, ConnVersions, ConnAt, Of, Fresh
  <2> QED BY <1>1, <2>1, <2>2 DEF ConnGoing
<1>5. CASE Conn!SocketFails
  <2>1. ConnOpen /\ Conn!RefusedAt("unreachable", chain.open \ {"socket"})
    BY <1>5, ConnStages DEF Conn!SocketFails
  <2>2. chain.open \ {"socket"} = {} /\ chain.client = "none"
    BY <2>1 DEF ConnOpen, ConnAt
  <2> QED BY <1>3, <2>1, <2>2
<1>6. ASSUME NEW r \in {"node", "spec"}, NEW supported, Conn!Version(r, supported),
             supported => (r = "node" => chain.node) /\ (r = "spec" => chain.spec)
      PROVE  ConnInv'
  <2>1. ConnVersions /\ r \in call.left
    BY <1>6, ConnStages DEF Conn!Version
  <2>2. CASE ~supported
    <3>1. Conn!RefusedAt("versions", chain.open) /\ chain.open = {"socket"} /\ chain.client = "none"
      BY <1>6, <2>1, <2>2 DEF Conn!Version, ConnVersions, ConnAt
    <3> QED BY <1>3, <3>1
  <2>3. CASE supported /\ call.left = {r}
    <3>1. call' = [call EXCEPT !.left = {"api"}] /\ chain' = [chain EXCEPT !.open = chain.open \ {"socket"}]
      BY <1>6, <2>3 DEF Conn!Version, Conn!Both
    <3>2. chain.open \ {"socket"} = {} /\ (Fresh => chain.node /\ chain.spec)
      BY <1>6, <2>1, <2>3 DEF ConnVersions, ConnAt
    <3>3. chain' = [chain EXCEPT !.open = {}]
      BY <3>1, <3>2
    <3>4. /\ chain' \in Conn!Chains /\ chain'.open = {} /\ chain'.client = chain.client /\ chain'.refused = chain.refused
          /\ chain'.node = chain.node /\ chain'.spec = chain.spec
      BY <1>0, <3>3 DEF Conn!Chains
    <3>5. ConnApi'
      BY <2>1, <3>1, <3>2, <3>4 DEF ConnVersions, ConnApi, ConnAt, Of, Fresh
    <3> QED BY <3>4, <3>5 DEF ConnInv, ConnGoing
  <2>4. CASE supported /\ call.left # {r}
    <3>1. call.left = {"node", "spec"} /\ call.left \ {r} \in {{"node"}, {"spec"}}
      BY <2>1, <2>4 DEF ConnVersions, ConnAt
    <3>2. call' = [call EXCEPT !.left = call.left \ {r}] /\ chain' = chain
      BY <1>6, <2>4, <3>1 DEF Conn!Version, Conn!Both
    <3>3. ConnVersions'
      BY <1>6, <2>1, <2>4, <3>1, <3>2 DEF ConnVersions, ConnAt, Of, Fresh
    <3> QED BY <1>1, <3>2, <3>3 DEF ConnGoing
  <2> QED BY <2>2, <2>3, <2>4
<1>7. CASE Conn!SocketGoes
  <2>1. ConnVersions /\ call' = [call EXCEPT !.left = {"forever"}] /\ chain' = chain
    BY <1>7, ConnStages DEF Conn!SocketGoes
  <2>2. ConnForever'
    BY <2>1 DEF ConnVersions, ConnForever, ConnAt, Of
  <2> QED BY <1>1, <2>1, <2>2 DEF ConnGoing
<1>8. CASE Conn!ApiReady
  <2>1. ConnApi
    BY <1>8, ConnStages DEF Conn!ApiReady
  <2>2. call' = [call EXCEPT !.left = {"context"}] /\ chain' = [chain EXCEPT !.open = {"api"}]
    BY <1>8, <2>1 DEF Conn!ApiReady, ConnApi, ConnAt
  <2>3. /\ chain' \in Conn!Chains /\ chain'.open = {"api"} /\ chain'.client = chain.client /\ chain'.refused = chain.refused
        /\ chain'.node = chain.node /\ chain'.spec = chain.spec
    BY <1>0, <2>2 DEF Conn!Chains
  <2>4. ConnContext'
    BY <2>1, <2>2, <2>3 DEF ConnApi, ConnContext, ConnAt, Of, Fresh
  <2> QED BY <2>3, <2>4 DEF ConnInv, ConnGoing
(* What follows once the Context is there, and the first middleware.       *)
<1>9. ASSUME NEW lefts, ConnAt(lefts, {"api"}), Fresh => chain.node /\ chain.spec /\ chain.manager # "fails" /\ chain.v1 # "forbids",
             Conn!Goes(Conn!Then(chain.v2 # "none"))
      PROVE  ConnInv'
  <2>1. CASE chain.v2 # "none"
    <3>1. call' = [call EXCEPT !.left = {"v2"}] /\ chain' = chain
      BY <1>9, <2>1 DEF Conn!Then
    <3>2. Of(call, "connect", {NoArgs}, {"open", "node", "spec", "forever", "api", "context", "v1", "v2", "indexer"})
      BY <1>9 DEF ConnAt
    <3>3. /\ Of(call, "connect", {NoArgs}, {"open", "node", "spec", "forever", "api", "context", "v1", "v2", "indexer"})'
          /\ call'.left = {"v2"} /\ (Fresh' => Fresh)
      BY <3>1, <3>2 DEF Of, Fresh
    <3>4. chain'.open = {"api"} /\ chain'.client = "none" /\ chain'.refused = "nowhere"
      BY <1>9, <3>1 DEF ConnAt
    <3>5. ConnAt({{"v2"}}, {"api"})'
      BY <3>3, <3>4 DEF ConnAt
    <3>6. ConnV2'
      BY <1>9, <2>1, <3>1, <3>3, <3>5 DEF ConnV2
    <3> QED BY <1>1, <3>1, <3>6 DEF ConnGoing
  <2>2. CASE chain.v2 = "none"
    <3>1. call' = [call EXCEPT !.left = {}] /\ chain' = chain
      BY <1>9, <2>2 DEF Conn!Then
    <3>2. ConnReady'
      BY <1>9, <2>2, <3>1 DEF ConnReady, ConnAt, Of, Fresh, Conn!Welcome
    <3> QED BY <1>1, <3>1, <3>2 DEF ConnGoing
  <2> QED BY <2>1, <2>2
<1>10. CASE Conn!ContextReady
  <2>1. ConnContext /\ chain.open = {"api"} /\ chain.client = "none"
    BY <1>10, ConnStages DEF Conn!ContextReady, ConnContext, ConnAt
  <2>2. CASE chain.manager = "fails"
    BY <1>3, <1>10, <2>1, <2>2 DEF Conn!ContextReady
  <2>3. CASE chain.manager # "fails" /\ chain.v1 # "none"
    <3>1. call' = [call EXCEPT !.left = {"v1"}] /\ chain' = chain
      BY <1>10, <2>3 DEF Conn!ContextReady
    <3>2. ConnV1'
      BY <2>1, <2>3, <3>1 DEF ConnContext, ConnV1, ConnAt, Of, Fresh
    <3> QED BY <1>1, <3>1, <3>2 DEF ConnGoing
  <2>4. CASE chain.manager # "fails" /\ chain.v1 = "none"
    BY <1>9, <1>10, <2>1, <2>4 DEF Conn!ContextReady, ConnContext
  <2> QED BY <2>2, <2>3, <2>4
<1>11. CASE Conn!Heartbeat
  <2>1. ConnV1 /\ chain.open = {"api"} /\ chain.client = "none"
    BY <1>11, ConnStages DEF Conn!Heartbeat, ConnV1, ConnAt
  <2>2. CASE chain.v1 # "forbids"
    BY <1>9, <1>11, <2>1, <2>2 DEF Conn!Heartbeat, Conn!LetsIn, ConnV1
  <2>3. CASE chain.v1 = "forbids"
    BY <1>3, <1>11, <2>1, <2>3 DEF Conn!Heartbeat, Conn!LetsIn
  <2> QED BY <2>2, <2>3
<1>12. CASE Conn!Metadata
  <2>1. ConnV2 /\ chain.open = {"api"} /\ chain.client = "none"
    BY <1>12, ConnStages DEF Conn!Metadata, ConnV2, ConnAt
  <2>2. CASE chain.v2 = "works"
    <3>1. call' = [call EXCEPT !.left = {"indexer"}] /\ chain' = chain
      BY <1>12, <2>2 DEF Conn!Metadata, Conn!SameChain
    <3>2. ConnIndexer'
      BY <2>1, <2>2, <3>1 DEF ConnV2, ConnIndexer, ConnAt, Of, Fresh, Conn!Welcome
    <3> QED BY <1>1, <3>1, <3>2 DEF ConnGoing
  <2>3. CASE chain.v2 # "works"
    BY <1>3, <1>12, <2>1, <2>3 DEF Conn!Metadata, Conn!SameChain
  <2> QED BY <2>2, <2>3
<1>13. CASE Conn!IndexerVersion
  <2>1. ConnIndexer /\ chain.open = {"api"} /\ chain.client = "none"
    BY <1>13, ConnStages DEF Conn!IndexerVersion, ConnIndexer, ConnAt
  <2>2. CASE chain.v2 # "down"
    <3>1. call' = [call EXCEPT !.left = {}] /\ chain' = chain
      BY <1>13, <2>2 DEF Conn!IndexerVersion
    <3>2. ConnReady'
      BY <2>1, <3>1 DEF ConnIndexer, ConnReady, ConnAt, Of, Fresh, Conn!Welcome
    <3> QED BY <1>1, <3>1, <3>2 DEF ConnGoing
  <2>3. CASE chain.v2 = "down"
    BY <1>3, <1>13, <2>1, <2>3 DEF Conn!IndexerVersion
  <2> QED BY <2>2, <2>3
<1>14. CASE Conn!Return
  <2>1. ConnReady /\ call' = Idle /\ chain' = [chain EXCEPT !.client = "live"]
    BY <1>14, ConnStages DEF Conn!Return
  <2>2. chain' \in Conn!Chains /\ chain'.open = {"api"} /\ chain'.client = "live" /\ chain'.refused = "nowhere"
    BY <1>0, <2>1 DEF Conn!Chains, ConnReady, ConnAt
  <2> QED BY <2>1, <2>2 DEF ConnInv, ConnRests
<1>15. CASE Conn!Disconnect
  <2>1. ConnRests /\ chain.open = {"api"} /\ chain.refused = "nowhere"
    BY <1>15, ConnStages DEF Conn!Disconnect, ConnRests
  <2>2. chain' = [chain EXCEPT !.client = "leaving"]
    BY <1>15 DEF Conn!Disconnect
  <2>3. chain' \in Conn!Chains /\ chain'.open = {"api"} /\ chain'.client = "leaving" /\ chain'.refused = "nowhere"
    BY <1>0, <2>1, <2>2 DEF Conn!Chains
  <2>4. ConnLeaves'
    BY <1>15, <2>3 DEF Conn!Disconnect, ConnLeaves, Of
  <2> QED BY <2>3, <2>4 DEF ConnInv, ConnGoing
<1>16. CASE Conn!DelayEnds
  <2>1. ConnLeaves
    BY <1>16, ConnStages DEF Conn!DelayEnds
  <2>2. chain.open \ {"api"} = {}
    BY <2>1 DEF ConnLeaves
  <2>3. call' = Idle /\ chain' = [chain EXCEPT !.client = "gone", !.open = {}]
    BY <1>16, <2>2 DEF Conn!DelayEnds
  <2>4. chain' \in Conn!Chains /\ chain'.open = {} /\ chain'.client = "gone" /\ chain'.refused = "nowhere"
    BY <1>0, <2>1, <2>3 DEF Conn!Chains, ConnLeaves
  <2> QED BY <2>3, <2>4 DEF ConnInv, ConnRests
<1>17. CASE Conn!Upgrade
  <2> DEFINE after == [chain EXCEPT !.spec = ~@]
  <2>1. after \in Conn!Chains /\ after.open = chain.open /\ after.client = chain.client /\ after.refused = chain.refused
    BY <1>0 DEF Conn!Chains
  <2>2. Conn!Happens(after)
    BY <1>17 DEF Conn!Upgrade
  <2> HIDE DEF after
  <2> QED BY <2>1, <2>2, ConnStale
<1>18. ASSUME NEW how \in {"works", "forbids", "down"}, Conn!ChangeV1(how) PROVE ConnInv'
  <2> DEFINE after == [chain EXCEPT !.v1 = how]
  <2>1. after \in Conn!Chains /\ after.open = chain.open /\ after.client = chain.client /\ after.refused = chain.refused
    BY <1>0 DEF Conn!Chains
  <2>2. Conn!Happens(after)
    BY <1>18 DEF Conn!ChangeV1
  <2> HIDE DEF after
  <2> QED BY <2>1, <2>2, ConnStale
<1>19. ASSUME NEW how \in {"works", "foreign", "down"}, Conn!ChangeV2(how) PROVE ConnInv'
  <2> DEFINE after == [chain EXCEPT !.v2 = how]
  <2>1. after \in Conn!Chains /\ after.open = chain.open /\ after.client = chain.client /\ after.refused = chain.refused
    BY <1>0 DEF Conn!Chains
  <2>2. Conn!Happens(after)
    BY <1>19 DEF Conn!ChangeV2
  <2> HIDE DEF after
  <2> QED BY <2>1, <2>2, ConnStale
<1>20. CASE Conn!NodeVersion
  BY <1>6, <1>20 DEF Conn!NodeVersion
<1>21. CASE Conn!SpecVersion
  BY <1>6, <1>21 DEF Conn!SpecVersion
<1>22. CASE Conn!NodeErrs
  <2>1. Conn!RefusedAt("nodeError", chain.open) /\ chain.open = {"socket"} /\ chain.client = "none"
    BY <1>22, ConnStages DEF Conn!NodeErrs, ConnVersions, ConnAt
  <2> QED BY <1>3, <2>1
<1> QED
  BY <1>2, <1>4, <1>5, <1>7, <1>8, <1>10, <1>11, <1>12, <1>13, <1>14, <1>15, <1>16, <1>17, <1>18, <1>19, <1>20, <1>21, <1>22
     DEF Conn!Next

LEMMA ConnOK == ConnInv => Conn!TypeOK
BY DEF ConnInv, ConnRests, ConnGoing, ConnOpen, ConnVersions, ConnForever, ConnApi, ConnContext, ConnV1, ConnV2, ConnIndexer, ConnReady, ConnLeaves, ConnAt, Of, Idle, Conn!TypeOK

LEMMA ConnRefused == ConnInv /\ Conn!Next => Conn!TurnedAwayRightly
<1> SUFFICES ASSUME ConnInv, Conn!Next, Conn!TurnedAway, Fresh, call.op = "connect" PROVE ConnBarred
  BY DEF Conn!TurnedAwayRightly, ConnBarred, Conn!Fresh, Fresh
<1>0. chain \in Conn!Chains /\ call'.op = "none" /\ call.left # {}
  BY DEF ConnInv, Conn!TurnedAway, Conn!Ends, Conn!Built
<1>1. ASSUME NEW reads, Conn!Goes(reads) PROVE FALSE
  <2>1. DOMAIN call = {"op", "args", "read", "left", "stale"}
    BY DEF ConnInv, ConnRests, ConnGoing, ConnOpen, ConnVersions, ConnForever, ConnApi, ConnContext, ConnV1, ConnV2, ConnIndexer, ConnReady, ConnLeaves, ConnAt, Of, Idle
  <2> QED BY <1>0, <1>1, <2>1 DEF Conn!Goes
<1>2. ASSUME NEW after, Conn!Happens(after) PROVE FALSE
  <2>1. DOMAIN call = {"op", "args", "read", "left", "stale"}
    BY DEF ConnInv, ConnRests, ConnGoing, ConnOpen, ConnVersions, ConnForever, ConnApi, ConnContext, ConnV1, ConnV2, ConnIndexer, ConnReady, ConnLeaves, ConnAt, Of, Idle
  <2> QED BY <1>0, <1>2, <2>1 DEF Conn!Happens
<1>3. CASE Conn!SocketFails
  <2>1. chain' = [chain EXCEPT !.refused = "unreachable", !.open = chain.open \ {"socket"}]
    BY <1>3 DEF Conn!SocketFails, Conn!RefusedAt
  <2> QED BY <1>0, <2>1 DEF Conn!Chains, ConnBarred
<1>a. CASE Conn!NodeErrs
  <2>1. chain' = [chain EXCEPT !.refused = "nodeError", !.open = chain.open]
    BY <1>a DEF Conn!NodeErrs, Conn!RefusedAt
  <2> QED BY <1>0, <2>1 DEF Conn!Chains, ConnBarred
<1>4. ASSUME NEW r, NEW supported, Conn!Version(r, supported), supported PROVE FALSE
  <2>1. DOMAIN call = {"op", "args", "read", "left", "stale"}
    BY DEF ConnInv, ConnRests, ConnGoing, ConnOpen, ConnVersions, ConnForever, ConnApi, ConnContext, ConnV1, ConnV2, ConnIndexer, ConnReady, ConnLeaves, ConnAt, Of, Idle
  <2> QED BY <1>0, <1>4, <2>1 DEF Conn!Version, Conn!Goes
<1>5. CASE Conn!NodeVersion \/ Conn!SpecVersion
  <2>1. ~chain.node \/ ~chain.spec
    BY <1>4, <1>5 DEF Conn!NodeVersion, Conn!SpecVersion
  <2> QED BY <2>1 DEF Conn!Welcome, ConnBarred
<1>6. CASE Conn!ContextReady
  BY <1>1, <1>6 DEF Conn!ContextReady, Conn!Welcome, ConnBarred
<1>7. CASE Conn!Heartbeat
  BY <1>1, <1>7 DEF Conn!Heartbeat, Conn!LetsIn, Conn!Welcome, ConnBarred
<1>8. CASE Conn!Metadata
  <2>1. ConnV2
    BY <1>8, ConnStages DEF Conn!Metadata, Conn!Answers
  <2>2. chain.v2 # "works" /\ chain.v2 # "none"
    BY <1>1, <1>8, <2>1 DEF Conn!Metadata, Conn!SameChain, ConnV2
  <2> QED BY <2>2 DEF Conn!Welcome, ConnBarred
<1>9. CASE Conn!IndexerVersion
  BY <1>1, <1>9 DEF Conn!IndexerVersion, Conn!Welcome, ConnBarred
<1>10. CASE Conn!ApiReady
  <2>1. DOMAIN call = {"op", "args", "read", "left", "stale"}
    BY DEF ConnInv, ConnRests, ConnGoing, ConnOpen, ConnVersions, ConnForever, ConnApi, ConnContext, ConnV1, ConnV2, ConnIndexer, ConnReady, ConnLeaves, ConnAt, Of, Idle
  <2> QED BY <1>0, <1>10, <2>1 DEF Conn!ApiReady
<1> QED
  BY <1>0, <1>1, <1>2, <1>3, <1>a, <1>5, <1>6, <1>7, <1>8, <1>9, <1>10
     DEF Conn!Next, Conn!Connect, Conn!SocketOpens, Conn!SocketGoes, Conn!Return, Conn!Built, Conn!Disconnect, Conn!DelayEnds, Conn!Answers,
         Conn!Upgrade, Conn!ChangeV1, Conn!ChangeV2

(* Who is there was welcome, and nothing else is open.                     *)
LEMMA ConnRight == ConnInv => Conn!ConnectedRightly
<1> SUFFICES ASSUME ConnInv PROVE Conn!ConnectedRightly
  OBVIOUS
<1>1. Conn!Built /\ Conn!Fresh => Conn!Welcome \/ call.op = "disconnect"
  BY ConnStages DEF Conn!Built, Conn!Fresh, Fresh, ConnReady
<1>2. ASSUME call.op = "none"
      PROVE  chain.open = CASE chain.client = "live"                        -> {"api"}
                            [] chain.refused \in {"versions", "nodeError"} -> {"socket"}
                            [] chain.refused \in {"context", "v1", "v2"}   -> {"api"}
                            [] OTHER                                        -> {}
  BY <1>2, ConnStages DEF ConnRests
<1> QED BY <1>1, <1>2 DEF Conn!ConnectedRightly

LEMMA ConnDone == ConnInv /\ Conn!Next => Conn!ConnectedRightly'
<1>1. ConnInv /\ Conn!Next => ConnInv'
  BY ConnNext
<1>2. ConnInv' => Conn!ConnectedRightly'
  BY ConnRight, PTL
<1> QED BY <1>1, <1>2

-----------------------------------------------------------------------------
(* The parts together *)

LEMMA PartsInit == Init => PartsInv
BY TickersInit, TokensInit, DetailsInit, MetadataInit, FoliosInit, VenuesInit, DistInit, PointsInit,
   DefaultsInit, BalancesInit, SubsInit, AccountsInit, SubsidiesInit, MultiSigsInit, AgentsInit, LimitsInit,
   ComplianceInit, PermsInit, ClaimsInit, PagingInit, ConnInit DEF Init, PartsInv

LEMMA PartStays == [Next]_vars => part' = part
BY DEF Next, vars

LEMMA PartsStep ==
  ASSUME PartsInv, Next
  PROVE  /\ part' = part
         /\ part = "tickers" => TickersInv /\ Tickers!Next
         /\ part = "tokens" => TokensInv /\ Tokens!Next
         /\ part = "assetdetails" => DetailsInv /\ Details!Next
         /\ part = "metadata" => MetadataInv /\ Metadata!Next
         /\ part = "portfolios" => FoliosInv /\ Folios!Next
         /\ part = "venues" => VenuesInv /\ Venues!Next
         /\ part = "distributions" => DistInv /\ Dist!Next
         /\ part = "checkpoints" => PointsInv /\ Points!Next
         /\ part = "cadefaults" => DefaultsInv /\ Defaults!Next
         /\ part = "balances" => BalancesInv /\ Balances!Next
         /\ part = "subscriptions" => SubsInv /\ Subs!Next
         /\ part = "accounts" => AccountsInv /\ Accounts!Next
         /\ part = "subsidies" => SubsidiesInv /\ Subsidies!Next
         /\ part = "multisigs" => MultiSigsInv /\ MultiSigs!Next
         /\ part = "agents" => AgentsInv /\ Agents!Next
         /\ part = "restrictions" => LimitsInv /\ Limits!Next
         /\ part = "compliance" => ComplianceInv /\ Compliance!Next
         /\ part = "permissions" => PermsInv /\ Perms!Next
         /\ part = "claims" => ClaimsInv /\ Claims!Next
         /\ part = "paging" => PagingInv /\ Paging!Next
         /\ part = "connection" => ConnInv /\ Conn!Next
BY DEF PartsInv, Next

LEMMA PartsNext == PartsInv /\ [Next]_vars => PartsInv'
<1>1. ASSUME PartsInv, Next PROVE PartsInv'
  BY <1>1, PartsStep, TickersNext, TokensNext, DetailsNext, MetadataNext, FoliosNext, VenuesNext, DistNext,
     PointsNext, DefaultsNext, BalancesNext, SubsNext, AccountsNext, SubsidiesNext, MultiSigsNext,
     AgentsNext, LimitsNext, ComplianceNext, PermsNext, ClaimsNext, PagingNext, ConnNext DEF PartsInv
<1>2. ASSUME PartsInv, UNCHANGED vars PROVE PartsInv'
  BY <1>2, TickersStutter, TokensStutter, DetailsStutter, MetadataStutter, FoliosStutter, VenuesStutter,
     DistStutter, PointsStutter, DefaultsStutter, BalancesStutter, SubsStutter, AccountsStutter,
     SubsidiesStutter, MultiSigsStutter, AgentsStutter, LimitsStutter, ComplianceStutter, PermsStutter,
     ClaimsStutter, PagingStutter, ConnStutter DEF PartsInv, vars
<1> QED BY <1>1, <1>2

LEMMA PartsHold == Spec => []PartsInv
BY PartsInit, PartsNext, PTL DEF Spec

(* Whatever is asked of them, in whatever order others change the chain,   *)
(* each pallet keeps what it keeps, and a call stays one of its kind.      *)
THEOREM TypeCorrect == Spec => []TypeOK
<1>1. PartsInv => TypeOK
  BY TickersOK, TokensOK, DetailsOK, MetadataOK, FoliosOK, VenuesOK, DistOK, PointsOK, DefaultsOK,
     BalancesOK, SubsOK, AccountsOK, SubsidiesOK, MultiSigsOK, AgentsOK, LimitsOK, ComplianceOK, PermsOK,
     ClaimsOK, PagingOK, ConnOK DEF PartsInv, TypeOK
<1> QED BY <1>1, PartsHold, PTL

(* What is summed up along lists, and so left to model checking: how       *)
(* complex requirements are, by the SDK and by the chain, and how many     *)
(* claims the Identities on a page have.                                   *)
Summing  == part = "compliance" /\ call.op \in {"reset", "add", "change"}
Counting == part = "paging" /\ call.op = "counted"

(* Each preparation (prepareReserveTicker, prepareRedeemTokens and those   *)
(* of the other procedures) checks all that the chain checks: what it      *)
(* builds from the chain as it is when it is sent is accepted, but for     *)
(* what each module names.                                                 *)
THEOREM ChecksSuffice == Spec => [](Summing \/ RevertedOnlyIfStale)
<1>1. PartsInv => Summing \/ RevertedOnlyIfStale
  BY TickersOK, TokensOK, DetailsOK, MetadataOK, FoliosOK, DistOK, PointsOK, DefaultsOK, AccountsOK,
     SubsidiesOK, MultiSigsOK, AgentsOK, LimitsOK, ComplianceSuffices, PermsOK, ClaimsOK DEF PartsInv, RevertedOnlyIfStale, Summing
<1> QED BY <1>1, PartsHold, PTL

(* No preparation turns away on what it has read a caller whom the chain   *)
(* would have served as it is, but for the refusals each module names.     *)
THEOREM RefusedOnlyRightly == Spec /\ []~Summing => TurnedAwayRightly
<1> DEFINE Told ==
       /\ part = "tickers"       => Tickers!TurnedAwayRightly
       /\ part = "tokens"        => Tokens!TurnedAwayRightly
       /\ part = "assetdetails"  => Details!TurnedAwayRightly
       /\ part = "metadata"      => Metadata!TurnedAwayRightly
       /\ part = "portfolios"    => Folios!TurnedAwayRightly
       /\ part = "venues"        => Venues!TurnedAwayRightly
       /\ part = "distributions" => Dist!TurnedAwayRightly
       /\ part = "checkpoints"   => Points!TurnedAwayRightly
       /\ part = "cadefaults"    => Defaults!TurnedAwayRightly
       /\ part = "accounts"      => Accounts!TurnedAwayRightly
       /\ part = "subsidies"     => Subsidies!TurnedAwayRightly
       /\ part = "multisigs"     => MultiSigs!TurnedAwayRightly
       /\ part = "agents"        => Agents!TurnedAwayRightly
       /\ part = "restrictions"  => Limits!TurnedAwayRightly
       /\ part = "compliance"    => Compliance!TurnedAwayRightly
       /\ part = "permissions"   => Perms!TurnedAwayRightly
       /\ part = "claims"        => Claims!TurnedAwayRightly
       /\ part = "connection"    => Conn!TurnedAwayRightly
<1>1. PartsInv /\ ~Summing /\ [Next]_vars => [Told]_vars
  BY PartsStep, TickersRefused, TokensRefused, DetailsRefused, MetadataRefused, FoliosRefused,
     VenuesRefused, DistRefused, PointsRefused, DefaultsRefused, AccountsRefused, SubsidiesRefused,
     MultiSigsRefused, AgentsRefused, LimitsRefused, ComplianceRefused, PermsRefused, ClaimsRefused,
     ConnRefused DEF Summing
<1> HIDE DEF Told
<1>2. Spec /\ []~Summing => [][Told]_vars
  BY <1>1, PartsHold, PTL DEF Spec
<1> QED BY <1>2 DEF TurnedAwayRightly, Told

(* What is accepted does what the caller asked for, and nothing else, and  *)
(* what is told is what is, though others write the same things meanwhile; *)
(* of a list read page by page, whatever of it stays is read, and once.    *)
THEOREM DoneRightly == Spec /\ part # "compliance" /\ []~Counting => DoneAsAsked
<1> DEFINE Told ==
       /\ part = "tickers"       => Tickers!DoneAsAsked
       /\ part = "assetdetails"  => Details!DoneAsAsked
       /\ part = "venues"        => Venues!DoneAsAsked
       /\ part = "checkpoints"   => Points!ExpiryIsLast'
       /\ part = "cadefaults"    => Defaults!DoneAsAsked
       /\ part = "balances"      => Balances!AnswerIsTrue'
       /\ part = "subscriptions" => Subs!LastToldIsTrue'
       /\ part = "multisigs"     => MultiSigs!DoneAsAsked
       /\ part = "agents"        => Agents!DoneAsAsked
       /\ part = "restrictions"  => Limits!DoneAsAsked
       /\ part = "compliance"    => Compliance!DoneAsAsked
       /\ part = "permissions"   => Perms!DoneAsAsked
       /\ part = "claims"        => Claims!DoneAsAsked
       /\ part = "paging"        => Paging!PagesAreWhole' /\ Paging!PagesGoOn'
       /\ part = "connection"    => Conn!ConnectedRightly'
<1>1. PartsInv /\ part # "compliance" /\ (~Counting)' /\ [Next]_vars => [Told]_vars
  BY PartsStep, TickersDone, DetailsDone, VenuesDone, PointsDone, DefaultsDone, BalancesDone, SubsDone,
     MultiSigsDone, AgentsDone, LimitsDone, PermsDone, ClaimsDone, PagingDone, ConnDone DEF Counting
<1>2. part # "compliance" /\ [Next]_vars => (part # "compliance")'
  BY PartStays
<1>3. Spec /\ part # "compliance" => [](part # "compliance")
  BY <1>2, PTL DEF Spec
<1> HIDE DEF Told
<1>4. Spec /\ part # "compliance" /\ []~Counting => [][Told]_vars
  BY <1>1, <1>3, PartsHold, PTL DEF Spec
<1> QED BY <1>4 DEF DoneAsAsked, Told
===============================================================================
