-------------------------------- MODULE Accounts -------------------------------
(***************************************************************************)
(* The Accounts of an Identity: leaving the Identity, removing secondary   *)
(* Accounts, changing their permissions and freezing them, while the       *)
(* primary key is rotated and Accounts join, leave and are frozen.         *)
(***************************************************************************)
EXTENDS FollowedCall, Integers

CONSTANTS
  Keys,      \* Accounts
  First,     \* the one that is primary at first
  Scopes     \* permissions of secondary Accounts

Kinds == {"primary", "secondary", "none"}

(* Of each Account its place in the Identity and its permissions; are the  *)
(* secondary ones frozen?                                                  *)
Chains == [kind : [Keys -> Kinds], scope : [Keys -> Scopes], frozen : BOOLEAN]

Kind(k)    == chain.kind[k]
Primary(k) == Kind(k) = "primary"
Member(k)  == Kind(k) # "none"

TypeOK ==
  /\ chain \in Chains
  /\ \E k \in Keys : Primary(k) /\ \A l \in Keys \ {k} : ~Primary(l)
  /\ call.op \in {"none", "leave", "remove", "scope", "freeze"}
  /\ call.left \subseteq {"frozen", "records", "primary", "state"}

Init ==
  /\ chain \in [kind : {[k \in Keys |-> IF k = First THEN "primary" ELSE "secondary"]},
                scope : {[k \in Keys |-> s] : s \in Scopes}, frozen : BOOLEAN]
  /\ call = Idle

-----------------------------------------------------------------------------
(* One that signs belongs to the Identity; checkAuthorization asks whether *)
(* it is frozen.                                                           *)
Leave(signer) == Member(signer) /\ Calls("leave", [signer |-> signer], {"frozen", "records"})
Remove(signer, keys) ==
  Member(signer) /\ Calls("remove", [signer |-> signer, keys |-> keys], {"frozen", "primary", "records"})
SetScope(signer, keys, scope) ==
  /\ Member(signer)
  /\ Calls("scope", [signer |-> signer, keys |-> keys, scope |-> scope], {"frozen", "primary", "records"})
Freeze(signer, on) == Member(signer) /\ Calls("freeze", [signer |-> signer, on |-> on], {"frozen", "state"})

ReadFrozen ==
  /\ call.op # "none" /\ "frozen" \in call.left
  /\ Check("frozen", ~(chain.frozen /\ Kind(call.args.signer) = "secondary"))

(* The records of Accounts that are secondary ones.  Mutant: of any that   *)
(* belong to the Identity.                                                 *)
Secondary_Members(keys) == \A k \in keys : Member(k)
Secondary(keys) == \A k \in keys : Kind(k) = "secondary"
ReadRecords ==
  \/ Answers("leave", "records") /\ Check("records", Secondary({call.args.signer}))
  \/ call.op \in {"remove", "scope"} /\ "records" \in call.left /\ Check("records", Secondary(call.args.keys))

(* The primary Account is not to be removed, and is the only one that may  *)
(* change permissions.                                                     *)
ReadPrimary ==
  \/ Answers("remove", "primary") /\ Check("primary", \A k \in call.args.keys : ~Primary(k))
  \/ Answers("scope", "primary") /\ Check("primary", Primary(call.args.signer))

ReadState == Answers("freeze", "state") /\ Check("state", chain.frozen # call.args.on)

-----------------------------------------------------------------------------
(* The identity pallet (external to the SDK) *)

Accepted ==
  CASE call.op = "leave" -> Kind(call.args.signer) = "secondary"
    [] call.op \in {"remove", "scope"} ->
         Primary(call.args.signer) /\ \A k \in call.args.keys : Kind(k) = "secondary"
    [] call.op = "freeze" -> Primary(call.args.signer)
    [] OTHER -> TRUE

Gone(keys) == [chain EXCEPT !.kind = [k \in Keys |-> IF k \in keys THEN "none" ELSE @[k]]]
DispatchLeave  == call.op = "leave" /\ Dispatches(Accepted, Gone({call.args.signer}))
DispatchRemove == call.op = "remove" /\ Dispatches(Accepted, Gone(call.args.keys))
DispatchScope  ==
  /\ call.op = "scope"
  /\ Dispatches(Accepted, [chain EXCEPT
       !.scope = [k \in Keys |-> IF k \in call.args.keys THEN call.args.scope ELSE @[k]]])
DispatchFreeze == call.op = "freeze" /\ Dispatches(Accepted, [chain EXCEPT !.frozen = call.args.on])
(* Others: a rotation of the primary key, Accounts that join or leave, a   *)
(* freeze.                                                                 *)
Rotate(k) ==
  /\ ~Primary(k)
  /\ Happens([chain EXCEPT !.kind = [l \in Keys |-> IF l = k THEN "primary"
                                                    ELSE IF Primary(l) THEN "none" ELSE @[l]]])
Join(k)   == Kind(k) = "none" /\ Happens([chain EXCEPT !.kind[k] = "secondary"])
Part(k)   == Kind(k) = "secondary" /\ Happens(Gone({k}))
OthersFreeze == Happens([chain EXCEPT !.frozen = ~@])
CallsKeys ==
  \E signer \in Keys, keys \in SUBSET Keys \ {{}} :
    \/ Remove(signer, keys)
    \/ \E scope \in Scopes : SetScope(signer, keys, scope)
Next ==
  \/ \E signer \in Keys : Leave(signer) \/ \E on \in BOOLEAN : Freeze(signer, on)
  \/ CallsKeys
  \/ ReadFrozen \/ ReadRecords \/ ReadPrimary \/ ReadState
  \/ DispatchLeave \/ DispatchRemove \/ DispatchScope \/ DispatchFreeze
  \/ \E k \in Keys : Rotate(k) \/ Join(k) \/ Part(k)
  \/ OthersFreeze

-----------------------------------------------------------------------------
(* Properties *)

(* What was checked is only reverted when something changed, or when a     *)
(* secondary Account does what only the primary one may: that is asked for *)
(* its permissions alone.                                                  *)
RevertedOnlyIfStale ==
  Built /\ Fresh =>
    Accepted \/ (call.op \in {"remove", "freeze"} /\ Kind(call.args.signer) = "secondary")

(* Who is turned away could not have been served, is frozen, or asks for   *)
(* what is so already.                                                     *)
TurnedAwayRightly ==
  TurnedAway /\ Fresh =>
    \/ ~Accepted
    \/ call.op = "leave" /\ chain.frozen
    \/ call.op = "freeze" /\ chain.frozen = call.args.on
===============================================================================
