--------------------------------- MODULE Claims --------------------------------
(***************************************************************************)
(* Adding, editing and revoking claims, checked against what a middleware  *)
(* that may lag behind or be down knows of them, while the same issuer and *)
(* others make and revoke claims.  All claims are about one Identity.      *)
(***************************************************************************)
EXTENDS FollowedCall, Integers, FiniteSets

CONSTANTS
  Ids,        \* CDD ids
  Default,    \* DEFAULT_CDD_ID
  Passed      \* sets of claims that are passed

(* A claim: about a scope, of investor uniqueness, or a CDD claim with its *)
(* id.  A claim about an Identity there is not is no other's.              *)
Plain   == [kind |-> "plain", tag |-> "scope"]
Unique  == [kind |-> "unique", tag |-> "scope"]
Cdd(id) == [kind |-> "cdd", tag |-> id]
Unknown == [kind |-> "plain", tag |-> "nobody"]
Claims  == {Plain, Unique} \cup {Cdd(id) : id \in Ids}

(* What makes a claim the same as another: not the id of a CDD claim.      *)
(* Mutant: that as well.                                                   *)
Same_Id(c, d) == c = d
Same(c, d)  == c.kind = d.kind /\ (c.kind # "cdd" => c.tag = d.tag)
Kinds(claims)  == {c.kind : c \in claims}
CddIds(claims) == {c.tag : c \in {c \in claims : c.kind = "cdd"}}

(* The claims of the issuer that signs, and the ids of the CDD claims of   *)
(* others; has the investor a balance?  up, mirror: is there a middleware, *)
(* and what does it know?                                                  *)
Known(c) == [mine |-> c.mine, theirs |-> c.theirs]
Synced   == chain.mirror = Known(chain)

TypeOK ==
  /\ \A c \in {Known(chain), chain.mirror} :
       /\ c.mine \subseteq Claims /\ Cardinality(CddIds(c.mine)) <= 1 /\ c.theirs \subseteq Ids
       /\ Cardinality((CddIds(c.mine) \cup c.theirs) \ {Default}) <= 1
  /\ {chain.balance, chain.up} \subseteq BOOLEAN
  /\ call.op \in {"none", "add", "edit", "revoke"}
  /\ call.left \subseteq {"dids", "up", "mirror", "balances", "heartbeat", "issued"}

Init ==
  /\ chain \in {[mine |-> {}, theirs |-> {}, balance |-> FALSE, up |-> up,
                 mirror |-> [mine |-> {}, theirs |-> {}]] : up \in BOOLEAN}
  /\ call = Idle

-----------------------------------------------------------------------------
(* modifyClaims *)

Modify(op, claims) == Calls(op, [claims |-> claims], {"dids", "up"})

ReadDids == Answers(call.op, "dids") /\ Check("dids", Unknown \notin call.args.claims)

(* What each operation looks at once it is known which middleware there is.*)
Later ==
  CASE call.op = "revoke" -> {"balances"}
    [] call.op = "add" /\ "cdd" \in Kinds(call.args.claims) -> {"heartbeat"}
    [] OTHER -> {}
ReadUp ==
  /\ Answers(call.op, "up")
  /\ Keep("up", [up |-> chain.up], IF call.op # "add" /\ chain.up THEN {"mirror"} ELSE Later)

(* Only what the signing Identity issued may be edited or revoked.         *)
(* Mutant: only the first of what is passed is looked for.                 *)
Issued_Any(claims, known) == \E c \in claims : \E d \in known : Same(c, d)
Issued(claims, known) == \A c \in claims : \E d \in known : Same(c, d)
ReadMirror ==
  /\ Answers(call.op, "mirror") /\ "dids" \notin call.left
  /\ IF chain.up /\ Issued(call.args.claims, chain.mirror.mine)
       THEN Keep("mirror", call.read, Later) ELSE Refuse

(* Who holds tokens keeps the claim.                                       *)
ReadBalances ==
  /\ Answers("revoke", "balances") /\ "dids" \notin call.left
  /\ Check("balances", chain.balance => Unique \notin call.args.claims)

(* issuedClaims, of the middleware or of the chain: an id that was issued, *)
(* the first in the answer, may not clash.  Mutant: even with the default. *)
Clash_Default(id, other) == id # other
Clash(id, other) == id # other /\ Default \notin {id, other}
ReadHeartbeat ==
  /\ Answers("add", "heartbeat") /\ "dids" \notin call.left
  /\ Keep("heartbeat", [up |-> chain.up], {"issued"})
ReadIssued ==
  /\ Answers("add", "issued")
  /\ LET known == IF call.read.up THEN chain.mirror ELSE chain
         ids   == CddIds(known.mine) \cup known.theirs
     IN IF call.read.up /\ ~chain.up THEN Refuse
        ELSE IF ids = {} THEN Keep("issued", call.read, {})
        ELSE \E first \in ids :
               Check("issued", \A id \in CddIds(call.args.claims) : ~Clash(id, first))

-----------------------------------------------------------------------------
(* The identity pallet (external to the SDK) *)

(* The CDD claims of an Identity have one id, the default one apart.       *)
AcceptsClaims(claims) ==
  /\ Unique \notin claims
  /\ Cardinality((CddIds(claims \cup chain.mine) \cup chain.theirs) \ {Default}) <= 1
AcceptsRevoke(claims) ==
  /\ \A c \in claims : \E d \in chain.mine : Same(c, d)
  /\ chain.balance => Unique \notin claims

Accepted ==
  IF call.op = "revoke" THEN AcceptsRevoke(call.args.claims) ELSE AcceptsClaims(call.args.claims)

(* addClaim adds a claim or takes the place of the same one.               *)
Without(claims) == {c \in chain.mine : \A d \in claims : ~Same(c, d)}
DispatchClaims ==
  /\ call.op \in {"add", "edit"}
  /\ Dispatches(Accepted, [chain EXCEPT !.mine = Without(call.args.claims) \cup call.args.claims])
DispatchRevoke ==
  /\ call.op = "revoke"
  /\ Dispatches(Accepted, [chain EXCEPT !.mine = Without(call.args.claims)])

(* Others change something only when the middleware has caught up.         *)
OthersClaim(c) ==
  /\ Synced /\ (c.kind = "cdd" => AcceptsClaims({c}))
  /\ Happens([chain EXCEPT !.mine = Without({c}) \cup {c}])
OthersRevoke(c) ==
  Synced /\ AcceptsRevoke({c}) /\ Happens([chain EXCEPT !.mine = Without({c})])
OthersCdd(id) ==
  /\ Synced
  /\ \/ id \in chain.theirs /\ Happens([chain EXCEPT !.theirs = @ \ {id}])
     \/ AcceptsClaims({Cdd(id)}) /\ Happens([chain EXCEPT !.theirs = @ \cup {id}])
(* Who holds tokens has the claim.                                         *)
OthersTrade == Unique \in chain.mine /\ Happens([chain EXCEPT !.balance = ~@])
Outage      == Happens([chain EXCEPT !.up = ~@])
Sync        == Happens([chain EXCEPT !.mirror = Known(chain)])

Next ==
  \/ \E op \in {"add", "edit", "revoke"}, claims \in Passed : Modify(op, claims)
  \/ ReadDids \/ ReadUp \/ ReadMirror \/ ReadBalances \/ ReadHeartbeat \/ ReadIssued
  \/ DispatchClaims \/ DispatchRevoke
  \/ \E c \in Claims : OthersClaim(c)
  \/ \E c \in chain.mine : OthersRevoke(c)
  \/ \E id \in Ids : OthersCdd(id)
  \/ OthersTrade \/ Outage \/ Sync

-----------------------------------------------------------------------------
(* Properties *)

(* What was checked is only reverted when something changed, or when the   *)
(* middleware lags behind or is down; but a claim of investor uniqueness   *)
(* cannot be added so, the id of a CDD claim is not compared when it is    *)
(* edited, and only with one of those issued when it is added.             *)
RevertedOnlyIfStale ==
  Built /\ Fresh =>
    \/ Accepted
    \/ call.op # "add" /\ ~chain.up
    \/ ~Synced
    \/ call.op # "revoke" /\ Unique \in call.args.claims
    \/ call.op = "edit" /\ "cdd" \in Kinds(call.args.claims)
    \/ call.op = "add" /\ Default \in CddIds(chain.mine) \cup chain.theirs

(* Who is turned away would have been reverted, or edits what was never    *)
(* issued, or is known to the chain but not yet to the middleware.         *)
TurnedAwayRightly ==
  TurnedAway /\ Fresh =>
    \/ Unknown \in call.args.claims
    \/ ~Accepted
    \/ call.op = "edit" /\ ~Issued(call.args.claims, chain.mine)
    \/ ~Synced

(* An edit makes no claim that was not there, as long as there is a        *)
(* middleware to ask and nothing changes.                                  *)
DoneAsAsked ==
  Built /\ Ends /\ Fresh /\ call.op = "edit" /\ chain.up /\ Synced =>
    Kinds(chain'.mine) = Kinds(chain.mine)
===============================================================================
