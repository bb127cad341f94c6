---------------------------- MODULE Authorizations ----------------------------
(***************************************************************************)
(* Authorization requests: the procedures that issue them (inviteAccount,  *)
(* rotatePrimaryKey, attestPrimaryKeyRotation, setCustodian,               *)
(* inviteExternalAgent, transferTickerOwnership, transferAssetOwnership,   *)
(* subsidizeAccount) and those that accept or remove one.  One call of the *)
(* SDK is followed, cut at its reads of the chain; its authorization is    *)
(* checked beside its preparation, in any order.  Meanwhile others issue   *)
(* and consume requests, time passes, CDD claims are revoked and tickers   *)
(* become Assets.                                                          *)
(***************************************************************************)
EXTENDS Naturals, Sequences, FiniteSets

CONSTANTS
  Accounts, Identities, NoIdentity,
  InitialPrimary,   \* primary key of each identity at first
  CddProviders,     \* identities that may attest a rotation
  Worlds,           \* which requests a behaviour is about
  MaxRequests,      \* bound on the requests ever made
  MaxTime           \* bound on the clock

Never == 0          \* the expiry of a request without one

(* subject: the portfolio, the ticker, the allowance, or the identity      *)
(* whose rotation is attested; asObject: was the target passed as an       *)
(* Account, not as an address?                                             *)
Types == {"JoinIdentity", "RotatePrimaryKey", "RotatePrimaryKeyToSecondary",
          "AttestPrimaryKeyRotation", "PortfolioCustody", "BecomeAgent", "TransferTicker",
          "TransferAssetOwnership", "AddMultiSigSigner", "AddRelayerPayingKey"}
Things == {"portfolio", "ticker", "agency", "small", "large", "none"}
Offer  == [type : Types, target : Accounts \cup Identities, subject : Things \cup Identities,
           expiry : 0 .. MaxTime, asObject : BOOLEAN]

ASSUME PartiesAssumption ==
  /\ NoIdentity \notin Identities /\ Accounts \cap Identities = {}
  /\ InitialPrimary \in [Identities -> Accounts] /\ CddProviders \subseteq Identities
  /\ \A i, j \in Identities : InitialPrimary[i] = InitialPrimary[j] => i = j
ASSUME WorldsAssumption == Worlds \subseteq SUBSET Offer /\ Worlds # {}

(* What is owned is offered to an Identity, what a key gets to an Account; *)
(* the signer of a MultiSig may be either.                                 *)
Given == {"PortfolioCustody", "TransferTicker", "TransferAssetOwnership", "BecomeAgent"}
Fits(w) ==
  /\ w.type \in Given => w.target \in Identities
  /\ w.type \notin Given \cup {"AddMultiSigSigner"} => w.target \in Accounts
ASSUME TargetsAssumption == \A w \in UNION Worlds : Fits(w)
ASSUME BoundsAssumption == MaxRequests \in Nat /\ MaxTime \in Nat \ {0}

VARIABLES
  world,     \* the requests this behaviour is about
  now,       \* the clock
  requests,  \* every request made, by authId
  keys,      \* the identity of each account
  primary,   \* the primary key of each identity
  signers,   \* accounts that sign for a MultiSig
  cdd,       \* identities with a valid CDD claim
  holder,    \* the owner of the ticker or Asset, the custodian of the portfolio
  agents,    \* external agents of the Asset
  ticker,    \* state of the ticker
  call       \* the call that is followed

facts == <<requests, keys, primary, signers, cdd, holder, agents, ticker>>
chain == <<world, now, facts>>
vars  == <<chain, call>>

Request == [type : Types, issuer : Identities, target : Accounts \cup Identities,
            subject : Things \cup Identities, expiry : 0 .. MaxTime, open : BOOLEAN]

(* at, granted: where preparation and authorization stand; attest: the     *)
(* second request of acceptPrimaryKeyRotation, or 0; found: requests read  *)
(* from authorizationsGiven; empty: no transaction is left to send; stale  *)
(* (history): has the chain changed since the call began?                  *)
Idle == [at |-> "idle", granted |-> FALSE, by |-> InitialPrimary[CHOOSE i \in Identities : TRUE],
         op |-> "accept", id |-> 0, attest |-> 0, want |-> {}, found |-> {},
         k |-> 0, empty |-> FALSE, stale |-> FALSE]

TypeOK ==
  /\ world \in Worlds /\ now \in 1 .. MaxTime
  /\ requests \in Seq(Request) /\ Len(requests) <= MaxRequests
  /\ keys \in [Accounts -> Identities \cup {NoIdentity}]
  /\ primary \in [Identities -> Accounts]
  /\ signers \subseteq Accounts /\ cdd \subseteq Identities
  /\ holder \in Identities /\ agents \subseteq Identities
  /\ ticker \in {"free", "reserved", "asset"}
  /\ \A i \in Identities : keys[primary[i]] = i
  /\ call.by \in Accounts /\ call.found \subseteq DOMAIN requests
  /\ {call.id, call.attest} \subseteq 0 .. Len(requests)

Init ==
  /\ world \in Worlds /\ now = 1 /\ requests = <<>>
  /\ primary = InitialPrimary
  /\ keys = [a \in Accounts |->
               IF \E i \in Identities : InitialPrimary[i] = a
                 THEN CHOOSE i \in Identities : InitialPrimary[i] = a ELSE NoIdentity]
  /\ signers = {} /\ cdd = Identities
  /\ holder \in Identities /\ agents = {} /\ ticker \in {"reserved", "asset"}
  /\ call = Idle

-----------------------------------------------------------------------------
(* isExpired, and the filter of createAuthorizationRequests: at the moment *)
(* of its expiry a request is neither expired nor fetched.                 *)
Expired(r) == r.expiry # Never /\ r.expiry < now
Fetched(r) == r.open /\ (r.expiry = Never \/ r.expiry > now)

Goto(stage) == call' = [call EXCEPT !.at = stage] /\ UNCHANGED chain
Refuse      == call' = Idle /\ UNCHANGED chain
Check(test, stage) == IF test THEN Goto(stage) ELSE Refuse

R       == requests[call.id]
Signer  == keys[call.by]
TargetOf(r) == r.target = IF r.target \in Accounts THEN call.by ELSE Signer

-----------------------------------------------------------------------------
(* Issuing a request *)

SentOnes     == {"JoinIdentity", "RotatePrimaryKey", "AddRelayerPayingKey"}
ReceivedOnes == {"AttestPrimaryKeyRotation", "PortfolioCustody"}

(* The procedures of the types without a query of pending requests only    *)
(* look at the state of what they are about.                               *)
Issue(a) ==
  /\ call.at = "idle"
  /\ \E want \in world :
       /\ want.type \in SentOnes \cup ReceivedOnes \cup Given
       /\ call' = [Idle EXCEPT !.at = "signer", !.by = a, !.op = "issue", !.want = {want}]
  /\ UNCHANGED chain

Want == CHOOSE w \in call.want : TRUE

(* getSigningIdentity; then the requests are asked for.                    *)
ReadSigner ==
  /\ call.at = "signer"
  /\ Check(Signer # NoIdentity,
           IF Want.type \in SentOnes THEN "sent"
           ELSE IF Want.type \in ReceivedOnes THEN "received" ELSE "state")

(* getSent: the ids of the requests given, then the requests themselves;   *)
(* one that is gone by then is unwrapped all the same, which throws.       *)
(* Mutant: the ids are taken for positions from zero.                      *)
GivenBy_FromZero(i) == {n - 1 : n \in {m \in DOMAIN requests : requests[m].open /\ requests[m].issuer = i}}
GivenBy(i) == {n \in DOMAIN requests : requests[n].open /\ requests[n].issuer = i}

ReadSent ==
  /\ call.at = "sent"
  /\ call' = [call EXCEPT !.at = "multi", !.found = GivenBy(Signer)]
  /\ UNCHANGED chain

(* Is a request r for the same as is asked for now (w), by issuer i?       *)
(* rotatePrimaryKey compares an address with what it was passed, which is  *)
(* never equal to an Account.  Mutant: inviteAccount does the same.        *)
SameInvitation_Passed(r, w, i) == r.issuer = i /\ r.target = w.target /\ ~w.asObject
SameInvitation(r, w, i)  == r.issuer = i /\ r.target = w.target
SameRotation(r, w, i)    == r.issuer = i /\ r.target = w.target /\ ~w.asObject
SameAttestation(r, w, i) == r.target = w.target /\ r.subject = w.subject
SameCustody(r, w, i)     == r.issuer = i /\ r.target = w.target /\ r.subject = w.subject
SameSubsidy(r, w, i)     == r.issuer = i /\ r.target = w.target /\ r.subject = w.subject

Same(r, w, i) ==
  /\ r.type = w.type
  /\ CASE w.type = "JoinIdentity"             -> SameInvitation(r, w, i)
       [] w.type = "RotatePrimaryKey"         -> SameRotation(r, w, i)
       [] w.type = "AttestPrimaryKeyRotation" -> SameAttestation(r, w, i)
       [] w.type = "PortfolioCustody"         -> SameCustody(r, w, i)
       [] w.type = "AddRelayerPayingKey"      -> SameSubsidy(r, w, i)

ReadMulti ==
  /\ call.at = "multi"
  /\ Check(/\ \A i \in call.found : requests[i].open
           /\ ~ \E i \in call.found : Fetched(requests[i]) /\ Same(requests[i], Want, Signer)
           /\ Want.type = "JoinIdentity" => keys[Want.target] = NoIdentity,
           "built")

ReadReceived ==
  /\ call.at = "received"
  /\ Check(~ \E i \in DOMAIN requests : Fetched(requests[i]) /\ Same(requests[i], Want, Signer),
           "built")

NotAnAgent(w) == w.type = "BecomeAgent" => w.target \notin agents
NotAnAsset(w) == w.type = "TransferTicker" => ticker # "asset"

ReadState ==
  call.at = "state" /\ Check(NotAnAgent(Want) /\ NotAnAsset(Want), "built")

(* Who may give something: its owner, and for an Asset its agents as well  *)
(* (those with all permissions).                                           *)
MayGive(i, type) ==
  holder = i \/ (type \in {"TransferAssetOwnership", "BecomeAgent"} /\ i \in agents)

(* The roles and permissions asked for.                                    *)
MayIssue(i, w) ==
  /\ w.type \in Given => MayGive(i, w.type)
  /\ w.type = "AttestPrimaryKeyRotation" => i \in CddProviders

-----------------------------------------------------------------------------
(* Accepting and removing a request *)

Consume(a, op, id) ==
  /\ call.at = "idle"
  /\ call' = [Idle EXCEPT !.at = "live", !.by = a, !.op = op, !.id = id,
                          !.stale = ~requests[id].open]
  /\ UNCHANGED chain

(* The procedure accept() and remove() choose.  Mutant: accept() takes the *)
(* one of remove().                                                        *)
Family_RemoveAlways(type, op) ==
  IF type \in {"JoinIdentity", "RotatePrimaryKeyToSecondary"} THEN "key"
  ELSE IF type = "AddMultiSigSigner" THEN "multisig"
  ELSE IF type = "AddRelayerPayingKey" THEN "relayer" ELSE "general"
Family(type, op) ==
  IF type \in {"JoinIdentity", "RotatePrimaryKeyToSecondary"}
     \/ (type = "RotatePrimaryKey" /\ op = "accept") THEN "key"
  ELSE IF type = "AddMultiSigSigner" THEN "multisig"
  ELSE IF type = "AddRelayerPayingKey" THEN "relayer" ELSE "general"

Procedure == Family(R.type, call.op)

(* Only a request that is accepted is looked at before.                    *)
Validate == Goto(IF call.op = "remove" THEN "built" ELSE "exists")

(* An expired request is silently left out of the general procedure, which *)
(* has no extrinsic for accepting an attestation.                          *)
BeginGeneral ==
  /\ call.at = "live" /\ Procedure = "general"
  /\ IF Expired(R)
       THEN call' = [call EXCEPT !.at = "built", !.empty = TRUE] /\ UNCHANGED chain
     ELSE IF call.op = "accept" /\ R.type = "AttestPrimaryKeyRotation" THEN Refuse
     ELSE Validate

BeginKey      == call.at = "live" /\ Procedure = "key" /\ Validate
BeginMultiSig == call.at = "live" /\ Procedure = "multisig" /\ Validate
BeginRelayer  == call.at = "live" /\ Procedure = "relayer" /\ Validate

(* getAuthorization of each procedure.  Whoever is asked for permissions   *)
(* needs an Identity.                                                      *)
Party(r) == TargetOf(r) \/ (call.op = "remove" /\ r.issuer = Signer)

(* Mutant: whoever has no Identity is not asked.                           *)
GrantedGeneral_AnyStranger(r) == Signer = NoIdentity \/ Expired(r) \/ Party(r)
GrantedGeneral(r)  == Signer # NoIdentity /\ (Expired(r) \/ Party(r))
GrantedKey(r)      == TargetOf(r) \/ (Signer # NoIdentity /\ Party(r))
GrantedMultiSig(r) == TargetOf(r) \/ (Signer # NoIdentity /\ Party(r))
GrantedRelayer(r)  == (call.op = "remove" => Signer # NoIdentity) /\ Party(r)

Granted(r) ==
  CASE call.op = "issue"      -> Signer # NoIdentity /\ MayIssue(Signer, Want)
    [] call.op = "rotate"     -> TRUE
    [] OTHER ->
         CASE Procedure = "general"  -> GrantedGeneral(r)
           [] Procedure = "key"      -> GrantedKey(r)
           [] Procedure = "multisig" -> GrantedMultiSig(r)
           [] Procedure = "relayer"  -> GrantedRelayer(r)

Authorize ==
  /\ call.at \notin {"idle", "live"} /\ ~call.granted
  /\ IF Granted(IF call.id = 0 THEN {} ELSE R)
       THEN call' = [call EXCEPT !.granted = TRUE] /\ UNCHANGED chain
       ELSE Refuse

(* assertAuthorizationRequestValid: exists, isExpired, and what the type   *)
(* asks for, one read after the other.                                     *)
Both == {requests[i] : i \in {call.id, call.attest} \ {0}}

(* Mutant: the expiry is left to the caller.                               *)
Alive_Exists(r) == r.open
Alive(r) == r.open /\ ~Expired(r)

ReadExists == call.at = "exists" /\ Check(\A r \in Both : Alive(r), "valid")

NotASigner(r) == r.target \in Accounts => keys[r.target] = NoIdentity /\ r.target \notin signers
JoinOrRotate(r) == <<r.issuer \in cdd, r.target \in Accounts /\ keys[r.target] = NoIdentity>>
SubsidyParties(r) == <<keys[r.target] # NoIdentity, {keys[r.target], r.issuer} \subseteq cdd>>

Validations(r) ==
  CASE r.type = "RotatePrimaryKey"         -> <<r.target \in Accounts>>
    [] r.type = "AttestPrimaryKeyRotation" -> <<r.issuer \in CddProviders>>
    [] r.type = "TransferTicker"           -> <<ticker = "reserved">>
    [] r.type = "TransferAssetOwnership"   -> <<ticker = "asset">>
    [] r.type = "AddMultiSigSigner"        -> <<NotASigner(r)>>
    [] r.type \in {"JoinIdentity", "RotatePrimaryKeyToSecondary"} -> JoinOrRotate(r)
    [] r.type = "AddRelayerPayingKey"      -> SubsidyParties(r)
    [] OTHER                               -> <<TRUE>>

ReadValidity ==
  LET next == call.k + 1
      last == \A r \in Both : next >= Len(Validations(r))
  IN  /\ call.at = "valid"
      /\ IF \A r \in Both : next <= Len(Validations(r)) => Validations(r)[next]
           THEN call' = [call EXCEPT !.k = next, !.at = IF last THEN "built" ELSE "valid"]
                /\ UNCHANGED chain
           ELSE Refuse

(* acceptPrimaryKeyRotation: the signing account's own requests are        *)
(* fetched by their ids; one that has expired comes back undefined.        *)
AcceptRotation(a, id, attest) ==
  /\ call.at = "idle" /\ requests[id].type = "RotatePrimaryKey"
  /\ attest # 0 => requests[attest].type = "AttestPrimaryKeyRotation"
                   /\ requests[attest].subject = requests[id].issuer
  /\ call' = [Idle EXCEPT !.at = "owner", !.by = a, !.op = "rotate", !.id = id, !.attest = attest]
  /\ UNCHANGED chain

FetchOwnerAuth ==
  /\ call.at = "owner" /\ Check(Fetched(R) /\ R.target = call.by,
                                IF call.attest = 0 THEN "exists" ELSE "attest")

FetchCddAuth ==
  /\ call.at = "attest"
  /\ Check(Fetched(requests[call.attest]) /\ requests[call.attest].target = call.by, "exists")

(* paidForBy.  Mutant: nobody pays for the target that removes.            *)
Payer_SignerRemoves ==
  IF call.op = "rotate" \/ (call.op = "accept" /\ Procedure # "general") THEN "issuer" ELSE "signer"
Payer ==
  IF \/ call.op = "rotate"
     \/ call.op \in {"accept", "remove"} /\ Procedure # "general"
        /\ (call.op = "remove" => R.target = call.by)
    THEN "issuer" ELSE "signer"

-----------------------------------------------------------------------------
(* The identity pallet and those it calls (external to the SDK) *)

Matches(a, r) == r.target = IF r.target \in Accounts THEN a ELSE keys[a]

(* What is given is taken from the issuer, who must still have it, and a   *)
(* new primary key is no identity's yet: neither is looked at by the SDK.  *)
StillPossible(r) ==
  /\ r.type \in Given => MayGive(r.issuer, r.type)
  /\ r.type = "RotatePrimaryKey" => keys[r.target] = NoIdentity

AcceptsConsume(a, r) ==
  /\ r.open /\ ~Expired(r) /\ Matches(a, r) /\ StillPossible(r)
  /\ r.type = "TransferTicker" => ticker = "reserved"
  /\ r.type = "TransferAssetOwnership" => ticker = "asset"
  /\ r.type \in {"JoinIdentity", "RotatePrimaryKeyToSecondary"} =>
       keys[a] = NoIdentity /\ r.issuer \in cdd
  /\ r.type = "AttestPrimaryKeyRotation" => r.issuer \in CddProviders
  /\ r.type = "AddMultiSigSigner" /\ r.target = a => keys[a] = NoIdentity /\ a \notin signers
  /\ r.type = "AddRelayerPayingKey" => {keys[a], r.issuer} \subseteq cdd

AcceptsRemove(a, r) == r.open /\ (Matches(a, r) \/ r.issuer = keys[a])

Close(ids) == requests' = [i \in DOMAIN requests |->
                             IF i \in ids THEN [requests[i] EXCEPT !.open = FALSE] ELSE requests[i]]

(* The new key joins the issuer's identity, in place of its primary key    *)
(* (which is unlinked) or beside it.                                       *)
TakesEffect(a, r) ==
  /\ keys' = CASE r.type = "RotatePrimaryKey" ->
                    [keys EXCEPT ![primary[r.issuer]] = NoIdentity, ![a] = r.issuer]
               [] r.type \in {"JoinIdentity", "RotatePrimaryKeyToSecondary"} ->
                    [keys EXCEPT ![a] = r.issuer]
               [] OTHER -> keys
  /\ primary' = IF r.type \in {"RotatePrimaryKey", "RotatePrimaryKeyToSecondary"}
                  THEN [primary EXCEPT ![r.issuer] = a] ELSE primary
  /\ signers' = IF r.type = "AddMultiSigSigner" THEN signers \cup ({r.target} \cap Accounts) ELSE signers
  /\ holder'  = IF r.type \in Given \ {"BecomeAgent"} THEN r.target ELSE holder
  /\ agents'  = IF r.type = "BecomeAgent" THEN agents \cup {r.target} ELSE agents
  /\ UNCHANGED <<world, now, cdd, ticker>>

Add(i, w) ==
  /\ Len(requests) < MaxRequests
  /\ requests' = Append(requests, [type |-> w.type, issuer |-> i, target |-> w.target,
                                   subject |-> w.subject, expiry |-> w.expiry, open |-> TRUE])
  /\ UNCHANGED <<world, now, keys, primary, signers, cdd, holder, agents, ticker>>

(* A call under way grows stale when the chain changes under it.           *)
Aging ==
  IF call.at = "idle" THEN UNCHANGED call
  ELSE call' = [call EXCEPT !.stale = \/ @ \/ facts' # facts
                  \/ \E r \in Both : r.expiry \in {now, now'} /\ now' # now]

(* The transaction is dispatched: it takes effect or is reverted.          *)
Ready    == call.at = "built" /\ call.granted
Accepted ==
  \/ call.empty \/ call.op = "issue"
  \/ call.op = "remove" /\ AcceptsRemove(call.by, R)
  \/ call.op \in {"accept", "rotate"} /\ \A r \in Both : AcceptsConsume(call.by, r)

Revert == Ready /\ ~Accepted /\ Refuse

DispatchNothing == Ready /\ call.empty /\ Refuse

DispatchIssue ==
  Ready /\ call.op = "issue" /\ Signer # NoIdentity /\ Add(Signer, Want) /\ call' = Idle

DispatchRemove ==
  /\ Ready /\ call.op = "remove" /\ ~call.empty /\ Accepted
  /\ Close({call.id}) /\ call' = Idle
  /\ UNCHANGED <<world, now, keys, primary, signers, cdd, holder, agents, ticker>>

DispatchAccept ==
  /\ Ready /\ call.op \in {"accept", "rotate"} /\ ~call.empty /\ Accepted
  /\ Close({call.id, call.attest}) /\ TakesEffect(call.by, R) /\ call' = Idle

(* What others do.                                                         *)
OthersIssue(i) ==
  /\ \E w \in world : w.target # i /\ MayIssue(i, w) /\ Add(i, w)
  /\ Aging

OthersAccept(a, id) ==
  /\ AcceptsConsume(a, requests[id]) /\ requests[id].type # "AttestPrimaryKeyRotation"
  /\ Close({id}) /\ TakesEffect(a, requests[id]) /\ Aging

OthersRemove(a, id) ==
  /\ AcceptsRemove(a, requests[id])
  /\ Close({id}) /\ UNCHANGED <<world, now, keys, primary, signers, cdd, holder, agents, ticker>>
  /\ Aging

About(types) == \E w \in world : w.type \in types

RevokeCdd(i) ==
  /\ About({"JoinIdentity", "RotatePrimaryKeyToSecondary", "AddRelayerPayingKey"})
  /\ cdd = Identities /\ cdd' = cdd \ {i}
  /\ UNCHANGED <<world, now, requests, keys, primary, signers, holder, agents, ticker>>
  /\ Aging

(* A reservation is used, or lapses.                                       *)
ChangeTicker ==
  /\ About({"TransferTicker"})
  /\ ticker = "reserved" /\ ticker' \in {"asset", "free"}
  /\ UNCHANGED <<world, now, requests, keys, primary, signers, cdd, holder, agents>>
  /\ Aging

Tick ==
  /\ now < MaxTime /\ now' = now + 1
  /\ UNCHANGED <<world, facts>> /\ Aging

-----------------------------------------------------------------------------
Prepare ==
  \/ ReadSigner \/ ReadSent \/ ReadMulti \/ ReadReceived \/ ReadState
  \/ BeginGeneral \/ BeginKey \/ BeginMultiSig \/ BeginRelayer \/ ReadExists \/ ReadValidity \/ FetchOwnerAuth \/ FetchCddAuth
  \/ Authorize

Next ==
  \/ Prepare \/ Revert \/ DispatchNothing \/ DispatchIssue \/ DispatchRemove \/ DispatchAccept
  \/ \E a \in Accounts :
       \/ Issue(a)
       \/ \E id \in DOMAIN requests :
            \/ \E op \in {"accept", "remove"} : Consume(a, op, id)
            \/ \E attest \in {0} \cup DOMAIN requests : AcceptRotation(a, id, attest)
            \/ OthersAccept(a, id) \/ OthersRemove(a, id)
  \/ \E i \in Identities : OthersIssue(i) \/ RevokeCdd(i)
  \/ ChangeTicker \/ Tick

Spec == Init /\ [][Next]_vars

-----------------------------------------------------------------------------
(* Properties *)

Fresh == ~call.stale
TurnedAway == call.at # "idle" /\ ~Ready /\ call'.at = "idle"

(* A request is accepted by its target only, and removed by its target or  *)
(* its issuer only: whoever else is turned away, not just reverted.  An    *)
(* account without an Identity cannot pay fees: what it is allowed to send *)
(* is paid for by the issuer.                                              *)
OnlyParties ==
  Ready /\ Fresh /\ ~call.empty /\ call.op \in {"accept", "remove", "rotate"} =>
    /\ Matches(call.by, R) \/ (call.op = "remove" /\ R.issuer = Signer)
    /\ Accepted /\ Signer = NoIdentity => Payer = "issuer"

(* What the procedures let through is only reverted when the chain changed *)
(* since the call began, or when the issuer lost what it offers, or the    *)
(* new primary key is some identity's already.                             *)
RevertedOnlyIfStale ==
  Ready /\ Fresh /\ (call.op \in {"accept", "rotate"} => StillPossible(R)) => Accepted

(* "already has a pending invitation": the procedures that look for a      *)
(* pending request never add a second one for the same, unless one was     *)
(* made meanwhile or the target was passed to rotatePrimaryKey as Account. *)
NoSecondRequest ==
  Ready /\ Fresh /\ call.op = "issue" /\ Want.type \in SentOnes \cup ReceivedOnes
    /\ ~(Want.type = "RotatePrimaryKey" /\ Want.asObject) =>
    ~ \E r \in {requests[i] : i \in DOMAIN requests} :
        /\ r.open /\ r.expiry \notin 1 .. now
        /\ <<r.type, r.target>> = <<Want.type, Want.target>>
        /\ Want.type # "AttestPrimaryKeyRotation" => r.issuer = Signer
        /\ Want.type \notin {"JoinIdentity", "RotatePrimaryKey"} => r.subject = Want.subject

(* Who accepts a request which the chain would have taken just then is not *)
(* turned away, whatever changed before.                                   *)
TakenWhenValid ==
  [][(TurnedAway /\ call.op \in {"accept", "rotate"}
        /\ R.type # "AttestPrimaryKeyRotation" /\ R.expiry # now
        /\ (call.attest # 0 => requests[call.attest].expiry # now))
       => ~ \A r \in Both : AcceptsConsume(call.by, r)]_vars
===============================================================================
