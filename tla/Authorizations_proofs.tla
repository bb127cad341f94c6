------------------------- MODULE Authorizations_proofs -------------------------
(***************************************************************************)
(* Proofs about the Authorization requests: what a call has learnt of the  *)
(* chain stays true until the chain moves, and what it has learnt when it  *)
(* is sent is all that the chain asks for.                                 *)
(***************************************************************************)
EXTENDS Authorizations, TLAPS, SequenceTheorems, FiniteSetTheorems

(* The types, of the chain and of the call that is followed.               *)
Stages == {"idle", "signer", "sent", "multi", "received", "state", "live", "exists", "valid",
           "built", "owner", "attest"}
Calls  == [at : Stages, granted : BOOLEAN, by : Accounts,
           op : {"accept", "remove", "rotate", "issue"}, id : Nat, attest : Nat,
           want : SUBSET Offer, found : SUBSET Nat, k : Nat, empty : BOOLEAN, stale : BOOLEAN]

ChainTyped ==
  /\ world \in Worlds /\ now \in 1 .. MaxTime
  /\ requests \in Seq(Request) /\ Len(requests) <= MaxRequests
  /\ \A i \in DOMAIN requests : Fits(requests[i])
  /\ keys \in [Accounts -> Identities \cup {NoIdentity}]
  /\ primary \in [Identities -> Accounts]
  /\ \A i \in Identities : keys[primary[i]] = i
  /\ signers \subseteq Accounts /\ cdd \subseteq Identities
  /\ holder \in Identities /\ agents \subseteq Identities
  /\ ticker \in {"free", "reserved", "asset"}

CallTyped ==
  /\ call \in Calls /\ call.found \subseteq DOMAIN requests
  /\ {call.id, call.attest} \subseteq 0 .. Len(requests)

Typed == ChainTyped /\ CallTyped

(* The form of a call: what it is about, at each of its stages.            *)
Asked(w) ==
  /\ Fits(w) /\ call.want = {w} /\ w.type \in SentOnes \cup ReceivedOnes \cup Given
  /\ call.at \in {"sent", "multi"} => w.type \in SentOnes
  /\ call.at = "received" => w.type \in ReceivedOnes
  /\ call.at = "state" => w.type \notin SentOnes \cup ReceivedOnes

Issuing ==
  /\ call.at \in {"signer", "sent", "multi", "received", "state", "built"}
  /\ call.id = 0 /\ call.attest = 0 /\ ~call.empty
  /\ \E w \in Offer : Asked(w)

Consuming ==
  /\ call.at \in {"live", "exists", "valid", "built"}
  /\ call.at \in {"exists", "valid"} => call.op = "accept"
  /\ call.id \in DOMAIN requests /\ call.attest = 0
  /\ call.empty => call.at = "built"

Rotating ==
  /\ call.at \in {"owner", "attest", "exists", "valid", "built"}
  /\ call.id \in DOMAIN requests /\ R.type = "RotatePrimaryKey" /\ ~call.empty
  /\ call.attest # 0 => /\ call.attest \in DOMAIN requests
                        /\ requests[call.attest].type = "AttestPrimaryKeyRotation"
  /\ call.at = "attest" => call.attest # 0

Form ==
  call.at # "idle" =>
    /\ call.op = "issue" => Issuing
    /\ call.op \in {"accept", "remove"} => Consuming
    /\ call.op = "rotate" => Rotating

(* What a call knows of a chain that has not changed since it began.       *)
LetIn == call.granted => Granted(IF call.id = 0 THEN {} ELSE R)

KnownLive ==
  call.op \in {"accept", "remove"} =>
    /\ R.open
    /\ call.empty => Expired(R)
    /\ Procedure = "general" /\ call.at # "live" /\ ~call.empty => ~Expired(R)

Examined ==
  /\ call.op \in {"accept", "rotate"}
  /\ call.at = "valid" \/ (call.at = "built" /\ ~call.empty)
KnownAlive == Examined => \A r \in Both : Alive(r)
KnownValid ==
  Examined => \A r \in Both : \A j \in DOMAIN Validations(r) :
                j <= call.k \/ call.at = "built" => Validations(r)[j]

KnownFetched ==
  call.op = "rotate" =>
    /\ call.at # "owner" => R.target = call.by
    /\ call.attest # 0 /\ call.at \notin {"owner", "attest"} => requests[call.attest].target = call.by

Pending(i) == Fetched(requests[i]) /\ Same(requests[i], Want, Signer)
KnownGiven ==
  call.op = "issue" =>
    /\ call.at = "multi" => call.found = GivenBy(Signer)
    /\ call.at = "built" /\ Want.type \in SentOnes \cup ReceivedOnes =>
         \A i \in DOMAIN requests : ~Pending(i)

Unread == call.at \notin {"valid", "built"} => call.k = 0

Known ==
  call.at # "idle" /\ Fresh =>
    LetIn /\ Unread /\ KnownLive /\ KnownAlive /\ KnownValid /\ KnownFetched /\ KnownGiven

Inv == Typed /\ Form /\ Known

-----------------------------------------------------------------------------
LEMMA TypedEnough == Typed => TypeOK
  BY DEF Typed, ChainTyped, CallTyped, TypeOK, Calls

LEMMA IdleTyped ==
  ASSUME Typed
  PROVE  /\ Idle \in Calls
         /\ Idle.at = "idle" /\ Idle.found = {} /\ Idle.id = 0 /\ Idle.attest = 0
         /\ Idle.empty = FALSE /\ Idle.granted = FALSE
  <1>1. InitialPrimary[CHOOSE i \in Identities : TRUE] \in Accounts
    BY PartiesAssumption DEF Typed, ChainTyped
  <1> QED BY <1>1 DEF Idle, Calls, Stages

LEMMA InitTyped == Init => Typed
  <1> SUFFICES ASSUME Init PROVE Typed
    OBVIOUS
  <1>1. ChainTyped
    <2>1. requests \in Seq(Request) /\ Len(requests) = 0 /\ DOMAIN requests = {}
      BY DEF Init
    <2>2. primary \in [Identities -> Accounts]
      BY PartiesAssumption DEF Init
    <2>3. keys \in [Accounts -> Identities \cup {NoIdentity}]
      BY DEF Init
    <2>4. ASSUME NEW i \in Identities PROVE keys[primary[i]] = i
      BY <2>2, PartiesAssumption DEF Init
    <2> QED BY <2>1, <2>2, <2>3, <2>4, BoundsAssumption DEF Init, ChainTyped
  <1>2. CallTyped
    <2>1. InitialPrimary[CHOOSE i \in Identities : TRUE] \in Accounts
      BY PartiesAssumption DEF Init
    <2> QED BY <2>1 DEF Init, CallTyped, Idle, Calls, Stages
  <1> QED BY <1>1, <1>2 DEF Typed

(* A call that ends, or moves to another stage, keeps its type.            *)
LEMMA RefuseTyped ==
  ASSUME Typed, call' = Idle, ChainTyped'
  PROVE  Typed'
  <1>1. requests' \in Seq(Request)
    BY DEF ChainTyped
  <1>2. Len(requests') \in Nat
    BY <1>1
  <1>3. CallTyped'
    BY <1>2, IdleTyped DEF CallTyped
  <1> QED BY <1>3 DEF Typed

LEMMA Moves ==
  ASSUME Typed, NEW s \in Stages, Goto(s)
  PROVE  /\ UNCHANGED <<world, now, facts>> /\ UNCHANGED facts
         /\ UNCHANGED <<requests, keys, primary, signers, cdd, holder, agents, ticker>>
         /\ call' \in Calls /\ call'.at = s
         /\ call'.by = call.by /\ call'.op = call.op /\ call'.id = call.id
         /\ call'.attest = call.attest /\ call'.want = call.want /\ call'.found = call.found
         /\ call'.k = call.k /\ call'.empty = call.empty /\ call'.stale = call.stale
         /\ call'.granted = call.granted
  BY DEF Goto, chain, facts, Typed, CallTyped, Calls

LEMMA MovesTyped ==
  ASSUME Typed, NEW s \in Stages, Goto(s)
  PROVE  Typed'
  BY Moves DEF Typed, CallTyped, ChainTyped, Fits
-----------------------------------------------------------------------------
(* What is dispatched, by the call that is followed or by others, keeps    *)
(* the chain well-typed, and every identity a primary key of its own.      *)
LEMMA RequestAt ==
  ASSUME Typed, NEW id \in DOMAIN requests
  PROVE  /\ requests[id] \in Request /\ Fits(requests[id])
         /\ id \in Nat \ {0} /\ id <= Len(requests)
  BY DEF Typed, ChainTyped

LEMMA Closed ==
  ASSUME Typed, NEW ids, Close(ids)
  PROVE  /\ requests' \in Seq(Request) /\ Len(requests') = Len(requests)
         /\ DOMAIN requests' = DOMAIN requests
         /\ \A i \in DOMAIN requests : Fits(requests[i])'
  <1>1. requests \in Seq(Request) /\ Len(requests) \in Nat /\ DOMAIN requests = 1 .. Len(requests)
    BY DEF Typed, ChainTyped
  <1>2. ASSUME NEW i \in DOMAIN requests
        PROVE  /\ requests'[i] \in Request
               /\ requests'[i].type = requests[i].type /\ requests'[i].target = requests[i].target
    <2>1. requests[i] \in Request
      BY RequestAt
    <2> QED BY <2>1 DEF Close, Request
  <1>3. DOMAIN requests' = DOMAIN requests /\ requests' = [i \in 1 .. Len(requests) |-> requests'[i]]
    BY <1>1 DEF Close
  <1>4. requests' \in [1 .. Len(requests) -> Request]
    BY <1>1, <1>2, <1>3
  <1>5. requests' \in Seq(Request)
    BY <1>1, <1>4
  <1>6. Len(requests') = Len(requests)
    BY <1>1, <1>4, <1>5
  <1>7. ASSUME NEW i \in DOMAIN requests PROVE Fits(requests[i])'
    BY <1>2, RequestAt DEF Fits
  <1> QED BY <1>3, <1>5, <1>6, <1>7

LEMMA RestKept ==
  ASSUME Typed, NEW ids, Close(ids),
         UNCHANGED <<world, now, keys, primary, signers, cdd, holder, agents, ticker>>
  PROVE  ChainTyped' /\ DOMAIN requests' = DOMAIN requests /\ Len(requests') = Len(requests)
  BY Closed DEF Typed, ChainTyped

LEMMA EffectTyped ==
  ASSUME Typed, NEW a \in Accounts, NEW id \in DOMAIN requests, NEW ids,
         AcceptsConsume(a, requests[id]), Close(ids), TakesEffect(a, requests[id])
  PROVE  ChainTyped' /\ DOMAIN requests' = DOMAIN requests /\ Len(requests') = Len(requests)
  <1> DEFINE r == requests[id]
  <1>1. r \in Request /\ Fits(r)
    BY RequestAt
  <1>2. r.type \in {"RotatePrimaryKey", "JoinIdentity", "RotatePrimaryKeyToSecondary"} =>
          keys[a] = NoIdentity
    BY <1>1, PartiesAssumption
    DEF Request, AcceptsConsume, StillPossible, Matches, Fits, Given
  <1>3. r.issuer \in Identities /\ (r.type \in Given => r.target \in Identities)
    BY <1>1 DEF Fits, Request
  <1>4. keys' \in [Accounts -> Identities \cup {NoIdentity}]
    BY <1>3 DEF TakesEffect, Typed, ChainTyped
  <1>5. primary' \in [Identities -> Accounts]
    BY <1>3 DEF TakesEffect, Typed, ChainTyped
  <1>6. ASSUME NEW i \in Identities PROVE keys'[primary'[i]] = i
    <2>1. /\ keys[primary[i]] = i /\ primary[i] \in Accounts
          /\ keys[primary[r.issuer]] = r.issuer /\ primary[r.issuer] \in Accounts
          /\ keys \in [Accounts -> Identities \cup {NoIdentity}]
          /\ primary \in [Identities -> Accounts] /\ i # NoIdentity
      BY <1>3, PartiesAssumption DEF Typed, ChainTyped
    <2>2. CASE r.type = "RotatePrimaryKey"
      <3>1. /\ keys' = [keys EXCEPT ![primary[r.issuer]] = NoIdentity, ![a] = r.issuer]
            /\ primary' = [primary EXCEPT ![r.issuer] = a]
        BY <2>2 DEF TakesEffect
      <3> QED BY <1>2, <1>3, <2>1, <2>2, <3>1
    <2>3. CASE r.type = "RotatePrimaryKeyToSecondary"
      <3>1. /\ keys' = [keys EXCEPT ![a] = r.issuer]
            /\ primary' = [primary EXCEPT ![r.issuer] = a]
        BY <2>3 DEF TakesEffect
      <3> QED BY <1>2, <1>3, <2>1, <2>3, <3>1
    <2>4. CASE r.type = "JoinIdentity"
      <3>1. keys' = [keys EXCEPT ![a] = r.issuer] /\ primary' = primary
        BY <2>4 DEF TakesEffect
      <3> QED BY <1>2, <1>3, <2>1, <2>4, <3>1
    <2>5. CASE r.type \notin {"RotatePrimaryKey", "RotatePrimaryKeyToSecondary", "JoinIdentity"}
      <3>1. keys' = keys /\ primary' = primary
        BY <2>5 DEF TakesEffect
      <3> QED BY <2>1, <3>1
    <2> QED BY <2>2, <2>3, <2>4, <2>5
  <1>7. signers' \subseteq Accounts /\ holder' \in Identities /\ agents' \subseteq Identities
    BY <1>3 DEF TakesEffect, Typed, ChainTyped, Given
  <1>8. UNCHANGED <<world, now, cdd, ticker>>
    BY DEF TakesEffect
  <1> QED BY <1>4, <1>5, <1>6, <1>7, <1>8, Closed DEF Typed, ChainTyped

LEMMA AddTyped ==
  ASSUME Typed, NEW i \in Identities, NEW w \in Offer, Fits(w), Add(i, w)
  PROVE  /\ ChainTyped' /\ Len(requests') = Len(requests) + 1
         /\ DOMAIN requests \subseteq DOMAIN requests'
         /\ \A j \in DOMAIN requests : requests'[j] = requests[j]
  <1> DEFINE new == [type |-> w.type, issuer |-> i, target |-> w.target,
                     subject |-> w.subject, expiry |-> w.expiry, open |-> TRUE]
  <1>1. new \in Request /\ Fits(new)
    BY DEF Offer, Request, Fits
  <1>2. requests' = Append(requests, new) /\ Len(requests) < MaxRequests
    BY DEF Add
  <1>3. requests \in Seq(Request) /\ Len(requests) \in Nat
    BY DEF Typed, ChainTyped
  <1> HIDE DEF new
  <1>4. /\ requests' \in Seq(Request) /\ Len(requests') = Len(requests) + 1
        /\ requests'[Len(requests) + 1] = new
        /\ \A j \in 1 .. Len(requests) : requests'[j] = requests[j]
        /\ DOMAIN requests = 1 .. Len(requests) /\ DOMAIN requests' = 1 .. (Len(requests) + 1)
    BY <1>1, <1>2, <1>3
  <1>5. ASSUME NEW j \in DOMAIN requests' PROVE Fits(requests[j])'
    <2>1. CASE j \in DOMAIN requests
      BY <1>4, <2>1, RequestAt DEF Fits
    <2>2. CASE j = Len(requests) + 1
      BY <1>1, <1>4, <2>2 DEF Fits
    <2> QED BY <1>3, <1>4, <2>1, <2>2
  <1>6. Len(requests') <= MaxRequests
    BY <1>2, <1>3, <1>4, BoundsAssumption
  <1>7. UNCHANGED <<world, now, keys, primary, signers, cdd, holder, agents, ticker>>
    BY DEF Add
  <1>8. ChainTyped'
    BY <1>4, <1>5, <1>6, <1>7 DEF Typed, ChainTyped
  <1>9. DOMAIN requests \subseteq DOMAIN requests'
    BY <1>3, <1>4
  <1> QED BY <1>4, <1>8, <1>9
-----------------------------------------------------------------------------
(* What the chain does under a call leaves it as it was, but for stale.    *)
LEMMA Ages ==
  ASSUME Typed, Aging
  PROVE  /\ call' \in Calls
         /\ call'.at = call.at /\ call'.granted = call.granted /\ call'.by = call.by
         /\ call'.op = call.op /\ call'.id = call.id /\ call'.attest = call.attest
         /\ call'.want = call.want /\ call'.found = call.found
         /\ call'.k = call.k /\ call'.empty = call.empty
         /\ call.at # "idle" /\ ~call'.stale =>
              /\ ~call.stale /\ UNCHANGED facts
              /\ now' # now => \A r \in Both : r.expiry \notin {now, now'}
  <1>1. call \in Calls
    BY DEF Typed, CallTyped
  <1>2. CASE call.at = "idle"
    BY <1>1, <1>2 DEF Aging
  <1>3. CASE call.at # "idle"
    <2> DEFINE old == call.stale \/ facts' # facts
                        \/ \E r \in Both : r.expiry \in {now, now'} /\ now' # now
    <2>1. call' = [call EXCEPT !.stale = old]
      BY <1>3 DEF Aging
    <2>2. old \in BOOLEAN
      BY Zenon
    <2> HIDE DEF old
    <2>3. call' \in Calls /\ call'.stale = old
      BY <1>1, <2>1, <2>2 DEF Calls
    <2>4. ~old => /\ ~call.stale /\ facts' = facts
                  /\ now' # now => \A r \in Both : r.expiry \notin {now, now'}
      BY Zenon DEF old
    <2> QED BY <1>1, <2>1, <2>3, <2>4 DEF Calls
  <1> QED BY <1>2, <1>3

LEMMA AgesTyped ==
  ASSUME Typed, Aging, ChainTyped', DOMAIN requests \subseteq DOMAIN requests',
         Len(requests') >= Len(requests)
  PROVE  Typed'
  <1>1. requests \in Seq(Request) /\ Len(requests) \in Nat
        /\ requests' \in Seq(Request) /\ Len(requests') \in Nat
    BY DEF Typed, ChainTyped
  <1>2. CallTyped'
    BY <1>1, Ages DEF Typed, CallTyped
  <1> QED BY <1>2 DEF Typed

LEMMA AgesForm ==
  ASSUME Typed, Form, Aging, DOMAIN requests \subseteq DOMAIN requests',
         \A j \in DOMAIN requests : requests'[j].type = requests[j].type
  PROVE  Form'
  <1>1. CASE call.at = "idle"
    BY <1>1, Ages DEF Form
  <1>2. CASE call.at # "idle"
    <2>1. call.op = "issue" => Issuing'
      BY <1>2, Ages DEF Form, Issuing, Asked
    <2>2. call.op \in {"accept", "remove"} => Consuming'
      BY <1>2, Ages DEF Form, Consuming
    <2>3. call.op = "rotate" => Rotating'
      BY <1>2, Ages DEF Form, Rotating, R
    <2> QED BY <2>1, <2>2, <2>3, Ages DEF Form
  <1> QED BY <1>1, <1>2

(* What the call itself does, before it is sent, leaves the chain alone.   *)
LEMMA StartSteps ==
  ASSUME Typed, NEW a \in Accounts,
         \/ Issue(a)
         \/ \E id \in DOMAIN requests :
              \/ \E op \in {"accept", "remove"} : Consume(a, op, id)
              \/ \E attest \in {0} \cup DOMAIN requests : AcceptRotation(a, id, attest)
  PROVE  Typed' /\ Form' /\ UNCHANGED chain
  <1>0. Idle \in Calls /\ call.at \in Stages
    BY IdleTyped DEF Typed, CallTyped, Calls
  <1>1. requests \in Seq(Request) /\ Len(requests) \in Nat /\ world \in SUBSET Offer
    BY WorldsAssumption DEF Typed, ChainTyped
  <1>2. ASSUME Issue(a) PROVE Typed' /\ Form' /\ UNCHANGED chain
    <2>1. PICK w \in world :
            /\ w.type \in SentOnes \cup ReceivedOnes \cup Given
            /\ call' = [Idle EXCEPT !.at = "signer", !.by = a, !.op = "issue", !.want = {w}]
      BY <1>2 DEF Issue
    <2>2. UNCHANGED chain /\ w \in Offer /\ Fits(w)
      BY <1>1, <1>2, TargetsAssumption DEF Issue, Typed, ChainTyped
    <2>3. /\ call' \in Calls /\ call'.at = "signer" /\ call'.op = "issue" /\ call'.want = {w}
          /\ call'.id = 0 /\ call'.attest = 0 /\ call'.found = {} /\ call'.empty = FALSE
      BY <1>0, <2>1, <2>2, IdleTyped DEF Calls, Stages
    <2>4. Typed'
      BY <1>1, <2>2, <2>3 DEF Typed, CallTyped, ChainTyped, chain, facts, Fits
    <2>5. Form'
      <3>1. Asked(w)'
        BY <2>1, <2>2, <2>3 DEF Asked, Fits
      <3> QED BY <2>2, <2>3, <3>1 DEF Form, Issuing
    <2> QED BY <2>2, <2>4, <2>5
  <1>3. ASSUME NEW id \in DOMAIN requests, NEW op \in {"accept", "remove"}, Consume(a, op, id)
        PROVE  Typed' /\ Form' /\ UNCHANGED chain
    <2>0. requests[id] \in Request /\ (~requests[id].open) \in BOOLEAN
      BY RequestAt
    <2>1. /\ call' = [Idle EXCEPT !.at = "live", !.by = a, !.op = op, !.id = id,
                                  !.stale = ~requests[id].open]
          /\ UNCHANGED chain
      BY <1>3 DEF Consume
    <2>2. id \in Nat /\ id \in 0 .. Len(requests)
      BY <1>1, RequestAt
    <2>3. /\ call' \in Calls /\ call'.at = "live" /\ call'.op = op /\ call'.id = id
          /\ call'.attest = 0 /\ call'.found = {} /\ call'.empty = FALSE
      BY <1>0, <2>0, <2>1, <2>2, IdleTyped DEF Calls, Stages
    <2>4. Typed'
      BY <1>1, <2>1, <2>2, <2>3 DEF Typed, CallTyped, ChainTyped, chain, facts, Fits
    <2>5. Form'
      BY <2>1, <2>3 DEF Form, Consuming, chain, facts
    <2> QED BY <2>1, <2>4, <2>5
  <1>4. ASSUME NEW id \in DOMAIN requests, NEW attest \in {0} \cup DOMAIN requests,
               AcceptRotation(a, id, attest)
        PROVE  Typed' /\ Form' /\ UNCHANGED chain
    <2>1. /\ call' = [Idle EXCEPT !.at = "owner", !.by = a, !.op = "rotate", !.id = id,
                                  !.attest = attest]
          /\ UNCHANGED chain
      BY <1>4 DEF AcceptRotation
    <2>2. /\ id \in Nat /\ id \in 0 .. Len(requests)
          /\ attest \in Nat /\ attest \in 0 .. Len(requests)
      BY <1>1, RequestAt
    <2>3. /\ call' \in Calls /\ call'.at = "owner" /\ call'.op = "rotate" /\ call'.id = id
          /\ call'.attest = attest /\ call'.found = {} /\ call'.empty = FALSE
      BY <1>0, <2>1, <2>2, IdleTyped DEF Calls, Stages
    <2>4. Typed'
      BY <1>1, <2>1, <2>2, <2>3 DEF Typed, CallTyped, ChainTyped, chain, facts, Fits
    <2>5. Form'
      BY <1>4, <2>1, <2>3 DEF Form, Rotating, R, chain, facts, AcceptRotation
    <2> QED BY <2>1, <2>4, <2>5
  <1> QED BY <1>2, <1>3, <1>4
(* A call that goes to another stage and stays of its form.                *)
Becomes(s) ==
  /\ call.op = "issue" =>
       /\ s \in {"signer", "sent", "multi", "received", "state", "built"}
       /\ s \in {"sent", "multi"} => Want.type \in SentOnes
       /\ s = "received" => Want.type \in ReceivedOnes
       /\ s = "state" => Want.type \notin SentOnes \cup ReceivedOnes
  /\ call.op \in {"accept", "remove"} =>
       s \in {"built"} \cup (IF call.op = "accept" THEN {"exists", "valid"} ELSE {}) /\ ~call.empty
  /\ call.op = "rotate" =>
       s \in {"attest", "exists", "valid", "built"} /\ (s = "attest" => call.attest # 0)

LEMMA IssuedOne ==
  ASSUME Typed, Form, call.at # "idle", call.op = "issue"
  PROVE  /\ Want \in Offer /\ call.want = {Want} /\ Fits(Want)
         /\ Want.type \in SentOnes \cup ReceivedOnes \cup Given
         /\ call.at \in {"sent", "multi"} => Want.type \in SentOnes
         /\ call.at = "received" => Want.type \in ReceivedOnes
         /\ call.at = "state" => Want.type \notin SentOnes \cup ReceivedOnes
         /\ call.id = 0 /\ call.attest = 0 /\ ~call.empty
         /\ call.at \in {"signer", "sent", "multi", "received", "state", "built"}
  <1>1. PICK w \in Offer : Asked(w)
    BY DEF Form, Issuing
  <1>2. Want = w
    BY <1>1 DEF Asked, Want
  <1> QED BY <1>1, <1>2 DEF Asked, Form, Issuing

LEMMA GoesOn ==
  ASSUME Typed, Form, call.at # "idle", NEW s \in Stages, Goto(s), Becomes(s)
  PROVE  Typed' /\ Form' /\ UNCHANGED chain
  <1>1. Typed' /\ UNCHANGED chain
    BY MovesTyped DEF Goto
  <1>2. call.op = "issue" => Issuing'
    <2> SUFFICES ASSUME call.op = "issue" PROVE Issuing'
      OBVIOUS
    <2>1. PICK w \in Offer : w = Want
      BY IssuedOne
    <2>2. Asked(w)'
      BY <2>1, IssuedOne, Moves DEF Asked, Becomes, Fits
    <2> QED BY <2>2, IssuedOne, Moves DEF Issuing, Becomes
  <1>3. call.op \in {"accept", "remove"} => Consuming'
    BY Moves DEF Form, Consuming, Becomes
  <1>4. call.op = "rotate" => Rotating'
    BY Moves DEF Form, Rotating, R, Becomes
  <1> QED BY <1>1, <1>2, <1>3, <1>4, Moves DEF Form

LEMMA Refused ==
  ASSUME Typed, Refuse
  PROVE  Typed' /\ Form' /\ UNCHANGED chain /\ call'.at = "idle"
  <1>1. ChainTyped' /\ call' = Idle /\ UNCHANGED chain
    BY DEF Refuse, Typed, ChainTyped, chain, facts, Fits
  <1> QED BY <1>1, RefuseTyped, IdleTyped DEF Form

LEMMA Checked ==
  ASSUME Typed, Form, call.at # "idle", NEW test, NEW s \in Stages, Check(test, s),
         test => Becomes(s)
  PROVE  Typed' /\ Form' /\ UNCHANGED chain
  <1>1. (test /\ Goto(s)) \/ Refuse
    BY DEF Check
  <1> QED BY <1>1, GoesOn, Refused

LEMMA PrepareSteps ==
  ASSUME Typed, Form, Prepare
  PROVE  Typed' /\ Form' /\ UNCHANGED chain
  <1>0. call \in Calls
    BY DEF Typed, CallTyped
  <1>1. CASE ReadSigner
    <2> DEFINE s == IF Want.type \in SentOnes THEN "sent"
                    ELSE IF Want.type \in ReceivedOnes THEN "received" ELSE "state"
    <2>1. call.at = "signer" /\ call.op = "issue" /\ Check(Signer # NoIdentity, s)
      BY <1>0, <1>1 DEF ReadSigner, Form, Consuming, Rotating, Calls
    <2>2. Want \in Offer /\ (Want.type \in SentOnes \cup ReceivedOnes \cup Given)
      BY <2>1, IssuedOne
    <2>3. s \in Stages /\ Becomes(s)
      BY <2>1, <2>2 DEF Stages, Becomes
    <2> QED BY <2>1, <2>3, Checked
  <1>2. CASE ReadSent
    <2>1. call.at = "sent" /\ call.op = "issue" /\ UNCHANGED chain
      BY <1>0, <1>2 DEF ReadSent, Form, Consuming, Rotating, Calls
    <2>2. GivenBy(Signer) \subseteq DOMAIN requests /\ DOMAIN requests \subseteq Nat
      BY DEF GivenBy, Typed, ChainTyped
    <2>3. call' = [call EXCEPT !.at = "multi", !.found = GivenBy(Signer)]
      BY <1>2 DEF ReadSent
    <2>4. /\ call' \in Calls /\ call'.at = "multi" /\ call'.op = "issue" /\ call'.want = call.want
          /\ call'.found = GivenBy(Signer) /\ call'.id = call.id /\ call'.attest = call.attest
          /\ call'.empty = call.empty
      BY <1>0, <2>1, <2>2, <2>3 DEF Calls, Stages
    <2>5. Typed'
      BY <2>1, <2>2, <2>4 DEF Typed, CallTyped, ChainTyped, chain, facts, Fits
    <2>6. PICK w \in Offer : w = Want
      BY <2>1, IssuedOne
    <2>7. Asked(w)'
      BY <2>1, <2>4, <2>6, IssuedOne DEF Asked, Fits
    <2>8. Form'
      BY <2>1, <2>4, <2>7, IssuedOne DEF Form, Issuing
    <2> QED BY <2>1, <2>5, <2>8
  <1>3. CASE ReadMulti
    <2>1. call.at = "multi" /\ call.op = "issue"
      BY <1>0, <1>3 DEF ReadMulti, Form, Consuming, Rotating, Calls
    <2>2. Becomes("built") /\ "built" \in Stages
      BY <2>1 DEF Becomes, Stages
    <2> QED BY <1>3, <2>1, <2>2, Checked DEF ReadMulti
  <1>4. CASE ReadReceived
    <2>1. call.at = "received" /\ call.op = "issue"
      BY <1>0, <1>4 DEF ReadReceived, Form, Consuming, Rotating, Calls
    <2>2. Becomes("built") /\ "built" \in Stages
      BY <2>1 DEF Becomes, Stages
    <2> QED BY <1>4, <2>1, <2>2, Checked DEF ReadReceived
  <1>5. CASE ReadState
    <2>1. call.at = "state" /\ call.op = "issue"
      BY <1>0, <1>5 DEF ReadState, Form, Consuming, Rotating, Calls
    <2>2. Becomes("built") /\ "built" \in Stages
      BY <2>1 DEF Becomes, Stages
    <2> QED BY <1>5, <2>1, <2>2, Checked DEF ReadState
  <1>6. CASE BeginGeneral \/ BeginKey \/ BeginMultiSig \/ BeginRelayer
    <2>1. call.at = "live" /\ call.op \in {"accept", "remove"} /\ ~call.empty
          /\ call.id \in DOMAIN requests /\ call.attest = 0
      BY <1>0, <1>6 DEF BeginGeneral, BeginKey, BeginMultiSig, BeginRelayer, Form, Consuming,
                        Issuing, Rotating, Calls
    <2>2. CASE Validate
      <3> DEFINE s == IF call.op = "remove" THEN "built" ELSE "exists"
      <3>1. s \in Stages /\ Becomes(s)
        BY <2>1 DEF Stages, Becomes
      <3> QED BY <2>1, <2>2, <3>1, GoesOn DEF Validate
    <2>3. CASE call' = [call EXCEPT !.at = "built", !.empty = TRUE] /\ UNCHANGED chain
      <3>1. /\ call' \in Calls /\ call'.at = "built" /\ call'.op = call.op
            /\ call'.found = call.found /\ call'.id = call.id /\ call'.attest = call.attest
        BY <1>0, <2>3 DEF Calls, Stages
      <3>2. Typed'
        BY <2>3, <3>1 DEF Typed, CallTyped, ChainTyped, chain, facts, Fits
      <3>3. Form'
        BY <2>1, <2>3, <3>1 DEF Form, Consuming, chain, facts
      <3> QED BY <2>3, <3>2, <3>3
    <2>4. CASE Refuse
      BY <2>4, Refused
    <2> QED BY <1>6, <2>2, <2>3, <2>4 DEF BeginGeneral, BeginKey, BeginMultiSig, BeginRelayer
  <1>7. CASE ReadExists
    <2>1. call.at = "exists" /\ call.op \in {"accept", "rotate"} /\ ~call.empty
      BY <1>0, <1>7 DEF ReadExists, Form, Consuming, Issuing, Rotating, Calls
    <2>2. Becomes("valid") /\ "valid" \in Stages
      BY <2>1 DEF Becomes, Stages
    <2> QED BY <1>7, <2>1, <2>2, Checked DEF ReadExists
  <1>8. CASE ReadValidity
    <2> DEFINE next == call.k + 1
               last == \A r \in Both : next >= Len(Validations(r))
               s == IF last THEN "built" ELSE "valid"
    <2>1. call.at = "valid" /\ call.op \in {"accept", "rotate"} /\ ~call.empty
      BY <1>0, <1>8 DEF ReadValidity, Form, Consuming, Issuing, Rotating, Calls
    <2>2. (call' = [call EXCEPT !.k = next, !.at = s] /\ UNCHANGED chain) \/ Refuse
      BY <1>8 DEF ReadValidity
    <2>3. s \in {"built", "valid"} /\ next \in Nat
      BY <1>0 DEF Calls
    <2> HIDE DEF s, next
    <2>4. CASE call' = [call EXCEPT !.k = next, !.at = s] /\ UNCHANGED chain
      <3>1. /\ call' \in Calls /\ call'.at = s /\ call'.op = call.op /\ call'.found = call.found
            /\ call'.id = call.id /\ call'.attest = call.attest /\ call'.empty = call.empty
        BY <1>0, <2>3, <2>4 DEF Calls, Stages
      <3>2. Typed'
        BY <2>4, <3>1 DEF Typed, CallTyped, ChainTyped, chain, facts, Fits
      <3>3. Form'
        BY <2>1, <2>3, <2>4, <3>1 DEF Form, Consuming, Rotating, R, chain, facts
      <3> QED BY <2>4, <3>2, <3>3
    <2> QED BY <2>2, <2>4, Refused
  <1>9. CASE FetchOwnerAuth \/ FetchCddAuth
    <2>1. /\ call.op = "rotate" /\ call.at \in {"owner", "attest"}
      BY <1>0, <1>9 DEF FetchOwnerAuth, FetchCddAuth, Form, Consuming, Issuing, Rotating, Calls
    <2>2. Becomes("exists") /\ (call.attest # 0 => Becomes("attest")) /\ {"exists", "attest"} \subseteq Stages
      BY <2>1 DEF Becomes, Stages
    <2>3. CASE FetchOwnerAuth
      <3> DEFINE s == IF call.attest = 0 THEN "exists" ELSE "attest"
      <3>1. s \in Stages /\ Becomes(s)
        BY <2>2
      <3> QED BY <2>1, <2>3, <3>1, Checked DEF FetchOwnerAuth
    <2>4. CASE FetchCddAuth
      BY <2>1, <2>2, <2>4, Checked DEF FetchCddAuth
    <2> QED BY <1>9, <2>3, <2>4
  <1>10. CASE Authorize
    <2>1. call.at # "idle"
      BY <1>10 DEF Authorize
    <2>2. CASE call' = [call EXCEPT !.granted = TRUE] /\ UNCHANGED chain
      <3>1. /\ call' \in Calls /\ call'.at = call.at /\ call'.op = call.op
            /\ call'.found = call.found /\ call'.id = call.id /\ call'.attest = call.attest
            /\ call'.empty = call.empty /\ call'.want = call.want
        BY <1>0, <2>2 DEF Calls
      <3>2. Typed'
        BY <2>2, <3>1 DEF Typed, CallTyped, ChainTyped, chain, facts, Fits
      <3>3. call.op = "issue" => Issuing'
        BY <2>1, <3>1 DEF Form, Issuing, Asked, Fits
      <3>4. Form'
        BY <2>1, <2>2, <3>1, <3>3 DEF Form, Consuming, Rotating, R, chain, facts
      <3> QED BY <2>2, <3>2, <3>4
    <2>3. CASE Refuse
      BY <2>3, Refused
    <2> QED BY <1>10, <2>2, <2>3 DEF Authorize
  <1> QED BY <1>1, <1>2, <1>3, <1>4, <1>5, <1>6, <1>7, <1>8, <1>9, <1>10 DEF Prepare
LEMMA SendSteps ==
  ASSUME Typed, Form,
         Revert \/ DispatchNothing \/ DispatchIssue \/ DispatchRemove \/ DispatchAccept
  PROVE  Typed' /\ Form' /\ call'.at = "idle"
  <1>0. call \in Calls /\ call.at = "built" /\ call.by \in Accounts
    BY DEF Typed, CallTyped, Calls, Ready, Revert, DispatchNothing, DispatchIssue,
           DispatchRemove, DispatchAccept
  <1>1. CASE Revert \/ DispatchNothing
    BY <1>1, Refused DEF Revert, DispatchNothing
  <1>2. ASSUME ChainTyped', call' = Idle PROVE Typed' /\ Form' /\ call'.at = "idle"
    BY <1>2, RefuseTyped, IdleTyped DEF Form
  <1>3. CASE DispatchIssue
    <2>1. Want \in Offer /\ Fits(Want) /\ Signer \in Identities
      BY <1>0, <1>3, IssuedOne DEF DispatchIssue, Signer, Typed, ChainTyped
    <2>2. ChainTyped' /\ call' = Idle
      BY <1>3, <2>1, AddTyped DEF DispatchIssue
    <2> QED BY <1>2, <2>2
  <1>4. CASE DispatchRemove
    <2>1. ChainTyped' /\ call' = Idle
      BY <1>4, RestKept DEF DispatchRemove
    <2> QED BY <1>2, <2>1
  <1>5. CASE DispatchAccept
    <2>1. call.id \in DOMAIN requests /\ call.id # 0
      BY <1>0, <1>5, RequestAt DEF DispatchAccept, Form, Consuming, Rotating
    <2>2. R \in Both
      BY <2>1 DEF Both, R
    <2>3. \A r \in Both : AcceptsConsume(call.by, r)
      BY <1>5 DEF DispatchAccept, Accepted
    <2>4. AcceptsConsume(call.by, requests[call.id])
      BY <2>2, <2>3 DEF R
    <2>5. Close({call.id, call.attest}) /\ TakesEffect(call.by, requests[call.id]) /\ call' = Idle
      BY <1>5 DEF DispatchAccept, R
    <2>6. ChainTyped'
      BY <1>0, <2>1, <2>4, <2>5, EffectTyped
    <2> QED BY <1>2, <2>5, <2>6
  <1> QED BY <1>1, <1>3, <1>4, <1>5

Others ==
  \/ \E a \in Accounts, id \in DOMAIN requests : OthersAccept(a, id) \/ OthersRemove(a, id)
  \/ \E i \in Identities : OthersIssue(i) \/ RevokeCdd(i)
  \/ ChangeTicker \/ Tick

LEMMA OthersSteps ==
  ASSUME Typed, Form, Others
  PROVE  Typed' /\ Form' /\ Aging /\ now' \in {now, now + 1}
  <1>0. /\ world \subseteq Offer /\ (\A w \in world : Fits(w)) /\ now \in Nat
        /\ requests \in Seq(Request) /\ Len(requests) \in Nat
    BY WorldsAssumption, TargetsAssumption, BoundsAssumption DEF Typed, ChainTyped
  <1>1. ASSUME NEW a \in Accounts, NEW id \in DOMAIN requests, OthersAccept(a, id)
        PROVE  Typed' /\ Form' /\ Aging /\ now' \in {now, now + 1}
    <2>1. AcceptsConsume(a, requests[id]) /\ Close({id}) /\ TakesEffect(a, requests[id]) /\ Aging
      BY <1>1 DEF OthersAccept
    <2>2. ChainTyped' /\ DOMAIN requests' = DOMAIN requests /\ Len(requests') = Len(requests)
      BY <2>1, EffectTyped
    <2>3. ASSUME NEW j \in DOMAIN requests PROVE requests'[j].type = requests[j].type
      BY <2>1, RequestAt DEF Close, Request
    <2>4. now' = now
      BY <2>1 DEF TakesEffect
    <2>5. Typed'
      BY <1>0, <2>1, <2>2, AgesTyped
    <2>6. Form'
      BY <2>1, <2>2, <2>3, AgesForm
    <2> QED BY <2>1, <2>4, <2>5, <2>6
  <1>2. ASSUME NEW a \in Accounts, NEW id \in DOMAIN requests, OthersRemove(a, id)
        PROVE  Typed' /\ Form' /\ Aging /\ now' \in {now, now + 1}
    <2>1. Close({id}) /\ Aging
          /\ UNCHANGED <<world, now, keys, primary, signers, cdd, holder, agents, ticker>>
      BY <1>2 DEF OthersRemove
    <2>2. ChainTyped' /\ DOMAIN requests' = DOMAIN requests /\ Len(requests') = Len(requests)
      BY <2>1, RestKept
    <2>3. ASSUME NEW j \in DOMAIN requests PROVE requests'[j].type = requests[j].type
      BY <2>1, RequestAt DEF Close, Request
    <2>4. Typed'
      BY <1>0, <2>1, <2>2, AgesTyped
    <2>5. Form'
      BY <2>1, <2>2, <2>3, AgesForm
    <2> QED BY <2>1, <2>4, <2>5
  <1>3. ASSUME NEW i \in Identities, OthersIssue(i)
        PROVE  Typed' /\ Form' /\ Aging /\ now' \in {now, now + 1}
    <2>1. PICK w \in world : Add(i, w)
      BY <1>3 DEF OthersIssue
    <2>2. Aging /\ w \in Offer /\ Fits(w) /\ now' = now
      BY <1>0, <1>3, <2>1 DEF OthersIssue, Add
    <2>3. /\ ChainTyped' /\ Len(requests') = Len(requests) + 1
          /\ DOMAIN requests \subseteq DOMAIN requests'
          /\ \A j \in DOMAIN requests : requests'[j] = requests[j]
      BY <2>1, <2>2, AddTyped
    <2>4. Typed'
      BY <1>0, <2>2, <2>3, AgesTyped
    <2>5. Form'
      BY <2>2, <2>3, AgesForm
    <2> QED BY <2>2, <2>4, <2>5
  <1>4. ASSUME Aging, ChainTyped', requests' = requests, now' \in {now, now + 1}
        PROVE  Typed' /\ Form' /\ Aging /\ now' \in {now, now + 1}
    BY <1>0, <1>4, AgesTyped, AgesForm
  <1>5. ASSUME NEW i \in Identities, RevokeCdd(i)
        PROVE  Typed' /\ Form' /\ Aging /\ now' \in {now, now + 1}
    BY <1>4, <1>5 DEF RevokeCdd, Typed, ChainTyped, Fits
  <1>6. CASE ChangeTicker
    BY <1>4, <1>6 DEF ChangeTicker, Typed, ChainTyped, Fits
  <1>7. CASE Tick
    <2>1. now' = now + 1 /\ now' \in 1 .. MaxTime
      BY <1>7, BoundsAssumption DEF Tick, Typed, ChainTyped
    <2>2. UNCHANGED <<world, requests, keys, primary, signers, cdd, holder, agents, ticker>> /\ Aging
      BY <1>7 DEF Tick, facts
    <2>3. ChainTyped'
      BY <2>1, <2>2 DEF Typed, ChainTyped, Fits
    <2> QED BY <1>4, <2>1, <2>2, <2>3
  <1> QED BY <1>1, <1>2, <1>3, <1>5, <1>6, <1>7 DEF Others

(* The steps of the whole, in the groups that the proofs treat alike.      *)
Starts(a) ==
  \/ Issue(a)
  \/ \E id \in DOMAIN requests :
       \/ \E op \in {"accept", "remove"} : Consume(a, op, id)
       \/ \E attest \in {0} \cup DOMAIN requests : AcceptRotation(a, id, attest)

LEMMA StepsSorted ==
  ASSUME Next
  PROVE  \/ Prepare
         \/ Revert \/ DispatchNothing \/ DispatchIssue \/ DispatchRemove \/ DispatchAccept
         \/ \E a \in Accounts : Starts(a)
         \/ Others
  BY Zenon DEF Next, Others, Starts

LEMMA FormKept ==
  ASSUME Typed, Form, [Next]_vars
  PROVE  Typed' /\ Form'
  <1>1. CASE UNCHANGED vars
    <2>1. UNCHANGED call /\ UNCHANGED <<world, now, requests, keys, primary, signers, cdd, holder,
                                        agents, ticker>>
      BY <1>1 DEF vars, chain, facts
    <2>2. Typed'
      BY <2>1 DEF Typed, ChainTyped, CallTyped, Fits
    <2>3. Form'
      BY <2>1 DEF Form, Issuing, Asked, Consuming, Rotating, R, Fits
    <2> QED BY <2>2, <2>3
  <1>2. ASSUME NEW a \in Accounts, Starts(a) PROVE Typed' /\ Form'
    BY <1>2, StartSteps DEF Starts
  <1> QED BY <1>1, <1>2, StepsSorted, PrepareSteps, SendSteps, OthersSteps

(* Whatever is issued, accepted and removed, and by whom, what a call is   *)
(* about exists, and every identity has a primary key that is its own.     *)
THEOREM TypeCorrect == Spec => []TypeOK
  <1>1. Init => Typed /\ Form
    BY InitTyped, IdleTyped DEF Init, Form
  <1>2. Typed /\ Form /\ [Next]_vars => Typed' /\ Form'
    BY FormKept
  <1>3. Typed => TypeOK
    BY TypedEnough
  <1> QED BY <1>1, <1>2, <1>3, PTL DEF Spec
-----------------------------------------------------------------------------
(* What a call sees of the chain is the same again while the chain, and    *)
(* which of its requests have expired, are the same.                       *)
Allowed == Granted(IF call.id = 0 THEN {} ELSE R)

LEMMA SameView ==
  ASSUME Typed, Form, call.at # "idle", UNCHANGED facts,
         call'.by = call.by, call'.op = call.op, call'.id = call.id,
         call'.attest = call.attest, call'.want = call.want,
         \A r \in Both : Expired(r)' <=> Expired(r)
  PROVE  /\ R' = R /\ Signer' = Signer /\ Want' = Want /\ Procedure' = Procedure /\ Both' = Both
         /\ Allowed' <=> Allowed
         /\ \A r \in Both : Validations(r)' = Validations(r)
         /\ \A r \in Both : Alive(r)' <=> Alive(r)
         /\ GivenBy(Signer)' = GivenBy(Signer)
         /\ \A r, w, i : Same(r, w, i)' <=> Same(r, w, i)
  <1>0. UNCHANGED <<requests, keys, primary, signers, cdd, holder, agents, ticker>>
    BY DEF facts
  <1>1. R' = R
    BY <1>0 DEF R
  <1>2. Signer' = Signer
    BY <1>0 DEF Signer
  <1>3. Want' = Want
    BY DEF Want
  <1>4. Procedure' = Procedure
    BY <1>1 DEF Procedure, Family
  <1>5. Both' = Both
    BY <1>0 DEF Both
  <1>6. Allowed' <=> Allowed
    <2>1. CASE call.op = "issue"
      BY <1>0, <1>2, <1>3, <2>1 DEF Allowed, Granted, MayIssue, MayGive
    <2>2. CASE call.op = "rotate"
      BY <2>2 DEF Allowed, Granted
    <2>3. CASE call.op \in {"accept", "remove"}
      <3>1. call.id # 0 /\ call.id \in DOMAIN requests
        BY <2>3, RequestAt DEF Form, Consuming
      <3>2. Expired(R)' <=> Expired(R)
        <4>1. R \in Both
          BY <3>1 DEF Both, R
        <4>2. PICK r \in Both : r = R
          BY <4>1
        <4> QED BY <1>1, <4>2 DEF Expired
      <3>3. Party(R)' <=> Party(R)
        BY <1>1, <1>2 DEF Party, TargetOf
      <3>4. TargetOf(R)' <=> TargetOf(R)
        BY <1>1, <1>2 DEF TargetOf
      <3>5. Allowed <=> CASE Procedure = "general"  -> GrantedGeneral(R)
                          [] Procedure = "key"      -> GrantedKey(R)
                          [] Procedure = "multisig" -> GrantedMultiSig(R)
                          [] Procedure = "relayer"  -> GrantedRelayer(R)
        BY <2>3, <3>1 DEF Allowed, Granted
      <3>6. Allowed' <=> CASE Procedure = "general"  -> GrantedGeneral(R)'
                           [] Procedure = "key"      -> GrantedKey(R)'
                           [] Procedure = "multisig" -> GrantedMultiSig(R)'
                           [] Procedure = "relayer"  -> GrantedRelayer(R)'
        BY <1>4, <2>3, <3>1 DEF Allowed, Granted
      <3>7. Procedure \in {"general", "key", "multisig", "relayer"}
        BY DEF Procedure, Family
      <3> QED BY <1>2, <3>2, <3>3, <3>4, <3>5, <3>6, <3>7
              DEF GrantedGeneral, GrantedKey, GrantedMultiSig, GrantedRelayer
    <2> QED BY <2>1, <2>2, <2>3 DEF Typed, CallTyped, Calls
  <1>7. ASSUME NEW r \in Both PROVE Validations(r)' = Validations(r)
    BY <1>0 DEF Validations, NotASigner, JoinOrRotate, SubsidyParties
  <1>8. ASSUME NEW r \in Both PROVE Alive(r)' <=> Alive(r)
    BY DEF Alive
  <1>9. GivenBy(Signer)' = GivenBy(Signer)
    BY <1>0, <1>2 DEF GivenBy
  <1>10. ASSUME NEW r, NEW w, NEW i PROVE Same(r, w, i)' <=> Same(r, w, i)
    BY DEF Same, SameInvitation, SameRotation, SameAttestation, SameCustody, SameSubsidy
  <1> QED BY <1>1, <1>2, <1>3, <1>4, <1>5, <1>6, <1>7, <1>8, <1>9, <1>10

(* What is known stays known when the chain does something else.           *)
LEMMA OthersKnown ==
  ASSUME Inv, Others
  PROVE  Known'
  <1> SUFFICES ASSUME call'.at # "idle", ~call'.stale PROVE Known'
    BY DEF Known, Fresh
  <1>0. Typed /\ Form /\ Known /\ Typed' /\ Form' /\ Aging /\ now' \in {now, now + 1}
    BY OthersSteps DEF Inv
  <1>1. /\ call'.at = call.at /\ call'.granted = call.granted /\ call'.by = call.by
        /\ call'.op = call.op /\ call'.id = call.id /\ call'.attest = call.attest
        /\ call'.want = call.want /\ call'.found = call.found
        /\ call'.k = call.k /\ call'.empty = call.empty
        /\ ~call.stale /\ UNCHANGED facts /\ call.at # "idle"
        /\ now' # now => \A r \in Both : r.expiry \notin {now, now'}
    BY <1>0, Ages
  <1>2. now \in Nat /\ requests' = requests
        /\ \A i \in DOMAIN requests : requests[i].expiry \in Nat
    BY <1>0, <1>1, RequestAt, BoundsAssumption DEF Typed, ChainTyped, facts, Request
  <1>3. ASSUME NEW r \in Both PROVE Expired(r)' <=> Expired(r)
    <2>1. r.expiry \in Nat
      <3>1. {call.id, call.attest} \ {0} \subseteq DOMAIN requests
        BY <1>0 DEF Typed, CallTyped, ChainTyped
      <3> QED BY <1>2, <3>1 DEF Both
    <2> QED BY <1>0, <1>1, <1>2, <2>1 DEF Expired
  <1>4. /\ R' = R /\ Signer' = Signer /\ Want' = Want /\ Procedure' = Procedure /\ Both' = Both
        /\ Allowed' <=> Allowed
        /\ \A r \in Both : Validations(r)' = Validations(r)
        /\ \A r \in Both : Alive(r)' <=> Alive(r)
        /\ GivenBy(Signer)' = GivenBy(Signer)
        /\ \A r, w, i : Same(r, w, i)' <=> Same(r, w, i)
    BY <1>0, <1>1, <1>3, SameView
  <1>5. LetIn /\ Unread /\ KnownLive /\ KnownAlive /\ KnownValid /\ KnownFetched /\ KnownGiven
    BY <1>0, <1>1 DEF Known, Fresh
  <1>12. Unread'
    BY <1>1, <1>5 DEF Unread
  <1>6. LetIn'
    BY <1>1, <1>4, <1>5 DEF LetIn, Allowed
  <1>7. KnownLive'
    <2> SUFFICES ASSUME call.op \in {"accept", "remove"} PROVE KnownLive'
      BY <1>1 DEF KnownLive
    <2>1. R \in Both
      BY <1>0, <1>1, RequestAt DEF Form, Consuming, R, Both
    <2>2. PICK r \in Both : r = R
      BY <2>1
    <2>3. Expired(r)' <=> Expired(r)
      BY <1>3
    <2>4. Expired(R)' <=> Expired(R)
      BY <1>4, <2>2, <2>3 DEF Expired
    <2> QED BY <1>1, <1>4, <1>5, <2>4 DEF KnownLive
  <1>8. KnownAlive'
    BY <1>1, <1>4, <1>5 DEF KnownAlive, Examined
  <1>9. KnownValid'
    BY <1>1, <1>4, <1>5 DEF KnownValid, Examined
  <1>10. KnownFetched'
    BY <1>1, <1>2, <1>4, <1>5 DEF KnownFetched
  <1>11. KnownGiven'
    <2>1. ASSUME NEW i \in DOMAIN requests, Pending(i)' PROVE Pending(i)
      <3>1. PICK r : r = requests[i]
        OBVIOUS
      <3>2. PICK w : w = Want
        OBVIOUS
      <3>3. PICK j : j = Signer
        OBVIOUS
      <3>4. Same(r, w, j)' <=> Same(r, w, j)
        BY <1>4
      <3>5. Fetched(requests[i])
        BY <1>0, <1>2, <2>1 DEF Pending, Fetched
      <3>6. Same(requests[i], Want, Signer)' <=> Same(r, w, j)'
        BY <1>2, <1>4, <3>1, <3>2, <3>3
           DEF Same, SameInvitation, SameRotation, SameAttestation, SameCustody, SameSubsidy
      <3>7. Same(requests[i], Want, Signer)
        BY <2>1, <3>1, <3>2, <3>3, <3>4, <3>6 DEF Pending
      <3> QED BY <3>5, <3>7 DEF Pending
    <2> QED BY <1>1, <1>2, <1>4, <1>5, <2>1 DEF KnownGiven
  <1> QED BY <1>6, <1>7, <1>8, <1>9, <1>10, <1>11, <1>12 DEF Known
LEMMA StartKnown ==
  ASSUME Inv, NEW a \in Accounts, Starts(a)
  PROVE  Known'
  <1>0. Idle \in Calls /\ Idle.k = 0 /\ Idle.granted = FALSE /\ Idle.empty = FALSE
    BY IdleTyped DEF Inv, Idle
  <1>1. ASSUME Issue(a) PROVE Known'
    <2>1. PICK w \in world :
            call' = [Idle EXCEPT !.at = "signer", !.by = a, !.op = "issue", !.want = {w}]
      BY <1>1 DEF Issue
    <2>2. /\ call'.at = "signer" /\ call'.op = "issue" /\ call'.k = 0 /\ call'.granted = FALSE
      BY <1>0, <2>1 DEF Calls
    <2> QED BY <2>2 DEF Known, LetIn, Unread, KnownLive, KnownAlive, KnownValid, Examined,
                        KnownFetched, KnownGiven
  <1>2. ASSUME NEW id \in DOMAIN requests, NEW op \in {"accept", "remove"}, Consume(a, op, id)
        PROVE  Known'
    <2>1. /\ call' = [Idle EXCEPT !.at = "live", !.by = a, !.op = op, !.id = id,
                                  !.stale = ~requests[id].open]
          /\ requests' = requests /\ requests[id] \in Request
      BY <1>2, RequestAt DEF Consume, chain, facts, Inv
    <2>2. /\ call'.at = "live" /\ call'.op = op /\ call'.k = 0 /\ call'.granted = FALSE
          /\ call'.id = id /\ call'.empty = FALSE
          /\ ~call'.stale => requests[id].open
      BY <1>0, <2>1 DEF Calls, Request
    <2> QED BY <2>1, <2>2 DEF Known, LetIn, Unread, KnownLive, KnownAlive, KnownValid, Examined,
                              KnownFetched, KnownGiven, R, Fresh
  <1>3. ASSUME NEW id \in DOMAIN requests, NEW attest \in {0} \cup DOMAIN requests,
               AcceptRotation(a, id, attest)
        PROVE  Known'
    <2>1. call' = [Idle EXCEPT !.at = "owner", !.by = a, !.op = "rotate", !.id = id,
                               !.attest = attest]
      BY <1>3 DEF AcceptRotation
    <2>2. /\ call'.at = "owner" /\ call'.op = "rotate" /\ call'.k = 0 /\ call'.granted = FALSE
      BY <1>0, <2>1 DEF Calls
    <2> QED BY <2>2 DEF Known, LetIn, Unread, KnownLive, KnownAlive, KnownValid, Examined,
                        KnownFetched, KnownGiven
  <1> QED BY <1>1, <1>2, <1>3 DEF Starts

(* The chain stands still while the call reads it.                         *)
LEMMA StandsStill ==
  ASSUME Inv, call.at # "idle", UNCHANGED chain,
         call'.by = call.by, call'.op = call.op, call'.id = call.id,
         call'.attest = call.attest, call'.want = call.want
  PROVE  /\ R' = R /\ Signer' = Signer /\ Want' = Want /\ Procedure' = Procedure /\ Both' = Both
         /\ Allowed' <=> Allowed
         /\ \A r \in Both : Validations(r)' = Validations(r)
         /\ \A r \in Both : Alive(r)' <=> Alive(r)
         /\ GivenBy(Signer)' = GivenBy(Signer)
         /\ Expired(R)' <=> Expired(R)
         /\ \A i \in DOMAIN requests : Pending(i)' <=> Pending(i)
         /\ requests' = requests
  <1>1. UNCHANGED facts /\ now' = now /\ requests' = requests
    BY DEF chain, facts
  <1>2. \A r \in Both : Expired(r)' <=> Expired(r)
    BY <1>1 DEF Expired
  <1>3. /\ R' = R /\ Signer' = Signer /\ Want' = Want /\ Procedure' = Procedure /\ Both' = Both
        /\ Allowed' <=> Allowed
        /\ \A r \in Both : Validations(r)' = Validations(r)
        /\ \A r \in Both : Alive(r)' <=> Alive(r)
        /\ GivenBy(Signer)' = GivenBy(Signer)
    BY <1>1, <1>2, SameView DEF Inv
  <1>4. Expired(R)' <=> Expired(R)
    BY <1>1, <1>3 DEF Expired
  <1>5. ASSUME NEW i \in DOMAIN requests PROVE Pending(i)' <=> Pending(i)
    BY <1>1, <1>3 DEF Pending, Fetched, Same, SameInvitation, SameRotation, SameAttestation,
                      SameCustody, SameSubsidy
  <1> QED BY <1>1, <1>3, <1>4, <1>5

(* A call that moves on knows what it knew.                                *)
Informed(s) ==
  /\ s \in Stages \ {"live", "owner", "idle"}
  /\ s \in {"valid", "built"} \/ call.at \notin {"valid", "built"}
  /\ call.op \in {"accept", "remove"} /\ Procedure = "general" /\ ~call.empty => ~Expired(R)
  /\ call.op = "rotate" => R.target = call.by
  /\ call.op = "rotate" /\ call.attest # 0 /\ s # "attest" =>
       requests[call.attest].target = call.by

LEMMA GoesKnowing ==
  ASSUME Inv, call.at # "idle", NEW s \in Stages, Goto(s), ~call'.stale, Informed(s)
  PROVE  LetIn' /\ Unread' /\ KnownLive' /\ KnownFetched'
  <1>1. /\ UNCHANGED chain /\ requests' = requests
        /\ call'.at = s /\ call'.by = call.by /\ call'.op = call.op /\ call'.id = call.id
        /\ call'.attest = call.attest /\ call'.want = call.want /\ call'.found = call.found
        /\ call'.k = call.k /\ call'.empty = call.empty /\ call'.stale = call.stale
        /\ call'.granted = call.granted
    BY Moves DEF Inv, Goto
  <1>2. /\ R' = R /\ Procedure' = Procedure
        /\ (Allowed' <=> Allowed) /\ (Expired(R)' <=> Expired(R))
    BY <1>1, StandsStill
  <1>3. LetIn /\ Unread /\ KnownLive
    BY <1>1 DEF Inv, Known, Fresh
  <1>4. LetIn'
    BY <1>1, <1>2, <1>3 DEF LetIn, Allowed
  <1>5. Unread'
    BY <1>1, <1>3 DEF Unread, Informed
  <1>6. KnownLive'
    BY <1>1, <1>2, <1>3 DEF KnownLive, Informed
  <1>7. KnownFetched'
    BY <1>1, <1>2 DEF KnownFetched, Informed
  <1> QED BY <1>4, <1>5, <1>6, <1>7
LEMMA ValidationsAre ==
  ASSUME NEW r
  PROVE  /\ Len(Validations(r)) \in {1, 2}
         /\ DOMAIN Validations(r) = 1 .. Len(Validations(r))
  <1>1. ASSUME NEW x PROVE Len(<<x>>) = 1 /\ DOMAIN <<x>> = 1 .. 1
    OBVIOUS
  <1>2. ASSUME NEW x, NEW y PROVE Len(<<x, y>>) = 2 /\ DOMAIN <<x, y>> = 1 .. 2
    OBVIOUS
  <1>3. CASE r.type = "RotatePrimaryKey"
    BY <1>1, <1>3, Zenon DEF Validations
  <1>4. CASE r.type = "AddRelayerPayingKey"
    BY <1>2, <1>4, Zenon DEF Validations, SubsidyParties
  <1>5. CASE r.type = "JoinIdentity"
    BY <1>2, <1>5, Zenon DEF Validations, JoinOrRotate
  <1>6. CASE r.type = "RotatePrimaryKeyToSecondary"
    BY <1>2, <1>6, Zenon DEF Validations, JoinOrRotate
  <1>7. CASE r.type = "AttestPrimaryKeyRotation"
    BY <1>1, <1>7, Zenon DEF Validations
  <1>8. CASE r.type = "TransferTicker"
    BY <1>1, <1>8, Zenon DEF Validations
  <1>9. CASE r.type = "TransferAssetOwnership"
    BY <1>1, <1>9, Zenon DEF Validations
  <1>10. CASE r.type = "AddMultiSigSigner"
    BY <1>1, <1>10, Zenon DEF Validations
  <1>11. CASE r.type \notin {"RotatePrimaryKey", "AddRelayerPayingKey", "JoinIdentity",
                            "RotatePrimaryKeyToSecondary", "AttestPrimaryKeyRotation",
                            "TransferTicker", "TransferAssetOwnership", "AddMultiSigSigner"}
    BY <1>1, <1>11, Zenon DEF Validations
  <1> QED BY <1>3, <1>4, <1>5, <1>6, <1>7, <1>8, <1>9, <1>10, <1>11

LEMMA PrepareKnown ==
  ASSUME Inv, Prepare
  PROVE  Known'
  <1> SUFFICES ASSUME call'.at # "idle", ~call'.stale PROVE Known'
    BY DEF Known, Fresh
  <1>0. Typed /\ Form /\ Known /\ Typed' /\ Form' /\ UNCHANGED chain /\ call \in Calls
    BY PrepareSteps DEF Inv, Typed, CallTyped
  <1>1. requests' = requests /\ now' = now
    BY <1>0 DEF chain, facts
  <1>2. ~Refuse
    BY <1>0, Refused
  <1>3. ASSUME ~call.stale, call.at # "idle"
        PROVE  LetIn /\ Unread /\ KnownLive /\ KnownAlive /\ KnownValid /\ KnownFetched /\ KnownGiven
    BY <1>0, <1>3 DEF Known, Fresh
  <1>4. ASSUME NEW test, NEW s \in Stages, Check(test, s) PROVE test /\ Goto(s)
    BY <1>2, <1>4 DEF Check
  (* A stage of an issue: nothing is known before the last reads. *)
  <1>5. ASSUME NEW s \in Stages \ {"multi"}, Goto(s), call.op = "issue",
               call.at \in {"signer", "sent", "multi", "received", "state"},
               s # "built" \/ Want.type \notin SentOnes \cup ReceivedOnes
                 \/ \A i \in DOMAIN requests : ~Pending(i)
        PROVE  Known'
    <2>1. /\ call'.at = s /\ call'.by = call.by /\ call'.op = call.op /\ call'.id = call.id
          /\ call'.attest = call.attest /\ call'.want = call.want
          /\ call'.k = call.k /\ call'.stale = call.stale /\ call'.granted = call.granted
      BY <1>0, <1>5, Moves
    <2>2. s \in {"signer", "sent", "received", "state", "built"}
      BY <1>0, <1>5, <2>1 DEF Form, Issuing
    <2>3. LetIn /\ Unread
      BY <1>3, <1>5, <2>1
    <2>4. /\ R' = R /\ Want' = Want /\ (Allowed' <=> Allowed)
          /\ \A i \in DOMAIN requests : Pending(i)' <=> Pending(i)
      BY <1>0, <1>5, <2>1, StandsStill
    <2>5. LetIn' /\ Unread'
      BY <1>5, <2>1, <2>3, <2>4 DEF LetIn, Allowed, Unread
    <2>6. KnownGiven'
      BY <1>1, <1>5, <2>1, <2>2, <2>4 DEF KnownGiven
    <2>7. KnownLive' /\ KnownAlive' /\ KnownValid' /\ KnownFetched'
      BY <1>5, <2>1 DEF KnownLive, KnownAlive, KnownValid, KnownFetched, Examined
    <2> QED BY <2>5, <2>6, <2>7 DEF Known
  <1>6. CASE ReadSigner
    <2> DEFINE s == IF Want.type \in SentOnes THEN "sent"
                    ELSE IF Want.type \in ReceivedOnes THEN "received" ELSE "state"
    <2>1. call.at = "signer" /\ call.op = "issue" /\ Check(Signer # NoIdentity, s)
      BY <1>0, <1>6 DEF ReadSigner, Form, Consuming, Rotating, Calls
    <2>2. s \in Stages \ {"multi"} /\ s # "built" /\ s \in Stages
      BY DEF Stages
    <2>3. Goto(s)
      BY <1>4, <2>1, <2>2
    <2> QED BY <1>5, <2>1, <2>2, <2>3
  <1>7. CASE ReadSent
    <2>1. call.at = "sent" /\ call.op = "issue"
      BY <1>0, <1>7 DEF ReadSent, Form, Consuming, Rotating, Calls
    <2>2. /\ call'.at = "multi" /\ call'.by = call.by /\ call'.op = call.op /\ call'.id = call.id
          /\ call'.attest = call.attest /\ call'.want = call.want /\ call'.k = call.k
          /\ call'.stale = call.stale /\ call'.granted = call.granted
          /\ call'.found = GivenBy(Signer)
      BY <1>0, <1>7 DEF ReadSent, Calls
    <2>3. LetIn /\ Unread
      BY <1>3, <2>1, <2>2
    <2>4. R' = R /\ (Allowed' <=> Allowed) /\ GivenBy(Signer)' = GivenBy(Signer)
      BY <1>0, <2>1, <2>2, StandsStill
    <2>5. LetIn' /\ Unread'
      BY <2>1, <2>2, <2>3, <2>4 DEF LetIn, Allowed, Unread
    <2>6. KnownGiven'
      BY <2>2, <2>4 DEF KnownGiven
    <2>7. KnownLive' /\ KnownAlive' /\ KnownValid' /\ KnownFetched'
      BY <2>1, <2>2 DEF KnownLive, KnownAlive, KnownValid, KnownFetched, Examined
    <2> QED BY <2>5, <2>6, <2>7 DEF Known
  <1>8. CASE ReadMulti
    <2>1. call.at = "multi" /\ call.op = "issue" /\ "built" \in Stages
      BY <1>0, <1>8 DEF ReadMulti, Form, Consuming, Rotating, Calls, Stages
    <2>2. /\ Goto("built")
          /\ ~ \E i \in call.found : Fetched(requests[i]) /\ Same(requests[i], Want, Signer)
      BY <1>4, <1>8, <2>1 DEF ReadMulti
    <2>3. call'.stale = call.stale
      BY <1>0, <2>1, <2>2, Moves
    <2>4. call.found = GivenBy(Signer)
      BY <1>3, <2>1, <2>3 DEF KnownGiven
    <2>5. Want.type \in SentOnes
      BY <1>0, <2>1, IssuedOne
    <2>6. ASSUME NEW i \in DOMAIN requests, Pending(i) PROVE FALSE
      <3>1. requests[i].open /\ requests[i].issuer = Signer
        BY <2>5, <2>6 DEF Pending, Fetched, Same, SameInvitation, SameRotation, SameSubsidy, SentOnes
      <3>2. i \in call.found
        BY <2>4, <3>1 DEF GivenBy
      <3> QED BY <2>2, <2>6, <3>2 DEF Pending
    <2>7. "built" \in Stages \ {"multi"}
      BY <2>1
    <2> QED BY <1>5, <2>1, <2>2, <2>6, <2>7
  <1>9. CASE ReadReceived
    <2>1. call.at = "received" /\ call.op = "issue" /\ "built" \in Stages
      BY <1>0, <1>9 DEF ReadReceived, Form, Consuming, Rotating, Calls, Stages
    <2>2. Goto("built") /\ \A i \in DOMAIN requests : ~Pending(i)
      BY <1>4, <1>9, <2>1 DEF ReadReceived, Pending
    <2> QED BY <1>5, <2>1, <2>2
  <1>10. CASE ReadState
    <2>1. call.at = "state" /\ call.op = "issue" /\ "built" \in Stages
      BY <1>0, <1>10 DEF ReadState, Form, Consuming, Rotating, Calls, Stages
    <2>2. Goto("built")
      BY <1>4, <1>10, <2>1 DEF ReadState
    <2>3. Want.type \notin SentOnes \cup ReceivedOnes
      BY <1>0, <2>1, IssuedOne
    <2> QED BY <1>5, <2>1, <2>2, <2>3
  (* Accepting and removing. *)
  <1>12. CASE BeginGeneral \/ BeginKey \/ BeginMultiSig \/ BeginRelayer
    <2>1. /\ call.at = "live" /\ call.op \in {"accept", "remove"} /\ ~call.empty
          /\ call.id \in DOMAIN requests /\ call.attest = 0
      BY <1>0, <1>12 DEF BeginGeneral, BeginKey, BeginMultiSig, BeginRelayer, Form, Consuming,
                         Issuing, Rotating, Calls
    <2>2. CASE Validate /\ (Procedure = "general" => ~Expired(R))
      <3> DEFINE s == IF call.op = "remove" THEN "built" ELSE "exists"
      <3>1. s \in Stages /\ Goto(s) /\ Informed(s)
        BY <2>1, <2>2 DEF Stages, Validate, Informed
      <3>2. call'.at = s /\ call'.op = call.op
        BY <1>0, <3>1, Moves
      <3>3. LetIn' /\ Unread' /\ KnownLive' /\ KnownFetched'
        BY <2>1, <3>1, GoesKnowing
      <3>4. KnownAlive' /\ KnownValid' /\ KnownGiven'
        BY <2>1, <3>2 DEF KnownAlive, KnownValid, KnownGiven, Examined
      <3> QED BY <3>3, <3>4 DEF Known
    <2>3. CASE Procedure = "general" /\ Expired(R)
               /\ call' = [call EXCEPT !.at = "built", !.empty = TRUE]
      <3>1. /\ call'.at = "built" /\ call'.by = call.by /\ call'.op = call.op /\ call'.id = call.id
            /\ call'.attest = call.attest /\ call'.want = call.want /\ call'.empty = TRUE
            /\ call'.stale = call.stale /\ call'.granted = call.granted
        BY <1>0, <2>3 DEF Calls
      <3>2. LetIn /\ KnownLive
        BY <1>3, <2>1, <3>1
      <3>3. R' = R /\ (Allowed' <=> Allowed) /\ (Expired(R)' <=> Expired(R))
        BY <1>0, <2>1, <3>1, StandsStill
      <3>4. LetIn'
        BY <3>1, <3>2, <3>3 DEF LetIn, Allowed
      <3>5. KnownLive'
        BY <2>1, <2>3, <3>1, <3>2, <3>3 DEF KnownLive
      <3>6. Unread' /\ KnownAlive' /\ KnownValid' /\ KnownFetched' /\ KnownGiven'
        BY <2>1, <3>1 DEF Unread, KnownAlive, KnownValid, KnownFetched, KnownGiven, Examined
      <3> QED BY <3>4, <3>5, <3>6 DEF Known
    <2> QED BY <1>2, <1>12, <2>2, <2>3 DEF BeginGeneral, BeginKey, BeginMultiSig, BeginRelayer
  <1>13. CASE ReadExists
    <2>1. /\ call.at = "exists" /\ call.op \in {"accept", "rotate"} /\ ~call.empty
          /\ "valid" \in Stages
      BY <1>0, <1>13 DEF ReadExists, Form, Consuming, Issuing, Rotating, Calls, Stages
    <2>2. (\A r \in Both : Alive(r)) /\ Goto("valid")
      BY <1>4, <1>13, <2>1 DEF ReadExists
    <2>3. /\ call'.at = "valid" /\ call'.by = call.by /\ call'.op = call.op /\ call'.id = call.id
          /\ call'.attest = call.attest /\ call'.want = call.want /\ call'.k = call.k
          /\ call'.stale = call.stale
      BY <1>0, <2>1, <2>2, Moves
    <2>4. Unread /\ KnownLive /\ KnownFetched
      BY <1>3, <2>1, <2>3
    <2>5. Informed("valid")
      BY <2>1, <2>4 DEF Informed, KnownLive, KnownFetched, Stages
    <2>6. LetIn' /\ Unread' /\ KnownLive' /\ KnownFetched'
      BY <2>1, <2>2, <2>5, GoesKnowing
    <2>7. /\ Both' = Both /\ (\A r \in Both : Alive(r)' <=> Alive(r))
      BY <1>0, <2>1, <2>3, StandsStill
    <2>8. KnownAlive'
      BY <2>2, <2>7 DEF KnownAlive
    <2>9. KnownValid'
      <3>1. call'.k = 0 /\ call'.at # "built"
        BY <2>1, <2>3, <2>4 DEF Unread
      <3>2. /\ Both' = Both
            /\ \A r \in Both : Validations(r)' = Validations(r)
        BY <1>0, <2>1, <2>3, StandsStill
      <3>3. ASSUME NEW r \in Both, NEW j \in DOMAIN (Validations(r)') PROVE ~(j <= 0)
        BY <3>2, ValidationsAre
      <3> QED BY <3>1, <3>2, <3>3 DEF KnownValid
    <2>10. KnownGiven'
      BY <2>1, <2>3 DEF KnownGiven
    <2> QED BY <2>6, <2>8, <2>9, <2>10 DEF Known
  <1>14. CASE ReadValidity
    <2> DEFINE next == call.k + 1
               last == \A r \in Both : next >= Len(Validations(r))
               s == IF last THEN "built" ELSE "valid"
    <2>1. call.at = "valid" /\ call.op \in {"accept", "rotate"} /\ ~call.empty /\ call.k \in Nat
      BY <1>0, <1>14 DEF ReadValidity, Form, Consuming, Issuing, Rotating, Calls
    <2>2. /\ \A r \in Both : next <= Len(Validations(r)) => Validations(r)[next]
          /\ call' = [call EXCEPT !.k = next, !.at = s]
      BY <1>2, <1>14 DEF ReadValidity
    <2>3. s \in {"built", "valid"}
      OBVIOUS
    <2>4. /\ call'.at = s /\ call'.by = call.by /\ call'.op = call.op /\ call'.id = call.id
          /\ call'.attest = call.attest /\ call'.want = call.want /\ call'.k = next
          /\ call'.stale = call.stale /\ call'.granted = call.granted /\ call'.empty = call.empty
      BY <1>0, <2>2 DEF Calls
    <2>5. LetIn /\ KnownLive /\ KnownAlive /\ KnownValid /\ KnownFetched
      BY <1>3, <2>1, <2>4
    <2>6. /\ R' = R /\ Procedure' = Procedure /\ Both' = Both
          /\ (Allowed' <=> Allowed) /\ (Expired(R)' <=> Expired(R))
          /\ \A r \in Both : Alive(r)' <=> Alive(r)
          /\ \A r \in Both : Validations(r)' = Validations(r)
      BY <1>0, <2>1, <2>4, StandsStill
    <2>7. LetIn'
      BY <2>4, <2>5, <2>6 DEF LetIn, Allowed
    <2>8. KnownLive'
      BY <2>1, <2>4, <2>5, <2>6 DEF KnownLive
    <2>9. KnownAlive'
      BY <2>1, <2>5, <2>6 DEF KnownAlive, Examined
    <2>10. KnownFetched'
      BY <1>1, <2>1, <2>3, <2>4, <2>5, <2>6 DEF KnownFetched
    <2>11. KnownValid'
      <3>1. ASSUME NEW r \in Both, NEW j \in DOMAIN Validations(r), j <= next \/ s = "built"
            PROVE  Validations(r)[j]
        <4>1. Len(Validations(r)) \in Nat /\ DOMAIN Validations(r) = 1 .. Len(Validations(r))
          BY ValidationsAre
        <4>2. j <= next
          BY <2>1, <3>1, <4>1
        <4>3. CASE j = next
          BY <2>2, <4>1, <4>3
        <4>4. CASE j <= call.k
          BY <2>1, <2>5, <4>4 DEF KnownValid, Examined
        <4> QED BY <2>1, <4>1, <4>2, <4>3, <4>4
      <3> HIDE DEF next, s
      <3>2. ASSUME NEW r \in Both, NEW j \in DOMAIN (Validations(r)'), j <= call'.k \/ call'.at = "built"
            PROVE  Validations(r)'[j]
        BY <2>4, <2>6, <3>1, <3>2
      <3> QED BY <2>6, <3>2 DEF KnownValid
    <2>12. Unread' /\ KnownGiven'
      BY <2>1, <2>3, <2>4 DEF Unread, KnownGiven
    <2> QED BY <2>7, <2>8, <2>9, <2>10, <2>11, <2>12 DEF Known
  <1>15. CASE FetchOwnerAuth
    <2> DEFINE s == IF call.attest = 0 THEN "exists" ELSE "attest"
    <2>1. call.at = "owner" /\ call.op = "rotate"
      BY <1>0, <1>15 DEF FetchOwnerAuth, Form, Consuming, Issuing, Calls
    <2>2. s \in Stages /\ s \in {"exists", "attest"}
      BY DEF Stages
    <2>3. Goto(s) /\ R.target = call.by
      BY <1>4, <1>15, <2>2 DEF FetchOwnerAuth
    <2>4. Informed(s)
      BY <2>1, <2>3 DEF Informed, Stages
    <2>5. LetIn' /\ Unread' /\ KnownLive' /\ KnownFetched'
      BY <2>1, <2>2, <2>3, <2>4, GoesKnowing
    <2>6. call'.at = s /\ call'.op = call.op
      BY <1>0, <2>2, <2>3, Moves
    <2>7. KnownAlive' /\ KnownValid' /\ KnownGiven'
      BY <2>1, <2>2, <2>6 DEF KnownAlive, KnownValid, KnownGiven, Examined
    <2> QED BY <2>5, <2>7 DEF Known
  <1>16. CASE FetchCddAuth
    <2>1. call.at = "attest" /\ call.op = "rotate" /\ "exists" \in Stages
      BY <1>0, <1>16 DEF FetchCddAuth, Form, Consuming, Issuing, Calls, Stages
    <2>2. Goto("exists") /\ requests[call.attest].target = call.by
      BY <1>4, <1>16, <2>1 DEF FetchCddAuth
    <2>3. call'.at = "exists" /\ call'.op = call.op /\ call'.stale = call.stale
      BY <1>0, <2>1, <2>2, Moves
    <2>4. KnownFetched
      BY <1>3, <2>1, <2>3
    <2>5. Informed("exists")
      BY <2>1, <2>2, <2>4 DEF Informed, KnownFetched, Stages
    <2>6. LetIn' /\ Unread' /\ KnownLive' /\ KnownFetched'
      BY <2>1, <2>2, <2>5, GoesKnowing
    <2>7. KnownAlive' /\ KnownValid' /\ KnownGiven'
      BY <2>1, <2>3 DEF KnownAlive, KnownValid, KnownGiven, Examined
    <2> QED BY <2>6, <2>7 DEF Known
  <1>17. CASE Authorize
    <2>1. call.at # "idle" /\ Allowed /\ call' = [call EXCEPT !.granted = TRUE]
      BY <1>2, <1>17 DEF Authorize, Allowed
    <2>2. /\ call'.at = call.at /\ call'.by = call.by /\ call'.op = call.op /\ call'.id = call.id
          /\ call'.attest = call.attest /\ call'.want = call.want /\ call'.k = call.k
          /\ call'.stale = call.stale /\ call'.empty = call.empty /\ call'.found = call.found
      BY <1>0, <2>1 DEF Calls
    <2>3. LetIn /\ Unread /\ KnownLive /\ KnownAlive /\ KnownValid /\ KnownFetched /\ KnownGiven
      BY <1>3, <2>1, <2>2
    <2>4. /\ R' = R /\ Signer' = Signer /\ Want' = Want /\ Procedure' = Procedure /\ Both' = Both
          /\ (Allowed' <=> Allowed) /\ (Expired(R)' <=> Expired(R))
          /\ \A r \in Both : Validations(r)' = Validations(r)
          /\ \A r \in Both : Alive(r)' <=> Alive(r)
          /\ GivenBy(Signer)' = GivenBy(Signer)
          /\ \A i \in DOMAIN requests : Pending(i)' <=> Pending(i)
      BY <1>0, <2>1, <2>2, StandsStill
    <2>5. LetIn'
      BY <2>1, <2>2, <2>4 DEF LetIn, Allowed
    <2>6. KnownLive'
      BY <2>2, <2>3, <2>4 DEF KnownLive
    <2>7. KnownAlive'
      BY <2>2, <2>3, <2>4 DEF KnownAlive, Examined
    <2>8. KnownValid'
      BY <2>2, <2>3, <2>4 DEF KnownValid, Examined
    <2>9. KnownFetched' /\ Unread'
      BY <1>1, <2>2, <2>3, <2>4 DEF KnownFetched, Unread
    <2>10. KnownGiven'
      BY <1>1, <2>2, <2>3, <2>4 DEF KnownGiven
    <2> QED BY <2>5, <2>6, <2>7, <2>8, <2>9, <2>10 DEF Known
  <1> QED BY <1>6, <1>7, <1>8, <1>9, <1>10, <1>12, <1>13, <1>14, <1>15, <1>16, <1>17 DEF Prepare
LEMMA NextInv ==
  ASSUME Inv, [Next]_vars
  PROVE  Inv'
  <1>1. Typed' /\ Form'
    BY FormKept DEF Inv
  <1>2. CASE UNCHANGED vars
    <2>1. UNCHANGED call /\ UNCHANGED chain
      BY <1>2 DEF vars
    <2>2. CASE call.at = "idle"
      <3>1. call'.at = "idle"
        BY <2>1, <2>2
      <3> QED BY <1>1, <3>1 DEF Inv, Known
    <2>3. CASE call.at # "idle"
      <3>0. call' = call
        BY <2>1
      <3>1. /\ R' = R /\ Signer' = Signer /\ Want' = Want /\ Procedure' = Procedure /\ Both' = Both
            /\ (Allowed' <=> Allowed) /\ (Expired(R)' <=> Expired(R))
            /\ \A r \in Both : Validations(r)' = Validations(r)
            /\ \A r \in Both : Alive(r)' <=> Alive(r)
            /\ GivenBy(Signer)' = GivenBy(Signer) /\ requests' = requests
            /\ \A i \in DOMAIN requests : Pending(i)' <=> Pending(i)
        BY <2>1, <2>3, StandsStill
      <3> SUFFICES ASSUME ~call'.stale PROVE Known'
        BY <1>1 DEF Inv, Known, Fresh
      <3>2. LetIn /\ Unread /\ KnownLive /\ KnownAlive /\ KnownValid /\ KnownFetched /\ KnownGiven
        BY <2>3, <3>0 DEF Inv, Known, Fresh
      <3>3. LetIn' /\ Unread'
        BY <2>1, <3>1, <3>2 DEF LetIn, Allowed, Unread
      <3>4. KnownLive' /\ KnownFetched'
        BY <2>1, <3>1, <3>2 DEF KnownLive, KnownFetched
      <3>5. KnownAlive' /\ KnownValid'
        BY <2>1, <3>1, <3>2 DEF KnownAlive, KnownValid, Examined
      <3>6. KnownGiven'
        BY <2>1, <3>1, <3>2 DEF KnownGiven
      <3> QED BY <1>1, <3>3, <3>4, <3>5, <3>6 DEF Known
    <2> QED BY <1>1, <2>2, <2>3 DEF Inv
  <1>3. CASE Prepare
    BY <1>1, <1>3, PrepareKnown DEF Inv
  <1>4. CASE Revert \/ DispatchNothing \/ DispatchIssue \/ DispatchRemove \/ DispatchAccept
    BY <1>1, <1>4, SendSteps DEF Inv, Known
  <1>5. ASSUME NEW a \in Accounts, Starts(a) PROVE Inv'
    BY <1>1, <1>5, StartKnown DEF Inv
  <1>6. CASE Others
    BY <1>1, <1>6, OthersKnown DEF Inv
  <1> QED BY <1>2, <1>3, <1>4, <1>5, <1>6, StepsSorted

LEMMA InvAlways == Spec => []Inv
  <1>1. Init => Inv
    BY InitTyped, IdleTyped DEF Init, Inv, Form, Known
  <1>2. Inv /\ [Next]_vars => Inv'
    BY NextInv
  <1> QED BY <1>1, <1>2, PTL DEF Spec

-----------------------------------------------------------------------------
(* What the validations of a request come to, all together.                *)
Validated(r) ==
  /\ r.type = "RotatePrimaryKey" => r.target \in Accounts
  /\ r.type = "AttestPrimaryKeyRotation" => r.issuer \in CddProviders
  /\ r.type = "TransferTicker" => ticker = "reserved"
  /\ r.type = "TransferAssetOwnership" => ticker = "asset"
  /\ r.type = "AddMultiSigSigner" => NotASigner(r)
  /\ r.type \in {"JoinIdentity", "RotatePrimaryKeyToSecondary"} =>
       r.issuer \in cdd /\ r.target \in Accounts /\ keys[r.target] = NoIdentity
  /\ r.type = "AddRelayerPayingKey" =>
       keys[r.target] # NoIdentity /\ {keys[r.target], r.issuer} \subseteq cdd

LEMMA AllValid ==
  ASSUME NEW r
  PROVE  (\A j \in DOMAIN Validations(r) : Validations(r)[j]) <=> Validated(r)
  <1> DEFINE all == \A j \in DOMAIN Validations(r) : Validations(r)[j]
  <1>1. ASSUME NEW x PROVE <<x>>[1] = x /\ DOMAIN <<x>> = {1}
    OBVIOUS
  <1>2. ASSUME NEW x, NEW y PROVE <<x, y>>[1] = x /\ <<x, y>>[2] = y /\ DOMAIN <<x, y>> = {1, 2}
    OBVIOUS
  <1>b. ASSUME NEW x, NEW y
        PROVE  (\A j \in DOMAIN <<x, y>> : <<x, y>>[j]) <=> (x /\ y)
    <2>1. ASSUME \A j \in DOMAIN <<x, y>> : <<x, y>>[j] PROVE x /\ y
      <3>1. 1 \in DOMAIN <<x, y>> /\ 2 \in DOMAIN <<x, y>>
        BY <1>2
      <3>2. <<x, y>>[1] /\ <<x, y>>[2]
        BY <2>1, <3>1, Zenon
      <3> QED BY <1>2, <3>2, Zenon
    <2>2. ASSUME x /\ y, NEW j \in DOMAIN <<x, y>> PROVE <<x, y>>[j]
      <3>1. j = 1 \/ j = 2
        BY <1>2
      <3>2. CASE j = 1
        BY <1>2, <2>2, <3>2, Zenon
      <3>3. CASE j = 2
        BY <1>2, <2>2, <3>3, Zenon
      <3> QED BY <3>1, <3>2, <3>3
    <2> QED BY <2>1, <2>2, Zenon
  <1>3. CASE r.type = "RotatePrimaryKey"
    BY <1>1, <1>3, Zenon DEF Validations, Validated
  <1>4. CASE r.type = "AddRelayerPayingKey"
    BY <1>b, <1>4, Zenon DEF Validations, SubsidyParties, Validated
  <1>5. CASE r.type = "JoinIdentity"
    <2>1. Validations(r) = JoinOrRotate(r)
      BY <1>5, Zenon DEF Validations
    <2> DEFINE p == r.issuer \in cdd
               q == r.target \in Accounts /\ keys[r.target] = NoIdentity
    <2>2. JoinOrRotate(r) = <<p, q>>
      BY DEF JoinOrRotate
    <2>3. (\A j \in DOMAIN <<p, q>> : <<p, q>>[j]) <=> (p /\ q)
      <3> HIDE DEF p, q
      <3> QED BY <1>b
    <2>4. Validated(r) <=> (p /\ q)
      BY <1>5 DEF Validated
    <2> HIDE DEF p, q
    <2> QED BY <2>1, <2>2, <2>3, <2>4, Zenon
  <1>6. CASE r.type = "RotatePrimaryKeyToSecondary"
    <2>1. Validations(r) = JoinOrRotate(r)
      BY <1>6, Zenon DEF Validations
    <2> DEFINE p == r.issuer \in cdd
               q == r.target \in Accounts /\ keys[r.target] = NoIdentity
    <2>2. JoinOrRotate(r) = <<p, q>>
      BY DEF JoinOrRotate
    <2>3. (\A j \in DOMAIN <<p, q>> : <<p, q>>[j]) <=> (p /\ q)
      <3> HIDE DEF p, q
      <3> QED BY <1>b
    <2>4. Validated(r) <=> (p /\ q)
      BY <1>6 DEF Validated
    <2> HIDE DEF p, q
    <2> QED BY <2>1, <2>2, <2>3, <2>4, Zenon
  <1>7. CASE r.type = "AttestPrimaryKeyRotation"
    BY <1>1, <1>7, Zenon DEF Validations, Validated
  <1>8. CASE r.type = "TransferTicker"
    BY <1>1, <1>8, Zenon DEF Validations, Validated
  <1>9. CASE r.type = "TransferAssetOwnership"
    BY <1>1, <1>9, Zenon DEF Validations, Validated
  <1>10. CASE r.type = "AddMultiSigSigner"
    BY <1>1, <1>10, Zenon DEF Validations, Validated
  <1>11. CASE r.type \notin {"RotatePrimaryKey", "AddRelayerPayingKey", "JoinIdentity",
                            "RotatePrimaryKeyToSecondary", "AttestPrimaryKeyRotation",
                            "TransferTicker", "TransferAssetOwnership", "AddMultiSigSigner"}
    BY <1>1, <1>11, Zenon DEF Validations, Validated
  <1> QED BY <1>3, <1>4, <1>5, <1>6, <1>7, <1>8, <1>9, <1>10, <1>11
(* A call that is about to be sent, and what it is about.                  *)
LEMMA ReadyCall ==
  ASSUME Inv, Ready, Fresh, ~call.empty, call.op # "issue"
  PROVE  /\ R \in Both /\ R \in Request /\ Fits(R) /\ call.by \in Accounts
         /\ Granted(R) /\ call.op \in {"accept", "remove", "rotate"}
         /\ KnownLive /\ KnownAlive /\ KnownValid /\ KnownFetched
         /\ \A r \in Both : r \in Request /\ Fits(r)
         /\ Signer \in Identities \cup {NoIdentity}
  <1>1. call \in Calls /\ call.at = "built" /\ call.granted
    BY DEF Inv, Typed, CallTyped, Ready
  <1>2. call.op \in {"accept", "remove", "rotate"} /\ call.id \in DOMAIN requests
    BY <1>1 DEF Inv, Form, Consuming, Rotating, Calls
  <1>3. call.id # 0 /\ R \in Request /\ Fits(R) /\ R \in Both
    BY <1>2, RequestAt DEF Inv, R, Both
  <1>4. LetIn /\ KnownLive /\ KnownAlive /\ KnownValid /\ KnownFetched
    BY <1>1 DEF Inv, Known
  <1>5. Granted(R)
    BY <1>1, <1>3, <1>4 DEF LetIn
  <1>6. \A r \in Both : r \in Request /\ Fits(r)
    <2>1. {call.id, call.attest} \ {0} \subseteq DOMAIN requests
      BY DEF Inv, Typed, CallTyped, ChainTyped
    <2> QED BY <2>1, RequestAt DEF Both, Inv
  <1>7. Signer \in Identities \cup {NoIdentity} /\ call.by \in Accounts
    BY <1>1 DEF Signer, Inv, Typed, ChainTyped, Calls
  <1> QED BY <1>1, <1>2, <1>3, <1>4, <1>5, <1>6, <1>7

LEMMA PartyHere ==
  ASSUME Inv, Ready, Fresh, ~call.empty, call.op # "issue"
  PROVE  Matches(call.by, R) \/ (call.op = "remove" /\ R.issuer = Signer)
  <1>1. CASE call.op = "rotate"
    BY <1>1, ReadyCall, PartiesAssumption DEF KnownFetched, Matches, Ready
  <1>2. CASE call.op \in {"accept", "remove"}
    <2>1. Party(R) \/ (Procedure = "general" /\ Expired(R))
      BY <1>2, ReadyCall DEF Granted, GrantedGeneral, GrantedKey, GrantedMultiSig, GrantedRelayer,
                             Procedure, Family, Party
    <2>2. Party(R)
      BY <1>2, <2>1, ReadyCall DEF KnownLive, Ready
    <2> QED BY <2>2 DEF Party, TargetOf, Matches, Signer
  <1> QED BY <1>1, <1>2, ReadyCall

(* A request is accepted by its target and removed by its target or its    *)
(* issuer: getAuthorization of the four procedures lets nobody else        *)
(* through, and who has no Identity to pay with is paid for.               *)
THEOREM PartiesOnly == Spec => []OnlyParties
  <1>1. ASSUME Inv PROVE OnlyParties
    <2> SUFFICES ASSUME Ready, Fresh, ~call.empty, call.op \in {"accept", "remove", "rotate"}
                 PROVE  /\ Matches(call.by, R) \/ (call.op = "remove" /\ R.issuer = Signer)
                        /\ Accepted /\ Signer = NoIdentity => Payer = "issuer"
      BY DEF OnlyParties
    <2>1. Matches(call.by, R) \/ (call.op = "remove" /\ R.issuer = Signer)
      BY <1>1, PartyHere
    <2>2. ASSUME Signer = NoIdentity PROVE Payer = "issuer"
      <3>1. CASE call.op = "rotate"
        BY <3>1 DEF Payer
      <3>2. CASE call.op = "accept"
        <4>1. Procedure # "general"
          BY <1>1, <2>2, <3>2, ReadyCall DEF Granted, GrantedGeneral
        <4> QED BY <3>2, <4>1 DEF Payer
      <3>3. CASE call.op = "remove"
        <4>1. Procedure # "general" /\ Procedure # "relayer"
          BY <1>1, <2>2, <3>3, ReadyCall DEF Granted, GrantedGeneral, GrantedRelayer
        <4>2. TargetOf(R)
          BY <1>1, <2>2, <3>3, <4>1, ReadyCall
             DEF Granted, GrantedKey, GrantedMultiSig, Procedure, Family
        <4>3. R.target = call.by
          BY <1>1, <2>2, <4>2, ReadyCall, PartiesAssumption DEF TargetOf, Request
        <4> QED BY <3>3, <4>1, <4>3 DEF Payer
      <3> QED BY <3>1, <3>2, <3>3
    <2> QED BY <2>1, <2>2
  <1> QED BY <1>1, InvAlways, PTL

(* What passes the validations of utils.ts and the getAuthorization of its *)
(* procedure is taken by the chain, if nothing has changed since the call  *)
(* began and the issuer still has what was offered.                        *)
THEOREM SentIsTaken == Spec => []RevertedOnlyIfStale
  <1>1. ASSUME Inv PROVE RevertedOnlyIfStale
    <2> SUFFICES ASSUME Ready, Fresh, call.op \in {"accept", "rotate"} => StillPossible(R)
                 PROVE  Accepted
      BY DEF RevertedOnlyIfStale
    <2>1. CASE call.empty \/ call.op = "issue"
      BY <2>1 DEF Accepted
    <2>2. CASE ~call.empty /\ call.op = "remove"
      <3>1. R.open
        BY <1>1, <2>2, ReadyCall DEF KnownLive
      <3>2. Matches(call.by, R) \/ R.issuer = keys[call.by]
        BY <1>1, <2>2, PartyHere DEF Signer
      <3> QED BY <2>2, <3>1, <3>2 DEF Accepted, AcceptsRemove
    <2>3. CASE ~call.empty /\ call.op \in {"accept", "rotate"}
      <3>0. call.at = "built" /\ Matches(call.by, R)
        BY <1>1, <2>3, PartyHere DEF Ready
      <3>1. ASSUME NEW r \in Both PROVE r.open /\ ~Expired(r) /\ Validated(r)
        <4>1. Alive(r) /\ \A j \in DOMAIN Validations(r) : Validations(r)[j]
          BY <1>1, <2>3, <3>0, ReadyCall DEF KnownAlive, KnownValid, Examined
        <4> QED BY <4>1, AllValid DEF Alive
      <3>2. ASSUME NEW r \in Both, Matches(call.by, r), StillPossible(r)
            PROVE  AcceptsConsume(call.by, r)
        <4>1. r \in Request /\ Fits(r) /\ call.by \in Accounts /\ Validated(r)
          BY <1>1, <2>3, <3>1, ReadyCall
        <4>2. /\ r.type \in {"JoinIdentity", "RotatePrimaryKeyToSecondary"} =>
                   keys[call.by] = NoIdentity /\ r.issuer \in cdd
              /\ r.type = "AddMultiSigSigner" /\ r.target = call.by =>
                   keys[call.by] = NoIdentity /\ call.by \notin signers
              /\ r.type = "AddRelayerPayingKey" => {keys[call.by], r.issuer} \subseteq cdd
          BY <3>2, <4>1 DEF Validated, NotASigner, Matches, Fits, Given
        <4>3. /\ r.type = "TransferTicker" => ticker = "reserved"
              /\ r.type = "TransferAssetOwnership" => ticker = "asset"
              /\ r.type = "AttestPrimaryKeyRotation" => r.issuer \in CddProviders
          BY <4>1 DEF Validated
        <4> QED BY <3>1, <3>2, <4>2, <4>3 DEF AcceptsConsume
      <3>3. ASSUME NEW r \in Both PROVE Matches(call.by, r) /\ StillPossible(r)
        <4>1. CASE r = R
          BY <2>3, <3>0, <4>1
        <4>2. CASE r # R
          <5>1. call.op = "rotate" /\ call.attest # 0 /\ r = requests[call.attest]
                /\ r.type = "AttestPrimaryKeyRotation"
            BY <1>1, <2>3, <3>0, <4>2 DEF Both, R, Inv, Form, Consuming, Rotating
          <5>2. r.target = call.by /\ call.by \in Accounts
            BY <1>1, <2>3, <3>0, <5>1, ReadyCall DEF KnownFetched
          <5> QED BY <5>1, <5>2 DEF Matches, StillPossible, Given
        <4> QED BY <4>1, <4>2
      <3> QED BY <2>3, <3>2, <3>3 DEF Accepted
    <2> QED BY <1>1, <2>1, <2>2, <2>3 DEF Inv, Typed, CallTyped, Calls
  <1> QED BY <1>1, InvAlways, PTL

(* A pending request for the same is found by the procedures that look for *)
(* one, whichever it is.                                                   *)
THEOREM SecondIsRefused == Spec => []NoSecondRequest
  <1>1. ASSUME Inv PROVE NoSecondRequest
    <2> DEFINE same(r) ==
          /\ r.open /\ r.expiry \notin 1 .. now
          /\ <<r.type, r.target>> = <<Want.type, Want.target>>
          /\ Want.type # "AttestPrimaryKeyRotation" => r.issuer = Signer
          /\ Want.type \notin {"JoinIdentity", "RotatePrimaryKey"} => r.subject = Want.subject
    <2> SUFFICES ASSUME Ready, Fresh, call.op = "issue",
                        Want.type \in SentOnes \cup ReceivedOnes,
                        ~(Want.type = "RotatePrimaryKey" /\ Want.asObject),
                        NEW i \in DOMAIN requests, same(requests[i])
                 PROVE  FALSE
      BY DEF NoSecondRequest
    <2>1. ~Pending(i)
      BY <1>1 DEF Inv, Known, KnownGiven, Ready
    <2>2. requests[i] \in Request /\ now \in Nat
      BY <1>1, RequestAt, BoundsAssumption DEF Inv, Typed, ChainTyped
    <2>3. Fetched(requests[i])
      BY <2>2 DEF Fetched, Request, Never
    <2>4. Same(requests[i], Want, Signer)
      BY DEF Same, SameInvitation, SameRotation, SameAttestation, SameCustody, SameSubsidy,
             SentOnes, ReceivedOnes
    <2> QED BY <2>1, <2>3, <2>4 DEF Pending
  <1> QED BY <1>1, InvAlways, PTL

(* accept() and acceptPrimaryKeyRotation turn nobody away whose request    *)
(* the chain would take: each refusal names something the chain refuses    *)
(* as well.                                                                *)
THEOREM ValidIsTaken == Spec => TakenWhenValid
  <1> DEFINE Turned ==
        TurnedAway /\ call.op \in {"accept", "rotate"}
          /\ R.type # "AttestPrimaryKeyRotation" /\ R.expiry # now
          /\ (call.attest # 0 => requests[call.attest].expiry # now)
  <1>1. ASSUME Inv, [Next]_vars, Turned PROVE ~ \A r \in Both : AcceptsConsume(call.by, r)
    <2> SUFFICES ASSUME \A r \in Both : AcceptsConsume(call.by, r) PROVE FALSE
      OBVIOUS
    <2>0. /\ call.at # "idle" /\ ~Ready /\ call'.at = "idle" /\ call \in Calls
          /\ call.op \in {"accept", "rotate"} /\ Typed /\ Form
      BY <1>1 DEF TurnedAway, Inv, Typed, CallTyped
    <2>1. call.id \in DOMAIN requests /\ call.id # 0
      BY <1>1, <2>0, RequestAt DEF Form, Consuming, Rotating, Inv
    <2>2. /\ R \in Both /\ R \in Request /\ Fits(R) /\ call.by \in Accounts
          /\ \A r \in Both : r \in Request /\ Fits(r)
      <3>1. {call.id, call.attest} \ {0} \subseteq DOMAIN requests
        BY <1>1 DEF Inv, Typed, CallTyped, ChainTyped
      <3> QED BY <1>1, <2>0, <2>1, <3>1, RequestAt DEF Both, R, Inv, Calls
    <2>3. ASSUME NEW r \in Both PROVE Alive(r) /\ Validated(r) /\ Matches(call.by, r)
      <3>1. AcceptsConsume(call.by, r) /\ r \in Request /\ Fits(r) /\ cdd \subseteq Identities
        BY <2>0, <2>2 DEF Typed, ChainTyped
      <3>2. r.type \in {"RotatePrimaryKey", "JoinIdentity", "RotatePrimaryKeyToSecondary",
                        "AddRelayerPayingKey"} => r.target = call.by
        BY <3>1 DEF Fits, Given, AcceptsConsume, Matches
      <3>3. NotASigner(r) \/ r.type # "AddMultiSigSigner"
        BY <3>1 DEF AcceptsConsume, Matches, NotASigner
      <3>4. Validated(r)
        BY <2>2, <3>1, <3>2, <3>3, PartiesAssumption DEF AcceptsConsume, Validated
      <3> QED BY <3>1, <3>4 DEF AcceptsConsume, Alive
    <2>4. TargetOf(R)
      BY <2>2, <2>3 DEF TargetOf, Matches, Signer
    <2>5. ASSUME NEW s \in Stages \ {"idle"}, Goto(s) PROVE FALSE
      BY <2>0, <2>5, Moves
    <2>6. Prepare
      <3>1. ~Others
        BY <2>0, OthersSteps, Ages
      <3>2. ASSUME NEW a \in Accounts PROVE ~Starts(a)
        BY <2>0 DEF Starts, Issue, Consume, AcceptRotation
      <3>3. ~(Revert \/ DispatchNothing \/ DispatchIssue \/ DispatchRemove \/ DispatchAccept)
        BY <2>0 DEF Revert, DispatchNothing, DispatchIssue, DispatchRemove, DispatchAccept
      <3>4. ~UNCHANGED vars
        BY <2>0 DEF vars
      <3> QED BY <1>1, <3>1, <3>2, <3>3, <3>4, StepsSorted
    <2>7. CASE BeginGeneral \/ BeginKey \/ BeginMultiSig \/ BeginRelayer
      <3>1. ~Validate
        BY <2>5 DEF Validate, Stages
      <3>2. BeginGeneral
        BY <2>7, <3>1 DEF BeginKey, BeginMultiSig, BeginRelayer
      <3>3. ~Expired(R) /\ R.type # "AttestPrimaryKeyRotation"
        BY <1>1, <2>2, <2>3 DEF Alive
      <3> QED BY <3>1, <3>2, <3>3 DEF BeginGeneral
    <2>8. CASE ReadExists
      BY <2>3, <2>5, <2>8 DEF ReadExists, Check, Stages
    <2>9. CASE ReadValidity
      <3>1. call.k + 1 \in Nat \ {0}
        BY <2>0 DEF Calls
      <3>2. \A r \in Both : call.k + 1 <= Len(Validations(r)) => Validations(r)[call.k + 1]
        <4> SUFFICES ASSUME NEW r \in Both, call.k + 1 <= Len(Validations(r))
                     PROVE  Validations(r)[call.k + 1]
          OBVIOUS
        <4>1. call.k + 1 \in DOMAIN Validations(r)
          BY <3>1, ValidationsAre
        <4>2. \A j \in DOMAIN Validations(r) : Validations(r)[j]
          BY <2>3, AllValid
        <4> QED BY <4>1, <4>2
      <3>3. call'.at \in {"built", "valid"}
        BY <2>0, <2>9, <3>2 DEF ReadValidity, Calls
      <3> QED BY <2>0, <3>3
    <2>10. CASE FetchOwnerAuth
      <3>1. call.op = "rotate" /\ R.type = "RotatePrimaryKey"
        BY <2>0, <2>10 DEF FetchOwnerAuth, Form, Consuming, Rotating
      <3>2. R.target = call.by
        BY <2>2, <2>3, <3>1 DEF Matches, Fits, Given
      <3>3. Fetched(R)
        BY <1>1, <2>0, <2>2, <2>3, BoundsAssumption
           DEF Alive, Expired, Fetched, Request, Typed, ChainTyped
      <3> QED BY <2>5, <2>10, <3>2, <3>3 DEF FetchOwnerAuth, Check, Stages
    <2>11. CASE FetchCddAuth
      <3> DEFINE r == requests[call.attest]
      <3>1. call.op = "rotate" /\ call.attest # 0 /\ r.type = "AttestPrimaryKeyRotation"
            /\ r \in Both
        BY <2>0, <2>11 DEF FetchCddAuth, Form, Consuming, Rotating, Both
      <3>2. r.target = call.by
        BY <2>2, <2>3, <3>1 DEF Matches, Fits, Given
      <3>3. Fetched(r)
        BY <1>1, <2>0, <2>2, <2>3, <3>1, BoundsAssumption
           DEF Alive, Expired, Fetched, Request, Typed, ChainTyped
      <3> QED BY <2>5, <2>11, <3>2, <3>3 DEF FetchCddAuth, Check, Stages
    <2>12. CASE Authorize
      <3>1. ~Granted(R)
        BY <2>0, <2>1, <2>12 DEF Authorize, Calls
      <3>2. call.op = "accept" /\ Party(R)
        BY <2>0, <2>4, <3>1 DEF Granted, Party
      <3>3. Signer # NoIdentity \/ Procedure # "general"
        <4>1. Procedure = "general" => R.type \in Given
          BY <1>1, <2>2, <3>2 DEF Procedure, Family, Given, Request, Types
        <4>2. R.type \in Given => Signer \in Identities
          BY <2>2, <2>4, PartiesAssumption DEF TargetOf, Fits
        <4> QED BY <4>1, <4>2, PartiesAssumption
      <3> QED BY <2>4, <3>1, <3>2, <3>3
              DEF Granted, GrantedGeneral, GrantedKey, GrantedMultiSig, GrantedRelayer,
                  Procedure, Family
    <2>13. CASE ReadSigner \/ ReadSent \/ ReadMulti \/ ReadReceived \/ ReadState
      BY <2>0, <2>13 DEF ReadSigner, ReadSent, ReadMulti, ReadReceived, ReadState, Form,
                         Consuming, Rotating
    <2> QED BY <2>6, <2>7, <2>8, <2>9, <2>10, <2>11, <2>12, <2>13 DEF Prepare
  <1>2. ASSUME Inv, [Next]_vars
        PROVE  [Turned => ~ \A r \in Both : AcceptsConsume(call.by, r)]_vars
    BY <1>1, <1>2
  <1> HIDE DEF Turned
  <1>3. Spec => [][Turned => ~ \A r \in Both : AcceptsConsume(call.by, r)]_vars
    BY <1>2, InvAlways, PTL DEF Spec
  <1> QED BY <1>3 DEF TakenWhenValid, Turned
===============================================================================
