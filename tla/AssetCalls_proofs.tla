-------------------------- MODULE AssetCalls_proofs --------------------------
(***************************************************************************)
(* What the modules that follow one call about an Asset promise, proved    *)
(* module by module, and lemmas about numbers and lists for all of them.   *)
(***************************************************************************)
EXTENDS EntityCalls, FiniteSets, FiniteSetTheorems, NaturalsInduction, WellFoundedInduction, TLAPS

-----------------------------------------------------------------------------
(* Numbers and lists *)

(* A set of numbers has a smallest one.                                    *)
LEMMA NatSmallest == ASSUME NEW T \in SUBSET Nat, T # {} PROVE \E x \in T : \A y \in T : x <= y
<1> DEFINE R == OpToRel(<, Nat)
<1>1. IsWellFoundedOn(R, Nat)
  BY NatLessThanWellFounded
<1>2. \A x, y \in Nat : y < x => <<y, x>> \in R
  BY DEF OpToRel
<1> HIDE DEF R
<1>3. PICK x \in T : \A y \in T : ~(<<y, x>> \in R)
  BY <1>1, WFMin
<1>4. ASSUME NEW y \in T PROVE x <= y
  <2>1. x \in Nat /\ y \in Nat /\ <<y, x>> \notin R
    BY <1>3
  <2>2. ~(y < x)
    BY <1>2, <2>1
  <2> QED BY <2>1, <2>2
<1> QED BY <1>4

(* A list holds no more elements than it is long.                          *)
LEMMA ListedFew ==
  ASSUME NEW S, NEW list \in Seq(S)
  PROVE  /\ Listed(list) \subseteq S /\ IsFiniteSet(Listed(list))
         /\ Cardinality(Listed(list)) \in Nat /\ Len(list) \in Nat /\ Cardinality(Listed(list)) <= Len(list)
<1> DEFINE listed == {list[i] : i \in DOMAIN list}
           f == [i \in 1 .. Len(list) |-> list[i]]
<1>1. Len(list) \in Nat /\ DOMAIN list = 1 .. Len(list) /\ listed \subseteq S
  OBVIOUS
<1>2. f \in Surjection(1 .. Len(list), listed)
  BY <1>1 DEF Surjection
<1>3. IsFiniteSet(1 .. Len(list)) /\ Cardinality(1 .. Len(list)) = Len(list)
  <2>1. 1 \in Int /\ Len(list) \in Int
    BY <1>1
  <2>2. IsFiniteSet(1 .. Len(list)) /\ Cardinality(1 .. Len(list)) = IF 1 > Len(list) THEN 0 ELSE Len(list) - 1 + 1
    BY <2>1, FS_Interval, Zenon
  <2> QED BY <1>1, <2>2
<1> HIDE DEF f, listed
<1>4. IsFiniteSet(listed) /\ Cardinality(listed) <= Cardinality(1 .. Len(list))
  BY <1>2, <1>3, FS_Surjection, Zenon
<1>5. Cardinality(listed) \in Nat
  BY <1>4, FS_CardinalityType, Zenon
<1> QED BY <1>1, <1>3, <1>4, <1>5 DEF listed, Listed

(* What maps one to one, and to all, is a bijection.                       *)
LEMMA MadeOneToOne ==
  ASSUME NEW S, NEW T, NEW f \in [S -> T], \A a, b \in S : f[a] = f[b] => a = b, \A t \in T : \E a \in S : f[a] = t
  PROVE  f \in Bijection(S, T)
BY DEF Bijection, Injection, Surjection, IsInjective

-----------------------------------------------------------------------------
(* Tickers *)

LEMMA TickersInit == Tickers!Init => TickersInv
BY TickerAssumption DEF Tickers!Init, TickersInv, TickersTyped, TickersCall, Tickers!Idle, Idle,
   Tickers!NoArgs, NoArgs, Tickers!Chains, Tickers!Nobody, Tickers!Parties, Tickers!Never

(* Which stage a call is in is told by its procedure and its reads.        *)
LEMMA TickersStages ==
  ASSUME TickersCall
  PROVE  /\ call.op = "none" => call = Idle
         /\ [call EXCEPT !.stale = TRUE].op = call.op
         /\ call.op = "reserve" => TickersReserve
         /\ call.op = "create" => TickersStatus \/ TickersType \/ TickersCreate
BY DEF TickersCall, TickersReserve, TickersStatus, TickersType, TickersCreate, Of, Idle

LEMMA TickersStale ==
  ASSUME TickersCall, NEW after, Tickers!Happens(after) PROVE TickersCall'
<1>1. CASE call = Idle
  BY <1>1 DEF Tickers!Happens, TickersCall, Idle
<1>2. CASE call # Idle
  <2>1. call' = [call EXCEPT !.stale = TRUE]
    BY <1>2, TickersStages DEF Tickers!Happens
  <2> QED BY <1>2, <2>1 DEF TickersCall, TickersReserve, Fresh, Of, TickersStatus, TickersType, TickersCreate
<1> QED BY <1>1, <1>2

LEMMA TickersNext == TickersInv /\ Tickers!Next => TickersInv'
<1> SUFFICES ASSUME TickersInv, Tickers!Next PROVE TickersInv'
  OBVIOUS
<1> USE TickerAssumption
    DEF Idle, NoArgs, Tickers!Idle, Tickers!NoArgs, Tickers!Calls, Tickers!Answers, Tickers!Check,
        Tickers!Keep, Tickers!Refuse, Tickers!Built, Tickers!Dispatches
<1>0. TickersCall /\ TickersTyped
  BY DEF TickersInv
<1>1. ASSUME UNCHANGED chain, TickersCall' PROVE TickersInv'
  BY <1>0, <1>1 DEF TickersInv, TickersTyped, Tickers!Chains, Tickers!Nobody
<1>2. ASSUME NEW after, Tickers!Happens(after), TickersTyped' PROVE TickersInv'
  BY <1>0, <1>2, TickersStale DEF TickersInv
<1>3. ASSUME UNCHANGED chain, call' = Idle PROVE TickersInv'
  BY <1>1, <1>3 DEF TickersCall
<1>4. ASSUME UNCHANGED chain PROVE Tickers!Status' = Tickers!Status
  BY <1>4 DEF Tickers!Status
<1>5. ASSUME NEW args \in Tickers!Reserves, Tickers!Reserve(args) PROVE TickersInv'
  <2>1. TickersReserve'
    BY <1>5 DEF Tickers!Reserve, TickersReserve, Of
  <2> QED BY <1>1, <1>5, <2>1 DEF Tickers!Reserve, TickersCall
<1>6. ASSUME NEW args \in Tickers!Creates, Tickers!CreateAsset(args) PROVE TickersInv'
  <2>1. TickersStatus'
    BY <1>6 DEF Tickers!CreateAsset, TickersStatus, Of
  <2> QED BY <1>1, <1>6, <2>1 DEF Tickers!CreateAsset, TickersCall
<1>7. CASE Tickers!ReadRole /\ call' # Idle
  <2>1. chain' = chain /\ chain.holder = "me"
    BY <1>7 DEF Tickers!ReadRole
  <2>2. CASE TickersReserve
    <3>1. call' = [call EXCEPT !.left = @ \ {"role"}]
      BY <1>7, <2>2 DEF Tickers!ReadRole, TickersReserve, Of
    <3>2. TickersReserve'
      BY <1>4, <2>1, <2>2, <3>1 DEF TickersReserve, Of, Fresh, Tickers!MayReserve
    <3> QED BY <1>1, <2>1, <3>2 DEF TickersCall
  <2>3. CASE TickersCreate
    <3>1. call' = [call EXCEPT !.left = @ \ {"role"}]
      BY <1>7, <2>3 DEF Tickers!ReadRole, TickersCreate, Of
    <3>2. TickersCreate'
      BY <1>4, <2>1, <2>3, <3>1 DEF TickersCreate, Of, Fresh, Tickers!MayCreate
    <3> QED BY <1>1, <2>1, <3>2 DEF TickersCall
  <2> QED BY <1>0, <1>7, <2>2, <2>3, TickersStages DEF Tickers!ReadRole, TickersStatus, TickersType
<1>8. CASE Tickers!ReadStatus /\ call' # Idle
  <2>1. TickersReserve /\ chain' = chain /\ Tickers!MayReserve
    BY <1>0, <1>8, TickersStages DEF Tickers!ReadStatus
  <2>2. call' = [call EXCEPT !.left = @ \ {"status"}]
    BY <1>8, <2>1 DEF Tickers!ReadStatus, TickersReserve, Of
  <2>3. TickersReserve'
    BY <1>4, <2>1, <2>2 DEF TickersReserve, Of, Fresh, Tickers!MayReserve
  <2> QED BY <1>1, <2>1, <2>3 DEF TickersCall
<1>9. ASSUME NEW r, NEW status, NEW new \in BOOLEAN, Tickers!Settle(r, status, new), call' # Idle,
             call.left = {r}, TickersStatus \/ TickersType, Fresh => status = Tickers!Status
      PROVE  TickersInv'
  <2>1. chain' = chain /\ Tickers!MayCreate(status)
    BY <1>9 DEF Tickers!Settle
  <2> DEFINE fee == Tickers!Quoted(status, new) \cup IF call.args.papers THEN {"AddDocuments"} ELSE {}
             found == [status |-> status, new |-> new, fee |-> fee]
  <2>2. found.status = status /\ found.new = new /\ found.fee = fee
    OBVIOUS
  <2>3. call' = [call EXCEPT !.read = found, !.left = Tickers!RoleAsked(status)]
    BY <1>9 DEF Tickers!Settle, TickersStatus, TickersType, Of
  <2>4. /\ Tickers!RoleAsked(status) \subseteq {"role"}
        /\ "role" \in Tickers!RoleAsked(status) <=> status # "Free"
    BY DEF Tickers!RoleAsked
  <2>5. Of(call, "create", Tickers!Creates, {"status", "type"})
    BY <1>9 DEF TickersStatus, TickersType, Of
  <2> HIDE DEF found
  <2>6. Of(call', "create", Tickers!Creates, {"role"})
    BY <2>3, <2>4, <2>5 DEF Of
  <2>7. call'.read = found /\ call'.args = call.args /\ call'.stale = call.stale /\ call'.left = Tickers!RoleAsked(status)
    BY <2>3, <2>5 DEF Of
  <2>8. TickersCreate'
    BY <1>4, <1>9, <2>1, <2>2, <2>4, <2>6, <2>7 DEF TickersCreate, Fresh, Tickers!MayCreate, fee, Tickers!Quoted, Tickers!Status
  <2> QED BY <1>1, <2>1, <2>8 DEF TickersCall
<1>10. CASE Tickers!ReadStorage /\ call' # Idle
  <2>1. TickersStatus /\ chain' = chain
    BY <1>0, <1>10, TickersStages DEF Tickers!ReadStorage, TickersType, TickersCreate, Of, Tickers!Settle
  <2>2. CASE call.args.custom
    <3>1. call' = [call EXCEPT !.read = [status |-> Tickers!Status], !.left = {"type"}]
      BY <1>10, <2>1, <2>2 DEF Tickers!ReadStorage, TickersStatus, Of
    <3>2. TickersType'
      BY <1>4, <2>1, <3>1 DEF TickersStatus, TickersType, Of, Fresh
    <3> QED BY <1>1, <2>1, <3>2 DEF TickersCall
  <2>3. CASE ~call.args.custom
    BY <1>9, <1>10, <2>1, <2>3 DEF Tickers!ReadStorage, TickersStatus
  <2> QED BY <2>2, <2>3
<1>11. CASE Tickers!ReadType /\ call' # Idle
  <2>1. TickersType
    BY <1>0, <1>11, TickersStages DEF Tickers!ReadType, TickersStatus, TickersCreate, Of
  <2>2. (~chain.typed) \in BOOLEAN
    OBVIOUS
  <2> QED BY <1>9, <1>11, <2>1, <2>2 DEF Tickers!ReadType, TickersType
<1>12. ASSUME NEW who \in Tickers!Parties
       PROVE  /\ Tickers!Registering(who) \in Tickers!Chains
              /\ Tickers!Registering(who).issuer = chain.issuer /\ Tickers!Registering(who).holder = who
  <2>1. chain.now + Period \in 0 .. Tickers!Never
    BY <1>0 DEF TickersTyped, Tickers!Chains, Tickers!Never
  <2> QED BY <1>0, <1>12, <2>1 DEF TickersTyped, Tickers!Chains, Tickers!Registering
<1>13. ASSUME NEW who \in Tickers!Parties, NEW new \in BOOLEAN
       PROVE  Tickers!Creating(who, new) \in Tickers!Chains /\ Tickers!Creating(who, new).holder = who
  <2>1. Tickers!Never \in 0 .. Tickers!Never
    BY DEF Tickers!Never
  <2> QED BY <1>0, <1>13, <2>1 DEF TickersTyped, Tickers!Chains, Tickers!Creating
<1>14. CASE Tickers!DispatchReserve
  <2>1. Tickers!Accepted => chain.issuer = Tickers!Nobody
    BY DEF Tickers!Accepted, Tickers!Open
  <2>2. chain' = chain \/ (chain' = Tickers!Registering("me") /\ chain.issuer = Tickers!Nobody)
    BY <1>14, <2>1 DEF Tickers!DispatchReserve
  <2>3. TickersTyped'
    BY <1>0, <1>12, <2>1, <2>2 DEF TickersTyped, Tickers!Parties, Tickers!Nobody
  <2> QED BY <1>14, <2>3 DEF Tickers!DispatchReserve, TickersInv, TickersCall
<1>15. CASE Tickers!DispatchCreate
  <2>1. call.read.new \in BOOLEAN
    BY <1>0, <1>15, TickersStages DEF Tickers!DispatchCreate, TickersStatus, TickersType, TickersCreate
  <2>2. chain' = chain \/ chain' = Tickers!Creating("me", call.read.new)
    BY <1>15 DEF Tickers!DispatchCreate
  <2>3. TickersTyped'
    BY <1>0, <1>13, <2>1, <2>2 DEF TickersTyped, Tickers!Parties, Tickers!Nobody
  <2> QED BY <1>15, <2>3 DEF Tickers!DispatchCreate, TickersInv, TickersCall
<1>16. CASE Tickers!OthersReserve
  <2>1. TickersTyped'
    BY <1>0, <1>12, <1>16 DEF Tickers!OthersReserve, Tickers!Happens, TickersTyped, Tickers!Parties, Tickers!Nobody
  <2> QED BY <1>2, <1>16, <2>1 DEF Tickers!OthersReserve
<1>17. CASE Tickers!OthersCreate
  <2>1. TickersTyped'
    BY <1>0, <1>13, <1>17 DEF Tickers!OthersCreate, Tickers!Happens, TickersTyped, Tickers!Parties, Tickers!Nobody
  <2> QED BY <1>2, <1>17, <2>1 DEF Tickers!OthersCreate
<1>18. CASE Tickers!OthersType
  <2>1. TickersTyped'
    BY <1>0, <1>18 DEF Tickers!OthersType, Tickers!Happens, TickersTyped, Tickers!Chains
  <2> QED BY <1>2, <1>18, <2>1 DEF Tickers!OthersType
<1>19. ASSUME NEW who \in Tickers!Parties, Tickers!PassOn(who) PROVE TickersInv'
  <2>1. TickersTyped'
    BY <1>0, <1>19 DEF Tickers!PassOn, Tickers!Happens, TickersTyped, Tickers!Chains, Tickers!Parties, Tickers!Nobody
  <2> QED BY <1>2, <1>19, <2>1 DEF Tickers!PassOn
<1>20. CASE Tickers!Tick
  <2>1. TickersTyped'
    BY <1>0, <1>20 DEF Tickers!Tick, Tickers!Happens, TickersTyped, Tickers!Chains
  <2> QED BY <1>2, <1>20, <2>1 DEF Tickers!Tick
<1>21. CASE call' = Idle /\ (Tickers!ReadRole \/ Tickers!ReadStatus \/ Tickers!ReadStorage \/ Tickers!ReadType)
  BY <1>3, <1>21 DEF Tickers!ReadRole, Tickers!ReadStatus, Tickers!ReadStorage, Tickers!ReadType, Tickers!Settle
<1> QED
  BY <1>5, <1>6, <1>7, <1>8, <1>10, <1>11, <1>14, <1>15, <1>16, <1>17, <1>18, <1>19, <1>20, <1>21
     DEF Tickers!Next

LEMMA TickersStutter == TickersInv /\ UNCHANGED <<chain, call>> => TickersInv'
BY DEF TickersInv, TickersTyped, TickersCall, TickersReserve, TickersStatus, TickersType, TickersCreate,
       Fresh, Tickers!MayReserve, Tickers!MayCreate, Tickers!Status

LEMMA TickersOK == TickersInv => Tickers!TypeOK /\ Tickers!RevertedOnlyIfStale
<1> SUFFICES ASSUME TickersInv PROVE Tickers!TypeOK /\ Tickers!RevertedOnlyIfStale
  OBVIOUS
<1>1. Tickers!TypeOK
  BY DEF TickersInv, TickersTyped, TickersCall, TickersReserve, TickersStatus, TickersType, TickersCreate,
         Of, Idle, Tickers!TypeOK
<1>2. ASSUME Tickers!Built, Tickers!Fresh PROVE Tickers!Accepted
  <2>1. CASE TickersReserve
    BY <1>2, <2>1 DEF TickersInv, TickersTyped, TickersReserve, Tickers!Built, Tickers!Fresh, Fresh, Tickers!MayReserve,
       Tickers!Status, Tickers!Accepted, Tickers!Open, Tickers!Registered, Tickers!Parties, Tickers!Nobody, Tickers!Chains
  <2>2. CASE TickersCreate
    BY <1>2, <2>2 DEF TickersInv, TickersTyped, TickersCreate, Tickers!Built, Tickers!Fresh, Fresh, Tickers!MayCreate,
       Tickers!Status, Tickers!Accepted, Tickers!Open, Tickers!Registered, Tickers!Parties, Tickers!Nobody, Tickers!Chains
  <2> QED BY <1>2, <2>1, <2>2 DEF TickersInv, TickersCall, TickersStatus, TickersType, Tickers!Built, Idle
<1> QED BY <1>1, <1>2 DEF Tickers!RevertedOnlyIfStale

LEMMA TickersRefused == TickersInv /\ Tickers!Next => Tickers!TurnedAwayRightly
<1> SUFFICES ASSUME TickersInv, Tickers!Next, Tickers!TurnedAway, Tickers!Fresh
             PROVE  \/ ~Tickers!Accepted
                    \/ call.op = "reserve" /\ (call.args.extend # Tickers!Registered("me"))
                    \/ call.op = "create" /\ call.args.reserved /\ ~Tickers!Registered("me")
  BY DEF Tickers!TurnedAwayRightly
<1> USE DEF Tickers!Answers, Tickers!Check, Tickers!Keep
<1>0. TickersTyped /\ TickersCall /\ Tickers!Ends /\ ~Tickers!Built /\ call.op # "none" /\ call'.op = "none"
  BY DEF TickersInv, Tickers!TurnedAway, Tickers!Ends
<1>1. Tickers!Status = "Reserved" /\ chain.holder # "me" => ~Tickers!Accepted
  BY <1>0 DEF TickersTyped, Tickers!Chains, Tickers!Status, Tickers!Accepted, Tickers!Open, Tickers!Registered, Tickers!Parties, Tickers!Nobody
<1>2. Tickers!Status = "Reserved" /\ chain.holder = "me" => Tickers!Registered("me")
  BY <1>0 DEF TickersTyped, Tickers!Chains, Tickers!Status, Tickers!Registered
<1>3. Tickers!Status = "AssetCreated" => ~Tickers!Accepted
  BY DEF Tickers!Status, Tickers!Accepted, Tickers!Open
<1>4. Tickers!Status = "Free" => ~Tickers!Registered("me")
  BY <1>0 DEF TickersTyped, Tickers!Chains, Tickers!Status, Tickers!Registered, Tickers!Nobody
<1>5. Tickers!Status \in {"AssetCreated", "Reserved", "Free"}
  BY DEF Tickers!Status
<1>6. CASE Tickers!ReadRole
  <2>1. CASE TickersReserve
    <3>1. chain.holder # "me"
      BY <1>0, <1>6, <2>1 DEF Tickers!ReadRole, TickersReserve, Of
    <3>2. call.args.extend /\ call.op = "reserve"
      BY <1>6, <2>1 DEF Tickers!ReadRole, TickersReserve, Of
    <3>3. ~Tickers!Registered("me")
      BY <3>1 DEF Tickers!Registered
    <3> QED BY <3>2, <3>3, Zenon
  <2>2. CASE TickersCreate
    <3>1. chain.holder # "me"
      BY <1>0, <1>6, <2>2 DEF Tickers!ReadRole, TickersCreate, Of
    <3> QED BY <1>1, <1>6, <2>2, <3>1 DEF Tickers!ReadRole, TickersCreate, Fresh, Tickers!Fresh
  <2> QED BY <1>0, <1>6, <2>1, <2>2, TickersStages DEF Tickers!ReadRole, TickersStatus, TickersType
<1>7. CASE Tickers!ReadStatus
  <2>1. TickersReserve
    BY <1>0, <1>7, TickersStages DEF Tickers!ReadStatus
  <2>2. ~Tickers!MayReserve
    BY <1>0, <1>7, <2>1 DEF Tickers!ReadStatus, TickersReserve, Of
  <2> QED BY <1>1, <1>2, <1>3, <1>4, <1>5, <2>1, <2>2 DEF Tickers!MayReserve, TickersReserve, Of, Tickers!Reserves, Tickers!Registered
<1>8. ASSUME NEW r, NEW new, Tickers!Settle(r, Tickers!Status, new), TickersStatus \/ TickersType
      PROVE  ~Tickers!Accepted \/ (call.op = "create" /\ call.args.reserved /\ ~Tickers!Registered("me"))
  <2>1. ~Tickers!MayCreate(Tickers!Status)
    BY <1>0, <1>8 DEF Tickers!Settle, TickersStatus, TickersType, Of
  <2> QED BY <1>3, <1>4, <1>5, <1>8, <2>1 DEF Tickers!MayCreate, TickersStatus, TickersType, Of
<1>9. CASE Tickers!ReadStorage
  <2>1. TickersStatus
    BY <1>0, <1>9, TickersStages DEF Tickers!ReadStorage, TickersType, TickersCreate, Of
  <2>2. Tickers!Settle("status", Tickers!Status, FALSE)
    BY <1>0, <1>9, <2>1 DEF Tickers!ReadStorage, TickersStatus, Of
  <2> QED BY <1>8, <2>1, <2>2
<1>10. CASE Tickers!ReadType
  <2>1. TickersType /\ call.read.status = Tickers!Status
    BY <1>0, <1>10, TickersStages DEF Tickers!ReadType, TickersStatus, TickersType, TickersCreate, Of, Fresh, Tickers!Fresh
  <2> QED BY <1>8, <1>10, <2>1 DEF Tickers!ReadType
<1>11. ASSUME NEW after, Tickers!Happens(after) PROVE FALSE
  BY <1>0, <1>11, TickersStages DEF Tickers!Happens
<1> QED
  BY <1>0, <1>6, <1>7, <1>9, <1>10, <1>11
     DEF Tickers!Next, Tickers!Reserve, Tickers!CreateAsset, Tickers!Calls, Tickers!DispatchReserve,
         Tickers!DispatchCreate, Tickers!Dispatches, Tickers!OthersReserve, Tickers!OthersCreate,
         Tickers!OthersType, Tickers!Tick, Tickers!PassOn

LEMMA TickersDone == TickersInv /\ Tickers!Next => Tickers!DoneAsAsked
<1> SUFFICES ASSUME TickersInv, Tickers!Built, Tickers!Fresh, call.op = "create", ~(call.read.new /\ Tickers!Registered("me"))
             PROVE  call.read.fee = Tickers!Charged(call.args.papers)
  BY DEF Tickers!DoneAsAsked
<1>1. TickersCreate /\ call.left = {} /\ Fresh /\ TickersTyped
  BY TickersStages DEF TickersInv, TickersStatus, TickersType, Tickers!Built, Fresh, Tickers!Fresh
<1>2. Tickers!Quoted(Tickers!Status, call.read.new) = {"CreateAsset"} \cup (IF Tickers!Registered("me") THEN {} ELSE {"RegisterTicker"})
  BY <1>1 DEF TickersTyped, TickersCreate, Tickers!Chains, Tickers!Quoted, Tickers!MayCreate, Tickers!Status, Tickers!Registered, Tickers!Nobody
<1> QED BY <1>1, <1>2 DEF TickersCreate, Tickers!Charged

-----------------------------------------------------------------------------
(* Tokens *)

LEMMA TokensInit == Tokens!Init => TokensInv
BY DEF Tokens!Init, TokensInv, TokensCall, Tokens!Idle, Idle, Tokens!NoArgs, NoArgs

LEMMA TokensStages ==
  ASSUME TokensCall
  PROVE  /\ call.op = "none" => call = Idle
         /\ [call EXCEPT !.stale = TRUE].op = call.op
         /\ call.op = "issue" => TokensIssue
         /\ call.op = "redeem" => TokensRedeem
         /\ call.op = "force" => TokensForce
         /\ call.op \in {"freeze", "unfreeze"} => TokensToggle
BY DEF TokensCall, TokensIssue, TokensRedeem, TokensForce, TokensToggle, Of, Idle

LEMMA TokensStale ==
  ASSUME TokensCall, NEW after, Tokens!Happens(after) PROVE TokensCall'
<1>1. CASE call = Idle
  BY <1>1 DEF Tokens!Happens, TokensCall, Idle
<1>2. CASE call # Idle
  <2>1. call' = [call EXCEPT !.stale = TRUE]
    BY <1>2, TokensStages DEF Tokens!Happens
  <2> QED BY <1>2, <2>1 DEF TokensCall, TokensIssue, Fresh, Of, TokensRedeem, TokensForce, TokensToggle
<1> QED BY <1>1, <1>2

LEMMA TokensNext == TokensInv /\ Tokens!Next => TokensInv'
<1> SUFFICES ASSUME TokensInv, Tokens!Next PROVE TokensInv'
  OBVIOUS
<1> USE TokenAssumption
    DEF Idle, NoArgs, Tokens!Idle, Tokens!NoArgs, Tokens!Calls, Tokens!Answers, Tokens!Check,
        Tokens!Keep, Tokens!Refuse, Tokens!Built, Tokens!Dispatches
<1>0. TokensCall /\ chain \in Tokens!Chains
  BY DEF TokensInv
<1>1. ASSUME UNCHANGED chain, TokensCall' PROVE TokensInv'
  BY <1>0, <1>1 DEF TokensInv, Tokens!Chains
<1>2. ASSUME NEW after \in Tokens!Chains, Tokens!Happens(after) PROVE TokensInv'
  BY <1>0, <1>2, TokensStale DEF TokensInv, Tokens!Happens, Tokens!Chains
<1>3. ASSUME chain' \in Tokens!Chains, call' = Idle PROVE TokensInv'
  BY <1>3 DEF TokensInv, TokensCall, Tokens!Chains
<1>4. ASSUME NEW n \in Int, NEW m \in Int, 0 <= chain.mine + n, 0 <= chain.theirs + m,
             chain.mine + n + chain.theirs + m <= MaxBalance
      PROVE  Tokens!Pays(n, m) \in Tokens!Chains
  <2>1. chain.mine + n \in 0 .. MaxBalance /\ chain.theirs + m \in 0 .. MaxBalance
    BY <1>0, <1>4 DEF Tokens!Chains
  <2>2. /\ Tokens!Pays(n, m) \in [mine : 0 .. MaxBalance, theirs : 0 .. MaxBalance,
                                  frozen : BOOLEAN, divisible : BOOLEAN]
        /\ Tokens!Pays(n, m).mine = chain.mine + n /\ Tokens!Pays(n, m).theirs = chain.theirs + m
    BY <1>0, <2>1 DEF Tokens!Pays, Tokens!Chains
  <2>3. chain.mine + n + (chain.theirs + m) <= MaxBalance
    BY <1>0, <1>4, <2>1 DEF Tokens!Chains
  <2> QED BY <2>2, <2>3 DEF Tokens!Chains
<1>5. ASSUME NEW n \in Issuances, Tokens!Issue(n) PROVE TokensInv'
  <2>1. TokensIssue'
    BY <1>5 DEF Tokens!Issue, TokensIssue, Of
  <2> QED BY <1>1, <1>5, <2>1 DEF Tokens!Issue, TokensCall
<1>6. ASSUME NEW n \in Issuances, Tokens!Redeem(n) PROVE TokensInv'
  <2>1. TokensRedeem'
    BY <1>6 DEF Tokens!Redeem, TokensRedeem, Of
  <2> QED BY <1>1, <1>6, <2>1 DEF Tokens!Redeem, TokensCall
<1>7. ASSUME NEW n \in Issuances, NEW own \in BOOLEAN, Tokens!ControllerTransfer(n, own) PROVE TokensInv'
  <2>1. TokensForce'
    BY <1>7 DEF Tokens!ControllerTransfer, TokensForce, Of
  <2> QED BY <1>1, <1>7, <2>1 DEF Tokens!ControllerTransfer, TokensCall
<1>8. ASSUME NEW op \in {"freeze", "unfreeze"}, Tokens!ToggleFreeze(op) PROVE TokensInv'
  <2>1. TokensToggle'
    BY <1>8 DEF Tokens!ToggleFreeze, TokensToggle, Of
  <2> QED BY <1>1, <1>8, <2>1 DEF Tokens!ToggleFreeze, TokensCall
<1>9. CASE Tokens!ReadDetails /\ call' # Idle
  <2>1. CASE TokensIssue
    <3>1. call' = [call EXCEPT !.left = @ \ {"details"}] /\ chain' = chain /\ Tokens!MayIssue
      BY <1>9, <2>1 DEF Tokens!ReadDetails, TokensIssue, Of
    <3>2. TokensIssue'
      BY <2>1, <3>1 DEF TokensIssue, Of, Fresh, Tokens!MayIssue, Tokens!Fits, Tokens!Supply
    <3> QED BY <1>1, <3>1, <3>2 DEF TokensCall
  <2>2. CASE TokensRedeem
    <3>1. /\ call' = [call EXCEPT !.left = @ \ {"details"}] /\ chain' = chain
          /\ Tokens!Converts(call.args.amount, chain.divisible)
      BY <1>9, <2>2 DEF Tokens!ReadDetails, TokensRedeem, Of
    <3>2. TokensRedeem'
      BY <2>2, <3>1 DEF TokensRedeem, Of, Fresh, Tokens!Converts, Tokens!Granular
    <3> QED BY <1>1, <3>1, <3>2 DEF TokensCall
  <2> QED BY <1>0, <1>9, <2>1, <2>2, TokensStages DEF Tokens!ReadDetails
<1>10. CASE Tokens!ReadBalance /\ call' # Idle
  <2>1. CASE TokensRedeem
    <3>1. /\ call' = [call EXCEPT !.left = @ \ {"balance"}] /\ chain' = chain
          /\ call.args.amount <= chain.mine
      BY <1>10, <2>1 DEF Tokens!ReadBalance, TokensRedeem, Of
    <3>2. TokensRedeem'
      BY <2>1, <3>1 DEF TokensRedeem, Of, Fresh, Tokens!Granular
    <3> QED BY <1>1, <3>1, <3>2 DEF TokensCall
  <2>2. CASE TokensForce
    <3>1. /\ call' = [call EXCEPT !.left = @ \ {"balance"}] /\ chain' = chain
          /\ call.args.amount <= chain.theirs
      BY <1>10, <2>2 DEF Tokens!ReadBalance, TokensForce, Of
    <3>2. TokensForce'
      BY <2>2, <3>1 DEF TokensForce, Of, Fresh
    <3> QED BY <1>1, <3>1, <3>2 DEF TokensCall
  <2> QED BY <1>0, <1>10, <2>1, <2>2, TokensStages DEF Tokens!ReadBalance
<1>11. CASE Tokens!ReadFrozen /\ call' # Idle
  <2>1. TokensToggle
    BY <1>0, <1>11, TokensStages DEF Tokens!ReadFrozen
  <2>2. call' = [call EXCEPT !.left = @ \ {"frozen"}] /\ chain' = chain /\ Tokens!MayToggle
    BY <1>11, <2>1 DEF Tokens!ReadFrozen, TokensToggle, Of
  <2>3. TokensToggle'
    BY <2>1, <2>2 DEF TokensToggle, Of, Fresh, Tokens!MayToggle
  <2> QED BY <1>1, <2>2, <2>3 DEF TokensCall
<1>12. CASE call' = Idle /\ (Tokens!ReadDetails \/ Tokens!ReadBalance \/ Tokens!ReadFrozen)
  BY <1>0, <1>3, <1>12 DEF Tokens!ReadDetails, Tokens!ReadBalance, Tokens!ReadFrozen
<1>13. CASE Tokens!DispatchIssue
  <2>1. call.args.amount \in Issuances
    BY <1>0, <1>13, TokensStages DEF Tokens!DispatchIssue, TokensIssue, Of
  <2>2. Tokens!Accepted => chain.mine + call.args.amount + chain.theirs <= MaxBalance
    BY <1>0, <1>13, <2>1 DEF Tokens!DispatchIssue, Tokens!Accepted, Tokens!AcceptsIssue, Tokens!Supply, Tokens!Chains
  <2>3. ASSUME Tokens!Accepted PROVE Tokens!Pays(call.args.amount, 0) \in Tokens!Chains
    <3> DEFINE n == call.args.amount
    <3>1. n \in Nat /\ chain.mine + n + chain.theirs <= MaxBalance
      BY <2>1, <2>2, <2>3
    <3> HIDE DEF n
    <3>2. Tokens!Pays(n, 0) \in Tokens!Chains
      BY <1>0, <1>4, <3>1 DEF Tokens!Chains
    <3> QED BY <3>2 DEF n
  <2> QED BY <1>0, <1>3, <1>13, <2>3 DEF Tokens!DispatchIssue
<1>14. CASE Tokens!DispatchRedeem
  <2>1. call.args.amount \in Issuances
    BY <1>0, <1>14, TokensStages DEF Tokens!DispatchRedeem, TokensRedeem, Of
  <2>2. Tokens!Accepted => call.args.amount <= chain.mine
    BY <1>14 DEF Tokens!DispatchRedeem, Tokens!Accepted, Tokens!AcceptsRedeem
  <2>3. ASSUME Tokens!Accepted PROVE Tokens!Pays(-call.args.amount, 0) \in Tokens!Chains
    <3> DEFINE n == call.args.amount
    <3>1. n \in Nat /\ n <= chain.mine
      BY <2>1, <2>2, <2>3
    <3> HIDE DEF n
    <3>2. -n \in Int /\ 0 <= chain.mine + -n /\ 0 <= chain.theirs + 0 /\ chain.mine + -n + chain.theirs + 0 <= MaxBalance
      BY <1>0, <3>1 DEF Tokens!Chains
    <3>3. Tokens!Pays(-n, 0) \in Tokens!Chains
      BY <1>4, <3>2
    <3> QED BY <3>3 DEF n
  <2> QED BY <1>0, <1>3, <1>14, <2>3 DEF Tokens!DispatchRedeem
<1>15. CASE Tokens!DispatchForce
  <2>1. call.args.amount \in Issuances
    BY <1>0, <1>15, TokensStages DEF Tokens!DispatchForce, TokensForce, Of
  <2>2. Tokens!Accepted => call.args.amount <= chain.theirs
    BY <1>15 DEF Tokens!DispatchForce, Tokens!Accepted, Tokens!AcceptsForce
  <2>3. ASSUME Tokens!Accepted PROVE Tokens!Pays(call.args.amount, -call.args.amount) \in Tokens!Chains
    <3> DEFINE n == call.args.amount
    <3>1. n \in Nat /\ n <= chain.theirs
      BY <2>1, <2>2, <2>3
    <3> HIDE DEF n
    <3>2. Tokens!Pays(n, -n) \in Tokens!Chains
      BY <1>0, <1>4, <3>1 DEF Tokens!Chains
    <3> QED BY <3>2 DEF n
  <2> QED BY <1>0, <1>3, <1>15, <2>3 DEF Tokens!DispatchForce
<1>16. CASE Tokens!DispatchToggle
  BY <1>0, <1>3, <1>16 DEF Tokens!DispatchToggle, Tokens!Chains
<1>17. ASSUME NEW n \in Issuances, Tokens!OthersIssue(n) PROVE TokensInv'
  <2>1. Tokens!Pays(n, 0) \in Tokens!Chains
    BY <1>0, <1>4, <1>17 DEF Tokens!Chains, Tokens!OthersIssue, Tokens!AcceptsIssue, Tokens!Supply
  <2> QED BY <1>2, <1>17, <2>1 DEF Tokens!OthersIssue
<1>18. ASSUME NEW n \in Issuances, Tokens!OthersRedeem(n) PROVE TokensInv'
  <2>1. Tokens!Pays(0, -n) \in Tokens!Chains
    BY <1>0, <1>4, <1>18 DEF Tokens!Chains, Tokens!OthersRedeem
  <2> QED BY <1>2, <1>18, <2>1 DEF Tokens!OthersRedeem
<1>19. ASSUME NEW n \in Issuances, Tokens!Transfer(n) PROVE TokensInv'
  <2>1. CASE n <= chain.mine /\ Tokens!Happens(Tokens!Pays(-n, n))
    BY <1>0, <1>2, <1>4, <2>1 DEF Tokens!Chains
  <2>2. CASE n <= chain.theirs /\ Tokens!Happens(Tokens!Pays(n, -n))
    BY <1>0, <1>2, <1>4, <2>2 DEF Tokens!Chains
  <2> QED BY <1>19, <2>1, <2>2 DEF Tokens!Transfer
<1>20. CASE Tokens!OthersToggle \/ Tokens!MakeDivisible
  BY <1>0, <1>2, <1>20 DEF Tokens!OthersToggle, Tokens!MakeDivisible, Tokens!Chains
<1> QED
  BY <1>5, <1>6, <1>7, <1>8, <1>9, <1>10, <1>11, <1>12, <1>13, <1>14, <1>15, <1>16, <1>17, <1>18, <1>19, <1>20
     DEF Tokens!Next

LEMMA TokensStutter == TokensInv /\ UNCHANGED <<chain, call>> => TokensInv'
BY DEF TokensInv, TokensCall, TokensIssue, TokensRedeem, TokensForce, TokensToggle, Tokens!Chains,
       Fresh, Tokens!MayIssue, Tokens!Fits, Tokens!Supply, Tokens!Granular, Tokens!MayToggle

LEMMA TokensOK == TokensInv => Tokens!TypeOK /\ Tokens!RevertedOnlyIfStale
<1> SUFFICES ASSUME TokensInv PROVE Tokens!TypeOK /\ Tokens!RevertedOnlyIfStale
  OBVIOUS
<1>1. Tokens!TypeOK
  BY DEF TokensInv, TokensCall, TokensIssue, TokensRedeem, TokensForce, TokensToggle, Of, Idle, Tokens!TypeOK
<1>2. ASSUME Tokens!Built, Tokens!Fresh
      PROVE  Tokens!Accepted \/ (call.op = "force" /\ ~Tokens!Granular(call.args.amount))
  <2> USE DEF Tokens!Built, Tokens!Fresh, Fresh
  <2>1. CASE TokensIssue
    BY <1>2, <2>1 DEF TokensIssue, Of, Tokens!Accepted, Tokens!AcceptsIssue, Tokens!MayIssue, Tokens!Fits, Tokens!Converts, Tokens!Granular
  <2>2. CASE TokensRedeem
    BY <1>2, <2>2 DEF TokensRedeem, Of, Tokens!Accepted, Tokens!AcceptsRedeem
  <2>3. CASE TokensForce
    BY <1>2, <2>3 DEF TokensForce, Of, Tokens!Accepted, Tokens!AcceptsForce
  <2>4. CASE TokensToggle
    BY <1>2, <2>4 DEF TokensInv, Tokens!Chains, TokensToggle, Of, Tokens!Accepted, Tokens!MayToggle
  <2> QED BY <1>2, <2>1, <2>2, <2>3, <2>4 DEF TokensInv, TokensCall, Idle
<1> QED BY <1>1, <1>2 DEF Tokens!RevertedOnlyIfStale

LEMMA TokensRefused == TokensInv /\ Tokens!Next => Tokens!TurnedAwayRightly
<1> SUFFICES ASSUME TokensInv, Tokens!Next, Tokens!TurnedAway, Tokens!Fresh
             PROVE  ~Tokens!Accepted \/ (call.op = "force" /\ call.args.own)
  BY DEF Tokens!TurnedAwayRightly
<1> USE DEF Tokens!Answers, Tokens!Check, Tokens!Keep
<1>0. TokensCall /\ chain \in Tokens!Chains /\ ~Tokens!Built /\ call.op # "none" /\ call'.op = "none"
  BY DEF TokensInv, Tokens!TurnedAway, Tokens!Ends
<1>1. CASE Tokens!ReadDetails
  <2>1. CASE TokensIssue
    <3>1. ~Tokens!MayIssue
      BY <1>0, <1>1, <2>1 DEF Tokens!ReadDetails, TokensIssue, Of
    <3> QED BY <2>1, <3>1 DEF TokensIssue, Of, Tokens!MayIssue, Tokens!Fits, Tokens!Converts, Tokens!Granular, Tokens!Accepted, Tokens!AcceptsIssue
  <2>2. CASE TokensRedeem
    <3>1. ~Tokens!Converts(call.args.amount, chain.divisible)
      BY <1>0, <1>1, <2>2 DEF Tokens!ReadDetails, TokensRedeem, Of
    <3> QED BY <2>2, <3>1 DEF TokensRedeem, Of, Tokens!Converts, Tokens!Granular, Tokens!Accepted, Tokens!AcceptsRedeem
  <2> QED BY <1>0, <1>1, <2>1, <2>2, TokensStages DEF Tokens!ReadDetails
<1>2. CASE Tokens!ReadBalance
  <2>1. CASE TokensRedeem
    BY <1>0, <1>2, <2>1 DEF Tokens!ReadBalance, TokensRedeem, Of, Tokens!Accepted, Tokens!AcceptsRedeem
  <2>2. CASE TokensForce
    BY <1>0, <1>2, <2>2 DEF Tokens!ReadBalance, TokensForce, Of, Tokens!Accepted, Tokens!AcceptsForce, Tokens!Converts
  <2> QED BY <1>0, <1>2, <2>1, <2>2, TokensStages DEF Tokens!ReadBalance
<1>3. CASE Tokens!ReadFrozen
  <2>1. TokensToggle
    BY <1>0, <1>3, TokensStages DEF Tokens!ReadFrozen
  <2>2. ~Tokens!MayToggle
    BY <1>0, <1>3, <2>1 DEF Tokens!ReadFrozen, TokensToggle, Of
  <2> QED BY <1>0, <2>1, <2>2 DEF TokensToggle, Tokens!MayToggle, Tokens!Accepted, Tokens!Chains
<1>4. ASSUME NEW after, Tokens!Happens(after) PROVE FALSE
  BY <1>0, <1>4, TokensStages DEF Tokens!Happens
<1> QED
  BY <1>0, <1>1, <1>2, <1>3, <1>4
     DEF Tokens!Next, Tokens!Issue, Tokens!Redeem, Tokens!ControllerTransfer, Tokens!ToggleFreeze, Tokens!Calls,
         Tokens!DispatchIssue, Tokens!DispatchRedeem, Tokens!DispatchForce, Tokens!DispatchToggle,
         Tokens!Dispatches, Tokens!OthersIssue, Tokens!OthersRedeem, Tokens!Transfer, Tokens!OthersToggle,
         Tokens!MakeDivisible

-----------------------------------------------------------------------------
(* AssetDetails *)

LEMMA DetailsFiled ==
  ASSUME NEW list \in IdLists, NEW n \in 0 .. MaxDocs, n + Len(list) <= MaxDocs
  PROVE  /\ Details!Filed(list, n) \subseteq (1 .. MaxDocs) \X Details!Elements
         /\ \A d \in Details!Filed(list, n) : n < d[1] /\ d[1] <= n + Len(list)
         /\ \A d, e \in Details!Filed(list, n) : d[1] = e[1] => d = e
<1>1. list \in Seq(Details!Elements) /\ DOMAIN list = 1 .. Len(list) /\ Len(list) \in Nat
  BY DetailAssumption
<1>2. \A i \in DOMAIN list : list[i] \in Details!Elements /\ n + i \in 1 .. MaxDocs /\ n < n + i /\ n + i <= n + Len(list)
  BY <1>1, DetailAssumption
<1>3. \A i, j \in DOMAIN list : n + i = n + j => i = j
  BY <1>1
<1> QED BY <1>2, <1>3 DEF Details!Filed

LEMMA DetailsFields ==
  ASSUME NEW c \in DetailsChains, NEW docs \in SUBSET ((1 .. MaxDocs) \X Details!Elements),
         NEW n, c.last + n \in 0 .. MaxDocs, \A d \in docs : d[1] <= c.last + n,
         \A d, e \in docs : d[1] = e[1] => d = e
  PROVE  [c EXCEPT !.docs = docs, !.last = @ + n] \in DetailsChains
<1> DEFINE e == [c EXCEPT !.docs = docs, !.last = @ + n]
<1>1. /\ e \in [divisible : BOOLEAN, name : GivenNames, round : GivenNames, ids : IdLists,
                docs : SUBSET ((1 .. MaxDocs) \X Details!Elements), last : 0 .. MaxDocs]
      /\ e.docs = docs /\ e.last = c.last + n
  BY DEF DetailsChains
<1> HIDE DEF e
<1>2. e \in DetailsChains
  BY <1>1 DEF DetailsChains
<1> QED BY <1>2 DEF e

LEMMA DetailsInit == Details!Init => DetailsInv
<1> SUFFICES ASSUME Details!Init PROVE chain \in DetailsChains /\ call = Idle
  BY DEF DetailsInv, DetailsCall
<1>1. PICK list \in IdLists, name \in GivenNames, round \in GivenNames, ids \in IdLists, d \in BOOLEAN :
        chain = [divisible |-> d, name |-> name, round |-> round, ids |-> ids,
                 docs |-> Details!Filed(list, 0), last |-> Len(list)]
  BY DEF Details!Init
<1>2. Len(list) \in 0 .. MaxDocs /\ 0 + Len(list) = Len(list)
  BY DetailAssumption
<1>3. chain \in DetailsChains
  BY <1>1, <1>2, DetailsFiled, DetailAssumption DEF DetailsChains
<1> QED BY <1>3 DEF Details!Init, Details!Idle, Idle, Details!NoArgs, NoArgs

LEMMA DetailsStages ==
  ASSUME DetailsCall
  PROVE  /\ call.op = "none" => call = Idle
         /\ [call EXCEPT !.stale = TRUE].op = call.op
         /\ call.op = "modify" => DetailsModify
         /\ call.op = "documents" => DetailsDocuments
BY DEF DetailsCall, DetailsModify, DetailsDocuments, Of, Idle

LEMMA DetailsStale ==
  ASSUME DetailsCall, NEW after, Details!Happens(after) PROVE DetailsCall'
<1>1. CASE call = Idle
  BY <1>1 DEF Details!Happens, DetailsCall, Idle
<1>2. CASE call # Idle
  <2>1. call' = [call EXCEPT !.stale = TRUE]
    BY <1>2, DetailsStages DEF Details!Happens
  <2> QED BY <1>2, <2>1 DEF DetailsCall, DetailsModify, Fresh, Of, DetailsDocuments, DetailsHas
<1> QED BY <1>1, <1>2

(* What was found stays when more is found.                                *)
LEMMA DetailsGather ==
  ASSUME DetailsCall, call.op = "modify", Fresh
  PROVE  /\ DetailsHas(Details!With([divisible |-> chain.divisible, name |-> chain.name]), call.left \ {"details"})
         /\ DetailsHas(Details!With([round |-> chain.round]), call.left \ {"round"})
         /\ DetailsHas(Details!With([ids |-> chain.ids]), call.left \ {"identifiers"})
<1>1. DetailsHas(call.read, call.left)
  BY DetailsStages DEF DetailsModify
<1> DEFINE details == Details!With([divisible |-> chain.divisible, name |-> chain.name])
           round == Details!With([round |-> chain.round])
           ids == Details!With([ids |-> chain.ids])
<1>2. /\ DOMAIN details = {"divisible", "name"} \cup DOMAIN call.read
      /\ details.divisible = chain.divisible /\ details.name = chain.name
      /\ "round" \in DOMAIN call.read => details.round = call.read.round
      /\ "ids" \in DOMAIN call.read => details.ids = call.read.ids
  BY DEF Details!With
<1>3. /\ DOMAIN ids = {"ids"} \cup DOMAIN call.read /\ ids.ids = chain.ids
      /\ {"divisible", "name"} \subseteq DOMAIN call.read => ids.divisible = call.read.divisible /\ ids.name = call.read.name
      /\ "round" \in DOMAIN call.read => ids.round = call.read.round
  BY DEF Details!With
<1>4. /\ DOMAIN round = {"round"} \cup DOMAIN call.read /\ round.round = chain.round
      /\ {"divisible", "name"} \subseteq DOMAIN call.read => round.divisible = call.read.divisible /\ round.name = call.read.name
      /\ "ids" \in DOMAIN call.read => round.ids = call.read.ids
  BY DEF Details!With
<1> HIDE DEF details, round, ids
<1>5. DetailsHas(details, call.left \ {"details"})
  BY <1>1, <1>2 DEF DetailsHas
<1>6. DetailsHas(ids, call.left \ {"identifiers"})
  BY <1>1, <1>3 DEF DetailsHas
<1>7. DetailsHas(round, call.left \ {"round"})
  BY <1>1, <1>4 DEF DetailsHas
<1> QED BY <1>5, <1>6, <1>7 DEF details, round, ids

LEMMA DetailsNext == DetailsInv /\ Details!Next => DetailsInv'
<1> SUFFICES ASSUME DetailsInv, Details!Next PROVE DetailsInv'
  OBVIOUS
<1> USE DEF Idle, NoArgs, Details!Idle, Details!NoArgs, Details!Calls, Details!Answers,
        Details!Keep, Details!Refuse, Details!Built, Details!Dispatches
<1>0. DetailsCall /\ chain \in DetailsChains
  BY DEF DetailsInv
<1>1. ASSUME UNCHANGED chain, DetailsCall' PROVE DetailsInv'
  BY <1>0, <1>1 DEF DetailsInv, DetailsChains
<1>2. ASSUME NEW after \in DetailsChains, Details!Happens(after) PROVE DetailsInv'
  BY <1>0, <1>2, DetailsStale DEF DetailsInv, Details!Happens, DetailsChains
<1>3. ASSUME chain' \in DetailsChains, call' = Idle PROVE DetailsInv'
  BY <1>3 DEF DetailsInv, DetailsCall, DetailsChains
<1>4. ASSUME NEW args \in Changes, Details!Modify(args) PROVE DetailsInv'
  <2>1. DetailsModify'
    BY <1>4 DEF Details!Modify, DetailsModify, DetailsHas, Of
  <2> QED BY <1>1, <1>4, <2>1 DEF Details!Modify, DetailsCall
<1>5. ASSUME NEW list \in IdLists, Details!SetDocuments(list) PROVE DetailsInv'
  <2>1. DetailsDocuments'
    BY <1>5 DEF Details!SetDocuments, DetailsDocuments, Of
  <2> QED BY <1>1, <1>5, <2>1 DEF Details!SetDocuments, DetailsCall
<1>6. ASSUME NEW r, NEW found, r \in call.left, call.op = "modify", Details!Gather(r, found), call' # Idle,
             Fresh => DetailsHas(found, call.left \ {r})
      PROVE  DetailsInv'
  <2>1. DetailsModify
    BY <1>0, <1>6, DetailsStages
  <2>2. call' = [call EXCEPT !.read = found, !.left = @ \ {r}] /\ chain' = chain
    BY <1>6, <2>1 DEF Details!Gather, DetailsModify, Of
  <2>3. call.left = {r} => Details!MayModify(found)
    BY <1>6 DEF Details!Gather
  <2>4. /\ call'.read = found /\ call'.left = call.left \ {r} /\ call'.stale = call.stale /\ call'.args = call.args
        /\ Of(call', "modify", Changes, {"details", "round", "identifiers"})
    BY <2>1, <2>2 DEF DetailsModify, Of
  <2>5. call'.left = {} => Details!MayModify(call.read)'
    BY <1>6, <2>3, <2>4 DEF Details!MayModify
  <2>6. Fresh' => DetailsHas(call.read, call.left)'
    BY <1>6, <2>2, <2>4 DEF Fresh, DetailsHas
  <2>7. DetailsModify'
    BY <2>1, <2>4, <2>5, <2>6 DEF DetailsModify
  <2> QED BY <1>1, <2>2, <2>7 DEF DetailsCall
<1>7. CASE Details!ReadDetails /\ call' # Idle
  <2> DEFINE found == Details!With([divisible |-> chain.divisible, name |-> chain.name])
  <2>1. Details!Gather("details", found) /\ call.op = "modify" /\ "details" \in call.left
    BY <1>7 DEF Details!ReadDetails
  <2>2. Fresh => DetailsHas(found, call.left \ {"details"})
    BY <1>0, <2>1, DetailsGather
  <2> HIDE DEF found
  <2> QED BY <1>6, <1>7, <2>1, <2>2
<1>8. CASE Details!ReadIdentifiers /\ call' # Idle
  <2> DEFINE found == Details!With([ids |-> chain.ids])
  <2>1. Details!Gather("identifiers", found) /\ call.op = "modify" /\ "identifiers" \in call.left
    BY <1>8 DEF Details!ReadIdentifiers
  <2>2. Fresh => DetailsHas(found, call.left \ {"identifiers"})
    BY <1>0, <2>1, DetailsGather
  <2> HIDE DEF found
  <2> QED BY <1>6, <1>8, <2>1, <2>2
<1>9. CASE Details!ReadEntries /\ call' # Idle
  <2>1. DetailsDocuments /\ chain' = chain
    BY <1>0, <1>9, DetailsStages DEF Details!ReadEntries
  <2> DEFINE removed == [removed |-> {d[1] : d \in chain.docs}]
  <2>2. call' = [call EXCEPT !.read = removed, !.left = @ \ {"entries"}]
    BY <1>9, <2>1 DEF Details!ReadEntries, DetailsDocuments, Of
  <2>3. removed' = removed
    BY <2>1
  <2> HIDE DEF removed
  <2>4. call'.read = removed /\ Of(call, "documents", [list : IdLists], {"entries"})'
    BY <2>1, <2>2 DEF DetailsDocuments, Of
  <2>5. DetailsDocuments'
    BY <2>3, <2>4 DEF DetailsDocuments, removed
  <2> QED BY <1>1, <2>1, <2>5 DEF DetailsCall
<1>10. CASE call' = Idle /\ (Details!ReadDetails \/ Details!ReadRound \/ Details!ReadIdentifiers \/ Details!ReadEntries)
  BY <1>0, <1>3, <1>10 DEF Details!ReadDetails, Details!ReadRound, Details!ReadIdentifiers, Details!ReadEntries, Details!Gather
<1>11. CASE Details!DispatchModify
  <2>1. call.args \in Changes
    BY <1>0, <1>11, DetailsStages DEF Details!DispatchModify, DetailsModify, Of
  <2>2. /\ Details!Given(call.args.name, chain.name) \in GivenNames /\ Details!Given(call.args.round, chain.round) \in GivenNames
        /\ Details!Given(call.args.ids, chain.ids) \in IdLists
    BY <1>0, <2>1, DetailAssumption DEF Details!Given, DetailsChains
  <2>3. chain' \in DetailsChains
    BY <1>0, <1>11, <2>2 DEF Details!DispatchModify, DetailsChains
  <2> QED BY <1>3, <1>11, <2>3 DEF Details!DispatchModify
<1>12. CASE Details!DispatchDocuments
  <2> DEFINE list == call.args.list
             docs == Details!Replaced(chain.docs, call.read.removed, list, chain.last)
  <2>1. list \in IdLists
    BY <1>0, <1>12, DetailsStages DEF Details!DispatchDocuments, DetailsDocuments, Of
  <2>2. /\ chain.last \in 0 .. MaxDocs /\ Len(list) \in Nat /\ chain.last + Len(list) <= MaxDocs
        /\ chain' = [chain EXCEPT !.docs = docs, !.last = @ + Len(list)]
    BY <1>0, <1>12, <2>1, DetailAssumption DEF Details!DispatchDocuments, Details!Numbered, DetailsChains
  <2> HIDE DEF list
  <2>3. docs \subseteq chain.docs \cup Details!Filed(list, chain.last)
    BY DEF Details!Replaced
  <2>4. /\ docs \subseteq (1 .. MaxDocs) \X Details!Elements
        /\ \A d \in docs : d[1] <= chain.last + Len(list)
        /\ \A d, e \in docs : d[1] = e[1] => d = e
    <3>1. /\ Details!Filed(list, chain.last) \subseteq (1 .. MaxDocs) \X Details!Elements
          /\ \A d \in Details!Filed(list, chain.last) : chain.last < d[1] /\ d[1] <= chain.last + Len(list)
          /\ \A d, e \in Details!Filed(list, chain.last) : d[1] = e[1] => d = e
      BY <2>1, <2>2, DetailsFiled
    <3>2. /\ chain.docs \subseteq (1 .. MaxDocs) \X Details!Elements
          /\ \A d \in chain.docs : d[1] <= chain.last
          /\ \A d, e \in chain.docs : d[1] = e[1] => d = e
      BY <1>0 DEF DetailsChains
    <3> HIDE DEF docs
    <3> QED BY <2>2, <2>3, <3>1, <3>2, DetailAssumption
  <2> HIDE DEF docs
  <2> DEFINE n == Len(list)
  <2>5. n \in Nat /\ chain.last + n \in 0 .. MaxDocs /\ chain' = [chain EXCEPT !.docs = docs, !.last = @ + n]
    BY <2>2, DetailAssumption
  <2>6. /\ \A d \in docs : d[1] <= chain.last + n
        /\ \A d, e \in docs : d[1] = e[1] => d = e
    BY <2>4
  <2> HIDE DEF n
  <2>7. chain' \in DetailsChains
    BY <1>0, <2>4, <2>5, <2>6, DetailsFields
  <2> QED BY <1>3, <1>12, <2>7 DEF Details!DispatchDocuments
<1>13. CASE Details!OthersModify
  BY <1>0, <1>2, <1>13 DEF Details!OthersModify, DetailsChains
<1>14. ASSUME NEW doc \in Details!Elements, Details!OthersAdd(doc) PROVE DetailsInv'
  <2>1. <<chain.last + 1, doc>> \in (1 .. MaxDocs) \X Details!Elements /\ chain.last + 1 \in 0 .. MaxDocs
    BY <1>0, <1>14, DetailAssumption DEF Details!OthersAdd, Details!Numbered, DetailsChains
  <2> DEFINE docs == chain.docs \cup {<<chain.last + 1, doc>>}
  <2>2. /\ docs \subseteq (1 .. MaxDocs) \X Details!Elements /\ \A d \in docs : d[1] <= chain.last + 1
        /\ \A d, e \in docs : d[1] = e[1] => d = e
    BY <1>0, <2>1 DEF DetailsChains
  <2> HIDE DEF docs
  <2>3. [chain EXCEPT !.docs = docs, !.last = @ + 1] \in DetailsChains
    BY <1>0, <2>1, <2>2, DetailsFields
  <2> QED BY <1>2, <1>14, <2>3 DEF Details!OthersAdd, docs
<1>15. ASSUME NEW d \in chain.docs, Details!OthersRemove(d) PROVE DetailsInv'
  <2>1. [chain EXCEPT !.docs = @ \ {d}] \in DetailsChains
    BY <1>0 DEF DetailsChains
  <2> QED BY <1>2, <1>15, <2>1 DEF Details!OthersRemove
<1>16. CASE Details!ReadRound /\ call' # Idle
  <2> DEFINE found == Details!With([round |-> chain.round])
  <2>1. Details!Gather("round", found) /\ call.op = "modify" /\ "round" \in call.left
    BY <1>16 DEF Details!ReadRound
  <2>2. Fresh => DetailsHas(found, call.left \ {"round"})
    BY <1>0, <2>1, DetailsGather
  <2> HIDE DEF found
  <2> QED BY <1>6, <1>16, <2>1, <2>2
<1> QED
  BY <1>4, <1>5, <1>7, <1>8, <1>9, <1>10, <1>11, <1>12, <1>13, <1>14, <1>15, <1>16 DEF Details!Next

LEMMA DetailsStutter == DetailsInv /\ UNCHANGED <<chain, call>> => DetailsInv'
BY DEF DetailsInv, DetailsCall, DetailsModify, DetailsDocuments, DetailsChains, DetailsHas, Fresh, Details!MayModify

LEMMA DetailsOK == DetailsInv => Details!TypeOK /\ Details!RevertedOnlyIfStale
<1> SUFFICES ASSUME DetailsInv PROVE Details!TypeOK /\ Details!RevertedOnlyIfStale
  OBVIOUS
<1>1. Details!TypeOK
  BY DEF DetailsInv, DetailsChains, DetailsCall, DetailsModify, DetailsDocuments, Of, Idle, Details!TypeOK
<1>2. ASSUME Details!Built, Details!Fresh PROVE Details!Accepted
  BY <1>2, DetailsStages DEF DetailsInv, DetailsModify, Details!Built, Details!Fresh, Fresh,
     Details!Accepted, Details!MayModify, DetailsHas
<1> QED BY <1>1, <1>2 DEF Details!RevertedOnlyIfStale


LEMMA DetailsSizes == \A set : Details!Cardinality(set) = Cardinality(set)
BY DEF Cardinality, Details!Cardinality

(* Documents have an order.                                                *)
LEMMA DetailsOrder ==
  ASSUME NEW docs, IsFiniteSet(docs), \A d \in docs : d[1] \in Nat, \A d, e \in docs : d[1] = e[1] => d = e
  PROVE  \E s \in [1 .. Cardinality(docs) -> docs] : \A i, j \in DOMAIN s : i < j => s[i][1] < s[j][1]
<1> DEFINE upto(d) == {e \in docs : e[1] <= d[1]}
           n == Cardinality(docs)
           r == [d \in docs |-> Cardinality(upto(d))]
<1>1. n \in Nat
  BY FS_CardinalityType, Zenon
<1>2. ASSUME NEW d \in docs PROVE IsFiniteSet(upto(d)) /\ Cardinality(upto(d)) \in 1 .. n
  <2>1. upto(d) \in SUBSET docs /\ d \in upto(d)
    OBVIOUS
  <2> HIDE DEF upto
  <2>2. IsFiniteSet(upto(d)) /\ Cardinality(upto(d)) <= Cardinality(docs)
    BY <2>1, FS_Subset, Zenon
  <2>3. Cardinality(upto(d)) \in Nat /\ Cardinality(upto(d)) # 0
    BY <2>1, <2>2, FS_CardinalityType, FS_EmptySet, Zenon
  <2> QED BY <1>1, <2>2, <2>3
<1>3. ASSUME NEW d \in docs, NEW e \in docs, d[1] < e[1] PROVE Cardinality(upto(d)) < Cardinality(upto(e))
  <2>1. upto(d) \in SUBSET upto(e)
    BY <1>3
  <2>2. e \in upto(e) /\ e \notin upto(d)
    BY <1>3
  <2> HIDE DEF upto
  <2>3. Cardinality(upto(d)) <= Cardinality(upto(e)) /\ Cardinality(upto(d)) # Cardinality(upto(e))
    BY <1>2, <2>1, <2>2, FS_Subset
  <2> QED BY <1>1, <1>2, <2>3
<1>4. r \in [docs -> 1 .. n] /\ \A d, e \in docs : r[d] = r[e] => d = e
  <2>1. r \in [docs -> 1 .. n]
    BY <1>2
  <2>2. ASSUME NEW d \in docs, NEW e \in docs, r[d] = r[e] PROVE d = e
    <3>1. Cardinality(upto(d)) = Cardinality(upto(e)) /\ Cardinality(upto(d)) \in 1 .. n
      BY <1>2, <2>2
    <3>2. ~(d[1] < e[1]) /\ ~(e[1] < d[1])
      <4> HIDE DEF upto, n
      <4> QED BY <1>1, <1>3, <3>1
    <3> QED BY <3>2
  <2> QED BY <2>1, <2>2
<1>5. \A d, e \in docs : r[d] <= r[e] => d[1] <= e[1]
  <2> SUFFICES ASSUME NEW d \in docs, NEW e \in docs, r[d] <= r[e], e[1] < d[1] PROVE FALSE
    OBVIOUS
  <2>1. Cardinality(upto(e)) < Cardinality(upto(d)) /\ Cardinality(upto(d)) <= Cardinality(upto(e))
    BY <1>3
  <2> HIDE DEF upto, n
  <2>2. Cardinality(upto(d)) \in Nat /\ Cardinality(upto(e)) \in Nat
    BY <1>1, <1>2
  <2> QED BY <2>1, <2>2
<1> HIDE DEF r
<1>6. r \in Injection(docs, 1 .. n)
  BY <1>4 DEF Injection, IsInjective
<1>7. IsFiniteSet(1 .. n) /\ Cardinality(1 .. n) = n
  <2>1. 1 \in Int /\ n \in Int
    BY <1>1
  <2> HIDE DEF n
  <2>2. IsFiniteSet(1 .. n) /\ Cardinality(1 .. n) = IF 1 > n THEN 0 ELSE n - 1 + 1
    BY <2>1, FS_Interval, Zenon
  <2> QED BY <1>1, <2>2
<1>8. \A i \in 1 .. n : \E d \in docs : r[d] = i
  <2>1. r \in Surjection(docs, 1 .. n)
    BY <1>6, <1>7, FS_Injection, Zenon
  <2> QED BY <2>1 DEF Surjection
<1> DEFINE s == [i \in 1 .. n |-> CHOOSE d \in docs : r[d] = i]
<1>9. \A i \in 1 .. n : s[i] \in docs /\ r[s[i]] = i
  BY <1>8
<1>10. s \in [1 .. n -> docs]
  BY <1>9
<1>11. ASSUME NEW i \in 1 .. n, NEW j \in 1 .. n, i < j PROVE s[i][1] < s[j][1]
  <2>1. s[i][1] <= s[j][1] /\ s[i] \in docs /\ s[j] \in docs /\ s[i] # s[j]
    <3> HIDE DEF s, n
    <3> QED BY <1>1, <1>5, <1>9, <1>11
  <2> QED BY <2>1
<1> QED BY <1>10, <1>11

(* The ids and contents of documents list each of them once.               *)
LEMMA DetailsSorted ==
  ASSUME NEW docs \in SUBSET ((1 .. MaxDocs) \X Details!Elements), \A d, e \in docs : d[1] = e[1] => d = e
  PROVE  /\ IsFiniteSet(docs) /\ Cardinality(docs) \in Nat
         /\ Details!Sorted(docs) \in Bijection(1 .. Cardinality(docs), docs)
         /\ Details!Contents(docs) \in Seq(Details!Elements) /\ Len(Details!Contents(docs)) = Cardinality(docs)
         /\ \A i \in 1 .. Cardinality(docs) : Details!Contents(docs)[i] = Details!Sorted(docs)[i][2]
<1> DEFINE n == Cardinality(docs)
           s == Details!Sorted(docs)
           f == [d \in docs |-> d[1]]
<1>1. IsFiniteSet(docs)
  <2>1. f \in Injection(docs, 1 .. MaxDocs)
    BY DEF Injection, IsInjective
  <2> HIDE DEF f
  <2>2. IsFiniteSet(1 .. MaxDocs)
    BY DetailAssumption, FS_Interval
  <2> QED BY <2>1, <2>2, FS_Injection, Zenon
<1>2. n \in Nat
  BY <1>1, FS_CardinalityType, Zenon
<1>3. s \in [1 .. n -> docs] /\ \A i, j \in DOMAIN s : i < j => s[i][1] < s[j][1]
  <2>1. \E t \in [1 .. n -> docs] : \A i, j \in DOMAIN t : i < j => t[i][1] < t[j][1]
    <3>1. \A d \in docs : d[1] \in Nat
      OBVIOUS
    <3> QED BY <1>1, <3>1, DetailsOrder
  <2>2. s = CHOOSE t \in [1 .. n -> docs] : \A i, j \in DOMAIN t : i < j => t[i][1] < t[j][1]
    BY DetailsSizes DEF Details!Sorted
  <2> HIDE DEF s, n
  <2> QED BY <2>1, <2>2
<1> HIDE DEF s
<1>4. s \in Injection(1 .. n, docs)
  <2>1. ASSUME NEW i \in 1 .. n, NEW j \in 1 .. n, s[i] = s[j] PROVE i = j
    <3>1. s[i][1] \in Nat /\ s[j][1] \in Nat
      BY <1>3
    <3>2. ~(i < j) /\ ~(j < i)
      BY <1>3, <2>1, <3>1
    <3> QED BY <1>2, <3>2
  <2> QED BY <1>3, <2>1 DEF Injection, IsInjective
<1>5. IsFiniteSet(1 .. n) /\ Cardinality(1 .. n) = n
  <2>1. 1 \in Int /\ n \in Int
    BY <1>2
  <2> HIDE DEF n
  <2>2. IsFiniteSet(1 .. n) /\ Cardinality(1 .. n) = IF 1 > n THEN 0 ELSE n - 1 + 1
    BY <2>1, FS_Interval, Zenon
  <2> QED BY <1>2, <2>2
<1>6. s \in Surjection(1 .. n, docs)
  BY <1>1, <1>4, <1>5, FS_Injection, Zenon
<1>7. s \in Bijection(1 .. n, docs)
  BY <1>4, <1>6 DEF Bijection
<1>8. Details!Contents(docs) = [i \in 1 .. n |-> s[i][2]]
  BY <1>3 DEF Details!Contents, s
<1>9. \A i \in 1 .. n : s[i][2] \in Details!Elements
  BY <1>3
<1>10. /\ Details!Contents(docs) \in Seq(Details!Elements) /\ Len(Details!Contents(docs)) = n
       /\ \A i \in 1 .. n : Details!Contents(docs)[i] = s[i][2]
  <2> HIDE DEF n
  <2> QED BY <1>2, <1>8, <1>9
<1> QED BY <1>1, <1>2, <1>7, <1>10 DEF s

(* An element is among the contents as often as it is a document.          *)
LEMMA DetailsCount ==
  ASSUME NEW docs \in SUBSET ((1 .. MaxDocs) \X Details!Elements), \A d, e \in docs : d[1] = e[1] => d = e, NEW e
  PROVE  Details!Times(Details!Contents(docs), e) = Cardinality({d \in docs : d[2] = e})
<1> DEFINE n == Cardinality(docs)
           s == Details!Sorted(docs)
           c == Details!Contents(docs)
           S == {i \in DOMAIN c : c[i] = e}
           T == {d \in docs : d[2] = e}
           f == [i \in S |-> s[i]]
<1>1. /\ n \in Nat /\ IsFiniteSet(docs) /\ s \in Bijection(1 .. n, docs)
      /\ c \in Seq(Details!Elements) /\ Len(c) = n /\ \A i \in 1 .. n : c[i] = s[i][2]
  BY DetailsSorted
<1> HIDE DEF s, c, n
<1>2. /\ s \in [1 .. n -> docs] /\ \A i, j \in 1 .. n : s[i] = s[j] => i = j
      /\ \A d \in docs : \E i \in 1 .. n : s[i] = d
  BY <1>1 DEF Bijection, Injection, Surjection, IsInjective
<1>3. DOMAIN c = 1 .. n
  BY <1>1
<1>4. f \in [S -> T] /\ (\A i, j \in S : f[i] = f[j] => i = j) /\ \A d \in T : \E i \in S : f[i] = d
  <2>1. \A i : i \in S <=> i \in 1 .. n /\ s[i][2] = e
    BY <1>1, <1>3
  <2>2. f \in [S -> T]
    BY <1>2, <2>1
  <2>3. \A i, j \in S : f[i] = f[j] => i = j
    BY <1>2, <2>1
  <2>4. ASSUME NEW d \in T PROVE \E i \in S : f[i] = d
    <3>1. PICK i \in 1 .. n : s[i] = d
      BY <1>2
    <3>2. i \in S
      BY <2>1, <3>1
    <3> QED BY <3>1, <3>2
  <2> QED BY <2>2, <2>3, <2>4
<1> HIDE DEF f, S, T
<1>5. f \in Bijection(S, T)
  BY <1>4, MadeOneToOne
<1>6. IsFiniteSet(S)
  <2>1. T \in SUBSET docs
    BY DEF T
  <2>2. IsFiniteSet(T)
    BY <1>1, <2>1, FS_Subset, Zenon
  <2> QED BY <1>5, <2>2, FS_Injection DEF Bijection
<1>7. Cardinality(T) = Cardinality(S)
  BY <1>5, <1>6, FS_Bijection, Zenon DEF ExistsBijection
<1> QED BY <1>7, DetailsSizes DEF Details!Times, S, T, c

LEMMA DetailsFiledCount ==
  ASSUME NEW list \in IdLists, NEW n \in Nat, NEW e
  PROVE  Details!Times(list, e) = Cardinality({d \in Details!Filed(list, n) : d[2] = e})
<1> DEFINE S == {i \in DOMAIN list : list[i] = e}
           T == {d \in Details!Filed(list, n) : d[2] = e}
           f == [i \in S |-> <<n + i, list[i]>>]
<1>1. DOMAIN list = 1 .. Len(list) /\ Len(list) \in Nat
  BY DetailAssumption
<1>2. f \in [S -> T]
  BY DEF Details!Filed
<1>3. \A i, j \in S : f[i] = f[j] => i = j
  BY <1>1
<1>4. \A d \in T : \E i \in S : f[i] = d
  BY DEF Details!Filed
<1>5. IsFiniteSet(S)
  <2>1. IsFiniteSet(1 .. Len(list)) /\ S \in SUBSET (1 .. Len(list))
    BY <1>1, FS_Interval
  <2> HIDE DEF S
  <2> QED BY <2>1, FS_Subset, Zenon
<1> HIDE DEF f, S, T
<1>6. f \in Bijection(S, T)
  BY <1>2, <1>3, <1>4, MadeOneToOne
<1>7. Cardinality(T) = Cardinality(S)
  BY <1>5, <1>6, FS_Bijection, Zenon DEF ExistsBijection
<1> QED BY <1>7, DetailsSizes DEF Details!Times, S, T

(* A list that repeats nothing and is found the same as another has the    *)
(* same elements, each as often.                                           *)
LEMMA DetailsAlike ==
  ASSUME NEW a \in Seq(Details!Elements), NEW b \in Seq(Details!Elements), Details!SameElements(a, b)
  PROVE  Details!Alike(a, b) \/ Details!Repeats(a)
<1> SUFFICES ASSUME ~Details!Repeats(a) PROVE Details!Alike(a, b)
  OBVIOUS
<1> DEFINE n == Len(a)
           h == [i \in 1 .. n |-> CHOOSE j \in 1 .. n : a[i] = b[j]]
           At(list, e) == {i \in DOMAIN list : list[i] = e}
<1>1. n \in Nat /\ DOMAIN a = 1 .. n /\ DOMAIN b = 1 .. n /\ Len(b) = n /\ \A i \in 1 .. n : a[i] \in Details!Elements
  BY DEF Details!SameElements
<1>2. h \in [1 .. n -> 1 .. n] /\ \A i \in 1 .. n : a[i] = b[h[i]]
  BY <1>1 DEF Details!SameElements
<1>3. IsFiniteSet(1 .. n)
  BY <1>1, FS_Interval
<1> HIDE DEF h, n
<1>4. ASSUME NEW e PROVE At(a, e) \in SUBSET (1 .. n) /\ At(b, e) \in SUBSET (1 .. n) /\ IsFiniteSet(At(a, e))
  <2>1. At(a, e) \in SUBSET (1 .. n) /\ At(b, e) \in SUBSET (1 .. n)
    BY <1>1
  <2> HIDE DEF At
  <2> QED BY <1>3, <2>1, FS_Subset, Zenon
<1>5. ASSUME NEW i \in 1 .. n, NEW j \in 1 .. n, a[i] = a[j], i # j PROVE FALSE
  <2> DEFINE S == At(a, a[i])
  <2>1. {i, j} \in SUBSET S
    BY <1>1, <1>5
  <2>2. IsFiniteSet(S) /\ ~(Cardinality(S) > 1)
    BY <1>1, <1>4, DetailsSizes DEF Details!Repeats, Details!Times
  <2> HIDE DEF S
  <2>3. Cardinality({i, j}) = 2
    <3>1. IsFiniteSet({i}) /\ Cardinality({i}) = 1 /\ j \notin {i} /\ {i} \cup {j} = {i, j}
      BY <1>5, FS_Singleton
    <3>2. Cardinality({i} \cup {j}) = Cardinality({i}) + 1
      BY <3>1, FS_AddElement
    <3>3. Cardinality({i, j}) = Cardinality({i}) + 1
      BY <3>1, <3>2, Zenon
    <3> QED BY <3>1, <3>3
  <2>4. Cardinality({i, j}) <= Cardinality(S) /\ Cardinality(S) \in Nat
    BY <2>1, <2>2, FS_Subset, FS_CardinalityType, Zenon
  <2> QED BY <2>2, <2>3, <2>4
<1>6. \A i, j \in 1 .. n : h[i] = h[j] => i = j
  BY <1>2, <1>5
<1>7. \A j \in 1 .. n : \E i \in 1 .. n : h[i] = j
  <2>1. h \in Injection(1 .. n, 1 .. n)
    BY <1>2, <1>6 DEF Injection, IsInjective
  <2>2. h \in Surjection(1 .. n, 1 .. n)
    BY <1>3, <2>1, FS_Injection, Zenon
  <2> QED BY <2>2 DEF Surjection
<1>8. ASSUME NEW e PROVE Cardinality(At(a, e)) = Cardinality(At(b, e))
  <2> DEFINE f == [i \in At(a, e) |-> h[i]]
  <2>1. f \in [At(a, e) -> At(b, e)] /\ (\A i, j \in At(a, e) : f[i] = f[j] => i = j)
    BY <1>1, <1>2, <1>6
  <2>2. \A j \in At(b, e) : \E i \in At(a, e) : f[i] = j
    BY <1>1, <1>2, <1>7
  <2> HIDE DEF f, At
  <2>3. f \in Bijection(At(a, e), At(b, e))
    BY <2>1, <2>2, MadeOneToOne
  <2> QED BY <1>4, <2>3, FS_Bijection DEF ExistsBijection
<1> QED BY <1>8, DetailsSizes DEF Details!Alike, Details!Times

LEMMA DetailsRefused == DetailsInv /\ Details!Next => Details!TurnedAwayRightly
<1> SUFFICES ASSUME DetailsInv, Details!Next, Details!TurnedAway, Details!Fresh PROVE DetailsSame
  BY DEF Details!TurnedAwayRightly, DetailsSame
<1>0. DetailsCall /\ chain \in DetailsChains /\ Fresh /\ ~Details!Built /\ call.op # "none" /\ call'.op = "none"
  BY DEF DetailsInv, Details!TurnedAway, Details!Ends, Details!Fresh, Fresh
<1>1. ASSUME NEW r, NEW found, NEW more, Details!Keep(r, found, more) PROVE FALSE
  <2>1. DOMAIN call = {"op", "args", "read", "left", "stale"}
    BY <1>0 DEF DetailsCall, DetailsModify, DetailsDocuments, Of, Idle
  <2> QED BY <1>0, <1>1, <2>1 DEF Details!Keep
<1>2. ASSUME NEW r, NEW found, call.op = "modify", r \in {"details", "round", "identifiers"},
             Details!Gather(r, found), DetailsHas(found, call.left \ {r})
      PROVE  DetailsSame
  <2>1. DetailsModify /\ call.args \in Changes
    BY <1>0, <1>2, DetailsStages DEF DetailsModify, Of
  <2>2. call.left = {r} /\ ~Details!MayModify(found)
    BY <1>1, <1>2 DEF Details!Gather
  <2>3. found.divisible = chain.divisible /\ found.name = chain.name /\ found.round = chain.round /\ found.ids = chain.ids
    BY <1>2, <2>2 DEF DetailsHas
  <2>4. CASE call.args.ids # NotPassed /\ Details!SameElements(chain.ids, call.args.ids)
    <3>1. call.args.ids \in IdLists /\ chain.ids \in IdLists
      BY <1>0, <2>1, <2>4, DetailAssumption DEF DetailsChains
    <3>2. call.args.ids \in Seq(Details!Elements) /\ chain.ids \in Seq(Details!Elements)
      BY <3>1, DetailAssumption
    <3> QED BY <1>2, <2>4, <3>2, DetailsAlike DEF DetailsSame
  <2>5. CASE ~(call.args.ids # NotPassed /\ Details!SameElements(chain.ids, call.args.ids))
    BY <1>2, <2>2, <2>3, <2>5 DEF Details!MayModify, DetailsSame
  <2> QED BY <2>4, <2>5
<1>3. CASE Details!ReadDetails
  <2> DEFINE found == Details!With([divisible |-> chain.divisible, name |-> chain.name])
  <2>1. Details!Gather("details", found) /\ call.op = "modify"
    BY <1>3 DEF Details!ReadDetails, Details!Answers
  <2>2. DetailsHas(found, call.left \ {"details"})
    BY <1>0, <2>1, DetailsGather
  <2> HIDE DEF found
  <2> QED BY <1>2, <2>1, <2>2
<1>4. CASE Details!ReadIdentifiers
  <2> DEFINE found == Details!With([ids |-> chain.ids])
  <2>1. Details!Gather("identifiers", found) /\ call.op = "modify"
    BY <1>4 DEF Details!ReadIdentifiers, Details!Answers
  <2>2. DetailsHas(found, call.left \ {"identifiers"})
    BY <1>0, <2>1, DetailsGather
  <2> HIDE DEF found
  <2> QED BY <1>2, <2>1, <2>2
<1>5. CASE Details!ReadEntries
  <2>1. call.op = "documents" /\ Details!SameElements(Details!Contents(chain.docs), call.args.list)
    BY <1>1, <1>5 DEF Details!ReadEntries, Details!Answers
  <2>2. call.args.list \in Seq(Details!Elements)
    BY <1>0, <2>1, DetailsStages, DetailAssumption DEF DetailsDocuments, Of
  <2>3. Details!Contents(chain.docs) \in Seq(Details!Elements)
    BY <1>0, DetailsSorted DEF DetailsChains
  <2> QED BY <2>1, <2>2, <2>3, DetailsAlike DEF DetailsSame
<1>6. CASE Details!DispatchModify \/ Details!DispatchDocuments
  BY <1>0, <1>6 DEF Details!DispatchModify, Details!DispatchDocuments, Details!Dispatches
<1>7. ASSUME NEW after, Details!Happens(after) PROVE FALSE
  BY <1>0, <1>7, DetailsStages DEF Details!Happens
<1>8. CASE Details!ReadRound
  <2> DEFINE found == Details!With([round |-> chain.round])
  <2>1. Details!Gather("round", found) /\ call.op = "modify"
    BY <1>8 DEF Details!ReadRound, Details!Answers
  <2>2. DetailsHas(found, call.left \ {"round"})
    BY <1>0, <2>1, DetailsGather
  <2> HIDE DEF found
  <2> QED BY <1>2, <2>1, <2>2
<1> QED
  BY <1>0, <1>3, <1>4, <1>5, <1>6, <1>7, <1>8
     DEF Details!Next, Details!Calls, Details!Modify, Details!SetDocuments, Details!OthersModify, Details!OthersAdd, Details!OthersRemove

LEMMA DetailsDone == DetailsInv /\ Details!Next => Details!DoneAsAsked
<1> SUFFICES ASSUME DetailsInv, Details!Next, Details!Built, Details!Ends PROVE Details!DoneAsAsked
  BY DEF Details!DoneAsAsked
<1>0. DetailsCall /\ chain \in DetailsChains /\ call.left = {} /\ call.op # "none" /\ call'.op = "none"
  BY DEF DetailsInv, Details!Built, Details!Ends
<1>1. ASSUME NEW after, Details!Happens(after) PROVE FALSE
  BY <1>0, <1>1, DetailsStages DEF Details!Happens
<1>2. Details!DispatchModify \/ Details!DispatchDocuments
  BY <1>0, <1>1 DEF Details!Next, Details!Calls, Details!Answers, Details!Modify, Details!SetDocuments, Details!ReadDetails, Details!ReadRound,
     Details!ReadIdentifiers, Details!ReadEntries, Details!OthersModify, Details!OthersAdd, Details!OthersRemove
<1>3. CASE call.op = "documents"
  <2> DEFINE list == call.args.list
             filed == Details!Filed(list, chain.last)
             kept == {d \in chain.docs : d[1] \notin call.read.removed}
  <2>1. DetailsDocuments /\ list \in IdLists
    BY <1>0, <1>3, DetailsStages DEF DetailsDocuments, Of
  <2>2. chain'.docs = kept \cup filed /\ chain.last + Len(list) <= MaxDocs
    BY <1>0, <1>2, <1>3 DEF Details!DispatchModify, Details!DispatchDocuments, Details!Dispatches, Details!Replaced,
       Details!Numbered, DetailsChains
  <2>3. /\ filed \subseteq (1 .. MaxDocs) \X Details!Elements
        /\ \A d \in filed : chain.last < d[1]
        /\ \A d, e \in filed : d[1] = e[1] => d = e
    BY <1>0, <2>1, <2>2, DetailsFiled DEF DetailsChains
  <2>4. \A d \in chain.docs : d[1] \in Nat /\ d[1] <= chain.last /\ chain.last \in Nat
    BY <1>0 DEF DetailsChains
  <2>5. filed \cap chain.docs = {}
    <3> HIDE DEF filed
    <3> QED BY <2>3, <2>4
  <2>6. chain'.docs \ chain.docs = filed
    <3> HIDE DEF filed
    <3> QED BY <2>2, <2>5
  <2>7. Details!Alike(Details!Contents(chain'.docs \ chain.docs), list)
    <3>1. \A e : Details!Times(list, e) = Cardinality({d \in filed : d[2] = e})
      BY <1>0, <2>1, DetailsFiledCount DEF DetailsChains
    <3> HIDE DEF filed, list
    <3>2. \A e : Details!Times(Details!Contents(filed), e) = Cardinality({d \in filed : d[2] = e})
      BY <2>3, DetailsCount
    <3> QED BY <2>6, <3>1, <3>2 DEF Details!Alike
  <2>8. Fresh => chain'.docs \cap chain.docs = {}
    <3> SUFFICES ASSUME Fresh PROVE chain'.docs \cap chain.docs = {}
      OBVIOUS
    <3>1. call.read = [removed |-> {d[1] : d \in chain.docs}]
      BY <1>0, <2>1 DEF DetailsDocuments
    <3>2. kept = {}
      BY <3>1
    <3> QED BY <2>2, <2>5, <3>2
  <2> QED BY <1>3, <2>2, <2>7, <2>8 DEF Details!DoneAsAsked, Details!Fresh, Fresh
<1>4. CASE call.op = "modify"
  <2> SUFFICES ASSUME Fresh, call.args.divisible # FALSE PROVE chain' # chain
    BY <1>4 DEF Details!DoneAsAsked, Details!Fresh, Fresh
  <2>1. DetailsModify /\ call.args \in Changes
    BY <1>0, <1>4, DetailsStages DEF DetailsModify, Of
  <2>2. /\ call.args.divisible = TRUE => ~chain.divisible
        /\ call.args.name # NotPassed => call.args.name # chain.name
        /\ call.args.round # NotPassed => call.args.round # chain.round
        /\ call.args.ids # NotPassed => ~Details!SameElements(chain.ids, call.args.ids)
    BY <1>0, <2>1 DEF DetailsModify, DetailsHas, Details!MayModify
  <2>3. /\ chain' = [chain EXCEPT !.divisible = @ \/ call.args.divisible = TRUE,
                                  !.name = Details!Given(call.args.name, @), !.round = Details!Given(call.args.round, @),
                                  !.ids = Details!Given(call.args.ids, @)]
    BY <1>2, <1>4, <2>2 DEF Details!DispatchModify, Details!DispatchDocuments, Details!Dispatches, Details!Accepted
  <2>4. /\ chain'.divisible <=> chain.divisible \/ call.args.divisible = TRUE
        /\ chain'.name = Details!Given(call.args.name, chain.name) /\ chain'.round = Details!Given(call.args.round, chain.round)
        /\ chain'.ids = Details!Given(call.args.ids, chain.ids)
    BY <1>0, <2>3 DEF DetailsChains
  <2>5. call.args.divisible = TRUE \/ call.args.name # NotPassed \/ call.args.round # NotPassed \/ call.args.ids # NotPassed
    <3>1. call.args \in [divisible : BOOLEAN \cup {NotPassed}, name : GivenNames \cup {NotPassed},
                        round : GivenNames \cup {NotPassed}, ids : IdLists \cup {NotPassed}]
      BY <2>1, DetailAssumption
    <3>2. PICK field \in {"divisible", "name", "round", "ids"} : call.args[field] # NotPassed
      BY <2>1, <3>1 DEF DetailsModify
    <3> QED BY <3>1, <3>2
  <2>6. \A a : Details!SameElements(a, a)
    BY DEF Details!SameElements
  <2> QED BY <2>2, <2>4, <2>5, <2>6 DEF Details!Given
<1> QED BY <1>0, <1>3, <1>4 DEF DetailsCall, DetailsModify, DetailsDocuments, Of, Idle

-----------------------------------------------------------------------------
(* Metadata *)

LEMMA MetadataInit == Metadata!Init => MetadataInv
BY MetadataAssumption, TickerAssumption DEF Metadata!Init, MetadataInv, MetadataTyped, MetadataCall, Metadata!Chains, Metadata!Idle, Idle, Metadata!NoArgs, NoArgs

(* What is not given is no lock.                                           *)
LEMMA MetadataTimes ==
  /\ MaxTime \in Nat \ {0} /\ Metadata!NotGiven \notin Locks
  /\ \A lock \in Locks : lock \in Nat /\ lock <= Metadata!Always
<1>1. Locks \subseteq 0 .. MaxTime + 1 /\ MaxTime \in Nat \ {0}
  BY MetadataAssumption, TickerAssumption
<1> QED BY <1>1 DEF Metadata!NotGiven, Metadata!Always

(* What is written where it may be.                                        *)
LEMMA MetadataWrites ==
  ASSUME MetadataTyped, NEW args \in Metadata!Sets, args.lock \in {0, Metadata!NotGiven} \/ args.value \/ chain.value,
         chain' = Metadata!Written(args)
  PROVE  MetadataTyped'
<1> DEFINE lock == IF args.lock = Metadata!NotGiven THEN chain.lock ELSE args.lock
<1>1. /\ args.value \in BOOLEAN /\ args.lock \in Locks \cup {Metadata!NotGiven}
      /\ chain \in Metadata!Chains /\ chain.lock \in Locks /\ chain.value \in BOOLEAN
  BY DEF Metadata!Sets, MetadataTyped, Metadata!Chains
<1>2. lock \in Locks /\ (lock # 0 => args.value \/ chain.value)
  BY <1>1 DEF MetadataTyped
<1>3. chain' = [chain EXCEPT !.local = TRUE, !.value = chain.value \/ args.value, !.lock = lock]
  BY DEF Metadata!Written
<1> HIDE DEF lock
<1> DEFINE value == chain.value \/ args.value
<1>4. value \in BOOLEAN /\ (lock # 0 => value)
  BY <1>1, <1>2
<1>5. chain' = [chain EXCEPT !.local = TRUE, !.value = value, !.lock = lock]
  BY <1>3
<1> HIDE DEF value
<1>6. chain' \in Metadata!Chains /\ chain'.local = TRUE /\ chain'.value = value /\ chain'.lock = lock
  BY <1>1, <1>2, <1>4, <1>5 DEF Metadata!Chains
<1> QED BY <1>4, <1>6 DEF MetadataTyped

LEMMA MetadataStages ==
  ASSUME MetadataCall
  PROVE  /\ call.op = "none" => call = Idle
         /\ [call EXCEPT !.stale = TRUE].op = call.op
         /\ call.op = "register" => MetadataRegister
         /\ call.op = "set" => MetadataSet
BY DEF MetadataCall, MetadataRegister, MetadataSet, Of, Idle

LEMMA MetadataStale ==
  ASSUME MetadataCall, NEW after, Metadata!Happens(after) PROVE MetadataCall'
<1>1. CASE call = Idle
  BY <1>1 DEF Metadata!Happens, MetadataCall, Idle
<1>2. CASE call # Idle
  <2>1. call' = [call EXCEPT !.stale = TRUE]
    BY <1>2, MetadataStages DEF Metadata!Happens
  <2> QED BY <1>2, <2>1 DEF MetadataCall, MetadataRegister, Fresh, Of, MetadataSet
<1> QED BY <1>1, <1>2

LEMMA MetadataNext == MetadataInv /\ Metadata!Next => MetadataInv'
<1> SUFFICES ASSUME MetadataInv, Metadata!Next PROVE MetadataInv'
  OBVIOUS
<1> USE DEF Idle, NoArgs, Metadata!Idle, Metadata!NoArgs, Metadata!Calls, Metadata!Answers, Metadata!Check, Metadata!Keep,
        Metadata!Refuse, Metadata!Built, Metadata!Dispatches
<1>0. MetadataCall /\ MetadataTyped
  BY DEF MetadataInv
<1>1. ASSUME UNCHANGED chain, MetadataCall' PROVE MetadataInv'
  BY <1>0, <1>1 DEF MetadataInv, MetadataTyped, Metadata!Chains
<1>2. ASSUME NEW after, Metadata!Happens(after), MetadataTyped' PROVE MetadataInv'
  BY <1>0, <1>2, MetadataStale DEF MetadataInv
<1>3. ASSUME MetadataTyped', call' = Idle PROVE MetadataInv'
  BY <1>3 DEF MetadataInv, MetadataCall
<1>4. ASSUME UNCHANGED chain, call' = Idle PROVE MetadataInv'
  BY <1>1, <1>4 DEF MetadataCall
<1>5. ASSUME NEW args \in Metadata!Sets, Metadata!Register(args) PROVE MetadataInv'
  <2>1. MetadataRegister'
    BY <1>5 DEF Metadata!Register, MetadataRegister, Of
  <2> QED BY <1>1, <1>5, <2>1 DEF Metadata!Register, MetadataCall
<1>6. ASSUME NEW args \in Metadata!Sets, Metadata!SetEntry(args) PROVE MetadataInv'
  <2>1. MetadataSet'
    BY <1>6 DEF Metadata!SetEntry, MetadataSet, Of
  <2> QED BY <1>1, <1>6, <2>1 DEF Metadata!SetEntry, MetadataCall
<1>7. CASE Metadata!ReadNames /\ call' # Idle
  <2>1. MetadataRegister
    BY <1>0, <1>7, MetadataStages DEF Metadata!ReadNames
  <2>2. call' = [call EXCEPT !.left = @ \ {"names"}] /\ chain' = chain /\ ~Metadata!Taken
    BY <1>7, <2>1 DEF Metadata!ReadNames, MetadataRegister, Of
  <2>3. MetadataRegister'
    BY <2>1, <2>2 DEF MetadataRegister, Of, Fresh, Metadata!Taken
  <2> QED BY <1>1, <2>2, <2>3 DEF MetadataCall
<1>8. CASE Metadata!ReadValue /\ call' # Idle
  <2>1. MetadataSet
    BY <1>0, <1>8, MetadataStages DEF Metadata!ReadValue
  <2>2. call' = [call EXCEPT !.left = @ \ {"value"}] /\ chain' = chain /\ ~Metadata!Locked /\ (call.args.value \/ chain.value)
    BY <1>8, <2>1 DEF Metadata!ReadValue, MetadataSet, Of
  <2>3. MetadataSet'
    BY <2>1, <2>2 DEF MetadataSet, Of, Fresh, Metadata!Locked
  <2> QED BY <1>1, <2>2, <2>3 DEF MetadataCall
<1>9. CASE call' = Idle /\ (Metadata!ReadNames \/ Metadata!ReadValue)
  BY <1>0, <1>4, <1>9 DEF Metadata!ReadNames, Metadata!ReadValue
<1>10. CASE Metadata!DispatchRegister
  <2>1. call.args \in Metadata!Sets /\ (call.args.lock # Metadata!NotGiven => call.args.value)
    BY <1>0, <1>10, MetadataStages DEF Metadata!DispatchRegister, MetadataRegister, Of
  <2>2. call' = Idle /\ (chain' = chain \/ chain' = Metadata!Written(call.args))
    BY <1>10 DEF Metadata!DispatchRegister
  <2>3. chain' = chain \/ MetadataTyped'
    BY <1>0, <2>1, <2>2, MetadataWrites
  <2> QED BY <1>3, <1>4, <2>2, <2>3
<1>11. CASE Metadata!DispatchSet
  <2>1. call.args \in Metadata!Sets
    BY <1>0, <1>11, MetadataStages DEF Metadata!DispatchSet, MetadataSet, Of
  <2>2. call' = Idle /\ (chain' = chain \/ (chain' = Metadata!Written(call.args) /\ Metadata!AcceptsSet(call.args)))
    BY <1>11 DEF Metadata!DispatchSet, Metadata!Accepted
  <2>3. chain' = chain \/ MetadataTyped'
    BY <1>0, <2>1, <2>2, MetadataWrites DEF Metadata!AcceptsSet
  <2> QED BY <1>3, <1>4, <2>2, <2>3
<1>12. CASE Metadata!OthersRegister
  BY <1>0, <1>2, <1>12 DEF Metadata!OthersRegister, Metadata!Happens, MetadataTyped, Metadata!Chains
<1>13. ASSUME NEW args \in Metadata!Sets, Metadata!OthersSet(args) PROVE MetadataInv'
  <2>1. Metadata!Happens(Metadata!Written(args)) /\ Metadata!AcceptsSet(args)
    BY <1>13 DEF Metadata!OthersSet
  <2>2. MetadataTyped'
    BY <1>0, <2>1, MetadataWrites DEF Metadata!Happens, Metadata!AcceptsSet
  <2> QED BY <1>2, <2>1, <2>2
<1>14. CASE Metadata!Tick
  <2>1. chain.now + 1 \in 1 .. MaxTime
    BY <1>0, <1>14, MetadataTimes DEF Metadata!Tick, MetadataTyped, Metadata!Chains
  <2> QED BY <1>0, <1>2, <1>14, <2>1 DEF Metadata!Tick, Metadata!Happens, MetadataTyped, Metadata!Chains
<1> QED
  BY <1>5, <1>6, <1>7, <1>8, <1>9, <1>10, <1>11, <1>12, <1>13, <1>14
     DEF Metadata!Next

LEMMA MetadataStutter == MetadataInv /\ UNCHANGED <<chain, call>> => MetadataInv'
BY DEF MetadataInv, MetadataTyped, MetadataCall, MetadataRegister, MetadataSet, Fresh, Metadata!Chains,
       Metadata!Locked, Of, Idle

LEMMA MetadataOK == MetadataInv => Metadata!TypeOK /\ Metadata!RevertedOnlyIfStale
<1> SUFFICES ASSUME MetadataInv PROVE Metadata!TypeOK /\ Metadata!RevertedOnlyIfStale
  OBVIOUS
<1>1. Metadata!TypeOK
  BY DEF MetadataInv, MetadataTyped, MetadataCall, MetadataRegister, MetadataSet, Of, Idle, Metadata!TypeOK
<1>2. ASSUME Metadata!Built, Metadata!Fresh PROVE Metadata!Accepted
  <2> USE DEF Metadata!Built, Metadata!Fresh, Fresh
  <2>1. CASE MetadataRegister
    BY <1>2, <2>1 DEF MetadataRegister, Of, Metadata!Accepted
  <2>2. CASE MetadataSet
    BY <1>2, MetadataTimes, <2>2 DEF MetadataSet, Of, Metadata!Accepted, Metadata!AcceptsSet, Metadata!Held, Metadata!Locked, MetadataInv, MetadataTyped, Metadata!Chains, Metadata!Always
  <2> QED BY <1>2, <2>1, <2>2 DEF MetadataInv, MetadataCall, Idle
<1> QED BY <1>1, <1>2 DEF Metadata!RevertedOnlyIfStale

LEMMA MetadataRefused == MetadataInv /\ Metadata!Next => Metadata!TurnedAwayRightly
<1> SUFFICES ASSUME MetadataInv, Metadata!Next, Metadata!TurnedAway, Metadata!Fresh
             PROVE  ~Metadata!Accepted \/ (call.op = "set" /\ ~call.args.value /\ ~chain.value)
  BY DEF Metadata!TurnedAwayRightly
<1> USE DEF Metadata!Answers, Metadata!Check, Metadata!Keep
<1>0. MetadataCall /\ MetadataTyped /\ ~Metadata!Built /\ call.op # "none" /\ call'.op = "none"
  BY DEF MetadataInv, Metadata!TurnedAway, Metadata!Ends
<1>1. CASE Metadata!ReadNames
  <2>1. MetadataRegister
    BY <1>0, <1>1, MetadataStages DEF Metadata!ReadNames
  <2>2. Metadata!Taken
    BY <1>0, <1>1, <2>1 DEF Metadata!ReadNames, MetadataRegister, Of
  <2> QED BY <1>0, <2>1, <2>2 DEF MetadataRegister, Of, Metadata!Taken, Metadata!Accepted
<1>2. CASE Metadata!ReadValue
  <2>1. MetadataSet /\ call.op = "set"
    BY <1>0, <1>2, MetadataStages DEF Metadata!ReadValue
  <2>2. ~(~Metadata!Locked /\ (call.args.value \/ chain.value))
    BY <1>0, <1>2, <2>1 DEF Metadata!ReadValue, MetadataSet, Of
  <2>3. Metadata!Locked => chain.lock > chain.now
    BY <1>0, MetadataTimes DEF Metadata!Locked, Metadata!Always, MetadataTyped, Metadata!Chains
  <2> QED BY <2>1, <2>2, <2>3 DEF Metadata!Accepted, Metadata!AcceptsSet, Metadata!Held
<1>3. ASSUME NEW after, Metadata!Happens(after) PROVE FALSE
  BY <1>0, <1>3, MetadataStages DEF Metadata!Happens
<1> QED
  BY <1>0, <1>1, <1>2, <1>3
     DEF Metadata!Next, Metadata!Calls, Metadata!Dispatches, Metadata!Register, Metadata!SetEntry,
         Metadata!DispatchRegister, Metadata!DispatchSet, Metadata!OthersRegister, Metadata!OthersSet,
         Metadata!Tick

-----------------------------------------------------------------------------
(* Portfolios *)

LEMMA FoliosInit == Folios!Init => FoliosInv
<1> SUFFICES ASSUME Folios!Init PROVE FoliosInv
  OBVIOUS
<1> DEFINE held == [p \in Folios!Places |-> IF p \in Folios!Number1 THEN 0 ELSE MaxHeld]
           there == [p \in Folios!Number1 |-> TRUE]
<1>1. /\ held \in [Folios!Places -> 0 .. MaxHeld] /\ held["mine"] + held["myDefault"] = MaxHeld
      /\ held["theirs"] + held["theirDefault"] = MaxHeld
  BY PortfolioAssumption DEF Folios!Places, Folios!Number1
<1>2. there \in [Folios!Number1 -> BOOLEAN] /\ \A p \in Folios!Number1 : there[p] = TRUE
  OBVIOUS
<1> HIDE DEF held, there
<1>3. PICK name \in GivenNames, keeper \in [Folios!Number1 -> {"me", "other"}] :
         chain = [there |-> there, keeper |-> keeper, name |-> name, others |-> {}, held |-> held]
  BY DEF Folios!Init, held, there
<1>4. FoliosTyped
  BY <1>1, <1>2, <1>3 DEF FoliosTyped, FoliosOf, Folios!Chains
<1> QED BY <1>4 DEF Folios!Init, FoliosInv, FoliosCall, Folios!Idle, Idle, Folios!NoArgs, NoArgs

LEMMA FoliosMoves ==
  ASSUME FoliosTyped, NEW from \in Folios!Places, NEW to \in Folios!Places, NEW n \in Amounts,
         from # to, Folios!OwnerOf(from) = Folios!OwnerOf(to), Folios!Exists(from), Folios!Exists(to), n <= chain.held[from]
  PROVE  FoliosOf(Folios!Moved(from, to, n))
<1> DEFINE held == [chain.held EXCEPT ![from] = @ - n, ![to] = @ + n]
           moved == Folios!Moved(from, to, n)
<1>1. chain \in Folios!Chains /\ chain.held \in [Folios!Places -> 0 .. MaxHeld] /\ n \in Nat /\ MaxHeld \in Nat
  BY PortfolioAssumption DEF FoliosTyped, FoliosOf, Folios!Chains
<1>2. \A p \in Folios!Places : chain.held[p] \in Nat
  BY <1>1
<1>3. /\ DOMAIN held = Folios!Places /\ held[from] = chain.held[from] - n /\ held[to] = chain.held[to] + n
      /\ \A p \in Folios!Places \ {from, to} : held[p] = chain.held[p]
  BY <1>1
<1>4. held = [p \in Folios!Places |-> held[p]]
  BY <1>1
<1>5. moved \in [there : {chain.there}, keeper : {chain.keeper}, name : {chain.name}, others : {chain.others}, held : {held}]
  BY <1>1 DEF Folios!Moved, Folios!Chains
<1> HIDE DEF held, moved
<1>6. \/ from = "mine" /\ to = "myDefault"
      \/ from = "myDefault" /\ to = "mine"
      \/ from = "theirs" /\ to = "theirDefault"
      \/ from = "theirDefault" /\ to = "theirs"
  BY DEF Folios!Places, Folios!Number1, Folios!OwnerOf
<1>7. chain.held["mine"] + chain.held["myDefault"] = MaxHeld /\ chain.held["theirs"] + chain.held["theirDefault"] = MaxHeld
  BY DEF FoliosTyped, FoliosOf
<1>8. {"mine", "myDefault", "theirs", "theirDefault"} = Folios!Places
  BY DEF Folios!Places, Folios!Number1
<1>9. held["mine"] + held["myDefault"] = MaxHeld /\ held["theirs"] + held["theirDefault"] = MaxHeld
  BY <1>1, <1>2, <1>3, <1>6, <1>7, <1>8
<1>10. \A p \in Folios!Places : held[p] \in 0 .. MaxHeld
  <2>1. held[from] \in Nat /\ held[to] \in Nat
    BY <1>1, <1>2, <1>3
  <2>2. \A p \in Folios!Places : held[p] \in Nat
    BY <1>2, <1>3, <2>1
  <2> QED BY <1>1, <1>8, <1>9, <2>2
<1>11. held \in [Folios!Places -> 0 .. MaxHeld]
  BY <1>4, <1>10
<1>12. \A p \in Folios!Number1 : ~chain.there[p] => held[p] = 0
  BY <1>3 DEF FoliosTyped, FoliosOf, Folios!Exists, Folios!Places
<1> QED BY <1>1, <1>5, <1>9, <1>11, <1>12 DEF moved, FoliosTyped, FoliosOf, Folios!Chains

LEMMA FoliosStages ==
  ASSUME FoliosCall
  PROVE  /\ call.op = "none" => call = Idle
         /\ [call EXCEPT !.stale = TRUE].op = call.op
         /\ call.op = "create" => FoliosCreate
         /\ call.op = "rename" => FoliosRename
         /\ call.op = "delete" => FoliosDelete
         /\ call.op = "quit" => FoliosQuit
         /\ call.op = "move" => FoliosMove
BY DEF FoliosCall, FoliosCreate, FoliosRename, FoliosDelete, FoliosQuit, FoliosMove,
       Of, Idle

LEMMA FoliosStale ==
  ASSUME FoliosCall, NEW after, Folios!Happens(after) PROVE FoliosCall'
<1>1. CASE call = Idle
  BY <1>1 DEF Folios!Happens, FoliosCall, Idle
<1>2. CASE call # Idle
  <2>1. call' = [call EXCEPT !.stale = TRUE]
    BY <1>2, FoliosStages DEF Folios!Happens
  <2> QED BY <1>2, <2>1 DEF FoliosCall, FoliosCreate, Fresh, Of, FoliosRename, FoliosDelete, FoliosQuit, FoliosMove
<1> QED BY <1>1, <1>2

LEMMA FoliosNext == FoliosInv /\ Folios!Next => FoliosInv'
<1> SUFFICES ASSUME FoliosInv, Folios!Next PROVE FoliosInv'
  OBVIOUS
<1> USE DEF Idle, NoArgs, Folios!Idle, Folios!NoArgs, Folios!Calls, Folios!Answers, Folios!Check, Folios!Keep,
        Folios!Refuse, Folios!Built, Folios!Dispatches
<1>0. FoliosCall /\ FoliosTyped
  BY DEF FoliosInv
<1>1. ASSUME UNCHANGED chain, FoliosCall' PROVE FoliosInv'
  BY <1>0, <1>1 DEF FoliosInv, FoliosTyped, FoliosOf
<1>2. ASSUME NEW after, Folios!Happens(after), FoliosTyped' PROVE FoliosInv'
  BY <1>0, <1>2, FoliosStale DEF FoliosInv
<1>3. ASSUME FoliosTyped', call' = Idle PROVE FoliosInv'
  BY <1>3 DEF FoliosInv, FoliosCall
<1>4. ASSUME UNCHANGED chain, call' = Idle PROVE FoliosInv'
  BY <1>1, <1>4 DEF FoliosCall
<1>5. ASSUME NEW list \in NameLists, Folios!CreatePortfolios(list) PROVE FoliosInv'
  <2>1. FoliosCreate'
    BY <1>5 DEF Folios!CreatePortfolios, FoliosCreate, Of
  <2> QED BY <1>1, <1>5, <2>1 DEF Folios!CreatePortfolios, FoliosCall
<1>6. ASSUME NEW name \in GivenNames, Folios!Rename(name) PROVE FoliosInv'
  <2>1. FoliosRename'
    BY <1>6 DEF Folios!Rename, FoliosRename, Of
  <2> QED BY <1>1, <1>6, <2>1 DEF Folios!Rename, FoliosCall
<1>7. ASSUME NEW p \in Folios!Number1, Folios!Delete(p) PROVE FoliosInv'
  <2>1. FoliosDelete'
    BY <1>7 DEF Folios!Delete, FoliosDelete, Of
  <2> QED BY <1>1, <1>7, <2>1 DEF Folios!Delete, FoliosCall
<1>8. ASSUME NEW p \in Folios!Number1, Folios!QuitCustody(p) PROVE FoliosInv'
  <2>1. FoliosQuit'
    BY <1>8 DEF Folios!QuitCustody, FoliosQuit, Of
  <2> QED BY <1>1, <1>8, <2>1 DEF Folios!QuitCustody, FoliosCall
<1>9. ASSUME NEW from \in Folios!Places, NEW to \in Folios!Places, NEW n \in Amounts, NEW same \in BOOLEAN, Folios!MoveFunds(from, to, n, same) PROVE FoliosInv'
  <2>1. FoliosMove'
    BY <1>9 DEF Folios!MoveFunds, FoliosMove, Of
  <2> QED BY <1>1, <1>9, <2>1 DEF Folios!MoveFunds, FoliosCall
<1> USE DEF Folios!Subject
<1>10. CASE Folios!ReadRole /\ call' # Idle
  <2>1. CASE FoliosDelete
    <3>1. call' = [call EXCEPT !.left = @ \ {"role"}] /\ chain' = chain /\ Folios!Exists(call.args.p) /\ Folios!Keeper(call.args.p) = "me"
      BY <1>10, <2>1 DEF Folios!ReadRole, FoliosDelete, Of
    <3>2. FoliosDelete'
      BY <2>1, <3>1 DEF FoliosDelete, Of, Fresh, Folios!Exists, Folios!Keeper, Folios!MayDelete
    <3> QED BY <1>1, <3>1, <3>2 DEF FoliosCall
  <2>2. CASE FoliosQuit
    <3>1. call' = [call EXCEPT !.left = @ \ {"role"}] /\ chain' = chain /\ Folios!Exists(call.args.p) /\ Folios!Keeper(call.args.p) = "me"
      BY <1>10, <2>2 DEF Folios!ReadRole, FoliosQuit, Of
    <3>2. FoliosQuit'
      BY <2>2, <3>1 DEF FoliosQuit, Of, Fresh, Folios!Exists, Folios!Keeper
    <3> QED BY <1>1, <3>1, <3>2 DEF FoliosCall
  <2>3. CASE FoliosMove
    <3>1. call' = [call EXCEPT !.left = @ \ {"role"}] /\ chain' = chain /\ Folios!Exists(call.args.from) /\ Folios!Keeper(call.args.from) = "me"
      BY <1>10, <2>3 DEF Folios!ReadRole, FoliosMove, Of
    <3>2. FoliosMove'
      BY <2>3, <3>1 DEF FoliosMove, Of, Fresh, Folios!Exists, Folios!Keeper
    <3> QED BY <1>1, <3>1, <3>2 DEF FoliosCall
  <2> QED BY <1>0, <1>10, <2>1, <2>2, <2>3, FoliosStages DEF Folios!ReadRole
<1>11. CASE Folios!ReadNames /\ call' # Idle
  <2>1. CASE FoliosCreate
    <3>1. call' = [call EXCEPT !.left = @ \ {"names"}] /\ chain' = chain /\ Folios!FreeNames(call.args.list)
      BY <1>11, <2>1 DEF Folios!ReadNames, FoliosCreate, Of
    <3>2. FoliosCreate'
      BY <2>1, <3>1 DEF FoliosCreate, Of, Fresh, Folios!FreeNames, Folios!NamesOfMine
    <3> QED BY <1>1, <3>1, <3>2 DEF FoliosCall
  <2>2. CASE FoliosRename
    <3>1. call' = [call EXCEPT !.left = @ \ {"names"}] /\ chain' = chain /\ call.args.name \notin Folios!NamesOfMine
      BY <1>11, <2>2 DEF Folios!ReadNames, FoliosRename, Of
    <3>2. FoliosRename'
      BY <2>2, <3>1 DEF FoliosRename, Of, Fresh, Folios!NamesOfMine
    <3> QED BY <1>1, <3>1, <3>2 DEF FoliosCall
  <2> QED BY <1>0, <1>11, <2>1, <2>2, FoliosStages DEF Folios!ReadNames
<1>12. CASE Folios!ReadBalances /\ call' # Idle
  <2>1. CASE FoliosDelete
    <3>1. call' = [call EXCEPT !.left = @ \ {"balances"}] /\ chain' = chain /\ Folios!MayDelete(call.args.p)
      BY <1>12, <2>1 DEF Folios!ReadBalances, FoliosDelete, Of
    <3>2. FoliosDelete'
      BY <2>1, <3>1 DEF FoliosDelete, Of, Fresh, Folios!MayDelete, Folios!Exists, Folios!Keeper
    <3> QED BY <1>1, <3>1, <3>2 DEF FoliosCall
  <2>2. CASE FoliosMove
    <3>1. call' = [call EXCEPT !.left = @ \ {"balances"}] /\ chain' = chain /\ call.args.amount <= chain.held[call.args.from]
      BY <1>12, <2>2 DEF Folios!ReadBalances, FoliosMove, Of
    <3>2. FoliosMove'
      BY <2>2, <3>1 DEF FoliosMove, Of, Fresh, Folios!Exists, Folios!Keeper
    <3> QED BY <1>1, <3>1, <3>2 DEF FoliosCall
  <2> QED BY <1>0, <1>12, <2>1, <2>2, FoliosStages DEF Folios!ReadBalances
<1>13. CASE Folios!ReadExists /\ call' # Idle
  <2>1. CASE FoliosDelete
    <3>1. call' = [call EXCEPT !.left = @ \ {"exists"}] /\ chain' = chain
      BY <1>13, <2>1 DEF Folios!ReadExists, FoliosDelete, Of
    <3>2. FoliosDelete'
      BY <2>1, <3>1 DEF FoliosDelete, Of, Fresh, Folios!MayDelete, Folios!Exists, Folios!Keeper
    <3> QED BY <1>1, <3>1, <3>2 DEF FoliosCall
  <2>2. CASE FoliosQuit
    <3>1. call' = [call EXCEPT !.left = @ \ {"exists"}] /\ chain' = chain
      BY <1>13, <2>2 DEF Folios!ReadExists, FoliosQuit, Of
    <3>2. FoliosQuit'
      BY <2>2, <3>1 DEF FoliosQuit, Of, Fresh, Folios!Exists, Folios!Keeper
    <3> QED BY <1>1, <3>1, <3>2 DEF FoliosCall
  <2> QED BY <1>0, <1>13, <2>1, <2>2, FoliosStages DEF Folios!ReadExists
<1>14. ASSUME NEW r \in {"from", "to"}, Folios!Answers("move", r), call' # Idle, Folios!Exists(call.args[r]),
             call.left \cap {"from", "to"} = {r} =>
               /\ Folios!OwnerOf(call.args.from) = Folios!OwnerOf(call.args.to)
               /\ Folios!Distinct(call.args.from, call.args.to, call.args.same),
             Folios!Keep(r, call.read, IF call.left \cap {"from", "to"} = {r} THEN {"balances"} ELSE {})
      PROVE  FoliosInv'
  <2>1. FoliosMove /\ r \in call.left
    BY <1>0, <1>14, FoliosStages
  <2>2. "balances" \notin call.left
    BY <1>14, <2>1 DEF FoliosMove
  <2>3. chain' = chain /\ call' = [call EXCEPT !.left = (@ \ {r}) \cup IF call.left \cap {"from", "to"} = {r} THEN {"balances"} ELSE {}]
    BY <1>14, <2>1 DEF FoliosMove, Of
  <2>4. FoliosMove'
    <3>1. CASE call.left \cap {"from", "to"} = {r}
      BY <1>14, <2>1, <2>2, <2>3, <3>1 DEF FoliosMove, Of, Fresh, Folios!Exists, Folios!Keeper
    <3>2. CASE call.left \cap {"from", "to"} # {r}
      <4>1. call.left \cap {"from", "to"} = {"from", "to"}
        BY <1>14, <2>1, <3>2
      <4>2. call' = [call EXCEPT !.left = call.left \ {r}] /\ (call.left \ {r}) \cap {"from", "to"} # {}
        BY <2>3, <3>2, <4>1
      <4>3. (call.left \ {r}) \cap {"from", "to", "balances"} # {} /\ "balances" \notin call.left \ {r}
        BY <2>2, <4>2
      <4>4. Folios!Exists(call.args.from)' = Folios!Exists(call.args.from) /\ Folios!Exists(call.args.to)' = Folios!Exists(call.args.to)
            /\ Folios!Keeper(call.args.from)' = Folios!Keeper(call.args.from)
        BY <2>1, <2>3, <4>2 DEF Folios!Exists, Folios!Keeper, FoliosMove, Of
      <4>5. call' = [call EXCEPT !.left = call'.left] /\ call'.left = call.left \ {r}
        BY <2>1, <4>2 DEF FoliosMove, Of
      <4>6. CASE r = "from"
        BY <1>14, <2>1, <2>3, <4>2, <4>3, <4>4, <4>5, <4>6 DEF FoliosMove, Of, Fresh
      <4>7. CASE r = "to"
        BY <1>14, <2>1, <2>3, <4>2, <4>3, <4>4, <4>5, <4>7 DEF FoliosMove, Of, Fresh
      <4> QED BY <1>14, <4>6, <4>7
    <3> QED BY <3>1, <3>2
  <2> QED BY <1>1, <2>3, <2>4 DEF FoliosCall
<1>15. CASE Folios!ReadEnds /\ call' # Idle
  BY <1>14, <1>15 DEF Folios!ReadEnds
<1>16. CASE call' = Idle /\ (Folios!ReadRole \/ Folios!ReadNames \/ Folios!ReadBalances \/ Folios!ReadExists \/ Folios!ReadEnds)
  BY <1>0, <1>4, <1>16 DEF Folios!ReadRole, Folios!ReadNames, Folios!ReadBalances,
      Folios!ReadExists, Folios!ReadEnds
<1>17. chain \in Folios!Chains
  BY <1>0 DEF FoliosTyped, FoliosOf
<1>18. CASE Folios!DispatchCreate
  <2>1. FoliosCreate
    BY <1>0, <1>18, FoliosStages DEF Folios!DispatchCreate
  <2> DEFINE others == chain.others \cup {call.args.list[i] : i \in DOMAIN call.args.list}
  <2>2. call' = Idle /\ (chain' = chain \/ (Folios!AcceptsCreate(call.args.list) /\ chain' = [chain EXCEPT !.others = others]))
    BY <1>18 DEF Folios!DispatchCreate, Folios!Accepted
  <2>3. call.args.list \in Seq(GivenNames)
    BY <2>1, PortfolioAssumption DEF FoliosCreate, Of
  <2>4. others \subseteq GivenNames
    BY <1>17, <2>3 DEF Folios!Chains
  <2>5. Folios!AcceptsCreate(call.args.list) /\ chain.there["mine"] => chain.name \notin others
    BY <1>0 DEF Folios!AcceptsCreate, Folios!NamesOfMine, FoliosTyped, FoliosOf
  <2> HIDE DEF others
  <2>6. chain' = chain \/ FoliosTyped'
    BY <1>0, <2>2, <2>4, <2>5 DEF FoliosTyped, FoliosOf, Folios!Chains
  <2> QED BY <1>3, <1>4, <2>2, <2>6
<1>19. CASE Folios!DispatchRename
  <2>1. FoliosRename
    BY <1>0, <1>19, FoliosStages DEF Folios!DispatchRename
  <2>2. call' = Idle /\ (chain' = chain \/ (call.args.name \notin Folios!NamesOfMine /\ chain' = [chain EXCEPT !.name = call.args.name]))
    BY <1>19 DEF Folios!DispatchRename, Folios!Accepted
  <2>3. chain' = chain \/ FoliosTyped'
    BY <1>0, <2>1, <2>2 DEF FoliosTyped, FoliosOf, Folios!Chains, FoliosRename, Of, Folios!NamesOfMine
  <2> QED BY <1>3, <1>4, <2>2, <2>3
<1>20. CASE Folios!DispatchDelete
  <2> DEFINE there == [chain.there EXCEPT !["mine"] = FALSE]
  <2>1. call' = Idle /\ (chain' = chain \/ (chain.held["mine"] = 0 /\ chain' = [chain EXCEPT !.there = there]))
    BY <1>20 DEF Folios!DispatchDelete, Folios!Accepted, Folios!AcceptsDelete
  <2>3. there \in [Folios!Number1 -> BOOLEAN] /\ ~there["mine"]
    BY <1>17 DEF Folios!Chains, Folios!Number1
  <2>4. chain.held["mine"] = 0 => \A p \in Folios!Number1 : ~there[p] => chain.held[p] = 0
    BY <1>0, <1>17 DEF Folios!Chains, FoliosTyped, FoliosOf
  <2> HIDE DEF there
  <2>2. chain' = chain \/ FoliosTyped'
    BY <1>0, <2>1, <2>3, <2>4 DEF FoliosTyped, FoliosOf, Folios!Chains
  <2> QED BY <1>3, <1>4, <2>1, <2>2
<1>21. CASE Folios!DispatchMove
  <2>1. FoliosMove /\ call.left = {}
    BY <1>0, <1>21, FoliosStages DEF Folios!DispatchMove
  <2> DEFINE from == call.args.from to == call.args.to n == call.args.amount
  <2>2. /\ call' = Idle
        /\ \/ chain' = chain
           \/ Folios!AcceptsMove(from, to, n) /\ chain' = Folios!Moved(from, to, n)
    BY <1>21 DEF Folios!DispatchMove, Folios!Accepted
  <2>3. from \in Folios!Places /\ to \in Folios!Places /\ n \in Amounts /\ Folios!OwnerOf(from) = Folios!OwnerOf(to)
    BY <2>1 DEF FoliosMove, Of
  <2> HIDE DEF from, to, n
  <2>4. chain' = chain \/ FoliosTyped'
    BY <1>0, <2>2, <2>3, FoliosMoves DEF FoliosTyped, Folios!AcceptsMove
  <2> QED BY <1>3, <1>4, <2>2, <2>4
<1>22. CASE Folios!DispatchQuit
  <2>1. FoliosQuit
    BY <1>0, <1>22, FoliosStages DEF Folios!DispatchQuit
  <2> DEFINE keeper == [chain.keeper EXCEPT ![call.args.p] = Folios!OwnerOf(call.args.p)]
  <2>2. call' = Idle /\ (chain' = chain \/ chain' = [chain EXCEPT !.keeper = keeper])
    BY <1>22 DEF Folios!DispatchQuit
  <2>3. keeper \in [Folios!Number1 -> {"me", "other"}]
    BY <1>17, <2>1 DEF Folios!Chains, FoliosQuit, Of, Folios!OwnerOf
  <2> HIDE DEF keeper
  <2>4. chain' = chain \/ FoliosTyped'
    BY <1>0, <2>2, <2>3 DEF FoliosTyped, FoliosOf, Folios!Chains
  <2> QED BY <1>3, <1>4, <2>2, <2>4
<1>23. CASE Folios!OthersName
  <2>1. ASSUME NEW n \in GivenNames \ Folios!NamesOfMine, Folios!Happens([chain EXCEPT !.others = @ \cup {n}]) PROVE FoliosInv'
    <3>1. FoliosTyped'
      BY <1>0, <2>1 DEF FoliosTyped, FoliosOf, Folios!Chains, Folios!Happens, Folios!NamesOfMine
    <3> QED BY <1>2, <2>1, <3>1
  <2>2. ASSUME NEW n \in GivenNames \ Folios!NamesOfMine, Folios!Happens([chain EXCEPT !.name = n]) PROVE FoliosInv'
    <3>1. FoliosTyped'
      BY <1>0, <2>2 DEF FoliosTyped, FoliosOf, Folios!Chains, Folios!Happens, Folios!NamesOfMine
    <3> QED BY <1>2, <2>2, <3>1
  <2>3. ASSUME NEW n \in chain.others, Folios!Happens([chain EXCEPT !.others = @ \ {n}]) PROVE FoliosInv'
    <3>1. FoliosTyped'
      BY <1>0, <2>3 DEF FoliosTyped, FoliosOf, Folios!Chains, Folios!Happens
    <3> QED BY <1>2, <2>3, <3>1
  <2> QED BY <1>23, <2>1, <2>2, <2>3 DEF Folios!OthersName
<1>24. ASSUME NEW p \in Folios!Number1, Folios!OthersDelete(p) PROVE FoliosInv'
  <2> DEFINE there == [chain.there EXCEPT ![p] = FALSE]
  <2>1. Folios!Happens([chain EXCEPT !.there = there]) /\ chain.held[p] = 0
    BY <1>24 DEF Folios!OthersDelete
  <2>2. there \in [Folios!Number1 -> BOOLEAN] /\ \A q \in Folios!Number1 : there[q] => chain.there[q]
    BY <1>17 DEF Folios!Chains
  <2>2a. \A q \in Folios!Number1 : ~there[q] => chain.held[q] = 0
    BY <1>0, <1>17, <2>1 DEF Folios!Chains, FoliosTyped, FoliosOf
  <2> HIDE DEF there
  <2>3. FoliosTyped'
    BY <1>0, <2>1, <2>2, <2>2a DEF Folios!Happens, FoliosTyped, FoliosOf, Folios!Chains, Folios!Number1
  <2> QED BY <1>2, <2>1, <2>3
<1>25. ASSUME NEW p \in Folios!Number1, NEW who \in {"me", "other"}, Folios!OthersKeep(p, who) PROVE FoliosInv'
  <2> DEFINE keeper == [chain.keeper EXCEPT ![p] = who]
  <2>1. Folios!Happens([chain EXCEPT !.keeper = keeper])
    BY <1>25 DEF Folios!OthersKeep
  <2>2. keeper \in [Folios!Number1 -> {"me", "other"}]
    BY <1>17 DEF Folios!Chains
  <2> HIDE DEF keeper
  <2>3. FoliosTyped'
    BY <1>0, <2>1, <2>2 DEF Folios!Happens, FoliosTyped, FoliosOf, Folios!Chains
  <2> QED BY <1>2, <2>1, <2>3
<1>26. ASSUME NEW from \in Folios!Places, NEW to \in Folios!Places, NEW n \in Amounts, Folios!OthersMove(from, to, n) PROVE FoliosInv'
  <2>1. Folios!Happens(Folios!Moved(from, to, n)) /\ FoliosOf(Folios!Moved(from, to, n))
    BY <1>0, <1>26, FoliosMoves DEF Folios!OthersMove
  <2>2. FoliosTyped'
    BY <2>1 DEF Folios!Happens, FoliosTyped
  <2> QED BY <1>2, <2>1, <2>2
<1> QED
  BY <1>5, <1>6, <1>7, <1>8, <1>9, <1>10, <1>11, <1>12, <1>13, <1>14, <1>15, <1>16, <1>17, <1>18, <1>19,
     <1>20, <1>21, <1>22, <1>23, <1>24, <1>25, <1>26
     DEF Folios!Next

LEMMA FoliosStutter == FoliosInv /\ UNCHANGED <<chain, call>> => FoliosInv'
BY DEF FoliosInv, FoliosTyped, FoliosOf, FoliosCreate, Of, Fresh, Folios!FreeNames, Folios!NamesOfMine, FoliosRename,
       FoliosDelete, Folios!Exists, Folios!Keeper, Folios!MayDelete, FoliosQuit, FoliosMove, FoliosCall, Idle

LEMMA FoliosOK == FoliosInv => Folios!TypeOK /\ Folios!RevertedOnlyIfStale
<1> SUFFICES ASSUME FoliosInv PROVE Folios!TypeOK /\ Folios!RevertedOnlyIfStale
  OBVIOUS
<1>1. Folios!TypeOK
  BY DEF FoliosInv, FoliosTyped, FoliosCall, FoliosCreate, FoliosRename,
         FoliosDelete, FoliosQuit, FoliosMove, Of, Idle, Folios!TypeOK, FoliosOf
<1>2. ASSUME Folios!Built, Folios!Fresh PROVE FoliosExcused
  <2> USE DEF Folios!Built, Folios!Fresh, Fresh, FoliosExcused
  <2>0. CASE FoliosCreate
    <3>1. call.args.list \in Seq(GivenNames) /\ call.op = "create" /\ Folios!FreeNames(call.args.list)
      BY <1>2, <2>0, PortfolioAssumption DEF FoliosCreate, Of
    <3>2. DOMAIN call.args.list = 1 .. Len(call.args.list) /\ Len(call.args.list) \in Nat
      BY <3>1
    <3>3. \A i, j \in DOMAIN call.args.list : i = j \/ i < j \/ j < i
      BY <3>2
    <3> QED BY <3>1, <3>3 DEF Folios!Accepted, Folios!AcceptsCreate, Folios!FreeNames
  <2>1. CASE FoliosRename
    BY <1>2, <2>1 DEF FoliosRename, Of, Folios!Accepted
  <2>2. CASE FoliosDelete
    BY <1>2, <2>2 DEF FoliosDelete, Of, Folios!Accepted, Folios!AcceptsDelete, Folios!MayDelete
  <2>3. CASE FoliosQuit
    BY <1>2, <2>3 DEF FoliosQuit, Of, Folios!Accepted
  <2>4. CASE FoliosMove
    BY <1>2, <2>4 DEF FoliosMove, Of, Folios!Accepted, Folios!AcceptsMove, Folios!Distinct
  <2> QED BY <1>2, <2>0, <2>1, <2>2, <2>3, <2>4 DEF FoliosInv, FoliosCall, Idle
<1> QED BY <1>1, <1>2 DEF Folios!RevertedOnlyIfStale, FoliosExcused

LEMMA FoliosRefused == FoliosInv /\ Folios!Next => Folios!TurnedAwayRightly
<1> SUFFICES ASSUME FoliosInv, Folios!Next, Folios!TurnedAway, Folios!Fresh
             PROVE  FoliosBarred
  BY DEF Folios!TurnedAwayRightly, FoliosBarred
<1> USE DEF Folios!Answers, Folios!Check, Folios!Keep, FoliosBarred
<1>0. FoliosCall /\ FoliosTyped /\ ~Folios!Built /\ call.op # "none" /\ call'.op = "none"
  BY DEF FoliosInv, Folios!TurnedAway, Folios!Ends
<1> USE DEF Folios!Refuse, Folios!Idle, Idle
<1>1. DOMAIN call = {"op", "args", "read", "left", "stale"}
  BY <1>0 DEF FoliosCall, FoliosCreate, FoliosRename, FoliosDelete, FoliosQuit, FoliosMove, Of
<1>2. CASE Folios!ReadRole
  <2>1. ~(Folios!Exists(Folios!Subject) /\ Folios!Keeper(Folios!Subject) = "me")
    BY <1>0, <1>1, <1>2 DEF Folios!ReadRole
  <2>2. CASE call.op = "delete"
    BY <2>1, <2>2 DEF Folios!Subject, Folios!Accepted, Folios!AcceptsDelete
  <2>3. CASE call.op = "quit"
    BY <2>1, <2>3 DEF Folios!Subject, Folios!Accepted
  <2>4. CASE call.op = "move"
    BY <2>1, <2>4 DEF Folios!Subject, Folios!Accepted, Folios!AcceptsMove
  <2> QED BY <1>2, <2>2, <2>3, <2>4 DEF Folios!ReadRole
<1>3. CASE Folios!ReadNames
  BY <1>0, <1>1, <1>3 DEF Folios!ReadNames, Folios!FreeNames, Folios!Accepted, Folios!AcceptsCreate
<1>4. CASE Folios!ReadBalances
  BY <1>0, <1>1, <1>4 DEF Folios!ReadBalances, Folios!MayDelete, Folios!Accepted, Folios!AcceptsDelete, Folios!AcceptsMove
<1>5. CASE Folios!ReadExists
  <2>1. call.op \in {"delete", "quit"} => call.args.p \in Folios!Number1
    BY <1>0, FoliosStages DEF FoliosDelete, FoliosQuit, Of
  <2> QED BY <1>0, <1>1, <1>5, <2>1 DEF Folios!ReadExists, Folios!Accepted, Folios!AcceptsDelete, Folios!OwnerOf, Folios!Number1
<1>6. CASE Folios!ReadEnds
  <2>1. call.op = "move" /\ (call.args.same => call.args.from = call.args.to)
    BY <1>0, <1>6, FoliosStages DEF Folios!ReadEnds, FoliosMove
  <2>2. \/ ~Folios!Exists(call.args.from) \/ ~Folios!Exists(call.args.to)
        \/ Folios!OwnerOf(call.args.from) # Folios!OwnerOf(call.args.to)
        \/ ~Folios!Distinct(call.args.from, call.args.to, call.args.same)
    BY <1>0, <1>1, <1>6 DEF Folios!ReadEnds
  <2> QED BY <2>1, <2>2 DEF Folios!Accepted, Folios!AcceptsMove, Folios!Distinct
<1>7. ASSUME NEW after, Folios!Happens(after) PROVE FALSE
  BY <1>0, <1>7, FoliosStages DEF Folios!Happens
<1> QED
  BY <1>0, <1>1, <1>2, <1>3, <1>4, <1>5, <1>6, <1>7
     DEF Folios!Next, Folios!Calls, Folios!Dispatches, Folios!CreatePortfolios,
         Folios!Rename, Folios!Delete, Folios!QuitCustody, Folios!MoveFunds,
         Folios!OthersName, Folios!OthersDelete, Folios!OthersKeep, Folios!OthersMove,
         Folios!DispatchCreate, Folios!DispatchRename, Folios!DispatchDelete,
         Folios!DispatchMove, Folios!DispatchQuit

-----------------------------------------------------------------------------
(* Venues *)

LEMMA VenuesInit == Venues!Init => VenuesInv
BY DEF Venues!Init, VenuesInv, VenuesTyped, VenuesCall, Venues!Idle, Idle, Venues!NoArgs, NoArgs

LEMMA VenuesStages ==
  ASSUME VenuesCall
  PROVE  /\ call.op = "none" => call = Idle
         /\ [call EXCEPT !.stale = TRUE].op = call.op
         /\ call.op = "modify" => VenuesModify
         /\ call.op = "filter" => VenuesFilter \/ VenuesFound
BY DEF VenuesCall, VenuesModify, VenuesFilter, VenuesFound, Of, Idle

LEMMA VenuesStale ==
  ASSUME VenuesCall, NEW after, Venues!Happens(after) PROVE VenuesCall'
<1>1. CASE call = Idle
  BY <1>1 DEF Venues!Happens, VenuesCall, Idle
<1>2. CASE call # Idle
  <2>1. call' = [call EXCEPT !.stale = TRUE]
    BY <1>2, VenuesStages DEF Venues!Happens
  <2> QED BY <1>2, <2>1 DEF VenuesCall, VenuesModify, Fresh, Of, VenuesFilter, VenuesFound
<1> QED BY <1>1, <1>2

LEMMA VenuesNext == VenuesInv /\ Venues!Next => VenuesInv'
<1> SUFFICES ASSUME VenuesInv, Venues!Next PROVE VenuesInv'
  OBVIOUS
<1> USE DEF Idle, NoArgs, Venues!Idle, Venues!NoArgs, Venues!Calls, Venues!Answers, Venues!Check, Venues!Keep,
        Venues!Refuse, Venues!Built, Venues!Dispatches
<1>0. VenuesCall /\ VenuesTyped
  BY DEF VenuesInv
<1>1. ASSUME UNCHANGED chain, VenuesCall' PROVE VenuesInv'
  BY <1>0, <1>1 DEF VenuesInv, VenuesTyped, Venues!Chains
<1>2. ASSUME NEW after, Venues!Happens(after), VenuesTyped' PROVE VenuesInv'
  BY <1>0, <1>2, VenuesStale DEF VenuesInv
<1>3. ASSUME VenuesTyped', call' = Idle PROVE VenuesInv'
  BY <1>3 DEF VenuesInv, VenuesCall
<1>4. ASSUME UNCHANGED chain, call' = Idle PROVE VenuesInv'
  BY <1>1, <1>4 DEF VenuesCall
<1>5. ASSUME NEW args \in Venues!Modifies, Venues!ModifyVenue(args) PROVE VenuesInv'
  <2>1. VenuesModify'
    BY <1>5 DEF Venues!ModifyVenue, VenuesModify, Of
  <2> QED BY <1>1, <1>5, <2>1 DEF Venues!ModifyVenue, VenuesCall
<1>6. ASSUME NEW args \in Venues!Filters, Venues!SetFiltering(args) PROVE VenuesInv'
  <2>1. VenuesFilter'
    BY <1>6 DEF Venues!SetFiltering, VenuesFilter, Of
  <2> QED BY <1>1, <1>6, <2>1 DEF Venues!SetFiltering, VenuesCall
<1>7. CASE Venues!ReadDetails /\ call' # Idle
  <2>1. VenuesModify
    BY <1>0, <1>7, VenuesStages DEF Venues!ReadDetails
  <2>2. call' = [call EXCEPT !.left = @ \ {"details"}] /\ chain' = chain /\ Venues!MayModify
    BY <1>7, <2>1 DEF Venues!ReadDetails, VenuesModify, Of
  <2>3. VenuesModify'
    BY <2>1, <2>2 DEF VenuesModify, Of, Fresh, Venues!MayModify
  <2> QED BY <1>1, <2>2, <2>3 DEF VenuesCall
<1>8. CASE Venues!ReadFiltering
  <2>1. VenuesFilter
    BY <1>0, <1>8, VenuesStages DEF Venues!ReadFiltering, VenuesFound
  <2> DEFINE found == [send |-> Venues!Sends(call.args.enabled)]
  <2>2. call' = [call EXCEPT !.read = found, !.left = {}] /\ chain' = chain
    BY <1>8, <2>1 DEF Venues!ReadFiltering, VenuesFilter, Of
  <2>3. /\ found.send \in BOOLEAN /\ (found.send <=> Venues!Sends(call.args.enabled))
        /\ found.send => call.args.enabled # NotPassed
    BY DEF Venues!Sends
  <2> HIDE DEF found
  <2>4. VenuesFound'
    BY <2>1, <2>2, <2>3 DEF VenuesFilter, VenuesFound, Of, Fresh, Venues!Sends
  <2> QED BY <1>1, <2>2, <2>4 DEF VenuesCall
<1>9. CASE call' = Idle /\ (Venues!ReadDetails)
  BY <1>0, <1>4, <1>9 DEF Venues!ReadDetails
<1>10. CASE Venues!DispatchModify
  <2>1. call.args \in Venues!Modifies
    BY <1>0, <1>10, VenuesStages DEF Venues!DispatchModify, VenuesModify, Of
  <2> DEFINE text == Venues!Given(call.args.text, chain.text)
             type == Venues!Given(call.args.type, chain.type)
  <2>2. call' = Idle /\ chain' = [chain EXCEPT !.text = text, !.type = type]
    BY <1>10 DEF Venues!DispatchModify
  <2>3. text \in Texts /\ type \in Types
    BY <1>0, <2>1 DEF Venues!Given, Venues!Modifies, VenuesTyped, Venues!Chains
  <2> HIDE DEF text, type
  <2>4. VenuesTyped'
    BY <1>0, <2>2, <2>3 DEF VenuesTyped, Venues!Chains
  <2> QED BY <1>3, <2>2, <2>4
<1>11. CASE Venues!DispatchFilter
  <2>1. VenuesFound
    BY <1>0, <1>11, VenuesStages DEF Venues!DispatchFilter, VenuesFilter
  <2> DEFINE filtering == IF call.read.send THEN call.args.enabled ELSE chain.filtering
             allowed == (chain.allowed \cup call.args.allow) \ call.args.disallow
  <2>2. call' = Idle /\ chain' = [chain EXCEPT !.filtering = filtering, !.allowed = allowed]
    BY <1>11 DEF Venues!DispatchFilter
  <2>3. filtering \in BOOLEAN /\ allowed \in SUBSET VenueIds
    BY <1>0, <2>1 DEF VenuesFound, Of, Venues!Filters, VenuesTyped, Venues!Chains
  <2> HIDE DEF filtering, allowed
  <2>4. VenuesTyped'
    BY <1>0, <2>2, <2>3 DEF VenuesTyped, Venues!Chains
  <2> QED BY <1>3, <2>2, <2>4
<1>12. CASE Venues!Others
  BY <1>0, <1>2, <1>12 DEF Venues!Others, Venues!Happens, VenuesTyped
<1> QED
  BY <1>5, <1>6, <1>7, <1>8, <1>9, <1>10, <1>11, <1>12
     DEF Venues!Next

LEMMA VenuesStutter == VenuesInv /\ UNCHANGED <<chain, call>> => VenuesInv'
BY DEF VenuesInv, VenuesTyped, VenuesCall, VenuesModify, VenuesFilter, VenuesFound, Fresh, Venues!Chains,
       Venues!MayModify, Venues!Sends, Of, Idle

LEMMA VenuesOK == VenuesInv => Venues!TypeOK
BY DEF VenuesInv, VenuesTyped, VenuesCall, VenuesModify, VenuesFilter, VenuesFound, Of, Idle, Venues!TypeOK

LEMMA VenuesRefused == VenuesInv /\ Venues!Next => Venues!TurnedAwayRightly
<1> SUFFICES ASSUME VenuesInv, Venues!Next, Venues!TurnedAway, Venues!Fresh
             PROVE  call.args.text = chain.text \/ call.args.type = chain.type
  BY DEF Venues!TurnedAwayRightly
<1> USE DEF Venues!Answers, Venues!Check, Venues!Keep
<1>0. VenuesCall /\ VenuesTyped /\ ~Venues!Built /\ call.op # "none" /\ call'.op = "none"
  BY DEF VenuesInv, Venues!TurnedAway, Venues!Ends
<1>1. CASE Venues!ReadDetails
  <2>1. VenuesModify
    BY <1>0, <1>1, VenuesStages DEF Venues!ReadDetails
  <2>2. ~Venues!MayModify
    BY <1>0, <1>1, <2>1 DEF Venues!ReadDetails, VenuesModify, Of
  <2> QED BY <1>0, <2>1, <2>2 DEF VenuesModify, Of, Venues!MayModify
<1>2. CASE Venues!ReadFiltering
  BY <1>0, <1>2, VenuesStages DEF Venues!ReadFiltering, VenuesFilter, VenuesFound, Of
<1>3. ASSUME NEW after, Venues!Happens(after) PROVE FALSE
  BY <1>0, <1>3, VenuesStages DEF Venues!Happens
<1> QED
  BY <1>0, <1>1, <1>2, <1>3
     DEF Venues!Next, Venues!Calls, Venues!Dispatches, Venues!ModifyVenue, Venues!SetFiltering,
         Venues!DispatchModify, Venues!DispatchFilter, Venues!Others

LEMMA VenuesDone == VenuesInv /\ Venues!Next => Venues!DoneAsAsked
<1> SUFFICES ASSUME VenuesInv, Venues!Next, Venues!Built, Venues!Ends, call.op = "filter" PROVE Venues!DoneAsAsked
  BY DEF Venues!DoneAsAsked
<1>0. VenuesCall /\ VenuesTyped /\ VenuesFound
  BY VenuesStages DEF VenuesInv, VenuesFilter, Venues!Built
<1>1. ASSUME NEW after, Venues!Happens(after) PROVE FALSE
  BY <1>0, <1>1 DEF Venues!Happens, Venues!Ends, VenuesFound, Of
<1>2. Venues!DispatchFilter
  BY <1>0, <1>1 DEF Venues!Next, Venues!ModifyVenue, Venues!SetFiltering, Venues!Calls, Venues!Built, Venues!ReadDetails, Venues!ReadFiltering, Venues!Answers,
     Venues!DispatchModify, Venues!Others, VenuesFound, Of
<1> DEFINE filtering == IF call.read.send THEN call.args.enabled ELSE chain.filtering
           allowed == (chain.allowed \cup call.args.allow) \ call.args.disallow
<1>3. chain' = [chain EXCEPT !.filtering = filtering, !.allowed = allowed]
  BY <1>2 DEF Venues!DispatchFilter, Venues!Dispatches
<1>4. chain'.filtering = filtering /\ chain'.allowed = allowed
  BY <1>0, <1>3 DEF VenuesTyped, Venues!Chains
<1>5. call.args.enabled # NotPassed /\ (Venues!Fresh \/ call.read.send) => filtering = call.args.enabled
  BY <1>0 DEF VenuesFound, Venues!Sends, Venues!Fresh, Fresh
<1>6. call.args.enabled = NotPassed => filtering = chain.filtering
  BY <1>0 DEF VenuesFound
<1>7. allowed \cap call.args.disallow = {} /\ call.args.allow \ call.args.disallow \subseteq allowed
  OBVIOUS
<1> HIDE DEF filtering, allowed
<1> QED BY <1>4, <1>5, <1>6, <1>7 DEF Venues!DoneAsAsked

-----------------------------------------------------------------------------
(* Distributions *)

LEMMA DistSizes == \A set : Dist!Cardinality(set) = Cardinality(set)
BY DEF Cardinality, Dist!Cardinality

LEMMA DistInit == Dist!Init => DistInv
<1> SUFFICES ASSUME Dist!Init PROVE DistInv
  OBVIOUS
<1>1. PICK free \in Amounts, next \in 0 .. MaxDate :
        chain = [now |-> 1, dist |-> FALSE, payment |-> Dist!Never, expiry |-> Dist!Never, record |-> 0,
                 made |-> FALSE, paid |-> {}, left |-> 0, reclaimed |-> FALSE, free |-> free, next |-> next]
  BY DEF Dist!Init
<1>2. free \in Nat /\ MaxDate \in Nat \ {0}
  BY PortfolioAssumption, DistributionAssumption
<1>3. DistTyped
  BY <1>1, <1>2 DEF DistTyped, DistOf, Dist!Chains, Dist!Moments, Dist!Never
<1> QED BY <1>3 DEF Dist!Init, DistInv, DistCall, Dist!Idle, Idle, Dist!NoArgs, NoArgs

(* The SDK asks of a record date what the chain asks, and that it is not   *)
(* the date of the payment.                                                *)
LEMMA DistDates ==
  ASSUME DistTyped, NEW r \in Dist!Records, NEW p \in Dist!Moments, NEW e \in Dist!Moments
  PROVE  /\ Dist!DateOf(r) \in 0 .. MaxDate
         /\ Dist!DatesValid(r, p, e) => Dist!AcceptsRecord(r, p)
         /\ Dist!AcceptsRecord(r, p) => Dist!DateOf(r) <= p /\ Dist!Valid(r)
         /\ p <= e /\ ~Dist!DatesValid(r, p, e) => ~Dist!AcceptsRecord(r, p) \/ Dist!DateOf(r) = p
<1>1. MaxDate \in Nat /\ chain.next \in 0 .. MaxDate /\ chain.now \in 1 .. MaxDate
  BY DistributionAssumption DEF DistTyped, DistOf, Dist!Chains
<1>2. p \in Nat /\ e \in Nat
  BY <1>1 DEF Dist!Moments, Dist!Never
<1>3. CASE r = Dist!Existing
  BY <1>1, <1>2, <1>3 DEF Dist!Existing, Dist!DateOf, Dist!DatesValid, Dist!AcceptsRecord, Dist!Valid
<1>4. CASE r = Dist!Scheduled
  BY <1>1, <1>2, <1>4 DEF Dist!Scheduled, Dist!DateOf, Dist!DatesValid, Dist!AcceptsRecord, Dist!Valid
<1>5. CASE r \in Dist!Dates
  <2>1. r.kind = "date" /\ r.date \in 1 .. MaxDate
    BY <1>5 DEF Dist!Dates
  <2> QED BY <1>1, <1>2, <2>1 DEF Dist!DateOf, Dist!DatesValid, Dist!AcceptsRecord, Dist!Valid
<1> QED BY <1>3, <1>4, <1>5 DEF Dist!Records

(* Who is paid is paid once, from what is left.                            *)
LEMMA DistPays ==
  ASSUME DistTyped, NEW list \in Seq(Holders), Dist!AcceptsPay(list), NEW whom, whom = Dist!Whom(list)
  PROVE  DistOf(Dist!Shares(whom)) /\ Dist!Shares(whom).payment = chain.payment
<1> DEFINE left == chain.left - Dist!Cardinality(whom)
           paid == chain.paid \cup whom
           after == Dist!Shares(whom)
<1>1. Listed(list) = whom
  BY DEF Listed, Dist!Whom
<1>2. whom \subseteq Holders
  BY <1>1, ListedFew
<1>3. Len(list) \in Nat /\ Dist!Cardinality(whom) = Len(list) /\ Len(list) <= chain.left /\ ~chain.reclaimed
  BY DEF Dist!AcceptsPay
<1>4. chain \in Dist!Chains
  BY DEF DistTyped, DistOf
<1>5. left \in Nat
  BY <1>3, <1>4 DEF Dist!Chains
<1>6. paid \in SUBSET Holders
  BY <1>2, <1>4 DEF Dist!Chains
<1>7. after \in [now : {chain.now}, dist : {chain.dist}, payment : {chain.payment}, expiry : {chain.expiry},
                 record : {chain.record}, made : {chain.made}, paid : {paid}, left : {left},
                 reclaimed : {chain.reclaimed}, free : {chain.free}, next : {chain.next}]
  BY <1>4 DEF Dist!Shares, Dist!Chains
<1> HIDE DEF left, paid, after
<1>8. DistOf(after) /\ after.payment = chain.payment
  BY <1>3, <1>4, <1>5, <1>6, <1>7 DEF DistTyped, DistOf, Dist!Chains
<1> QED BY <1>8 DEF after

(* Paying somebody alone is paying a list of one.                          *)
LEMMA DistPaysOne ==
  ASSUME NEW h \in Holders
  PROVE  <<h>> \in Seq(Holders) /\ Dist!Whom(<<h>>) = {h} /\ Len(<<h>>) = 1 /\ Dist!Cardinality({h}) = 1
<1>1. Dist!Cardinality({h}) = 1
  <2>1. Cardinality({h}) = 1
    BY FS_Singleton, Zenon
  <2> QED BY <2>1, DistSizes, Zenon
<1> QED BY <1>1 DEF Dist!Whom

(* What is left goes back.                                                 *)
LEMMA DistEnds ==
  ASSUME DistTyped, chain.dist
  PROVE  /\ DistOf(Dist!Reclaimed) /\ Dist!Reclaimed.payment = chain.payment
         /\ DistOf(Dist!Removed) /\ Dist!Removed.payment = chain.payment
<1> DEFINE free == chain.free + chain.left
           back == Dist!Reclaimed
           gone == Dist!Removed
<1>1. chain \in Dist!Chains
  BY DEF DistTyped, DistOf
<1>2. free \in Nat
  BY <1>1 DEF Dist!Chains
<1>3. back = [chain EXCEPT !.reclaimed = TRUE, !.free = free, !.left = 0]
  BY <1>1 DEF Dist!Reclaimed, Dist!Chains
<1>4. gone = [chain EXCEPT !.dist = FALSE, !.free = free, !.left = 0]
  BY <1>1 DEF Dist!Removed, Dist!Chains
<1> HIDE DEF free, back, gone
<1>5. DistOf(back) /\ back.payment = chain.payment
  <2>1. back \in Dist!Chains
    BY <1>1, <1>2, <1>3 DEF Dist!Chains
  <2> QED BY <1>1, <1>3, <2>1 DEF DistTyped, DistOf, Dist!Chains
<1>6. DistOf(gone) /\ gone.payment = chain.payment
  <2>1. gone \in Dist!Chains
    BY <1>1, <1>2, <1>4 DEF Dist!Chains
  <2> QED BY <1>1, <1>4, <2>1 DEF DistTyped, DistOf, Dist!Chains
<1> QED BY <1>5, <1>6 DEF back, gone

LEMMA DistStages ==
  ASSUME DistCall
  PROVE  /\ call.op = "none" => call = Idle
         /\ [call EXCEPT !.stale = TRUE].op = call.op
         /\ call.op = "configure" => DistConfigure
         /\ call.op = "pay" => DistPay
         /\ call.op = "claim" => DistClaim
         /\ call.op = "reclaim" => DistReclaim
         /\ call.op = "remove" => DistRemove
         /\ call.op = "record" => DistRecord
BY DEF DistCall, DistConfigure, DistPay, DistClaim,
       DistReclaim, DistRemove, DistRecord, Of, Idle

LEMMA DistStale ==
  ASSUME DistCall, NEW after, Dist!Happens(after), chain'.payment = chain.payment PROVE DistCall'
<1>1. CASE call = Idle
  BY <1>1 DEF Dist!Happens, DistCall, Idle
<1>2. CASE call # Idle
  <2>1. call' = [call EXCEPT !.stale = TRUE]
    BY <1>2, DistStages DEF Dist!Happens
  <2> QED BY <1>2, <2>1 DEF DistCall, DistConfigure, Fresh, Of, Dist!Known, DistPay, DistClaim, DistReclaim, DistRemove,
     DistRecord
<1> QED BY <1>1, <1>2

LEMMA DistNext == DistInv /\ Dist!Next => DistInv'
<1> SUFFICES ASSUME DistInv, Dist!Next PROVE DistInv'
  OBVIOUS
<1> USE DEF Idle, NoArgs, Dist!Idle, Dist!NoArgs, Dist!Calls, Dist!Answers, Dist!Check, Dist!Keep,
        Dist!Refuse, Dist!Built, Dist!Dispatches
<1>0. DistCall /\ DistTyped
  BY DEF DistInv
<1>1. ASSUME UNCHANGED chain, DistCall' PROVE DistInv'
  BY <1>0, <1>1 DEF DistInv, DistTyped, DistOf
<1>2. ASSUME NEW after, Dist!Happens(after), DistTyped', chain'.payment = chain.payment PROVE DistInv'
  BY <1>0, <1>2, DistStale DEF DistInv
<1>3. ASSUME DistTyped', call' = Idle PROVE DistInv'
  BY <1>3 DEF DistInv, DistCall
<1>4. ASSUME UNCHANGED chain, call' = Idle PROVE DistInv'
  BY <1>1, <1>4 DEF DistCall
<1>5. ASSUME NEW payment \in 2 .. MaxDate, NEW expiry \in Dist!Moments, NEW record \in Dist!Records, NEW n \in Amounts,
             Dist!Configure([payment |-> payment, expiry |-> expiry, record |-> record, amount |-> n])
      PROVE  DistInv'
  <2>1. DistConfigure'
    BY <1>5 DEF Dist!Configure, DistConfigure, Of, Dist!Known
  <2> QED BY <1>1, <1>5, <2>1 DEF Dist!Configure, DistCall
<1>6. ASSUME NEW list \in PayLists, Dist!Pay(list) PROVE DistInv'
  <2>1. DistPay'
    BY <1>6 DEF Dist!Pay, DistPay, Of
  <2> QED BY <1>1, <1>6, <2>1 DEF Dist!Pay, DistCall
<1>7. ASSUME Dist!Claim PROVE DistInv'
  <2>1. DistClaim'
    BY <1>7 DEF Dist!Claim, DistClaim, Of
  <2> QED BY <1>1, <1>7, <2>1 DEF Dist!Claim, DistCall
<1>8. ASSUME Dist!Reclaim PROVE DistInv'
  <2>1. DistReclaim'
    BY <1>8 DEF Dist!Reclaim, DistReclaim, Of
  <2> QED BY <1>1, <1>8, <2>1 DEF Dist!Reclaim, DistCall
<1>9. ASSUME NEW byId \in BOOLEAN, Dist!Remove(byId) PROVE DistInv'
  <2>1. DistRemove'
    BY <1>9 DEF Dist!Remove, DistRemove, Of
  <2> QED BY <1>1, <1>9, <2>1 DEF Dist!Remove, DistCall
<1>10. ASSUME NEW record \in Dist!Records, Dist!ModifyCheckpoint(record) PROVE DistInv'
  <2>1. DistRecord'
    BY <1>10 DEF Dist!ModifyCheckpoint, DistRecord, Of
  <2> QED BY <1>1, <1>10, <2>1 DEF Dist!ModifyCheckpoint, DistCall
<1>11. CASE Dist!ReadClock /\ call' # Idle
  <2>1. CASE DistConfigure
    <3>1. call' = [call EXCEPT !.left = (@ \ {"clock"}) \cup {"dates"}] /\ chain' = chain /\ call.args.payment <= call.args.expiry /\ "clock" \in call.left
      BY <1>11, <2>1 DEF Dist!ReadClock, DistConfigure, Of
    <3>2. DistConfigure'
      BY <2>1, <3>1 DEF DistConfigure, Of, Fresh, Dist!Known
    <3> QED BY <1>1, <3>1, <3>2 DEF DistCall
  <2>2. CASE DistPay
    <3>1. call' = [call EXCEPT !.left = (@ \ {"clock"}) \cup {"paid"}] /\ chain' = chain /\ Dist!IsOpen /\ "clock" \in call.left
      BY <1>11, <2>2 DEF Dist!ReadClock, DistPay, Of
    <3>2. DistPay'
      BY <2>2, <3>1 DEF DistPay, Of, Fresh, Dist!IsOpen
    <3> QED BY <1>1, <3>1, <3>2 DEF DistCall
  <2>3. CASE DistClaim
    <3>1. call' = [call EXCEPT !.left = (@ \ {"clock"}) \cup {"checkpoint"}] /\ chain' = chain /\ Dist!IsOpen /\ "clock" \in call.left
      BY <1>11, <2>3 DEF Dist!ReadClock, DistClaim, Of
    <3>2. DistClaim'
      BY <2>3, <3>1 DEF DistClaim, Of, Fresh, Dist!IsOpen
    <3> QED BY <1>1, <3>1, <3>2 DEF DistCall
  <2>4. CASE DistReclaim
    <3>1. call' = [call EXCEPT !.left = (@ \ {"clock"}) \cup {"details"}] /\ chain' = chain /\ (chain.expiry = Dist!Never \/ chain.expiry < chain.now) /\ "clock" \in call.left
      BY <1>11, <2>4 DEF Dist!ReadClock, DistReclaim, Of
    <3>2. DistReclaim'
      BY <2>4, <3>1 DEF DistReclaim, Of, Fresh
    <3> QED BY <1>1, <3>1, <3>2 DEF DistCall
  <2>5. CASE DistRecord
    <3>1. call' = [call EXCEPT !.left = @ \ {"clock"}] /\ chain' = chain /\ chain.payment > chain.now /\ Dist!DatesValid(call.args.record, chain.payment, chain.expiry) /\ "clock" \in call.left
      BY <1>11, <2>5 DEF Dist!ReadClock, DistRecord, Of
    <3>2. DistRecord'
      BY <2>5, <3>1 DEF DistRecord, Of, Fresh, Dist!DatesValid, Dist!Valid, Dist!DateOf
    <3> QED BY <1>1, <3>1, <3>2 DEF DistCall
  <2>6. "clock" \in call.left
    BY <1>11 DEF Dist!ReadClock
  <2> QED BY <1>0, <2>1, <2>2, <2>3, <2>4, <2>5, <2>6 DEF DistCall, Idle, DistRemove, Of
<1>12. CASE Dist!ReadDates /\ call' # Idle
  <2>1. DistConfigure
    BY <1>0, <1>12, DistStages DEF Dist!ReadDates
  <2>2. /\ call' = [call EXCEPT !.left = (@ \ {"dates"}) \cup {"funds"}] /\ chain' = chain
        /\ Dist!DatesValid(call.args.record, call.args.payment, call.args.expiry) /\ "dates" \in call.left
    BY <1>12, <2>1 DEF Dist!ReadDates, DistConfigure, Of
  <2>3. call.left = {"dates"} /\ (call.left \ {"dates"}) \cup {"funds"} = {"funds"}
    BY <2>1, <2>2 DEF DistConfigure
  <2>4. call' = [call EXCEPT !.left = {"funds"}]
    BY <2>2, <2>3
  <2>5. call'.args = call.args /\ call'.left = {"funds"}
    BY <2>1, <2>4 DEF DistConfigure, Of
  <2>6. Dist!DatesValid(call.args.record, call.args.payment, call.args.expiry)'
    BY <2>2, <2>5 DEF Dist!DatesValid, Dist!Valid, Dist!DateOf
  <2>7. Of(call, "configure", [payment : 2 .. MaxDate, expiry : Dist!Moments, record : Dist!Records, amount : Amounts],
           {"clock", "dates", "funds"})'
    BY <2>1, <2>4 DEF DistConfigure, Of
  <2>8. ~Dist!Known' /\ call.args.payment <= call.args.expiry
    BY <2>1, <2>2, <2>3 DEF DistConfigure, Dist!Known
  <2>9. DistConfigure'
    BY <2>5, <2>6, <2>7, <2>8 DEF DistConfigure
  <2> QED BY <1>1, <2>2, <2>9 DEF DistCall
<1>13. CASE Dist!ReadFunds /\ call' # Idle
  <2>1. DistConfigure
    BY <1>0, <1>13, DistStages DEF Dist!ReadFunds
  <2>2. call' = [call EXCEPT !.left = @ \ {"funds"}] /\ chain' = chain /\ call.args.amount <= chain.free /\ "funds" \in call.left
    BY <1>13, <2>1 DEF Dist!ReadFunds, DistConfigure, Of
  <2>3. DistConfigure'
    BY <2>1, <2>2 DEF DistConfigure, Of, Fresh, Dist!Known, Dist!DatesValid, Dist!Valid, Dist!DateOf
  <2> QED BY <1>1, <2>2, <2>3 DEF DistCall
<1>14. CASE Dist!ReadPaid /\ call' # Idle
  <2>1. DistPay
    BY <1>0, <1>14, DistStages DEF Dist!ReadPaid
  <2>2. call' = [call EXCEPT !.left = @ \ {"paid"}] /\ chain' = chain /\ (\A i \in DOMAIN call.args.list : call.args.list[i] \notin chain.paid) /\ "paid" \in call.left
    BY <1>14, <2>1 DEF Dist!ReadPaid, DistPay, Of
  <2>3. DistPay'
    BY <2>1, <2>2 DEF DistPay, Of, Fresh, Dist!IsOpen
  <2> QED BY <1>1, <2>2, <2>3 DEF DistCall
<1>15. CASE Dist!ReadCheckpoint /\ call' # Idle
  <2>1. CASE DistClaim
    <3>1. call' = [call EXCEPT !.left = (@ \ {"checkpoint"}) \cup {"balance"}] /\ chain' = chain /\ chain.dist /\ "checkpoint" \in call.left
      BY <1>15, <2>1 DEF Dist!ReadCheckpoint, DistClaim, Of
    <3>2. DistClaim'
      BY <2>1, <3>1 DEF DistClaim, Of, Fresh, Dist!IsOpen
    <3> QED BY <1>1, <3>1, <3>2 DEF DistCall
  <2>2. CASE DistRecord
    <3>1. call' = [call EXCEPT !.left = (@ \ {"checkpoint"}) \cup {"clock"}] /\ chain' = chain /\ "checkpoint" \in call.left
      BY <1>15, <2>2 DEF Dist!ReadCheckpoint, DistRecord, Of
    <3>2. DistRecord'
      BY <2>2, <3>1 DEF DistRecord, Of, Fresh
    <3> QED BY <1>1, <3>1, <3>2 DEF DistCall
  <2> QED BY <1>0, <1>15, <2>1, <2>2, DistStages DEF Dist!ReadCheckpoint
<1>16. CASE Dist!ReadBalance /\ call' # Idle
  <2>1. DistClaim
    BY <1>0, <1>16, DistStages DEF Dist!ReadBalance
  <2>2. call' = [call EXCEPT !.left = @ \ {"balance"}] /\ chain' = chain /\ "balance" \in call.left
    BY <1>16, <2>1 DEF Dist!ReadBalance, DistClaim, Of
  <2>3. DistClaim'
    BY <2>1, <2>2 DEF DistClaim, Of, Fresh, Dist!IsOpen
  <2> QED BY <1>1, <2>2, <2>3 DEF DistCall
<1>17. CASE Dist!ReadDetails /\ call' # Idle
  <2>1. DistReclaim
    BY <1>0, <1>17, DistStages DEF Dist!ReadDetails
  <2>2. call' = [call EXCEPT !.left = @ \ {"details"}] /\ chain' = chain /\ chain.dist /\ ~chain.reclaimed /\ "details" \in call.left
    BY <1>17, <2>1 DEF Dist!ReadDetails, DistReclaim, Of
  <2>3. DistReclaim'
    BY <2>1, <2>2 DEF DistReclaim, Of, Fresh
  <2> QED BY <1>1, <2>2, <2>3 DEF DistCall
<1>18. CASE Dist!ReadDistribution /\ call' # Idle
  <2>1. DistRemove
    BY <1>0, <1>18, DistStages DEF Dist!ReadDistribution
  <2>2. call' = [call EXCEPT !.left = @ \ {"distribution"}] /\ chain' = chain /\ Dist!Removable(call.args.byId)
    BY <1>18, <2>1 DEF Dist!ReadDistribution, DistRemove, Of
  <2>3. DistRemove'
    BY <2>1, <2>2 DEF DistRemove, Of, Fresh, Dist!Removable
  <2> QED BY <1>1, <2>2, <2>3 DEF DistCall
<1>19. CASE Dist!ReadClock /\ call' = Idle
  <2>1. call.op \in {"configure", "pay", "claim", "reclaim", "record"}
    BY <1>0, <1>19, DistStages DEF Dist!ReadClock, DistCall, DistConfigure, DistPay, DistClaim, DistReclaim, DistRecord, DistRemove, Of
  <2>2. chain' = chain
    BY <1>19, <2>1 DEF Dist!ReadClock
  <2> QED BY <1>4, <1>19, <2>2
<1>20. CASE call' = Idle /\ (Dist!ReadDates \/ Dist!ReadFunds \/ Dist!ReadPaid \/ Dist!ReadCheckpoint \/ Dist!ReadBalance \/ Dist!ReadDetails \/ Dist!ReadDistribution)
  BY <1>0, <1>4, <1>20 DEF Dist!ReadDates, Dist!ReadFunds, Dist!ReadPaid,
      Dist!ReadCheckpoint, Dist!ReadBalance, Dist!ReadDetails,
      Dist!ReadDistribution
<1>21. chain \in Dist!Chains
  BY <1>0 DEF DistTyped, DistOf
<1>22. CASE Dist!DispatchConfigure
  <2> DEFINE args == call.args
             after == Dist!Distributing(args)
             free == chain.free - args.amount
             date == Dist!DateOf(args.record)
             made == args.record.kind = "existing"
  <2>1. DistConfigure /\ call.left = {}
    BY <1>0, <1>22, DistStages DEF Dist!DispatchConfigure
  <2>2. /\ args \in [payment : 2 .. MaxDate, expiry : Dist!Moments, record : Dist!Records, amount : Amounts]
        /\ args.payment <= args.expiry /\ ~Dist!Known
    BY <2>1 DEF DistConfigure, Of
  <2>3. /\ call' = Idle
        /\ \/ chain' = chain
           \/ args.amount <= chain.free /\ Dist!AcceptsRecord(args.record, args.payment) /\ chain' = after
    BY <1>22 DEF Dist!DispatchConfigure, Dist!Accepted
  <2>4. MaxDate \in Nat /\ args.amount \in Nat /\ args.payment \in Dist!Moments /\ args.payment # Dist!Never
    <3>1. MaxDate \in Nat /\ args.amount \in Nat /\ args.payment \in 2 .. MaxDate
      BY <2>2, DistributionAssumption, PortfolioAssumption
    <3> HIDE DEF args
    <3> QED BY <3>1 DEF Dist!Moments, Dist!Never
  <2>5. /\ after \in [now : {chain.now}, dist : {TRUE}, payment : {args.payment}, expiry : {args.expiry},
                      record : {date}, made : {made}, paid : {chain.paid}, left : {args.amount},
                      reclaimed : {chain.reclaimed}, free : {free}, next : {chain.next}]
        /\ made \in BOOLEAN
    BY <1>21 DEF Dist!Distributing, Dist!Recorded, Dist!Chains
  <2>6. date \in 0 .. MaxDate /\ (Dist!AcceptsRecord(args.record, args.payment) => date <= args.payment)
    BY <1>0, <2>2, <2>4, DistDates
  <2>7. args.amount <= chain.free => free \in Nat
    BY <1>21, <2>4 DEF Dist!Chains
  <2>8. ~chain.reclaimed
    BY <1>0, <2>2 DEF DistTyped, DistOf, Dist!Known
  <2>9. args.expiry \in Dist!Moments /\ args.payment <= args.expiry
    BY <2>2
  <2> HIDE DEF args, after, free, date, made
  <2>10. chain' = chain \/ DistTyped'
    BY <1>21, <2>3, <2>4, <2>5, <2>6, <2>7, <2>8, <2>9 DEF DistTyped, DistOf, Dist!Chains
  <2> QED BY <1>3, <1>4, <2>3, <2>10
<1>23. CASE Dist!DispatchPay
  <2>1. call.args.list \in Seq(Holders)
    BY <1>0, <1>23, DistStages, DistributionAssumption DEF Dist!DispatchPay, DistPay, Of
  <2>2. call' = Idle /\ (chain' = chain \/ (Dist!AcceptsPay(call.args.list) /\ chain' = Dist!Shares(Dist!Whom(call.args.list))))
    BY <1>23 DEF Dist!DispatchPay, Dist!Accepted
  <2>3. chain' = chain \/ DistTyped'
    BY <1>0, <2>1, <2>2, DistPays DEF DistTyped
  <2> QED BY <1>3, <1>4, <2>2, <2>3
<1>24. CASE Dist!DispatchClaim
  <2>1. <<"me">> \in Seq(Holders) /\ Dist!Whom(<<"me">>) = {"me"}
    BY DistPaysOne, DistributionAssumption
  <2>2. call' = Idle /\ (chain' = chain \/ (Dist!AcceptsPay(<<"me">>) /\ chain' = Dist!Shares({"me"})))
    BY <1>24 DEF Dist!DispatchClaim, Dist!Accepted
  <2>3. chain' = chain \/ DistTyped'
    BY <1>0, <2>1, <2>2, DistPays DEF DistTyped
  <2> QED BY <1>3, <1>4, <2>2, <2>3
<1>25. CASE Dist!DispatchReclaim
  <2>1. call' = Idle /\ (chain' = chain \/ (chain.dist /\ chain' = Dist!Reclaimed))
    BY <1>25 DEF Dist!DispatchReclaim, Dist!Accepted
  <2>2. chain' = chain \/ DistTyped'
    BY <1>0, <2>1, DistEnds DEF DistTyped
  <2> QED BY <1>3, <1>4, <2>1, <2>2
<1>26. CASE Dist!DispatchRemove
  <2>1. call' = Idle /\ (chain' = chain \/ (chain.dist /\ chain' = Dist!Removed))
    BY <1>26 DEF Dist!DispatchRemove, Dist!Accepted
  <2>2. chain' = chain \/ DistTyped'
    BY <1>0, <2>1, DistEnds DEF DistTyped
  <2> QED BY <1>3, <1>4, <2>1, <2>2
<1>27. CASE Dist!DispatchRecord
  <2> DEFINE r == call.args.record
             after == Dist!Recorded(chain, r)
             date == Dist!DateOf(r)
             made == r.kind = "existing"
  <2>1. r \in Dist!Records
    BY <1>0, <1>27, DistStages DEF Dist!DispatchRecord, DistRecord, Of
  <2>2. call' = Idle /\ (chain' = chain \/ (Dist!AcceptsRecord(r, chain.payment) /\ chain' = after))
    BY <1>27 DEF Dist!DispatchRecord, Dist!Accepted
  <2>3. date \in 0 .. MaxDate /\ (Dist!AcceptsRecord(r, chain.payment) => date <= chain.payment)
    BY <1>0, <1>21, <2>1, DistDates DEF Dist!Chains
  <2>4. /\ after \in [now : {chain.now}, dist : {chain.dist}, payment : {chain.payment}, expiry : {chain.expiry},
                      record : {date}, made : {made}, paid : {chain.paid}, left : {chain.left},
                      reclaimed : {chain.reclaimed}, free : {chain.free}, next : {chain.next}]
        /\ made \in BOOLEAN
    BY <1>21 DEF Dist!Recorded, Dist!Chains
  <2> HIDE DEF r, after, date, made
  <2>5. chain' = chain \/ DistTyped'
    BY <1>0, <1>21, <2>2, <2>3, <2>4 DEF DistTyped, DistOf, Dist!Chains
  <2> QED BY <1>3, <1>4, <2>2, <2>5
<1>28. ASSUME NEW after, Dist!Happens(after), DistOf(after), after.payment = chain.payment PROVE DistInv'
  <2>1. DistTyped' /\ chain'.payment = chain.payment
    BY <1>28 DEF DistTyped, Dist!Happens
  <2> QED BY <1>2, <1>28, <2>1
<1>29. ASSUME NEW h \in Holders, Dist!OthersPay(h) PROVE DistInv'
  <2>1. <<h>> \in Seq(Holders) /\ Dist!Whom(<<h>>) = {h}
    BY DistPaysOne
  <2>2. Dist!AcceptsPay(<<h>>) /\ Dist!Happens(Dist!Shares({h}))
    BY <1>29 DEF Dist!OthersPay
  <2>3. DistOf(Dist!Shares({h})) /\ Dist!Shares({h}).payment = chain.payment
    BY <1>0, <2>1, <2>2, DistPays
  <2> QED BY <1>28, <2>2, <2>3
<1>30. CASE Dist!OthersEnd
  <2>1. chain.dist /\ (Dist!Happens(Dist!Reclaimed) \/ Dist!Happens(Dist!Removed))
    BY <1>30 DEF Dist!OthersEnd
  <2> QED BY <1>0, <1>28, <2>1, DistEnds
<1>31. CASE Dist!Snapshot
  <2> DEFINE after == [chain EXCEPT !.made = TRUE]
  <2>1. Dist!Happens(after)
    BY <1>31 DEF Dist!Snapshot
  <2>2. DistOf(after) /\ after.payment = chain.payment
    BY <1>0, <1>21 DEF DistTyped, DistOf, Dist!Chains
  <2> QED BY <1>28, <2>1, <2>2
<1>32. ASSUME NEW t \in 0 .. MaxDate, Dist!Schedule(t) PROVE DistInv'
  <2> DEFINE after == [chain EXCEPT !.next = t]
  <2>1. Dist!Happens(after)
    BY <1>32 DEF Dist!Schedule
  <2>2. DistOf(after) /\ after.payment = chain.payment
    BY <1>0, <1>21 DEF DistTyped, DistOf, Dist!Chains
  <2> QED BY <1>28, <2>1, <2>2
<1>33. CASE Dist!Spend
  <2> DEFINE after == [chain EXCEPT !.free = @ - 1]
  <2>1. Dist!Happens(after) /\ chain.free > 0
    BY <1>33 DEF Dist!Spend
  <2>2. DistOf(after) /\ after.payment = chain.payment
    BY <1>0, <1>21, <2>1 DEF DistTyped, DistOf, Dist!Chains
  <2> QED BY <1>28, <2>1, <2>2
<1>34. CASE Dist!Tick
  <2> DEFINE after == [chain EXCEPT !.now = @ + 1]
  <2>1. Dist!Happens(after) /\ chain.now < MaxDate
    BY <1>34 DEF Dist!Tick
  <2>2. DistOf(after) /\ after.payment = chain.payment
    BY <1>0, <1>21, <2>1, DistributionAssumption DEF DistTyped, DistOf, Dist!Chains
  <2> QED BY <1>28, <2>1, <2>2
<1> QED
  BY <1>5, <1>6, <1>7, <1>8, <1>9, <1>10, <1>11, <1>12, <1>13, <1>14, <1>15, <1>16, <1>17, <1>18, <1>19,
     <1>20, <1>21, <1>22, <1>23, <1>24, <1>25, <1>26, <1>27, <1>28, <1>29, <1>30, <1>31, <1>32, <1>33, <1>34
     DEF Dist!Next

LEMMA DistStutter == DistInv /\ UNCHANGED <<chain, call>> => DistInv'
BY DEF DistInv, DistTyped, DistOf, DistConfigure, Of, Fresh, Dist!Known, Dist!DatesValid, Dist!Valid, Dist!DateOf, DistPay,
       Dist!IsOpen, DistClaim, DistReclaim, DistRemove, Dist!Removable, DistRecord, DistCall, Idle

(* As numbers they compare.                                                *)
LEMMA DistNumbers ==
  ASSUME DistTyped
  PROVE  /\ chain.now \in Nat /\ chain.payment \in Nat /\ chain.expiry \in Nat /\ chain.record \in Nat
         /\ chain.left \in Nat /\ chain.free \in Nat /\ chain.next \in Nat /\ Dist!Never \in Nat
         /\ chain.payment \in Dist!Moments /\ chain.expiry \in Dist!Moments /\ chain.payment <= chain.expiry
         /\ chain.reclaimed => chain.left = 0
         /\ chain.now <= MaxDate /\ MaxDate \in Nat
BY DistributionAssumption DEF DistTyped, DistOf, Dist!Chains, Dist!Moments, Dist!Never

LEMMA DistOK == DistInv => Dist!TypeOK /\ Dist!RevertedOnlyIfStale
<1> SUFFICES ASSUME DistInv PROVE Dist!TypeOK /\ Dist!RevertedOnlyIfStale
  OBVIOUS
<1>0. DistTyped /\ DistCall
  BY DEF DistInv
<1>1. Dist!TypeOK
  <2>1. chain \in Dist!Chains /\ chain.record <= chain.payment
    BY <1>0 DEF DistTyped, DistOf
  <2>2. chain.record < chain.payment \/ chain.record = chain.payment
    BY <1>0, <2>1, DistNumbers
  <2>3. call.op \in {"none", "configure", "pay", "claim", "reclaim", "remove", "record"}
    BY <1>0 DEF DistCall, DistConfigure, DistPay, DistClaim, DistReclaim, DistRemove, DistRecord, Of, Idle
  <2> QED BY <2>1, <2>2, <2>3 DEF Dist!TypeOK
<1>2. ASSUME Dist!Built, Dist!Fresh PROVE DistExcused
  <2> USE DEF Dist!Built, Dist!Fresh, Fresh
  <2>1. CASE DistConfigure
    <3>1. /\ call.args \in [payment : 2 .. MaxDate, expiry : Dist!Moments, record : Dist!Records, amount : Amounts]
          /\ call.op = "configure" /\ call.args.payment <= call.args.expiry /\ call.args.amount <= chain.free
          /\ Dist!DatesValid(call.args.record, call.args.payment, call.args.expiry)
      BY <1>2, <2>1 DEF DistConfigure, Of
    <3>2. call.args.payment \in Dist!Moments /\ call.args.payment \in Nat /\ call.args.expiry \in Nat
      BY <1>0, <3>1, DistNumbers DEF Dist!Moments, Dist!Never
    <3>3. Dist!AcceptsRecord(call.args.record, call.args.payment)
      BY <1>0, <3>1, <3>2, DistDates
    <3> QED BY <3>1, <3>2, <3>3 DEF Dist!Accepted, DistExcused
  <2>2. CASE DistPay
    <3> DEFINE list == call.args.list
    <3>1. /\ call.op = "pay" /\ list \in PayLists /\ Dist!IsOpen
          /\ \A i \in DOMAIN list : list[i] \notin chain.paid
      BY <1>2, <2>2 DEF DistPay, Of
    <3>2. list \in Seq(Holders) /\ list # <<>>
      BY <3>1, DistributionAssumption
    <3> HIDE DEF list
    <3>3. Len(list) \in Nat /\ Len(list) > 0
      BY <3>2
    <3>4. /\ Listed(list) \subseteq Holders /\ Dist!Whom(list) = Listed(list)
          /\ Cardinality(Listed(list)) \in Nat /\ Cardinality(Listed(list)) <= Len(list)
      <4>1. Dist!Whom(list) = Listed(list)
        BY DEF Listed, Dist!Whom
      <4> QED BY <3>2, <4>1, ListedFew
    <3>5. Dist!Cardinality(Dist!Whom(list)) = Cardinality(Listed(list))
      BY <3>4, DistSizes, Zenon
    <3>6. Dist!Cardinality(Dist!Whom(list)) = Len(list) \/ Dist!Cardinality(Dist!Whom(list)) < Len(list)
      BY <3>3, <3>4, <3>5
    <3>7. Dist!Whom(list) \subseteq Holders \ chain.paid
      BY <3>1, <3>4 DEF Dist!Whom
    <3>8. chain.dist => Dist!Running
      BY <1>0, <3>1, DistNumbers DEF Dist!IsOpen, Dist!Running
    <3>9. chain.reclaimed \/ ~(Len(list) <= chain.left) => Len(list) > chain.left
      BY <1>0, <3>3, DistNumbers
    <3> QED BY <3>1, <3>6, <3>7, <3>8, <3>9 DEF Dist!Accepted, DistExcused, Dist!AcceptsPay, list
  <2>3. CASE DistClaim
    <3>1. call.op = "claim" /\ Dist!IsOpen /\ chain.dist
      BY <1>2, <2>3 DEF DistClaim, Of
    <3>2. Dist!Running
      BY <1>0, <3>1, DistNumbers DEF Dist!IsOpen, Dist!Running
    <3>3. "me" \in Holders /\ Dist!Whom(<<"me">>) = {"me"} /\ Len(<<"me">>) = 1 /\ Dist!Cardinality({"me"}) = 1
      BY DistributionAssumption, DistPaysOne
    <3>4. chain.left # 0 => 1 <= chain.left /\ ~chain.reclaimed
      BY <1>0, DistNumbers
    <3>5. "me" \notin chain.paid /\ chain.left # 0 => Dist!AcceptsPay(<<"me">>)
      BY <3>2, <3>3, <3>4 DEF Dist!AcceptsPay
    <3> QED BY <3>1, <3>5 DEF Dist!Accepted, DistExcused
  <2>4. CASE DistReclaim
    <3>1. call.op = "reclaim" /\ chain.dist /\ ~chain.reclaimed /\ (chain.expiry = Dist!Never \/ chain.expiry < chain.now)
      BY <1>2, <2>4 DEF DistReclaim, Of
    <3>2. chain.expiry = Dist!Never \/ chain.expiry <= chain.now
      BY <1>0, <3>1, DistNumbers
    <3> QED BY <3>1, <3>2 DEF Dist!Accepted, DistExcused
  <2>5. CASE DistRemove
    <3>1. call.op = "remove" /\ chain.dist /\ (call.args.byId \/ chain.payment >= chain.now)
      BY <1>2, <2>5 DEF DistRemove, Of, Dist!Removable
    <3>2. call.args.byId \/ chain.payment = chain.now \/ chain.now < chain.payment
      BY <1>0, <3>1, DistNumbers
    <3> QED BY <3>1, <3>2 DEF Dist!Accepted, DistExcused
  <2>6. CASE DistRecord
    <3>1. /\ call.op = "record" /\ call.args.record \in Dist!Records /\ chain.payment > chain.now
          /\ Dist!DatesValid(call.args.record, chain.payment, chain.expiry)
      BY <1>2, <2>6 DEF DistRecord, Of
    <3>2. Dist!AcceptsRecord(call.args.record, chain.payment) /\ chain.now < chain.payment
      BY <1>0, <3>1, DistDates, DistNumbers
    <3> QED BY <3>1, <3>2 DEF Dist!Accepted, DistExcused
  <2> QED BY <1>0, <1>2, <2>1, <2>2, <2>3, <2>4, <2>5, <2>6 DEF DistCall, Idle
<1> QED BY <1>1, <1>2 DEF Dist!RevertedOnlyIfStale, DistExcused

LEMMA DistRefused == DistInv /\ Dist!Next => Dist!TurnedAwayRightly
<1> SUFFICES ASSUME DistInv, Dist!Next, Dist!TurnedAway, Dist!Fresh
             PROVE  DistBarred
  BY DEF Dist!TurnedAwayRightly, DistBarred
<1> USE DEF Dist!Answers, Dist!Check, Dist!Keep, DistBarred
<1>0. DistCall /\ DistTyped /\ ~Dist!Built /\ call.op # "none" /\ call'.op = "none"
  BY DEF DistInv, Dist!TurnedAway, Dist!Ends
<1> USE DEF Dist!Refuse, Dist!Idle, Idle
<1>1. DOMAIN call = {"op", "args", "read", "left", "stale"}
  BY <1>0 DEF DistCall, DistConfigure, DistPay, DistClaim, DistReclaim, DistRemove, DistRecord, Of
<1>2. /\ chain.now \in Nat /\ chain.payment \in Nat /\ chain.expiry \in Nat /\ Dist!Never \in Nat
             /\ chain.payment \in Dist!Moments /\ chain.expiry \in Dist!Moments /\ chain.payment <= chain.expiry
  BY <1>0, DistNumbers
<1>3. ASSUME call.op = "configure"
      PROVE  /\ call.args.record \in Dist!Records /\ call.args.payment \in Dist!Moments /\ call.args.expiry \in Dist!Moments
             /\ call.args.payment \in Nat /\ call.args.expiry \in Nat
             /\ "clock" \notin call.left => call.args.payment <= call.args.expiry
  <2>1. DistConfigure
    BY <1>0, <1>3, DistStages
  <2> QED BY <2>1, DistributionAssumption DEF DistConfigure, Of, Dist!Moments, Dist!Never
<1>4. CASE Dist!ReadClock
  <2>1. CASE call.op = "configure"
    <3>1. ~(call.args.payment > chain.now) \/ ~(call.args.expiry >= call.args.payment)
      BY <1>0, <1>1, <1>4, <2>1 DEF Dist!ReadClock
    <3>2. call.args.payment <= chain.now \/ ~(call.args.payment < call.args.expiry)
      BY <1>2, <1>3, <2>1, <3>1
    <3> QED BY <2>1, <3>2 DEF Dist!Accepted
  <2>2. CASE call.op = "pay"
    <3>1. call.args.list \in Seq(Holders)
      BY <1>0, <2>2, DistStages, DistributionAssumption DEF DistPay, Of
    <3>2. \A i \in DOMAIN call.args.list : call.args.list[i] \in Holders
      BY <3>1
    <3>3. ~Dist!IsOpen
      BY <1>0, <1>1, <1>4, <2>2, <3>2 DEF Dist!ReadClock
    <3>4. ~Dist!Running
      BY <1>2, <3>3 DEF Dist!IsOpen, Dist!Running
    <3> QED BY <2>2, <3>4 DEF Dist!Accepted, Dist!AcceptsPay
  <2>3. CASE call.op = "claim"
    <3>1. ~Dist!IsOpen
      BY <1>0, <1>1, <1>4, <2>3 DEF Dist!ReadClock
    <3>2. ~Dist!Running
      BY <1>2, <3>1 DEF Dist!IsOpen, Dist!Running
    <3> QED BY <2>3, <3>2 DEF Dist!Accepted, Dist!AcceptsPay
  <2>4. CASE call.op = "reclaim"
    <3>1. ~(chain.expiry = Dist!Never \/ chain.expiry < chain.now)
      BY <1>0, <1>1, <1>4, <2>4 DEF Dist!ReadClock
    <3> QED BY <1>2, <2>4, <3>1 DEF Dist!Accepted
  <2>5. CASE call.op = "record"
    <3>1. call.args.record \in Dist!Records
      BY <1>0, <2>5, DistStages DEF DistRecord, Of
    <3>2. ~(chain.payment > chain.now) \/ ~Dist!DatesValid(call.args.record, chain.payment, chain.expiry)
      BY <1>0, <1>1, <1>4, <2>5 DEF Dist!ReadClock
    <3>3. \/ ~(chain.now < chain.payment) \/ ~Dist!AcceptsRecord(call.args.record, chain.payment)
          \/ Dist!DateOf(call.args.record) = chain.payment
      BY <1>0, <1>2, <3>1, <3>2, DistDates
    <3> QED BY <2>5, <3>3 DEF Dist!Accepted
  <2> QED BY <1>0, <1>4, <2>1, <2>2, <2>3, <2>4, <2>5, DistStages
          DEF Dist!ReadClock, DistCall, DistConfigure, DistPay, DistClaim, DistReclaim, DistRemove, DistRecord, Of
<1>5. CASE Dist!ReadDates
  <2>1. call.op = "configure" /\ ~Dist!DatesValid(call.args.record, call.args.payment, call.args.expiry) /\ "dates" \in call.left
    BY <1>0, <1>1, <1>5 DEF Dist!ReadDates
  <2>2. "clock" \notin call.left
    BY <1>0, <2>1, DistStages DEF DistConfigure
  <2>3. \/ ~Dist!AcceptsRecord(call.args.record, call.args.payment)
        \/ Dist!DateOf(call.args.record) = call.args.payment
    BY <1>0, <1>3, <2>1, <2>2, DistDates
  <2> QED BY <2>1, <2>3 DEF Dist!Accepted
<1>6. CASE Dist!ReadFunds
  BY <1>0, <1>1, <1>6 DEF Dist!ReadFunds, Dist!Accepted
<1>7. CASE Dist!ReadPaid
  BY <1>0, <1>1, <1>7 DEF Dist!ReadPaid, Dist!Accepted, Dist!AcceptsPay, Dist!Whom
<1>8. CASE Dist!ReadCheckpoint
  <2>1. CASE call.op = "claim"
    BY <1>0, <1>1, <1>8, <2>1 DEF Dist!ReadCheckpoint, Dist!Accepted, Dist!AcceptsPay, Dist!Running
  <2>2. CASE call.op = "record"
    <3>1. call.args.record \in Dist!Records /\ ~Dist!Valid(call.args.record)
      BY <1>0, <1>1, <1>8, <2>2, DistStages DEF Dist!ReadCheckpoint, DistRecord, Of
    <3>2. ~Dist!AcceptsRecord(call.args.record, chain.payment)
      BY <1>0, <1>2, <3>1, DistDates
    <3> QED BY <2>2, <3>2 DEF Dist!Accepted
  <2> QED BY <1>8, <2>1, <2>2 DEF Dist!ReadCheckpoint
<1>9. CASE Dist!ReadBalance
  <2>1. call.op = "claim" /\ "me" \in chain.paid
    BY <1>0, <1>1, <1>9, DistributionAssumption DEF Dist!ReadBalance, Dist!Participant
  <2>2. Dist!Whom(<<"me">>) = {"me"}
    BY DistributionAssumption, DistPaysOne
  <2> QED BY <2>1, <2>2 DEF Dist!Accepted, Dist!AcceptsPay
<1>10. CASE Dist!ReadDetails
  BY <1>0, <1>1, <1>10 DEF Dist!ReadDetails, Dist!Accepted
<1>11. CASE Dist!ReadDistribution
  <2>1. call.op = "remove" /\ ~Dist!Removable(call.args.byId)
    BY <1>0, <1>1, <1>11 DEF Dist!ReadDistribution
  <2>2. ~(chain.dist /\ chain.now < chain.payment)
    BY <1>2, <2>1 DEF Dist!Removable
  <2> QED BY <2>1, <2>2 DEF Dist!Accepted
<1>12. ASSUME NEW after, Dist!Happens(after) PROVE FALSE
  BY <1>0, <1>12, DistStages DEF Dist!Happens
<1> QED
  BY <1>0, <1>1, <1>2, <1>3, <1>4, <1>5, <1>6, <1>7, <1>8, <1>9, <1>10, <1>11, <1>12
     DEF Dist!Next, Dist!Calls, Dist!Dispatches, Dist!Configure,
         Dist!Pay, Dist!Claim, Dist!Reclaim, Dist!Remove,
         Dist!ModifyCheckpoint, Dist!OthersPay, Dist!OthersEnd,
         Dist!Snapshot, Dist!Schedule, Dist!Spend, Dist!Tick,
         Dist!DispatchConfigure, Dist!DispatchPay, Dist!DispatchClaim,
         Dist!DispatchReclaim, Dist!DispatchRemove, Dist!DispatchRecord

-----------------------------------------------------------------------------
(* Checkpoints *)

LEMMA PointsInit == Points!Init => PointsInv
<1> SUFFICES ASSUME Points!Init PROVE PointsInv
  OBVIOUS
<1>1. 1 \in 1 .. MaxDate /\ 0 \in 0 .. MaxPoints /\ 0 \in Nat
  BY DistributionAssumption, CheckpointAssumption
<1> QED BY <1>1 DEF Points!Init, PointsInv, PointsTyped, PointsOf, PointsCall, Points!Idle, Idle, Points!NoArgs, NoArgs

(* A schedule that takes the place of one, or of none, and has its id.     *)
LEMMA PointsPut ==
  ASSUME NEW c, PointsOf(c), NEW gone \in SUBSET c.stored, NEW t, NEW points \in 0 .. MaxPoints, NEW last \in Nat,
         c.last <= last, PointsGood(t, last), \A s \in c.stored \ gone : s.id # t.id
  PROVE  /\ PointsOf([c EXCEPT !.points = points, !.last = last, !.stored = (c.stored \ gone) \cup {t}])
         /\ PointsOf([c EXCEPT !.points = points, !.last = last, !.stored = c.stored \ gone])
<1> DEFINE more == (c.stored \ gone) \cup {t}
           few == c.stored \ gone
           d == [c EXCEPT !.points = points, !.last = last, !.stored = more]
           e == [c EXCEPT !.points = points, !.last = last, !.stored = few]
<1>1. \A s \in c.stored : PointsGood(s, last)
  BY DEF PointsOf, PointsGood, PointsKept
<1>2. more \subseteq PointsKept /\ few \subseteq PointsKept
  BY <1>1 DEF PointsGood
<1>3. /\ \A s \in more : PointsGood(s, last)
      /\ \A s, u \in more : s.id = u.id => s = u
      /\ few \subseteq more
  BY <1>1 DEF PointsOf
<1> HIDE DEF more, few
<1>4. /\ d \in [now : 1 .. MaxDate, points : 0 .. MaxPoints, last : Nat, stored : SUBSET PointsKept]
      /\ e \in [now : 1 .. MaxDate, points : 0 .. MaxPoints, last : Nat, stored : SUBSET PointsKept]
      /\ d.last = last /\ d.stored = more /\ e.last = last /\ e.stored = few
  BY <1>2 DEF PointsOf
<1>5. PointsOf(d)
  BY <1>3, <1>4 DEF PointsOf
<1>6. PointsOf(e)
  BY <1>3, <1>4 DEF PointsOf
<1> QED BY <1>5, <1>6 DEF more, few

LEMMA PointsStages ==
  ASSUME PointsCall
  PROVE  /\ call.op = "none" => call = Idle
         /\ [call EXCEPT !.stale = TRUE].op = call.op
         /\ call.op = "checkpoint" => PointsCheckpoint
         /\ call.op = "create" => PointsCreate
         /\ call.op = "remove" => PointsRemove
BY DEF PointsCall, PointsCheckpoint, PointsCreate, PointsRemove, Of, Idle

LEMMA PointsStale ==
  ASSUME PointsCall, NEW after, Points!Happens(after) PROVE PointsCall'
<1>1. CASE call = Idle
  BY <1>1 DEF Points!Happens, PointsCall, Idle
<1>2. CASE call # Idle
  <2>1. call' = [call EXCEPT !.stale = TRUE]
    BY <1>2, PointsStages DEF Points!Happens
  <2> QED BY <1>2, <2>1 DEF PointsCall, PointsCheckpoint, Of, PointsCreate, Fresh, PointsRemove
<1> QED BY <1>1, <1>2

LEMMA PointsNext == PointsInv /\ Points!Next => PointsInv'
<1> SUFFICES ASSUME PointsInv, Points!Next PROVE PointsInv'
  OBVIOUS
<1> USE DEF Idle, NoArgs, Points!Idle, Points!NoArgs, Points!Calls, Points!Answers, Points!Check, Points!Keep,
        Points!Refuse, Points!Built, Points!Dispatches
<1>0. PointsCall /\ PointsTyped
  BY DEF PointsInv
<1>1. ASSUME UNCHANGED chain, PointsCall' PROVE PointsInv'
  BY <1>0, <1>1 DEF PointsInv, PointsTyped, PointsOf
<1>2. ASSUME NEW after, Points!Happens(after), PointsTyped' PROVE PointsInv'
  BY <1>0, <1>2, PointsStale DEF PointsInv
<1>3. ASSUME PointsTyped', call' = Idle PROVE PointsInv'
  BY <1>3 DEF PointsInv, PointsCall
<1>4. ASSUME UNCHANGED chain, call' = Idle PROVE PointsInv'
  BY <1>1, <1>4 DEF PointsCall
<1>5. ASSUME Points!CreateCheckpoint PROVE PointsInv'
  <2>1. PointsCheckpoint'
    BY <1>5 DEF Points!CreateCheckpoint, PointsCheckpoint, Of
  <2> QED BY <1>1, <1>5, <2>1 DEF Points!CreateCheckpoint, PointsCall
<1>6. ASSUME NEW args \in Points!Specs, Points!CreateSchedule(args) PROVE PointsInv'
  <2>1. PointsCreate'
    BY <1>6 DEF Points!CreateSchedule, PointsCreate, Of
  <2> QED BY <1>1, <1>6, <2>1 DEF Points!CreateSchedule, PointsCall
<1>7. ASSUME NEW id \in Schedules, Points!RemoveSchedule(id) PROVE PointsInv'
  <2>1. PointsRemove'
    BY <1>7 DEF Points!RemoveSchedule, PointsRemove, Of
  <2> QED BY <1>1, <1>7, <2>1 DEF Points!RemoveSchedule, PointsCall
<1>8. CASE Points!ReadClock /\ call' # Idle
  <2>1. PointsCreate
    BY <1>0, <1>8, PointsStages DEF Points!ReadClock
  <2>2. call' = [call EXCEPT !.left = @ \ {"clock"}] /\ chain' = chain /\ Points!InTime(call.args.start)
    BY <1>8, <2>1 DEF Points!ReadClock, PointsCreate, Of
  <2>3. PointsCreate'
    BY <2>1, <2>2 DEF PointsCreate, Of, Fresh, Points!InTime
  <2> QED BY <1>1, <2>2, <2>3 DEF PointsCall
<1>9. CASE Points!ReadSchedules /\ call' # Idle
  <2>1. PointsRemove
    BY <1>0, <1>9, PointsStages DEF Points!ReadSchedules
  <2>2. call' = [call EXCEPT !.read = NoArgs, !.left = {"references"}] /\ chain' = chain /\ Points!Found(call.args.id) # {}
    BY <1>9, <2>1 DEF Points!ReadSchedules, PointsRemove, Of
  <2>3. PointsRemove'
    BY <2>1, <2>2 DEF PointsRemove, Of, Fresh, Points!Found
  <2> QED BY <1>1, <2>2, <2>3 DEF PointsCall
<1>10. CASE Points!ReadReferences /\ call' # Idle
  <2>1. PointsRemove
    BY <1>0, <1>10, PointsStages DEF Points!ReadReferences
  <2>2. call' = [call EXCEPT !.left = {}] /\ chain' = chain /\ Points!Unused(call.args.id) /\ call.left = {"references"}
    BY <1>10, <2>1 DEF Points!ReadReferences, PointsRemove, Of
  <2>3. PointsRemove'
    BY <2>1, <2>2 DEF PointsRemove, Of, Fresh, Points!Found, Points!Unused
  <2> QED BY <1>1, <2>2, <2>3 DEF PointsCall
<1>11. CASE call' = Idle /\ (Points!ReadClock \/ Points!ReadSchedules \/ Points!ReadReferences)
  BY <1>0, <1>4, <1>11 DEF Points!ReadClock, Points!ReadSchedules, Points!ReadReferences
<1>12. CASE Points!DispatchCheckpoint
  <2>1. chain.points + 1 \in 0 .. MaxPoints
    BY <1>0, <1>12, CheckpointAssumption DEF Points!DispatchCheckpoint, PointsTyped, PointsOf
  <2>2. call' = Idle /\ (chain' = chain \/ chain' = [chain EXCEPT !.points = chain.points + 1])
    BY <1>12 DEF Points!DispatchCheckpoint
  <2>3. chain' = chain \/ PointsTyped'
    BY <1>0, <2>1, <2>2 DEF PointsTyped, PointsOf
  <2> QED BY <1>3, <1>4, <2>2, <2>3
<1>13. CASE Points!DispatchCreate
  <2> DEFINE t == Points!Scheduled(call.args)
  <2>1. call' = Idle /\ (chain' = chain \/ chain' = [chain EXCEPT !.stored = chain.stored \cup {t}, !.last = chain.last + 1])
    BY <1>13 DEF Points!DispatchCreate
  <2>2. call.args \in Points!Specs
    BY <1>0, <1>13, PointsStages DEF Points!DispatchCreate, PointsCreate, Of
  <2>3. chain.last \in Nat /\ chain.now \in Nat /\ chain.points \in 0 .. MaxPoints
    BY <1>0 DEF PointsTyped, PointsOf
  <2>4. call.args.start \in Nat /\ call.args.period \in Nat /\ call.args.repetitions \in Nat
    BY <2>2, CheckpointAssumption DEF Points!Specs
  <2> DEFINE start == IF call.args.start = NoDate THEN chain.now ELSE call.args.start
  <2>5. start \in Nat
    BY <2>3, <2>4
  <2>6. /\ t = [id |-> chain.last + 1, start |-> start, period |-> call.args.period, refs |-> 0, at |-> start,
                remaining |-> call.args.repetitions, asked |-> call.args.repetitions]
    BY DEF Points!Scheduled
  <2> HIDE DEF t, start
  <2>7. PointsGood(t, chain.last + 1) /\ t.id = chain.last + 1
    BY <2>3, <2>4, <2>5, <2>6 DEF PointsGood, PointsKept
  <2>8. \A s \in chain.stored : s.id # chain.last + 1
    <3>1. \A s \in chain.stored : s.id \in Nat /\ s.id <= chain.last
      BY <1>0 DEF PointsTyped, PointsOf, PointsGood, PointsKept
    <3> QED BY <2>3, <3>1
  <2>8a. chain.last + 1 \in Nat /\ chain.last <= chain.last + 1 /\ {} \in SUBSET chain.stored
       /\ \A s \in chain.stored \ {} : s.id # t.id
    BY <2>3, <2>7, <2>8
  <2>9. PointsOf([chain EXCEPT !.points = chain.points, !.last = chain.last + 1, !.stored = (chain.stored \ {}) \cup {t}])
    BY <1>0, <2>3, <2>7, <2>8a, PointsPut DEF PointsTyped
  <2>10. [chain EXCEPT !.points = chain.points, !.last = chain.last + 1, !.stored = (chain.stored \ {}) \cup {t}]
           = [chain EXCEPT !.stored = chain.stored \cup {t}, !.last = chain.last + 1]
    BY <1>0 DEF PointsTyped, PointsOf
  <2>11. chain' = chain \/ PointsTyped'
    BY <2>1, <2>9, <2>10 DEF PointsTyped
  <2> QED BY <1>3, <1>4, <2>1, <2>11
<1>14. CASE Points!DispatchRemove
  <2>1. call' = Idle /\ (chain' = chain \/ chain' = [chain EXCEPT !.stored = chain.stored \ Points!Found(call.args.id)])
    BY <1>14 DEF Points!DispatchRemove
  <2>2. chain' = chain \/ PointsTyped'
    BY <1>0, <2>1 DEF PointsTyped, PointsOf
  <2> QED BY <1>3, <1>4, <2>1, <2>2
<1>15. ASSUME NEW s \in chain.stored, NEW t, PointsGood(t, chain.last), t.id = s.id, NEW points \in 0 .. MaxPoints
      PROVE  /\ PointsOf([chain EXCEPT !.points = points, !.stored = (chain.stored \ {s}) \cup {t}])
             /\ PointsOf([chain EXCEPT !.points = points, !.stored = chain.stored \ {s}])
  <2>1. chain.last \in Nat /\ chain.last <= chain.last /\ {s} \in SUBSET chain.stored
    BY <1>0 DEF PointsTyped, PointsOf
  <2>2. \A u \in chain.stored \ {s} : u.id # t.id
    BY <1>0, <1>15 DEF PointsTyped, PointsOf
  <2>3. /\ PointsOf([chain EXCEPT !.points = points, !.last = chain.last, !.stored = (chain.stored \ {s}) \cup {t}])
        /\ PointsOf([chain EXCEPT !.points = points, !.last = chain.last, !.stored = chain.stored \ {s}])
    BY <1>0, <1>15, <2>1, <2>2, PointsPut DEF PointsTyped
  <2> QED BY <1>0, <2>3 DEF PointsTyped, PointsOf
<1>16. ASSUME NEW s \in chain.stored, Points!MakePoint(s) PROVE PointsInv'
  <2>0. PointsGood(s, chain.last)
    BY <1>0 DEF PointsTyped, PointsOf
  <2>1. chain.points + 1 \in 0 .. MaxPoints
    BY <1>0, <1>16, CheckpointAssumption DEF Points!MakePoint, PointsTyped, PointsOf
  <2>2. CASE Points!GoesOn(s)
    <3> DEFINE left == IF s.remaining = 0 THEN 0 ELSE s.remaining - 1
               t == [s EXCEPT !.at = s.at + s.period, !.remaining = left]
    <3>1. Points!Happens([chain EXCEPT !.points = chain.points + 1, !.stored = (chain.stored \ {s}) \cup {t}])
      BY <1>16, <2>2 DEF Points!MakePoint, Points!Later
    <3>2. /\ s.at \in Nat /\ s.period \in Nat /\ s.remaining \in Nat /\ s.asked \in Nat /\ s.start \in Nat
          /\ s.period # 0 /\ s.remaining # 1
      BY <2>0, <2>2 DEF PointsGood, PointsKept, Points!GoesOn
    <3>3. left \in Nat /\ left <= s.asked /\ (s.asked = 0 <=> left = 0) /\ (left # 0 => left = s.remaining - 1)
      BY <2>0, <3>2 DEF PointsGood
    <3>4. left # 0 => (s.at + s.period) + s.period * (left - 1) = s.at + s.period * (s.remaining - 1)
      <4>1. \A p, n \in Int : p + p * (n - 1 - 1) = p * (n - 1)
        OBVIOUS
      <4>2. s.period + s.period * (s.remaining - 1 - 1) = s.period * (s.remaining - 1)
        BY <3>2, <4>1
      <4>3. s.period * (s.remaining - 1 - 1) \in Int
        BY <3>2
      <4> QED BY <3>2, <3>3, <4>2, <4>3
    <3> HIDE DEF left
    <3>8. s.at + s.period \in Nat
      BY <3>2
    <3>5. /\ t \in PointsKept /\ t.id = s.id /\ t.at = s.at + s.period /\ t.remaining = left
          /\ t.start = s.start /\ t.asked = s.asked /\ t.period = s.period
      BY <2>0, <3>3, <3>8 DEF PointsGood, PointsKept
    <3> HIDE DEF t
    <3>6. PointsGood(t, chain.last)
      BY <2>0, <3>2, <3>3, <3>4, <3>5 DEF PointsGood
    <3>7. PointsTyped'
      BY <1>15, <2>1, <3>1, <3>5, <3>6 DEF Points!Happens, PointsTyped
    <3> QED BY <1>2, <3>1, <3>7
  <2>3. CASE ~Points!GoesOn(s)
    <3>1. Points!Happens([chain EXCEPT !.points = chain.points + 1, !.stored = chain.stored \ {s}])
      <4>1. (chain.stored \ {s}) \cup {} = chain.stored \ {s}
        OBVIOUS
      <4> QED BY <1>16, <2>3, <4>1 DEF Points!MakePoint
    <3>2. PointsTyped'
      BY <1>15, <2>0, <2>1, <3>1 DEF Points!Happens, PointsTyped
    <3> QED BY <1>2, <3>1, <3>2
  <2> QED BY <2>2, <2>3
<1>17. ASSUME NEW s \in chain.stored, Points!Refer(s) PROVE PointsInv'
  <2>0. PointsGood(s, chain.last) /\ chain.points \in 0 .. MaxPoints
    BY <1>0 DEF PointsTyped, PointsOf
  <2> DEFINE refs == 1 - s.refs
             t == [s EXCEPT !.refs = refs]
  <2>1. Points!Happens([chain EXCEPT !.stored = (chain.stored \ {s}) \cup {t}])
    BY <1>17 DEF Points!Refer
  <2>2. refs \in 0 .. 1
    BY <2>0 DEF PointsGood, PointsKept
  <2> HIDE DEF refs
  <2>3. /\ t \in PointsKept /\ t.id = s.id /\ t.at = s.at /\ t.remaining = s.remaining
        /\ t.start = s.start /\ t.asked = s.asked /\ t.period = s.period
    BY <2>0, <2>2 DEF PointsGood, PointsKept
  <2> HIDE DEF t
  <2>4. PointsGood(t, chain.last)
    BY <2>0, <2>3 DEF PointsGood
  <2>5. PointsOf([chain EXCEPT !.points = chain.points, !.stored = (chain.stored \ {s}) \cup {t}])
    BY <1>15, <2>0, <2>3, <2>4
  <2>6. PointsTyped'
    BY <1>0, <2>1, <2>5 DEF Points!Happens, PointsTyped, PointsOf
  <2> QED BY <1>2, <2>1, <2>6
<1>18. ASSUME NEW s \in chain.stored, Points!OthersRemove(s) PROVE PointsInv'
  BY <1>0, <1>2, <1>18 DEF Points!OthersRemove, Points!Happens, PointsTyped, PointsOf
<1>19. CASE Points!Tick
  <2>1. chain.now + 1 \in 1 .. MaxDate
    BY <1>0, <1>19, DistributionAssumption DEF Points!Tick, PointsTyped, PointsOf
  <2> QED BY <1>0, <1>2, <1>19, <2>1 DEF Points!Tick, Points!Happens, PointsTyped, PointsOf
<1> QED
  BY <1>5, <1>6, <1>7, <1>8, <1>9, <1>10, <1>11, <1>12, <1>13, <1>14, <1>15, <1>16, <1>17, <1>18, <1>19
     DEF Points!Next

LEMMA PointsStutter == PointsInv /\ UNCHANGED <<chain, call>> => PointsInv'
BY DEF PointsInv, PointsTyped, PointsCall, PointsCheckpoint, PointsCreate,
       PointsRemove, Fresh, PointsOf, Points!InTime, Points!Found, Points!Unused,
       Of, Idle

LEMMA PointsOK == PointsInv => Points!TypeOK /\ Points!RevertedOnlyIfStale
<1> SUFFICES ASSUME PointsInv PROVE Points!TypeOK /\ Points!RevertedOnlyIfStale
  OBVIOUS
<1>1. Points!TypeOK
  <2>1. call.op \in {"none", "checkpoint", "create", "remove"} /\ call.left \subseteq {"clock", "schedules", "references"}
    BY DEF PointsInv, PointsCall, PointsCheckpoint, PointsCreate, PointsRemove, Of, Idle
  <2>2. \A s \in chain.stored : s.id <= chain.last /\ s.refs \in 0 .. 1 /\ s.remaining \in 0 .. s.asked
    <3> SUFFICES ASSUME NEW s \in chain.stored PROVE s.id <= chain.last /\ s.refs \in 0 .. 1 /\ s.remaining \in 0 .. s.asked
      OBVIOUS
    <3>1. PointsGood(s, chain.last)
      BY DEF PointsInv, PointsTyped, PointsOf
    <3>2. s.refs \in 0 .. 1 /\ s.remaining \in Nat /\ s.asked \in Nat /\ s.id <= chain.last /\ s.remaining <= s.asked
      BY <3>1 DEF PointsGood, PointsKept
    <3> QED BY <3>2
  <2> QED BY <2>1, <2>2 DEF PointsInv, PointsTyped, PointsOf, Points!TypeOK
<1>2. ASSUME Points!Built, Points!Fresh PROVE Points!Accepted
  <2> USE DEF Points!Built, Points!Fresh, Fresh
  <2>1. CASE PointsCheckpoint
    BY <2>1 DEF PointsCheckpoint, Of, Points!Accepted
  <2>2. CASE PointsCreate
    <3>1. call.op = "create" /\ call.args.start \in Nat /\ Points!InTime(call.args.start)
      BY <1>2, <2>2, CheckpointAssumption DEF PointsCreate, Of, Points!Specs
    <3>2. chain.now \in Nat /\ NoDate \in Nat /\ chain.now < NoDate
      BY CheckpointAssumption, DistributionAssumption DEF PointsInv, PointsTyped, PointsOf
    <3> QED BY <3>1, <3>2 DEF Points!InTime, Points!Accepted
  <2>3. CASE PointsRemove
    BY <1>2, <2>3 DEF PointsRemove, Of, Points!Found, Points!Unused, Points!Accepted
  <2> QED BY <1>2, <2>1, <2>2, <2>3 DEF PointsInv, PointsCall, Idle
<1> QED BY <1>1, <1>2 DEF Points!RevertedOnlyIfStale

LEMMA PointsRefused == PointsInv /\ Points!Next => Points!TurnedAwayRightly
<1> SUFFICES ASSUME PointsInv, Points!Next, Points!TurnedAway, Points!Fresh
             PROVE  ~Points!Accepted
  BY DEF Points!TurnedAwayRightly
<1> USE DEF Points!Answers, Points!Check, Points!Keep
<1>0. PointsCall /\ PointsTyped /\ ~Points!Built /\ call.op # "none" /\ call'.op = "none"
  BY DEF PointsInv, Points!TurnedAway, Points!Ends
<1>1. CASE Points!ReadClock
  <2>1. PointsCreate /\ call.op = "create"
    BY <1>0, <1>1, PointsStages DEF Points!ReadClock
  <2>2. ~Points!InTime(call.args.start)
    BY <1>0, <1>1, <2>1 DEF Points!ReadClock, PointsCreate, Of
  <2>3. call.args.start \in Nat /\ chain.now \in Nat
    BY <1>0, <2>1, CheckpointAssumption DEF PointsCreate, Of, Points!Specs, PointsTyped, PointsOf
  <2> QED BY <2>1, <2>2, <2>3 DEF Points!InTime, Points!Accepted
<1>2. CASE Points!ReadSchedules
  <2>1. PointsRemove /\ call.op = "remove"
    BY <1>0, <1>2, PointsStages DEF Points!ReadSchedules
  <2>2. Points!Found(call.args.id) = {}
    BY <1>0, <1>2, <2>1 DEF Points!ReadSchedules, PointsRemove, Of
  <2> QED BY <2>1, <2>2 DEF Points!Found, Points!Accepted
<1>3. CASE Points!ReadReferences
  <2>1. PointsRemove /\ call.op = "remove"
    BY <1>0, <1>3, PointsStages DEF Points!ReadReferences
  <2>2. ~Points!Unused(call.args.id)
    BY <1>0, <1>3, <2>1 DEF Points!ReadReferences, PointsRemove, Of
  <2> QED BY <1>0, <2>1, <2>2 DEF Points!Found, Points!Unused, Points!Accepted, PointsTyped, PointsOf
<1>4. CASE Points!DispatchCheckpoint \/ Points!DispatchCreate \/ Points!DispatchRemove
  BY <1>0, <1>4 DEF Points!DispatchCheckpoint, Points!DispatchCreate, Points!DispatchRemove, Points!Dispatches
<1>5. ASSUME NEW after, Points!Happens(after) PROVE FALSE
  BY <1>0, <1>5, PointsStages DEF Points!Happens
<1> QED
  BY <1>0, <1>1, <1>2, <1>3, <1>4, <1>5 DEF Points!Next, Points!Calls, Points!CreateCheckpoint, Points!CreateSchedule,
     Points!RemoveSchedule, Points!MakePoint, Points!Refer, Points!OthersRemove, Points!Tick
(* The points that are left, and the next date, tell the last date.        *)
LEMMA PointsLast == PointsInv => Points!ExpiryIsLast
<1> SUFFICES ASSUME PointsInv, NEW s \in chain.stored
             PROVE  Points!ExpiryDate(s) = IF s.period = 0 THEN s.start
                                      ELSE IF s.asked = 0 THEN NoDate
                                      ELSE s.start + s.period * (s.asked - 1)
  BY DEF Points!ExpiryIsLast
<1>1. PointsGood(s, chain.last)
  BY DEF PointsInv, PointsTyped, PointsOf
<1> QED BY <1>1 DEF PointsGood, Points!ExpiryDate

LEMMA PointsDone == PointsInv /\ Points!Next => Points!ExpiryIsLast'
<1>1. PointsInv /\ Points!Next => PointsInv'
  BY PointsNext
<1>2. PointsInv' => Points!ExpiryIsLast'
  BY PointsLast, PTL
<1> QED BY <1>1, <1>2

-----------------------------------------------------------------------------
(* CaDefaults *)

LEMMA DefaultsSizes == \A set : Defaults!Cardinality(set) = Cardinality(set)
BY DEF Cardinality, Defaults!Cardinality

LEMMA DefaultsInit == Defaults!Init => DefaultsInv
BY DEF Defaults!Init, DefaultsInv, DefaultsTyped, DefaultsCall, Defaults!Idle, Idle, Defaults!NoArgs, NoArgs

(* The taxes that are set take the place of the holders' own.              *)
LEMMA DefaultsTaxed ==
  ASSUME NEW taxes \in Defaults!OwnTaxes, NEW list \in TaxLists
  PROVE  /\ Defaults!Overridden(taxes, list) \subseteq Holders \X Taxes
         /\ \A t, u \in Defaults!Overridden(taxes, list) : t[1] = u[1] => t = u
         /\ Defaults!Pairs(list) \subseteq Defaults!Overridden(taxes, list)
         /\ taxes \subseteq Defaults!Pairs(list) => Defaults!Overridden(taxes, list) \subseteq Defaults!Pairs(list)
<1> DEFINE others == {t \in taxes : \A i \in DOMAIN list : list[i][1] # t[1]}
           given == {list[i] : i \in {i \in DOMAIN list : \A j \in DOMAIN list : list[j][1] = list[i][1] => j <= i}}
<1>1. /\ list \in Seq(Holders \X Taxes) /\ DOMAIN list = 1 .. Len(list) /\ Len(list) \in Nat
      /\ \A i, j \in DOMAIN list : list[i][1] = list[j][1] => list[i] = list[j]
      /\ \A i \in DOMAIN list : list[i] \in Holders \X Taxes
  BY DefaultsAssumption
<1>2. taxes \subseteq Holders \X Taxes /\ \A t, u \in taxes : t[1] = u[1] => t = u
  BY DEF Defaults!OwnTaxes
<1>3. Defaults!Overridden(taxes, list) = others \cup given
  BY DEF Defaults!Overridden
<1>4. others \subseteq taxes /\ given \subseteq Defaults!Pairs(list) /\ Defaults!Pairs(list) \subseteq Holders \X Taxes
  BY <1>1 DEF Defaults!Pairs
<1>5. \A t \in others, u \in given : t[1] # u[1]
  OBVIOUS
<1>6. \A t, u \in given : t[1] = u[1] => t = u
  BY <1>1
<1>7. Defaults!Pairs(list) \subseteq given
  <2> SUFFICES ASSUME NEW k \in DOMAIN list PROVE list[k] \in given
    BY DEF Defaults!Pairs
  <2> DEFINE far == {Len(list) - j : j \in {j \in DOMAIN list : list[j][1] = list[k][1]}}
  <2>1. far \in SUBSET Nat /\ far # {}
    BY <1>1
  <2>2. PICK x \in far : \A y \in far : x <= y
    BY <2>1, NatSmallest
  <2>3. PICK i \in DOMAIN list : list[i][1] = list[k][1] /\ x = Len(list) - i
    BY <2>2
  <2>4. ASSUME NEW j \in DOMAIN list, list[j][1] = list[i][1] PROVE j <= i
    <3>1. Len(list) - j \in far
      BY <2>3, <2>4
    <3>2. Len(list) - i <= Len(list) - j
      BY <2>2, <2>3, <3>1
    <3> QED BY <1>1, <3>2
  <2>5. list[i] \in given /\ list[i] = list[k]
    BY <1>1, <2>3, <2>4
  <2> QED BY <2>5
<1>8. others = {} \/ ~(taxes \subseteq Defaults!Pairs(list))
  <2> SUFFICES ASSUME NEW t \in others, taxes \subseteq Defaults!Pairs(list) PROVE FALSE
    OBVIOUS
  <2>1. t \in Defaults!Pairs(list) /\ \A i \in DOMAIN list : list[i][1] # t[1]
    OBVIOUS
  <2> QED BY <2>1 DEF Defaults!Pairs
<1> HIDE DEF others, given
<1> QED BY <1>2, <1>3, <1>4, <1>5, <1>6, <1>7, <1>8

LEMMA DefaultsStages ==
  ASSUME DefaultsCall
  PROVE  /\ call.op = "none" => call = Idle
         /\ [call EXCEPT !.stale = TRUE].op = call.op
         /\ call.op = "modify" => DefaultsModify
         /\ call.op = "link" => DefaultsLink
BY DEF DefaultsCall, DefaultsModify, DefaultsLink, Of, Idle

LEMMA DefaultsStale ==
  ASSUME DefaultsCall, NEW after, Defaults!Happens(after), chain'.docs \subseteq chain.docs PROVE DefaultsCall'
<1>1. CASE call = Idle
  BY <1>1 DEF Defaults!Happens, DefaultsCall, Idle
<1>2. CASE call # Idle
  <2>1. call' = [call EXCEPT !.stale = TRUE]
    BY <1>2, DefaultsStages DEF Defaults!Happens
  <2>2. CASE DefaultsModify
    BY <2>1, <2>2 DEF DefaultsCall, DefaultsModify, Fresh, Of
  <2>3. CASE DefaultsLink
    <3>1. /\ Of(call, "link", [list : DocLists], {"entries"})' /\ ~Fresh'
          /\ call'.left = call.left /\ call'.read = call.read /\ call'.args = call.args
      BY <2>1, <2>3 DEF DefaultsLink, Of, Fresh
    <3>2. ASSUME NEW ids, NEW wanted, DefaultsBacked(ids, wanted)
          PROVE  \E docs \in Defaults!Docs : chain'.docs \subseteq docs /\ DefaultsChosen(docs, ids, wanted)
      BY <3>2 DEF DefaultsBacked
    <3>3. ASSUME call.left = {} PROVE DefaultsBacked(call.read.ids, Defaults!Wanted(call.args.list))'
      <4>1. PICK docs \in Defaults!Docs : chain'.docs \subseteq docs /\ DefaultsChosen(docs, call.read.ids, Defaults!Wanted(call.args.list))
        BY <2>3, <3>2, <3>3 DEF DefaultsLink
      <4>2. DefaultsChosen(docs, call.read.ids, Defaults!Wanted(call.args.list))'
        BY <3>1, <4>1
      <4> QED BY <3>1, <4>1, <4>2 DEF DefaultsBacked
    <3> QED BY <2>3, <3>1, <3>3 DEF DefaultsCall, DefaultsLink
  <2> QED BY <1>2, <2>2, <2>3 DEF DefaultsCall
<1> QED BY <1>1, <1>2

LEMMA DefaultsNext == DefaultsInv /\ Defaults!Next => DefaultsInv'
<1> SUFFICES ASSUME DefaultsInv, Defaults!Next PROVE DefaultsInv'
  OBVIOUS
<1> USE DEF Idle, NoArgs, Defaults!Idle, Defaults!NoArgs, Defaults!Calls, Defaults!Answers, Defaults!Check, Defaults!Keep,
        Defaults!Refuse, Defaults!Built, Defaults!Dispatches
<1>0. DefaultsCall /\ DefaultsTyped
  BY DEF DefaultsInv
<1>1. ASSUME UNCHANGED chain, DefaultsCall' PROVE DefaultsInv'
  BY <1>0, <1>1 DEF DefaultsInv, DefaultsTyped
<1>2. ASSUME NEW after, Defaults!Happens(after), DefaultsTyped', chain'.docs \subseteq chain.docs PROVE DefaultsInv'
  BY <1>0, <1>2, DefaultsStale DEF DefaultsInv
<1>3. ASSUME DefaultsTyped', call' = Idle PROVE DefaultsInv'
  BY <1>3 DEF DefaultsInv, DefaultsCall
<1>4. ASSUME UNCHANGED chain, call' = Idle PROVE DefaultsInv'
  BY <1>1, <1>4 DEF DefaultsCall
<1>5. ASSUME NEW args \in Defaults!Configs, Defaults!Modify(args) PROVE DefaultsInv'
  <2>1. DefaultsModify'
    BY <1>5 DEF Defaults!Modify, DefaultsModify, Of
  <2> QED BY <1>1, <1>5, <2>1 DEF Defaults!Modify, DefaultsCall
<1>6. ASSUME NEW list \in DocLists, Defaults!Link(list) PROVE DefaultsInv'
  <2>1. DefaultsLink'
    BY <1>6 DEF Defaults!Link, DefaultsLink, Of
  <2> QED BY <1>1, <1>6, <2>1 DEF Defaults!Link, DefaultsCall
<1>7. CASE Defaults!ReadConfig /\ call' # Idle
  <2>1. DefaultsModify
    BY <1>0, <1>7, DefaultsStages DEF Defaults!ReadConfig
  <2>2. call' = [call EXCEPT !.left = @ \ {"config"}] /\ chain' = chain /\ Defaults!MayModify
    BY <1>7, <2>1 DEF Defaults!ReadConfig, DefaultsModify, Of
  <2>3. DefaultsModify'
    BY <2>1, <2>2 DEF DefaultsModify, Of, Fresh, Defaults!MayModify
  <2> QED BY <1>1, <2>2, <2>3 DEF DefaultsCall
<1>8. CASE Defaults!ReadEntries /\ call' # Idle
  <2>1. DefaultsLink
    BY <1>0, <1>8, DefaultsStages DEF Defaults!ReadEntries
  <2>2. PICK ids \in Defaults!Ids(Defaults!Wanted(call.args.list)) :
           call' = [call EXCEPT !.read = [ids |-> ids], !.left = {}] /\ chain' = chain
    BY <1>8, <2>1 DEF Defaults!ReadEntries, DefaultsLink, Of
  <2>3. chain.docs \in Defaults!Docs /\ Defaults!Docs \subseteq SUBSET ({1, 2} \X DocContents)
    BY <1>0 DEF DefaultsTyped, Defaults!Chains, Defaults!Docs
  <2>4. ids \subseteq {d[1] : d \in chain.docs} /\ DefaultsChosen(chain.docs, ids, Defaults!Wanted(call.args.list))
    BY <2>2 DEF Defaults!Ids, DefaultsChosen
  <2>5. ids \in SUBSET {1, 2}
    <3>1. \A d \in chain.docs : d[1] \in {1, 2}
      BY <2>3
    <3> QED BY <2>4, <3>1
  <2>6. Of(call, "link", [list : DocLists], {"entries"})' /\ call'.left = {} /\ call'.read = [ids |-> ids] /\ call'.args = call.args
    BY <2>1, <2>2 DEF DefaultsLink, Of
  <2>7. DefaultsBacked(ids, Defaults!Wanted(call.args.list))
    BY <2>3, <2>4 DEF DefaultsBacked
  <2>8. DefaultsBacked(ids, Defaults!Wanted(call.args.list))'
    BY <2>2, <2>3, <2>4, <2>6 DEF DefaultsBacked, DefaultsChosen
  <2>9. DefaultsLink'
    BY <2>5, <2>6, <2>8 DEF DefaultsLink
  <2> QED BY <1>1, <2>2, <2>9 DEF DefaultsCall
<1>9. CASE call' = Idle /\ (Defaults!ReadConfig \/ Defaults!ReadEntries)
  BY <1>0, <1>4, <1>9 DEF Defaults!ReadConfig, Defaults!ReadEntries
<1>10. ASSUME NEW targets \in {Defaults!Aimed(t) : t \in Defaults!Inputs}, NEW tax \in Taxes, NEW taxes \in Defaults!OwnTaxes
      PROVE  [chain EXCEPT !.targets = targets, !.tax = tax, !.taxes = taxes] \in Defaults!Chains
  <2>1. targets \in [identities : {{t[i] : i \in DOMAIN t} : t \in TargetLists}, treatment : Defaults!Treatments]
    BY DEF Defaults!Aimed, Defaults!Inputs, Defaults!Wanted
  <2> QED BY <1>0, <2>1 DEF DefaultsTyped, Defaults!Chains
<1>11. CASE Defaults!DispatchModify /\ Defaults!Accepted
  <2>1. DefaultsModify
    BY <1>0, <1>11, DefaultsStages DEF Defaults!DispatchModify
  <2> DEFINE targets == IF call.args.targets = NotPassed THEN chain.targets ELSE Defaults!Aimed(call.args.targets)
             tax == Defaults!Given(call.args.tax, chain.tax)
  <2>2. call' = Idle /\ chain' = [chain EXCEPT !.targets = targets, !.tax = tax, !.taxes = Defaults!TaxesAfter]
    BY <1>11 DEF Defaults!DispatchModify
  <2>3. call.args \in Defaults!Configs /\ chain \in Defaults!Chains
    BY <1>0, <2>1 DEF DefaultsModify, Of, DefaultsTyped
  <2>4. targets \in {Defaults!Aimed(t) : t \in Defaults!Inputs}
    <3>1. CASE call.args.targets = NotPassed
      <4>1. PICK t \in TargetLists, way \in Defaults!Treatments :
              chain.targets = [identities |-> {t[i] : i \in DOMAIN t}, treatment |-> way]
        BY <2>3 DEF Defaults!Chains
      <4>2. chain.targets = Defaults!Aimed([identities |-> t, treatment |-> way])
        BY <4>1 DEF Defaults!Aimed, Defaults!Wanted
      <4>3. [identities |-> t, treatment |-> way] \in Defaults!Inputs
        BY DEF Defaults!Inputs
      <4> QED BY <3>1, <4>2, <4>3
    <3>2. CASE call.args.targets # NotPassed
      BY <2>3, <3>2 DEF Defaults!Configs
    <3> QED BY <3>1, <3>2
  <2>5. tax \in Taxes
    BY <2>3 DEF Defaults!Configs, Defaults!Chains, Defaults!Given
  <2>6. Defaults!Cardinality(Defaults!TaxesAfter) <= MaxDidWhts
    BY <1>11 DEF Defaults!DispatchModify, Defaults!Accepted
  <2>7. Defaults!TaxesAfter \in Defaults!OwnTaxes
    <3>1. CASE call.args.taxes = NotPassed
      BY <2>3, <3>1 DEF Defaults!TaxesAfter, Defaults!Chains
    <3>2. CASE call.args.taxes # NotPassed
      <4>1. call.args.taxes \in TaxLists /\ chain.taxes \in Defaults!OwnTaxes
        BY <2>3, <3>2 DEF Defaults!Configs, Defaults!Chains
      <4>2. Defaults!TaxesAfter = Defaults!Overridden(chain.taxes, call.args.taxes)
        BY <3>2 DEF Defaults!TaxesAfter
      <4> QED BY <2>6, <4>1, <4>2, DefaultsTaxed DEF Defaults!OwnTaxes
    <3> QED BY <3>1, <3>2
  <2> HIDE DEF targets, tax
  <2>8. DefaultsTyped'
    BY <1>10, <2>2, <2>4, <2>5, <2>7 DEF DefaultsTyped
  <2> QED BY <1>3, <2>2, <2>8
<1>12. CASE Defaults!DispatchModify /\ ~Defaults!Accepted
  BY <1>4, <1>12 DEF Defaults!DispatchModify
<1>13. CASE Defaults!DispatchLink
  <2>1. DefaultsLink /\ call.left = {}
    BY <1>0, <1>13, DefaultsStages DEF Defaults!DispatchLink
  <2>2. call' = Idle /\ (chain' = chain \/ chain' = [chain EXCEPT !.linked = call.read.ids])
    BY <1>13 DEF Defaults!DispatchLink
  <2>3. chain' = chain \/ DefaultsTyped'
    BY <1>0, <2>1, <2>2 DEF DefaultsLink, DefaultsTyped, Defaults!Chains
  <2> QED BY <1>3, <1>4, <2>2, <2>3
<1>14. ASSUME NEW tax \in Taxes, Defaults!OthersSet(tax) PROVE DefaultsInv'
  <2>1. Defaults!Happens([chain EXCEPT !.tax = tax])
    BY <1>14 DEF Defaults!OthersSet
  <2>2. DefaultsTyped' /\ chain'.docs \subseteq chain.docs
    BY <1>0, <2>1 DEF Defaults!Happens, DefaultsTyped, Defaults!Chains
  <2> QED BY <1>2, <2>1, <2>2
<1>15. ASSUME NEW list \in TaxLists, Defaults!Pairs(list) \in Defaults!OwnTaxes, Defaults!OthersTax(list) PROVE DefaultsInv'
  <2>1. Defaults!Happens([chain EXCEPT !.taxes = Defaults!Pairs(list)])
    BY <1>15 DEF Defaults!OthersTax
  <2>2. DefaultsTyped' /\ chain'.docs \subseteq chain.docs
    BY <1>0, <1>15, <2>1 DEF Defaults!Happens, DefaultsTyped, Defaults!Chains
  <2> QED BY <1>2, <2>1, <2>2
<1>16. ASSUME NEW new \in Defaults!Inputs, Defaults!OthersTarget(new) PROVE DefaultsInv'
  <2>1. Defaults!Happens([chain EXCEPT !.targets = Defaults!Aimed(new)])
    BY <1>16 DEF Defaults!OthersTarget
  <2> DEFINE targets == Defaults!Aimed(new)
  <2>3. targets \in [identities : {{t[i] : i \in DOMAIN t} : t \in TargetLists}, treatment : Defaults!Treatments]
    BY DEF Defaults!Aimed, Defaults!Inputs, Defaults!Wanted
  <2> HIDE DEF targets
  <2>4. chain' = [chain EXCEPT !.targets = targets]
    BY <2>1 DEF Defaults!Happens, targets
  <2>2. DefaultsTyped' /\ chain'.docs \subseteq chain.docs
    BY <1>0, <2>3, <2>4 DEF DefaultsTyped, Defaults!Chains
  <2> QED BY <1>2, <2>1, <2>2
<1>17. ASSUME NEW d \in chain.docs, Defaults!OthersRemove(d) PROVE DefaultsInv'
  <2> DEFINE docs == chain.docs \ {d}
             linked == chain.linked \ {d[1]}
  <2>1. Defaults!Happens([chain EXCEPT !.docs = docs, !.linked = linked])
    BY <1>17 DEF Defaults!OthersRemove
  <2>2. docs \in Defaults!Docs /\ linked \in SUBSET {1, 2} /\ docs \subseteq chain.docs
    BY <1>0 DEF DefaultsTyped, Defaults!Chains, Defaults!Docs
  <2> HIDE DEF docs, linked
  <2>3. DefaultsTyped' /\ chain'.docs \subseteq chain.docs
    BY <1>0, <2>1, <2>2 DEF Defaults!Happens, DefaultsTyped, Defaults!Chains
  <2> QED BY <1>2, <2>1, <2>3
<1> QED
  BY <1>5, <1>6, <1>7, <1>8, <1>9, <1>10, <1>11, <1>12, <1>13, <1>14, <1>15, <1>16, <1>17
     DEF Defaults!Next

LEMMA DefaultsStutter == DefaultsInv /\ UNCHANGED <<chain, call>> => DefaultsInv'
BY DEF DefaultsInv, DefaultsTyped, Defaults!Chains, DefaultsModify, Of, Fresh, Defaults!MayModify, DefaultsLink,
       DefaultsBacked, DefaultsChosen, DefaultsCall, Idle

LEMMA DefaultsOK == DefaultsInv => Defaults!TypeOK /\ Defaults!RevertedOnlyIfStale
<1> SUFFICES ASSUME DefaultsInv PROVE Defaults!TypeOK /\ Defaults!RevertedOnlyIfStale
  OBVIOUS
<1>1. Defaults!TypeOK
  BY DEF DefaultsInv, DefaultsTyped, DefaultsCall, DefaultsModify, DefaultsLink, Of, Idle,
         Defaults!TypeOK, Defaults!Chains, Defaults!Configs
<1>2. ASSUME Defaults!Built, Defaults!Fresh PROVE Defaults!Accepted \/ (call.op = "modify" /\ ~(chain.taxes \subseteq Defaults!Pairs(call.args.taxes)))
  <2> USE DEF Defaults!Built, Defaults!Fresh, Fresh
  <2>1. CASE DefaultsModify
    <3>1. call.op = "modify" /\ call.args \in Defaults!Configs /\ chain.taxes \in Defaults!OwnTaxes
      BY <2>1 DEF DefaultsModify, Of, DefaultsInv, DefaultsTyped, Defaults!Chains
    <3>2. CASE call.args.taxes = NotPassed
      BY <3>1, <3>2 DEF Defaults!Accepted, Defaults!TaxesAfter, Defaults!OwnTaxes
    <3>3. CASE call.args.taxes # NotPassed /\ chain.taxes \subseteq Defaults!Pairs(call.args.taxes)
      <4>1. call.args.taxes \in TaxLists /\ Len(call.args.taxes) <= MaxDidWhts
        BY <2>1, <3>1, <3>3 DEF DefaultsModify, Defaults!Configs
      <4>2. call.args.taxes \in Seq(Holders \X Taxes) /\ MaxDidWhts \in Nat /\ Len(call.args.taxes) \in Nat
        BY <4>1, DefaultsAssumption
      <4> DEFINE pairs == Defaults!Pairs(call.args.taxes)
      <4>3. IsFiniteSet(pairs) /\ Cardinality(pairs) \in Nat /\ Cardinality(pairs) <= Len(call.args.taxes)
        <5>1. Listed(call.args.taxes) = pairs
          BY DEF Listed, Defaults!Pairs
        <5> HIDE DEF pairs
        <5> QED BY <4>2, <5>1, ListedFew
      <4> DEFINE after == Defaults!Overridden(chain.taxes, call.args.taxes)
      <4>4. after \in SUBSET pairs
        BY <3>1, <3>3, <4>1, DefaultsTaxed
      <4> HIDE DEF pairs, after
      <4>5. IsFiniteSet(after) /\ Cardinality(after) <= Cardinality(pairs)
        BY <4>3, <4>4, FS_Subset, Zenon
      <4>6. Cardinality(after) \in Nat
        BY <4>5, FS_CardinalityType, Zenon
      <4>7. Defaults!Cardinality(after) <= MaxDidWhts
        <5>1. Cardinality(after) <= MaxDidWhts
          BY <4>1, <4>2, <4>3, <4>5, <4>6
        <5> QED BY <5>1, DefaultsSizes, Zenon
      <4> QED BY <3>1, <3>3, <4>7 DEF Defaults!Accepted, Defaults!TaxesAfter, after
    <3> QED BY <3>1, <3>2, <3>3
  <2>2. CASE DefaultsLink
    BY <1>2, <2>2 DEF DefaultsLink, DefaultsBacked, DefaultsChosen, Of, Defaults!Accepted
  <2> QED BY <1>2, <2>1, <2>2 DEF DefaultsInv, DefaultsCall, Idle
<1> QED BY <1>1, <1>2 DEF Defaults!RevertedOnlyIfStale

(* A list as long as what is stored, that has it all, is the same.         *)
LEMMA DefaultsSame ==
  ASSUME NEW S, NEW list \in Seq(S), NEW stored, Defaults!SameAsStored(stored, list)
  PROVE  {list[i] : i \in DOMAIN list} = stored
<1> DEFINE listed == {list[i] : i \in DOMAIN list}
<1>1. stored \subseteq listed /\ Defaults!Cardinality(stored) = Len(list)
  BY DEF Defaults!SameAsStored
<1>2. IsFiniteSet(listed) /\ Cardinality(listed) \in Nat /\ Cardinality(listed) <= Len(list)
  BY ListedFew DEF Listed
<1> HIDE DEF listed
<1>3. Cardinality(stored) = Len(list)
  BY <1>1, DefaultsSizes, Zenon
<1>4. IsFiniteSet(stored) /\ Cardinality(stored) <= Cardinality(listed) /\ (Cardinality(listed) = Cardinality(stored) => listed = stored)
  <2>1. stored \in SUBSET listed
    BY <1>1
  <2> QED BY <1>2, <2>1, FS_Subset, Zenon
<1>5. Len(list) \in Nat
  OBVIOUS
<1>6. Cardinality(listed) = Cardinality(stored)
  BY <1>2, <1>3, <1>4, <1>5
<1> QED BY <1>4, <1>6 DEF listed

LEMMA DefaultsRefused == DefaultsInv /\ Defaults!Next => Defaults!TurnedAwayRightly
<1> SUFFICES ASSUME DefaultsInv, Defaults!Next, Defaults!TurnedAway, Defaults!Fresh
             PROVE  DefaultsBarred
  BY DEF Defaults!TurnedAwayRightly, DefaultsBarred
<1> USE DEF Defaults!Answers, Defaults!Check, Defaults!Keep, DefaultsBarred
<1>0. DefaultsCall /\ DefaultsTyped /\ ~Defaults!Built /\ call.op # "none" /\ call'.op = "none"
  BY DEF DefaultsInv, Defaults!TurnedAway, Defaults!Ends
<1> USE DEF Defaults!Keep, Defaults!Refuse, Defaults!Idle, Idle
<1>1. DOMAIN call = {"op", "args", "read", "left", "stale"}
  BY <1>0 DEF DefaultsCall, DefaultsModify, DefaultsLink, Of
<1>2. CASE Defaults!ReadConfig
  <2>1. DefaultsModify
    BY <1>0, <1>2, DefaultsStages DEF Defaults!ReadConfig
  <2>2. ~Defaults!MayModify /\ call.op = "modify" /\ call.args \in Defaults!Configs
    BY <1>0, <1>2, <2>1 DEF Defaults!ReadConfig, DefaultsModify, Of
  <2>3. CASE call.args.targets # NotPassed /\ Defaults!SameTargets(chain.targets, call.args.targets)
    <3>1. call.args.targets.identities \in Seq(Holders)
      BY <2>2, <2>3, DefaultsAssumption DEF Defaults!Configs, Defaults!Inputs
    <3>2. Defaults!Wanted(call.args.targets.identities) = chain.targets.identities
      BY <2>3, <3>1, DefaultsSame DEF Defaults!Wanted, Defaults!SameTargets
    <3>3. chain.targets = [identities |-> chain.targets.identities, treatment |-> chain.targets.treatment]
      BY <1>0 DEF DefaultsTyped, Defaults!Chains
    <3>4. Defaults!Aimed(call.args.targets) = chain.targets
      BY <2>3, <3>2, <3>3 DEF Defaults!Aimed, Defaults!SameTargets
    <3> QED BY <2>2, <2>3, <3>4
  <2>4. CASE call.args.taxes # NotPassed /\ Defaults!SameAsStored(chain.taxes, call.args.taxes)
    <3>1. call.args.taxes \in Seq(Holders \X Taxes)
      BY <2>2, <2>4, DefaultsAssumption DEF Defaults!Configs
    <3>2. Defaults!Pairs(call.args.taxes) = chain.taxes
      BY <2>4, <3>1, DefaultsSame DEF Defaults!Pairs
    <3> QED BY <2>2, <2>4, <3>2
  <2> QED BY <2>2, <2>3, <2>4 DEF Defaults!MayModify
<1>3. CASE Defaults!ReadEntries
  <2>1. call.op = "link"
    BY <1>3 DEF Defaults!ReadEntries
  <2>2. \E w \in Defaults!Wanted(call.args.list) : \A d \in chain.docs : d[2] # w
    BY <1>0, <1>1, <1>3 DEF Defaults!ReadEntries
  <2> QED BY <2>1, <2>2
<1>4. ASSUME NEW after, Defaults!Happens(after) PROVE FALSE
  BY <1>0, <1>4, DefaultsStages DEF Defaults!Happens
<1> QED
  BY <1>0, <1>1, <1>2, <1>3, <1>4
     DEF Defaults!Next, Defaults!Calls, Defaults!Dispatches, Defaults!Modify, Defaults!Link,
         Defaults!DispatchModify, Defaults!DispatchLink, Defaults!OthersSet, Defaults!OthersTax,
         Defaults!OthersTarget, Defaults!OthersRemove

(* Where each id is that of one document, what was chosen is still what    *)
(* was wanted while the ids are there.                                     *)
LEMMA DefaultsLinked ==
  ASSUME NEW docs \in Defaults!Docs, NEW left \in SUBSET docs, NEW ids \in SUBSET {d[1] : d \in left}, NEW list \in DocLists,
         DefaultsChosen(docs, ids, Defaults!Wanted(list))
  PROVE  /\ DefaultsPointed(left, ids) = Defaults!Wanted(list)
         /\ Cardinality(ids) = Cardinality(Defaults!Wanted(list))
<1> DEFINE chosen == {d \in docs : d[1] \in ids}
           of(c) == {d \in docs : d[1] \in ids /\ d[2] = c}
           wanted == Defaults!Wanted(list)
<1>1. docs \subseteq {1, 2} \X DocContents /\ \A d, e \in docs : d[1] = e[1] => d = e
  BY DEF Defaults!Docs
<1>2. chosen = {d \in left : d[1] \in ids}
  <2>1. ASSUME NEW d \in chosen PROVE d \in left
    <3>1. PICK e \in left : e[1] = d[1]
      BY <2>1
    <3> QED BY <1>1, <2>1, <3>1
  <2> QED BY <2>1
<1>3. list \in Seq(DocContents) /\ wanted \subseteq DocContents /\ IsFiniteSet(wanted)
  <2>1. list \in Seq(DocContents)
    BY DefaultsAssumption
  <2>2. Listed(list) = wanted
    BY DEF Listed, Defaults!Wanted
  <2> HIDE DEF wanted
  <2> QED BY <2>1, <2>2, ListedFew
<1>4. IsFiniteSet({1, 2})
  <2>1. IsFiniteSet({1}) /\ IsFiniteSet({1} \cup {2}) /\ {1} \cup {2} = {1, 2}
    <3>1. IsFiniteSet({1})
      BY FS_Singleton, Zenon
    <3>2. IsFiniteSet({1} \cup {2})
      BY <3>1, FS_AddElement, Zenon
    <3> QED BY <3>1, <3>2
  <2> QED BY <2>1
<1>5. IsFiniteSet(chosen) /\ \A c : IsFiniteSet(of(c))
  <2> DEFINE f == [d \in chosen |-> d[1]]
  <2>1. \A d \in chosen : d[1] \in {1, 2}
    BY <1>1
  <2>2. f \in [chosen -> {1, 2}] /\ \A a, b \in chosen : f[a] = f[b] => a = b
    BY <1>1, <2>1
  <2>3. IsFiniteSet(chosen)
    <3> HIDE DEF f, chosen
    <3>1. f \in Injection(chosen, {1, 2})
      BY <2>2 DEF Injection, IsInjective
    <3> QED BY <1>4, <3>1, FS_Injection, Zenon
  <2>4. \A c : of(c) \in SUBSET chosen
    OBVIOUS
  <2> HIDE DEF of, chosen
  <2>5. \A c : IsFiniteSet(of(c))
    BY <2>3, <2>4, FS_Subset, Zenon
  <2> QED BY <2>3, <2>5
<1>6. \A c \in DocContents : Cardinality(of(c)) = IF c \in wanted THEN 1 ELSE 0
  <2>1. \A c \in DocContents : Defaults!Cardinality(of(c)) = IF c \in wanted THEN 1 ELSE 0
    BY DEF DefaultsChosen
  <2> HIDE DEF of, wanted
  <2> QED BY <2>1, DefaultsSizes, Zenon
<1>7. \A c \in wanted : \E d : of(c) = {d}
  <2>1. \A c \in wanted : Cardinality(of(c)) = 1
    BY <1>3, <1>6
  <2> HIDE DEF of, wanted
  <2> QED BY <1>5, <2>1, FS_Singleton, Zenon
<1>8. \A c \in DocContents \ wanted : of(c) = {}
  <2>1. \A c \in DocContents \ wanted : Cardinality(of(c)) = 0
    BY <1>6
  <2> HIDE DEF of, wanted
  <2> QED BY <1>5, <2>1, FS_EmptySet, Zenon
<1>9. ASSUME NEW d \in chosen PROVE d[2] \in wanted
  <2>1. d[2] \in DocContents /\ d \in of(d[2])
    BY <1>1, <1>9
  <2> HIDE DEF of, wanted
  <2> QED BY <1>8, <2>1
<1>10. \A c \in wanted : \E d \in chosen : d[2] = c
  BY <1>7
<1>11. \A d, e \in chosen : d[2] = e[2] => d = e
  <2> SUFFICES ASSUME NEW d \in chosen, NEW e \in chosen, d[2] = e[2] PROVE d = e
    OBVIOUS
  <2>1. d \in of(d[2]) /\ e \in of(d[2]) /\ d[2] \in wanted
    BY <1>9
  <2> HIDE DEF of, wanted
  <2> QED BY <1>7, <2>1
<1>12. Cardinality(ids) = Cardinality(wanted)
  <2> DEFINE g == [d \in chosen |-> d[1]]
             h == [d \in chosen |-> d[2]]
  <2>1. g \in Bijection(chosen, ids)
    <3>1. \A i \in ids : \E d \in chosen : d[1] = i
      OBVIOUS
    <3>2. \A d, e \in chosen : d[1] = e[1] => d = e
      BY <1>1
    <3>3. \A d \in chosen : d[1] \in ids
      OBVIOUS
    <3> HIDE DEF chosen
    <3>4. g \in [chosen -> ids] /\ \A a \in chosen : g[a] = a[1]
      BY <3>3
    <3> HIDE DEF g
    <3> QED BY <3>1, <3>2, <3>4, MadeOneToOne
  <2>2. h \in Bijection(chosen, wanted)
    <3> HIDE DEF chosen, wanted
    <3>1. h \in [chosen -> wanted] /\ \A a \in chosen : h[a] = a[2]
      BY <1>9
    <3> HIDE DEF h
    <3> QED BY <1>10, <1>11, <3>1, MadeOneToOne
  <2> HIDE DEF g, h, chosen, wanted
  <2>3. ExistsBijection(chosen, ids) /\ ExistsBijection(chosen, wanted)
    BY <2>1, <2>2 DEF ExistsBijection
  <2>4. Cardinality(ids) = Cardinality(chosen) /\ Cardinality(wanted) = Cardinality(chosen)
    BY <1>5, <2>3, FS_Bijection, Zenon
  <2> QED BY <2>4
<1>13. {d[2] : d \in chosen} = wanted
  <2> HIDE DEF chosen, wanted
  <2> QED BY <1>9, <1>10
<1> QED BY <1>2, <1>12, <1>13 DEF DefaultsPointed

LEMMA DefaultsDone == DefaultsInv /\ Defaults!Next => Defaults!DoneAsAsked
<1> SUFFICES ASSUME DefaultsInv, Defaults!Next, Defaults!Built, Defaults!Ends, Defaults!Accepted PROVE Defaults!DoneAsAsked
  BY DEF Defaults!DoneAsAsked
<1>1. DefaultsTyped /\ DefaultsCall /\ call.left = {}
  BY DEF DefaultsInv, Defaults!Built
<1>2. ASSUME NEW after, Defaults!Happens(after) PROVE FALSE
  BY <1>1, <1>2, DefaultsStages DEF Defaults!Happens, Defaults!Ends
<1>3. Defaults!DispatchModify \/ Defaults!DispatchLink
  BY <1>1, <1>2 DEF Defaults!Next, Defaults!Modify, Defaults!Link, Defaults!Calls, Defaults!Built, Defaults!ReadConfig, Defaults!ReadEntries, Defaults!Answers,
     Defaults!OthersSet, Defaults!OthersTax, Defaults!OthersTarget, Defaults!OthersRemove
<1>4. CASE call.op = "modify"
  <2>1. DefaultsModify /\ Defaults!DispatchModify
    BY <1>1, <1>3, <1>4, DefaultsStages DEF Defaults!DispatchLink
  <2>2. /\ chain \in Defaults!Chains /\ call.args \in Defaults!Configs
        /\ chain' = [chain EXCEPT !.targets = IF call.args.targets = NotPassed THEN @ ELSE Defaults!Aimed(call.args.targets),
                                  !.tax = Defaults!Given(call.args.tax, @), !.taxes = Defaults!TaxesAfter]
    BY <1>1, <2>1 DEF Defaults!DispatchModify, Defaults!Dispatches, DefaultsTyped, DefaultsModify, Of
  <2>3. /\ chain'.targets = IF call.args.targets = NotPassed THEN chain.targets ELSE Defaults!Aimed(call.args.targets)
        /\ chain'.tax = Defaults!Given(call.args.tax, chain.tax) /\ chain'.taxes = Defaults!TaxesAfter
    BY <2>2 DEF Defaults!Chains
  <2>4. ASSUME call.args.taxes # NotPassed PROVE Defaults!Pairs(call.args.taxes) \subseteq Defaults!TaxesAfter
    <3>1. call.args.taxes \in TaxLists /\ chain.taxes \in Defaults!OwnTaxes
      BY <2>2, <2>4 DEF Defaults!Configs, Defaults!Chains
    <3> QED BY <2>4, <3>1, DefaultsTaxed DEF Defaults!TaxesAfter
  <2> QED BY <1>4, <2>3, <2>4 DEF Defaults!DoneAsAsked, Defaults!Given
<1>5. CASE call.op = "link"
  <2>1. DefaultsLink /\ Defaults!DispatchLink /\ call.op # "modify"
    BY <1>1, <1>3, <1>5, DefaultsStages DEF Defaults!DispatchModify
  <2>2. chain \in Defaults!Chains /\ chain' = [chain EXCEPT !.linked = call.read.ids]
    BY <1>1, <2>1 DEF Defaults!DispatchLink, Defaults!Dispatches, DefaultsTyped
  <2>3. chain'.linked = call.read.ids /\ chain'.docs = chain.docs
    BY <2>2 DEF Defaults!Chains
  <2>4. call.read.ids \in SUBSET {d[1] : d \in chain.docs} /\ call.args.list \in DocLists
    BY <2>1 DEF Defaults!Accepted, DefaultsLink, Of
  <2>5. PICK docs \in Defaults!Docs : chain.docs \in SUBSET docs /\ DefaultsChosen(docs, call.read.ids, Defaults!Wanted(call.args.list))
    BY <1>1, <2>1 DEF DefaultsLink, DefaultsBacked
  <2> DEFINE linked == DefaultsPointed(chain.docs, call.read.ids)
             wanted == Defaults!Wanted(call.args.list)
  <2>6. linked = wanted /\ Cardinality(call.read.ids) = Cardinality(wanted)
    BY <2>4, <2>5, DefaultsLinked
  <2>7. Defaults!Cardinality(call.read.ids) = Defaults!Cardinality(wanted)
    <3> HIDE DEF wanted
    <3> QED BY <2>6, DefaultsSizes, Zenon
  <2> QED BY <1>5, <2>1, <2>3, <2>6, <2>7 DEF Defaults!DoneAsAsked, DefaultsPointed
<1> QED BY <1>3, <1>4, <1>5 DEF Defaults!DispatchModify, Defaults!DispatchLink

-----------------------------------------------------------------------------
(* CheckpointBalances *)

LEMMA BalancesInit == Balances!Init => BalancesInv
<1> SUFFICES ASSUME Balances!Init PROVE BalancesInv
  OBVIOUS
<1>1. 0 \in 0 .. MaxPoints /\ <<>> \in Seq(BalancesHeld) /\ Len(<<>>) = 0 /\ DOMAIN <<>> = {} /\ <<>> = [p \in DOMAIN <<>> |-> <<>>[p]]
  BY CheckpointAssumption
<1>2. PICK held \in BalancesHeld : chain = [held |-> held, points |-> 0, updates |-> <<>>, was |-> <<>>]
  BY DEF Balances!Init, BalancesHeld
<1> QED BY <1>1, <1>2 DEF Balances!Init, BalancesInv, BalancesTyped, BalancesRecord, BalancesGood, BalancesCall, Balances!Idle, Idle, Balances!NoArgs, NoArgs

LEMMA BalancesFirst ==
  ASSUME BalancesTyped, NEW point \in 1 .. chain.points
  PROVE  \/ Balances!FirstUpdate(point) = 0 /\ \A u \in DOMAIN chain.updates : u < point
         \/ /\ Balances!FirstUpdate(point) \in DOMAIN chain.updates
            /\ chain.was[Balances!FirstUpdate(point)] = chain.was[point]
            /\ \E u \in DOMAIN chain.updates : u >= point
<1> DEFINE later == {p \in DOMAIN chain.updates : p >= point}
<1>1. later \subseteq Nat /\ chain.points \in Nat /\ DOMAIN chain.updates \subseteq 1 .. chain.points
  BY DEF BalancesTyped, BalancesGood
<1>2. CASE later = {}
  BY <1>1, <1>2 DEF Balances!FirstUpdate, Balances!None
<1>3. CASE later # {}
  <2>1. \E x \in later : \A y \in later : x <= y
    BY <1>1, <1>3, NatSmallest
  <2> DEFINE first == Balances!Min(later)
  <2>2. first \in later /\ \A y \in later : first <= y
    BY <2>1 DEF Balances!Min
  <2>3. Balances!FirstUpdate(point) = first
    BY <1>3 DEF Balances!FirstUpdate
  <2>4. first \in DOMAIN chain.updates /\ first >= point /\ first \in 1 .. chain.points
    BY <1>1, <2>2
  <2>5. \A u \in DOMAIN chain.updates : u < point \/ u >= first
    <3>1. \A u \in DOMAIN chain.updates : u \in Nat
      BY <1>1
    <3>2. ASSUME NEW u \in DOMAIN chain.updates, u >= point PROVE u >= first
      <4>1. u \in later
        BY <3>2
      <4>2. first <= u /\ first \in Nat /\ u \in Nat
        BY <1>1, <2>2, <4>1
      <4> HIDE DEF first
      <4> QED BY <4>2
    <3> HIDE DEF first
    <3> QED BY <1>1, <3>1, <3>2
  <2> HIDE DEF first
  <2>6. chain.was[first] = chain.was[point]
    BY <2>4, <2>5 DEF BalancesTyped, BalancesGood
  <2> QED BY <2>3, <2>4, <2>6
<1> QED BY <1>2, <1>3

LEMMA BalancesStages ==
  ASSUME BalancesCall
  PROVE  /\ call.op = "none" => call = Idle
         /\ [call EXCEPT !.stale = TRUE].op = call.op
         /\ call.op = "balance" /\ "updates" \in call.left => BalancesUpdates
         /\ call.op = "balance" /\ "current" \in call.left => BalancesCurrent
         /\ call.op = "all" /\ "current" \in call.left => BalancesPage
         /\ call.op = "all" /\ "updates" \in call.left => BalancesPaged
         /\ "stored" \in call.left => BalancesStored
         /\ call.op # "none" /\ call.left = {} => BalancesReply
BY DEF BalancesCall, BalancesUpdates, BalancesCurrent, BalancesPage, BalancesPaged, BalancesStored, BalancesReply, BalancesCalled, Of, Idle

LEMMA BalancesStale ==
  ASSUME BalancesCall, BalancesTyped, NEW after, Balances!Happens(after), BalancesGood(after), BalancesGrows(chain, after) PROVE BalancesCall'
<1>0. /\ chain' = after /\ chain.points \in Nat /\ after.points \in Nat
      /\ DOMAIN chain.updates \subseteq 1 .. chain.points
  BY DEF Balances!Happens, BalancesTyped, BalancesGood
<1>1. CASE call = Idle
  BY <1>1 DEF Balances!Happens, BalancesCall, Idle
<1>2. CASE call # Idle
  <2>1. call' = [call EXCEPT !.stale = TRUE]
    BY <1>2, BalancesStages DEF Balances!Happens
  <2>2. 1 .. chain.points \subseteq 1 .. chain'.points
    BY <1>0 DEF BalancesGrows
  <2>3. ASSUME NEW op, BalancesCalled(op)
        PROVE  /\ BalancesCalled(op)' /\ call.args.point \in 1 .. chain.points
               /\ call'.args.point = call.args.point /\ chain'.was[call'.args.point] = chain.was[call.args.point]
               /\ BalancesUpdated => BalancesUpdated'
    BY <1>0, <2>1, <2>2, <2>3 DEF BalancesCalled, Of, BalancesGrows, BalancesUpdated
  <2>4. call'.op = call.op /\ call'.left = call.left /\ call'.read = call.read
    BY <1>2, <2>1 DEF BalancesCall, BalancesUpdates, BalancesCurrent, BalancesPage, BalancesPaged, BalancesStored, BalancesReply, BalancesCalled, Of
  <2>5. CASE BalancesUpdates
    BY <2>3, <2>4, <2>5 DEF BalancesCall, BalancesUpdates
  <2>6. CASE BalancesCurrent
    BY <2>3, <2>4, <2>6 DEF BalancesCall, BalancesCurrent
  <2>7. CASE BalancesPage
    BY <2>3, <2>4, <2>7 DEF BalancesCall, BalancesPage
  <2>8. CASE BalancesPaged
    BY <2>3, <2>4, <2>8 DEF BalancesCall, BalancesPaged
  <2>9. CASE BalancesStored
    BY <1>0, <2>3, <2>4, <2>9 DEF BalancesCall, BalancesStored, BalancesGrows
  <2>10. CASE BalancesReply
    BY <2>3, <2>4, <2>10 DEF BalancesCall, BalancesReply
  <2> QED BY <1>2, <2>5, <2>6, <2>7, <2>8, <2>9, <2>10 DEF BalancesCall
<1> QED BY <1>1, <1>2

LEMMA BalancesNext == BalancesInv /\ Balances!Next => BalancesInv'
<1> SUFFICES ASSUME BalancesInv, Balances!Next PROVE BalancesInv'
  OBVIOUS
<1> USE DEF Idle, NoArgs, Balances!Idle, Balances!NoArgs, Balances!Calls, Balances!Answers, Balances!Keep, Balances!Built
<1>0. BalancesCall /\ BalancesTyped /\ chain.points \in Nat /\ chain.held \in BalancesHeld
  BY DEF BalancesInv, BalancesTyped, BalancesGood
<1>1. ASSUME UNCHANGED chain, BalancesCall' PROVE BalancesInv'
  BY <1>0, <1>1 DEF BalancesInv, BalancesTyped, BalancesGood
<1>2. ASSUME NEW point \in Balances!Points, Balances!Balance(point) PROVE BalancesInv'
  <2>1. BalancesUpdates'
    BY <1>2 DEF Balances!Balance, Balances!Points, BalancesUpdates, BalancesCalled, Of
  <2> QED BY <1>1, <1>2, <2>1 DEF Balances!Balance, BalancesCall
<1>3. ASSUME NEW point \in Balances!Points, Balances!AllBalances(point) PROVE BalancesInv'
  <2>1. BalancesPage'
    BY <1>3 DEF Balances!AllBalances, Balances!Points, BalancesPage, BalancesCalled, Of
  <2> QED BY <1>1, <1>3, <2>1 DEF Balances!AllBalances, BalancesCall
<1>4. CASE Balances!ReadUpdates
  <2> DEFINE first == Balances!FirstUpdate(call.args.point)
  <2>1. BalancesUpdates /\ call.args.point \in 1 .. chain.points
    BY <1>0, <1>4, BalancesStages DEF Balances!ReadUpdates, BalancesUpdates, BalancesCalled, Of
  <2>2. /\ chain' = chain
        /\ call' = [call EXCEPT !.read = [first |-> first, reply |-> 0], !.left = IF first = 0 THEN {"current"} ELSE {"stored"}]
    BY <1>4, <2>1 DEF Balances!ReadUpdates, BalancesUpdates, Balances!None
  <2>3. \/ first = 0
        \/ first \in DOMAIN chain.updates /\ first # 0 /\ chain.was[first] = chain.was[call.args.point]
    BY <1>0, <2>1, BalancesFirst DEF BalancesTyped, BalancesGood
  <2> HIDE DEF first
  <2>4. BalancesCalled("balance")' /\ call'.read = [first |-> first, reply |-> 0] /\ call'.args = call.args
        /\ call'.left = IF first = 0 THEN {"current"} ELSE {"stored"}
    BY <2>1, <2>2 DEF BalancesUpdates, BalancesCalled, Of
  <2>5. CASE first = 0
    BY <1>1, <2>2, <2>4, <2>5 DEF BalancesCall, BalancesCurrent
  <2>6. CASE first # 0
    BY <1>1, <2>2, <2>3, <2>4, <2>6 DEF BalancesCall, BalancesStored, BalancesHeld
  <2> QED BY <2>5, <2>6
<1>5. CASE Balances!ReadCurrent
  <2>1. BalancesCurrent /\ call.args.point \in 1 .. chain.points
    BY <1>0, <1>5, BalancesStages DEF Balances!ReadCurrent, BalancesCurrent, BalancesCalled, Of
  <2>1a. [call.read EXCEPT !.reply = chain.held] = [first |-> 0, reply |-> chain.held]
    BY <2>1 DEF BalancesCurrent
  <2>2. chain' = chain /\ call' = [call EXCEPT !.read = [first |-> 0, reply |-> chain.held], !.left = {}]
    BY <1>5, <2>1, <2>1a DEF Balances!ReadCurrent, BalancesCurrent
  <2>3. BalancesUpdated \/ chain.held = chain.was[call.args.point]
    BY <1>0, <2>1 DEF BalancesUpdated, BalancesTyped, BalancesGood
  <2>4. BalancesCalled("balance")' /\ call'.read = [first |-> 0, reply |-> chain.held] /\ call'.args = call.args /\ call'.left = {}
    BY <2>1, <2>2 DEF BalancesCurrent, BalancesCalled, Of
  <2>5. BalancesReply'
    BY <2>2, <2>3, <2>4 DEF BalancesReply, BalancesUpdated, BalancesCalled, Of
  <2> QED BY <1>1, <2>2, <2>5 DEF BalancesCall
<1>6. CASE Balances!ReadPage
  <2>1. BalancesPage /\ call.args.point \in 1 .. chain.points
    BY <1>0, <1>6, BalancesStages DEF Balances!ReadPage, BalancesPage, BalancesCalled, Of
  <2>2. chain' = chain /\ call' = [call EXCEPT !.read = [current |-> chain.held], !.left = {"updates"}]
    BY <1>6, <2>1 DEF Balances!ReadPage, BalancesPage
  <2>3. BalancesUpdated \/ chain.held = chain.was[call.args.point]
    BY <1>0, <2>1 DEF BalancesUpdated, BalancesTyped, BalancesGood
  <2>4. BalancesCalled("all")' /\ call'.read = [current |-> chain.held] /\ call'.args = call.args /\ call'.left = {"updates"}
    BY <2>1, <2>2 DEF BalancesPage, BalancesCalled, Of
  <2>5. BalancesPaged'
    BY <1>0, <2>2, <2>3, <2>4 DEF BalancesPaged, BalancesUpdated
  <2> QED BY <1>1, <2>2, <2>5 DEF BalancesCall
<1>7. CASE Balances!ReadPageUpdates
  <2> DEFINE first == Balances!FirstUpdate(call.args.point)
  <2>1. BalancesPaged /\ call.args.point \in 1 .. chain.points
    BY <1>0, <1>7, BalancesStages DEF Balances!ReadPageUpdates, BalancesPaged, BalancesCalled, Of
  <2>2. /\ chain' = chain
        /\ call' = [call EXCEPT !.read = [first |-> first, reply |-> call.read.current],
                                !.left = IF first = 0 THEN {} ELSE {"stored"}]
    BY <1>7, <2>1 DEF Balances!ReadPageUpdates, BalancesPaged, Balances!None
  <2>3. \/ first = 0 /\ ~BalancesUpdated
        \/ first \in DOMAIN chain.updates /\ first # 0 /\ chain.was[first] = chain.was[call.args.point]
    <3>1. \A u \in DOMAIN chain.updates : u \in Nat /\ u # 0
      BY <1>0 DEF BalancesTyped, BalancesGood
    <3> QED BY <1>0, <2>1, <3>1, BalancesFirst DEF BalancesUpdated
  <2> HIDE DEF first
  <2>4. /\ BalancesCalled("all")' /\ call'.read = [first |-> first, reply |-> call.read.current] /\ call'.args = call.args
        /\ call'.left = IF first = 0 THEN {} ELSE {"stored"}
    BY <2>1, <2>2 DEF BalancesPaged, BalancesCalled, Of
  <2>5. CASE first = 0
    BY <1>1, <2>1, <2>2, <2>3, <2>4, <2>5 DEF BalancesCall, BalancesReply, BalancesPaged
  <2>6. CASE first # 0
    BY <1>1, <2>1, <2>2, <2>3, <2>4, <2>6 DEF BalancesCall, BalancesStored, BalancesPaged
  <2> QED BY <2>5, <2>6
<1>8. CASE Balances!ReadStored
  <2>1. BalancesStored /\ call.args.point \in 1 .. chain.points
    BY <1>0, <1>8, BalancesStages DEF Balances!ReadStored, BalancesStored, BalancesCalled, Of
  <2>2. /\ chain' = chain
        /\ call' = [call EXCEPT !.read = [call.read EXCEPT !.reply = chain.updates[call.read.first]], !.left = {}]
    BY <1>8, <2>1 DEF Balances!ReadStored, BalancesStored
  <2>3. chain.updates[call.read.first] = chain.was[call.args.point]
    BY <1>0, <2>1 DEF BalancesStored, BalancesTyped, BalancesGood
  <2>4. [call.read EXCEPT !.reply = chain.updates[call.read.first]].reply = chain.was[call.args.point]
    BY <2>1, <2>3 DEF BalancesStored
  <2>5. /\ BalancesCalled("balance")' \/ BalancesCalled("all")'
        /\ call'.args = call.args /\ call'.left = {} /\ call'.read.reply = chain.was[call.args.point]
    BY <2>1, <2>2, <2>4 DEF BalancesStored, BalancesCalled, Of
  <2> QED BY <1>1, <2>2, <2>5 DEF BalancesCall, BalancesReply
<1>9. CASE Balances!Return
  BY <1>1, <1>9 DEF Balances!Return, BalancesCall
<1>10. ASSUME NEW after, Balances!Happens(after), BalancesGood(after), BalancesGrows(chain, after),
              BalancesRecord(after)
       PROVE  BalancesInv'
  BY <1>0, <1>10, BalancesStale DEF Balances!Happens, BalancesInv, BalancesTyped
<1>11. CASE Balances!MakePoint
  <2> DEFINE after == [chain EXCEPT !.points = @ + 1, !.was = Append(@, chain.held)]
             was == Append(chain.was, chain.held)
  <2>1. Balances!Happens(after) /\ chain.points < MaxPoints
    BY <1>11 DEF Balances!MakePoint
  <2>2. after \in [held : {chain.held}, points : {chain.points + 1}, updates : {chain.updates}, was : {was}]
    BY <1>0 DEF BalancesTyped, BalancesRecord
  <2>3. /\ was \in Seq(BalancesHeld) /\ Len(was) = chain.points + 1 /\ was[chain.points + 1] = chain.held
        /\ \A p \in 1 .. chain.points : was[p] = chain.was[p]
    BY <1>0 DEF BalancesTyped, BalancesGood
  <2> HIDE DEF after, was
  <2>4. /\ after.held = chain.held /\ after.points = chain.points + 1 /\ after.updates = chain.updates /\ after.was = was
        /\ chain.points + 1 \in 0 .. MaxPoints
    BY <1>0, <2>1, <2>2, CheckpointAssumption
  <2>5. DOMAIN chain.updates \subseteq 1 .. chain.points /\ \A u \in DOMAIN chain.updates : u \in Nat
    BY <1>0 DEF BalancesTyped, BalancesGood
  <2>6. \A p \in 1 .. chain.points + 1 : (\A u \in DOMAIN chain.updates : u < p) => was[p] = chain.held
    BY <1>0, <2>3 DEF BalancesTyped, BalancesGood
  <2>7. ASSUME NEW p \in 1 .. chain.points + 1, NEW q \in 1 .. chain.points + 1, p < q,
               \A u \in DOMAIN chain.updates : u < p \/ u >= q
        PROVE  was[p] = was[q]
    <3>1. p \in 1 .. chain.points
      BY <1>0, <2>7
    <3>2. CASE q \in 1 .. chain.points
      BY <1>0, <2>3, <2>7, <3>1, <3>2 DEF BalancesTyped, BalancesGood
    <3>3. CASE q = chain.points + 1
      <4>1. \A u \in DOMAIN chain.updates : u < p
        BY <1>0, <2>5, <2>7, <3>3
      <4> QED BY <2>3, <2>6, <3>3, <4>1
    <3> QED BY <1>0, <3>2, <3>3
  <2>8. \A p \in DOMAIN chain.updates : chain.updates[p] = was[p]
    BY <1>0, <2>3, <2>5 DEF BalancesTyped, BalancesGood
  <2>9. DOMAIN chain.updates \subseteq 1 .. chain.points + 1
    BY <1>0, <2>5
  <2>10. BalancesGood(after)
    BY <1>0, <2>3, <2>4, <2>6, <2>7, <2>8, <2>9 DEF BalancesTyped, BalancesGood
  <2>11. BalancesGrows(chain, after)
    BY <1>0, <2>3, <2>4 DEF BalancesGrows
  <2>12. BalancesRecord(after)
    BY <2>2 DEF BalancesRecord
  <2> QED BY <1>10, <2>1, <2>10, <2>11, <2>12
<1>12. ASSUME NEW amount \in BalancesHeld, Balances!Transfer(amount) PROVE BalancesInv'
  <2> DEFINE updates == IF chain.points = 0 \/ chain.points \in DOMAIN chain.updates THEN chain.updates
                        ELSE [p \in DOMAIN chain.updates \cup {chain.points} |->
                                IF p = chain.points THEN chain.held ELSE chain.updates[p]]
             after == [chain EXCEPT !.held = amount, !.updates = updates]
  <2>1. Balances!Happens(after)
    BY <1>12 DEF Balances!Transfer
  <2> HIDE DEF updates
  <2>2. after \in [held : {amount}, points : {chain.points}, updates : {updates}, was : {chain.was}]
    BY <1>0 DEF BalancesTyped, BalancesRecord
  <2> USE DEF updates
  <2>3. /\ DOMAIN chain.updates \subseteq 1 .. chain.points /\ \A u \in DOMAIN chain.updates : u \in Nat
        /\ \A u \in DOMAIN chain.updates : chain.updates[u] = chain.was[u]
        /\ chain.updates = [p \in DOMAIN chain.updates |-> chain.updates[p]]
    BY <1>0 DEF BalancesTyped, BalancesGood
  <2>4. CASE chain.points = 0 \/ chain.points \in DOMAIN chain.updates
    <3>1. updates = chain.updates
      BY <2>4
    <3> HIDE DEF after, updates
    <3>2. /\ after.held = amount /\ after.points = chain.points /\ after.updates = chain.updates /\ after.was = chain.was
      BY <2>2, <3>1
    <3>3. \A p \in 1 .. chain.points : ~(\A u \in DOMAIN chain.updates : u < p)
      BY <1>0, <2>3, <2>4
    <3>4. BalancesGood(after)
      BY <1>0, <1>12, <3>2, <3>3 DEF BalancesTyped, BalancesGood
    <3>5. BalancesGrows(chain, after)
      BY <1>0, <3>2 DEF BalancesGrows
    <3>6. BalancesRecord(after)
      BY <2>2 DEF BalancesRecord
    <3> QED BY <1>10, <2>1, <3>4, <3>5, <3>6
  <2>5. CASE chain.points # 0 /\ chain.points \notin DOMAIN chain.updates
    <3>1. chain.points \in 1 .. chain.points
      BY <1>0, <2>5
    <3>2. /\ DOMAIN updates = DOMAIN chain.updates \cup {chain.points}
          /\ updates[chain.points] = chain.held
          /\ \A u \in DOMAIN chain.updates : updates[u] = chain.updates[u]
          /\ updates = [p \in DOMAIN updates |-> updates[p]]
      BY <2>5
    <3> HIDE DEF after, updates
    <3>3. /\ after.held = amount /\ after.points = chain.points /\ after.updates = updates /\ after.was = chain.was
      BY <2>2
    <3>4. chain.was[chain.points] = chain.held
      <4>1. \A u \in DOMAIN chain.updates : u < chain.points
        BY <1>0, <2>3, <2>5
      <4> QED BY <1>0, <3>1, <4>1 DEF BalancesTyped, BalancesGood
    <3>5. DOMAIN updates \subseteq 1 .. chain.points /\ \A u \in DOMAIN updates : updates[u] = chain.was[u]
      BY <2>3, <3>1, <3>2, <3>4
    <3>6. \A p \in 1 .. chain.points : ~(\A u \in DOMAIN updates : u < p)
      BY <1>0, <3>1, <3>2
    <3>7. ASSUME NEW p \in 1 .. chain.points, NEW q \in 1 .. chain.points, p < q,
                 \A u \in DOMAIN updates : u < p \/ u >= q
          PROVE  chain.was[p] = chain.was[q]
      BY <1>0, <3>2, <3>7 DEF BalancesTyped, BalancesGood
    <3>8. BalancesGood(after)
      BY <1>0, <1>12, <3>2, <3>3, <3>5, <3>6, <3>7 DEF BalancesTyped, BalancesGood
    <3>9. BalancesGrows(chain, after)
      BY <1>0, <3>2, <3>3 DEF BalancesGrows
    <3>10. BalancesRecord(after)
      BY <2>2 DEF BalancesRecord
    <3> QED BY <1>10, <2>1, <3>8, <3>9, <3>10
  <2> QED BY <2>4, <2>5
<1> QED BY <1>2, <1>3, <1>4, <1>5, <1>6, <1>7, <1>8, <1>9, <1>11, <1>12 DEF Balances!Next, BalancesHeld

LEMMA BalancesStutter == BalancesInv /\ UNCHANGED <<chain, call>> => BalancesInv'
BY DEF BalancesInv, BalancesTyped, BalancesRecord, BalancesGood, BalancesCall, BalancesUpdates, BalancesCurrent, BalancesPage, BalancesPaged, BalancesStored, BalancesReply, BalancesCalled, BalancesUpdated, Of, Idle

LEMMA BalancesOK == BalancesInv => Balances!TypeOK
<1> SUFFICES ASSUME BalancesInv PROVE Balances!TypeOK
  OBVIOUS
<1>1. chain.held \in Amounts \cup {0} /\ chain.points \in 0 .. MaxPoints /\ DOMAIN chain.updates \subseteq 1 .. chain.points
  BY DEF BalancesInv, BalancesTyped, BalancesGood, BalancesHeld
<1>2. \A p \in DOMAIN chain.updates : chain.updates[p] = chain.was[p]
  BY DEF BalancesInv, BalancesTyped, BalancesGood
<1>3. call.op \in {"none", "balance", "all"} /\ call.left \subseteq {"current", "updates", "stored"}
  BY DEF BalancesInv, BalancesCall, BalancesUpdates, BalancesCurrent, BalancesPage, BalancesPaged, BalancesStored, BalancesReply, BalancesCalled, Of, Idle
<1> QED BY <1>1, <1>2, <1>3 DEF Balances!TypeOK

(* An answer that is there is that of its point.                           *)
LEMMA BalancesTrue == BalancesInv => Balances!AnswerIsTrue
BY BalancesStages DEF BalancesInv, Balances!AnswerIsTrue, Balances!Built, BalancesReply, BalancesUpdated, Balances!None

LEMMA BalancesDone == BalancesInv /\ Balances!Next => Balances!AnswerIsTrue'
<1>1. BalancesInv /\ Balances!Next => BalancesInv'
  BY BalancesNext
<1>2. BalancesInv' => Balances!AnswerIsTrue'
  BY BalancesTrue, PTL
<1> QED BY <1>1, <1>2

-----------------------------------------------------------------------------
(* Subscriptions *)

LEMMA SubsInit == Subs!Init => SubsInv
<1> SUFFICES ASSUME Subs!Init PROVE SubsInv
  OBVIOUS
<1>1. PICK about \in {"asset", "accounts", "ticker"} : \E main \in Subs!MainOf(about), beside \in IF about = "asset" THEN {0, 1} ELSE {0} :
        chain = [about |-> about, main |-> main, beside |-> beside, now |-> 1, sent |-> <<>>, inbox |-> <<>>]
  BY DEF Subs!Init, Subs!Nothing
<1>2. PICK main \in Subs!MainOf(about), beside \in {0, 1} :
        chain = [about |-> about, main |-> main, beside |-> beside, now |-> 1, sent |-> <<>>, inbox |-> <<>>]
  BY <1>1
<1>3. <<>> \in Seq(Subs!MainOf(about)) /\ Len(<<>>) <= MaxInbox /\ 1 \in 1 .. MaxTime
  BY InboxAssumption, TickerAssumption
<1>4. SubsTyped
  BY <1>2, <1>3 DEF SubsTyped, SubsOf
<1>5. call = Idle
  BY DEF Subs!Init, Subs!Idle, Idle, Subs!NoArgs, NoArgs
<1> QED BY <1>2, <1>4, <1>5 DEF SubsInv, SubsOff

(* The last of what is left of a queue is the last that was in it.         *)
LEMMA SubsShift ==
  ASSUME NEW S, NEW list \in Seq(S), list # <<>>
  PROVE  /\ Head(list) \in S /\ Tail(list) \in Seq(S) /\ Len(Tail(list)) <= Len(list)
         /\ Tail(list) = <<>> => Head(list) = list[Len(list)]
         /\ Tail(list) # <<>> => Tail(list)[Len(Tail(list))] = list[Len(list)]
<1>1. Len(list) \in Nat /\ Len(list) # 0 /\ Head(list) = list[1] /\ Head(list) \in S /\ Tail(list) \in Seq(S) /\ Len(Tail(list)) = Len(list) - 1
  OBVIOUS
<1>2. \A i \in 1 .. Len(list) - 1 : Tail(list)[i] = list[i + 1]
  OBVIOUS
<1>3. Tail(list) = <<>> <=> Len(list) = 1
  <2>1. \A t \in Seq(S) : t = <<>> <=> Len(t) = 0
    OBVIOUS
  <2>2. Tail(list) = <<>> <=> Len(Tail(list)) = 0
    BY <1>1, <2>1, Zenon
  <2> QED BY <1>1, <2>2
<1> QED BY <1>1, <1>2, <1>3

LEMMA SubsPassing ==
  ASSUME NEW S, NEW asked \in Seq([main : S, passed : BOOLEAN])
  PROVE  /\ Subs!Passed(asked) \in Seq([main : S, passed : BOOLEAN]) /\ Len(Subs!Passed(asked)) = Len(asked)
         /\ \A i \in DOMAIN Subs!Passed(asked) : Subs!Passed(asked)[i].passed
<1> DEFINE Q == [main : S, passed : BOOLEAN]
           passed == [i \in 1 .. Len(asked) |-> [asked[i] EXCEPT !.passed = TRUE]]
<1>1. Subs!Passed(asked) = passed
  BY DEF Subs!Passed
<1>2. \A i \in 1 .. Len(asked) : asked[i] \in Q
  <2>1. asked \in Seq(Q)
    OBVIOUS
  <2> HIDE DEF Q
  <2> QED BY <2>1
<1>3. \A i \in 1 .. Len(asked) : [asked[i] EXCEPT !.passed = TRUE] \in Q /\ [asked[i] EXCEPT !.passed = TRUE].passed
  BY <1>2
<1>4. Len(asked) \in Nat
  OBVIOUS
<1>5. passed \in [1 .. Len(asked) -> Q] /\ \A i \in 1 .. Len(asked) : passed[i].passed
  BY <1>3
<1> HIDE DEF passed, Q
<1>6. passed \in Seq(Q) /\ Len(passed) = Len(asked) /\ DOMAIN passed = 1 .. Len(asked)
  BY <1>4, <1>5
<1> QED BY <1>1, <1>5, <1>6 DEF Q

LEMMA SubsAnswered ==
  ASSUME NEW S, NEW asked \in Seq([main : S, passed : BOOLEAN]), NEW i \in DOMAIN asked
  PROVE  /\ SubsLeft(asked, i) \in Seq([main : S, passed : BOOLEAN])
         /\ i # Len(asked) => /\ SubsLeft(asked, i) # <<>>
                              /\ SubsLeft(asked, i)[Len(SubsLeft(asked, i))] = asked[Len(asked)]
         /\ i = Len(asked) \/ (\A j \in DOMAIN asked : asked[j].passed) =>
              \A j \in DOMAIN SubsLeft(asked, i) : SubsLeft(asked, i)[j].passed
<1> DEFINE Q == [main : S, passed : BOOLEAN]
           n == Len(asked)
           before == SubSeq(asked, 1, i - 1)
           passed == Subs!Passed(before)
           after == SubSeq(asked, i + 1, n)
           left == passed \o after
<1>1. n \in Nat /\ i \in 1 .. n /\ asked \in Seq(Q)
  OBVIOUS
<1> HIDE DEF Q
<1>2. before \in Seq(Q) /\ Len(before) = i - 1
  BY <1>1
<1>3. after \in Seq(Q) /\ Len(after) = n - i /\ \A j \in 1 .. n - i : after[j] = asked[i + j]
  BY <1>1
<1>4. passed \in Seq(Q) /\ Len(passed) = i - 1 /\ \A j \in 1 .. i - 1 : passed[j].passed
  <2> HIDE DEF before
  <2>1. passed \in Seq(Q) /\ Len(passed) = i - 1 /\ \A j \in DOMAIN passed : passed[j].passed
    BY <1>2, SubsPassing DEF Q
  <2> HIDE DEF passed
  <2> QED BY <1>1, <2>1
<1> HIDE DEF before, passed, after
<1>5. /\ left \in Seq(Q) /\ Len(left) = n - 1
      /\ \A j \in 1 .. i - 1 : left[j] = passed[j]
      /\ \A j \in i .. n - 1 : left[j] = after[j - (i - 1)]
  BY <1>1, <1>3, <1>4
<1>6. left = SubsLeft(asked, i)
  BY DEF left, passed, before, after, SubsLeft
<1> HIDE DEF left, n
<1>7. i # n => left # <<>> /\ left[Len(left)] = asked[n]
  <2> SUFFICES ASSUME i # n PROVE left # <<>> /\ left[Len(left)] = asked[n]
    OBVIOUS
  <2>1. n - 1 \in i .. n - 1 /\ n - 1 - (i - 1) \in 1 .. n - i /\ i + (n - 1 - (i - 1)) = n /\ n - 1 # 0
    BY <1>1
  <2>2. left[n - 1] = asked[n]
    BY <1>3, <1>5, <2>1
  <2> QED BY <1>5, <2>1, <2>2
<1>8. ASSUME i = n \/ \A j \in 1 .. n : asked[j].passed, NEW j \in 1 .. n - 1 PROVE left[j].passed
  <2>1. CASE j \in 1 .. i - 1
    BY <1>4, <1>5, <2>1
  <2>2. CASE j \in i .. n - 1
    <3>1. j - (i - 1) \in 1 .. n - i /\ i + (j - (i - 1)) \in 1 .. n /\ i # n
      BY <1>1, <2>2
    <3>2. left[j] = asked[i + (j - (i - 1))]
      BY <1>3, <1>5, <2>2, <3>1
    <3> QED BY <1>8, <3>1, <3>2
  <2> QED BY <1>1, <1>8, <2>1, <2>2
<1>9. DOMAIN left = 1 .. n - 1 /\ DOMAIN asked = 1 .. n
  BY <1>1, <1>5 DEF n
<1> QED BY <1>5, <1>6, <1>7, <1>8, <1>9 DEF n, Q

LEMMA SubsStale ==
  ASSUME SubsInv, NEW after, Subs!Happens(after), SubsOf(after), after.about = chain.about, after.sent = chain.sent,
         after.inbox = chain.inbox, after.now \in Nat, after.now >= chain.now
  PROVE  SubsInv'
<1>1. /\ chain' = after /\ chain'.about = chain.about /\ chain'.sent = chain.sent /\ chain'.inbox = chain.inbox
      /\ chain'.now \in Nat /\ chain'.now >= chain.now
  BY DEF Subs!Happens
<1>2. SubsTyped'
  BY <1>1 DEF SubsTyped
<1>3. CASE SubsOff
  <2>1. call' = Idle \/ (call # Idle /\ call' = [call EXCEPT !.stale = TRUE])
    <3>1. chain.about # "none"
      BY DEF SubsInv, SubsTyped, SubsOf
    <3>2. CASE call = Idle
      BY <3>2 DEF Subs!Happens, Idle
    <3>3. CASE call # Idle
      <4>1. call.op = chain.about
        BY <1>3, <3>3 DEF SubsOff
      <4> QED BY <3>1, <3>3, <4>1 DEF Subs!Happens
    <3> QED BY <3>2, <3>3
  <2>2. SubsOff'
    BY <1>1, <1>3, <2>1 DEF SubsOff
  <2> QED BY <1>2, <2>2 DEF SubsInv
<1>4. CASE SubsOn
  <2>1. SubsReads
    BY <1>4 DEF SubsOn
  <2>2. call' = [call EXCEPT !.stale = TRUE]
    BY <2>1 DEF SubsReads, SubsInv, SubsTyped, SubsOf, Subs!Happens
  <2>3. call'.read = call.read /\ SubsReads'
    BY <1>1, <2>1, <2>2 DEF SubsReads, SubsAsked
  <2>4. chain.about = "ticker" /\ chain.sent # <<>> => chain.sent[1] \in Subs!Registrations
    BY DEF SubsInv, SubsTyped, SubsOf, Subs!MainOf
  <2>5. chain.now \in Nat /\ MaxTime \in Nat
    BY TickerAssumption DEF SubsInv, SubsTyped, SubsOf
  <2>6. chain.inbox = <<>> /\ chain.sent # <<>> => SubsKnows'
    <3> SUFFICES ASSUME SubsKnows, chain.sent # <<>> PROVE SubsKnows'
      BY <1>4 DEF SubsOn
    <3>1. chain.about = "ticker" => SubsToldTicker(call.read.told[1], chain.sent[1], chain'.now)
      BY <1>1, <2>4, <2>5 DEF SubsKnows, SubsToldTicker, Subs!Registrations
    <3>2. (SubsLastAsked \/ SubsTold)' <=> (SubsLastAsked \/ SubsTold)
      BY <1>1, <2>3 DEF SubsLastAsked, SubsTold
    <3>3. Subs!Secondary(chain.sent[1], call.read.beside)' = Subs!Secondary(chain.sent[1], call.read.beside)
      BY <1>1, <2>3
    <3> QED BY <1>1, <2>3, <3>1, <3>2, <3>3 DEF SubsKnows
  <2>7. SubsOn'
    BY <1>1, <1>4, <2>3, <2>6 DEF SubsOn
  <2> QED BY <1>2, <2>7 DEF SubsInv
<1> QED BY <1>3, <1>4 DEF SubsInv

LEMMA SubsNext == SubsInv /\ Subs!Next => SubsInv'
<1> SUFFICES ASSUME SubsInv, Subs!Next PROVE SubsInv'
  OBVIOUS
<1>0. SubsTyped /\ (SubsOff \/ SubsOn)
  BY DEF SubsInv
<1>90. /\ chain.about \in {"asset", "accounts", "ticker"} /\ chain.main \in Subs!MainOf(chain.about)
          /\ chain.sent \in {<<>>} \cup {<<main>> : main \in Subs!MainOf(chain.about)}
          /\ chain.inbox \in Seq(Subs!MainOf(chain.about)) /\ Len(chain.inbox) <= MaxInbox
          /\ chain.now \in 1 .. MaxTime /\ chain.beside \in 0 .. 1
          /\ chain = [about |-> chain.about, main |-> chain.main, beside |-> chain.beside, now |-> chain.now,
                      sent |-> chain.sent, inbox |-> chain.inbox]
  BY <1>0 DEF SubsTyped, SubsOf
<1>1. CASE Subs!Subscribe
  <2>1. /\ call.op = "none" /\ chain' = chain
        /\ call' = [op |-> chain.about, args |-> NoArgs, read |-> NoArgs, left |-> {"beside"}, stale |-> FALSE]
    BY <1>1 DEF Subs!Subscribe, Subs!Calls, Subs!Idle, Subs!NoArgs, NoArgs
  <2>2. call = Idle /\ SubsOff
    BY <1>0, <1>90, <2>1 DEF SubsOff, SubsOn, SubsReads
  <2>3. SubsOff'
    BY <2>1, <2>2 DEF SubsOff, Idle
  <2>4. SubsTyped'
    BY <1>0, <2>1 DEF SubsTyped
  <2> QED BY <2>3, <2>4 DEF SubsInv
<1>2. CASE Subs!ReadBeside
  <2>1. "beside" \in call.left /\ chain' = chain
    BY <1>2 DEF Subs!ReadBeside, Subs!Answers, Subs!Keep
  <2>2. SubsOff /\ call \in [op : {chain.about}, args : {NoArgs}, read : {NoArgs}, left : {{"beside"}}, stale : BOOLEAN]
    BY <1>0, <2>1 DEF SubsOff, SubsOn, SubsReads, Idle
  <2>3. call' = [call EXCEPT !.read = [beside |-> Subs!Beside, told |-> <<>>, asked |-> <<>>, late |-> FALSE], !.left = {}]
    BY <1>2, <2>2 DEF Subs!ReadBeside, Subs!Keep, Subs!Nothing
  <2> DEFINE read == [beside |-> Subs!Beside, told |-> <<>>, asked |-> <<>>, late |-> FALSE]
  <2>4. read.asked = <<>> /\ read \in [beside : {read.beside}, told : {read.told}, asked : Seq(SubsAsked'), late : BOOLEAN]
    <3>1. <<>> \in Seq(SubsAsked')
      OBVIOUS
    <3> HIDE DEF SubsAsked
    <3> QED BY <3>1
  <2> HIDE DEF read
  <2>4a. call'.read = read
    BY <2>2, <2>3 DEF read
  <2>5. SubsReads'
    BY <2>1, <2>2, <2>3, <2>4, <2>4a DEF SubsReads, read
  <2>6. SubsOn'
    BY <2>1, <2>2, <2>4, <2>4a, <2>5 DEF SubsOn, SubsOff
  <2>7. SubsTyped'
    BY <1>0, <2>1 DEF SubsTyped
  <2> QED BY <2>6, <2>7 DEF SubsInv
<1>91. ASSUME Subs!Built PROVE SubsOn /\ SubsReads /\ call.read.asked \in Seq(SubsAsked)
  <2>1. SubsOn
    BY <1>0, <1>91 DEF SubsOff, Subs!Built, Idle
  <2> QED BY <2>1 DEF SubsOn, SubsReads
<1>3. CASE Subs!Notify
  <2> DEFINE inbox == Append(chain.inbox, chain.main)
  <2>1. /\ Len(chain.inbox) + Len(call.read.asked) < MaxInbox /\ call' = call
        /\ chain' = [chain EXCEPT !.sent = <<chain.main>>, !.inbox = inbox] /\ Subs!Built
    BY <1>3 DEF Subs!Notify
  <2>2. SubsOn /\ Len(call.read.asked) \in Nat /\ Len(chain.inbox) \in Nat /\ MaxInbox \in Nat
    BY <1>90, <1>91, <2>1, InboxAssumption
  <2>3. inbox \in Seq(Subs!MainOf(chain.about)) /\ Len(inbox) <= MaxInbox /\ inbox # <<>> /\ inbox[Len(inbox)] = chain.main
    BY <1>90, <2>1, <2>2
  <2>4. /\ chain'.about = chain.about /\ chain'.sent = <<chain.main>> /\ chain'.inbox = inbox
        /\ chain' = [about |-> chain.about, main |-> chain.main, beside |-> chain.beside, now |-> chain.now,
                     sent |-> <<chain.main>>, inbox |-> inbox]
    BY <1>90, <2>1
  <2> HIDE DEF inbox
  <2>5. SubsTyped'
    BY <1>90, <2>3, <2>4 DEF SubsTyped, SubsOf
  <2>6. SubsOn'
    BY <2>1, <2>2, <2>3, <2>4 DEF SubsOn, SubsReads, SubsAsked
  <2> QED BY <2>5, <2>6 DEF SubsInv
<1>4. CASE Subs!Deliver
  <2> DEFINE main == Head(chain.inbox)
             S == Subs!MainOf(chain.about)
             inbox == Tail(chain.inbox)
             last == chain.inbox[Len(chain.inbox)]
             asks == chain.about = "asset" /\ main.custom
  <2>1. /\ Subs!Built /\ chain.inbox # <<>> /\ chain' = [chain EXCEPT !.inbox = inbox]
        /\ asks => call' = [call EXCEPT !.read.asked = Append(call.read.asked, [main |-> main, passed |-> FALSE])]
        /\ ~asks => call' = Subs!Told(main, FALSE, Subs!Passed(call.read.asked))
    BY <1>4 DEF Subs!Deliver
  <2>2. SubsOn /\ SubsReads /\ call.read.asked \in Seq(SubsAsked) /\ chain.sent = <<last>>
    BY <1>91, <2>1 DEF SubsOn
  <2>3. /\ main \in S /\ inbox \in Seq(S) /\ Len(inbox) <= Len(chain.inbox) /\ Len(inbox) \in Nat /\ Len(chain.inbox) \in Nat
        /\ inbox = <<>> => main = last
        /\ inbox # <<>> => inbox[Len(inbox)] = last
    BY <1>90, <2>1, SubsShift
  <2>4. /\ chain'.about = chain.about /\ chain'.sent = <<last>> /\ chain'.inbox = inbox /\ chain'.now = chain.now
        /\ chain' = [about |-> chain.about, main |-> chain.main, beside |-> chain.beside, now |-> chain.now,
                     sent |-> chain.sent, inbox |-> inbox]
    BY <1>90, <2>1, <2>2
  <2>5. Len(inbox) <= MaxInbox
    BY <1>90, <2>3, InboxAssumption
  <2> HIDE DEF main, inbox, last, asks
  <2>6. SubsTyped'
    BY <1>90, <2>3, <2>4, <2>5 DEF SubsTyped, SubsOf
  <2>7. CASE asks
    <3> DEFINE asked == Append(call.read.asked, [main |-> main, passed |-> FALSE])
               read == [call.read EXCEPT !.asked = asked]
    <3>1. chain.about = "asset"
      BY <2>7 DEF asks
    <3>2. [main |-> main, passed |-> FALSE] \in SubsAsked
      BY <2>3 DEF SubsAsked
    <3>3. /\ asked \in Seq(SubsAsked) /\ asked # <<>> /\ asked[Len(asked)] = [main |-> main, passed |-> FALSE]
      BY <2>2, <3>2
    <3>4. call' = [call EXCEPT !.read = read]
      BY <2>1, <2>2, <2>7 DEF SubsReads
    <3> HIDE DEF asked
    <3>5. read \in [beside : {call.read.beside}, told : {call.read.told}, asked : {asked}, late : {call.read.late}] /\ call.read.late \in BOOLEAN
      BY <2>2 DEF SubsReads
    <3> HIDE DEF read
    <3>6. call'.read = read /\ call'.op = chain.about
      BY <2>2, <3>4 DEF SubsReads
    <3>7. SubsAsked' = SubsAsked
      BY <2>4 DEF SubsAsked
    <3>8. SubsReads'
      BY <2>2, <2>4, <3>3, <3>4, <3>5, <3>6, <3>7 DEF SubsReads
    <3>9. inbox = <<>> => SubsLastAsked'
      BY <2>3, <2>4, <3>3, <3>5, <3>6 DEF SubsLastAsked
    <3>10. SubsOn'
      BY <2>3, <2>4, <3>1, <3>8, <3>9 DEF SubsOn, SubsKnows
    <3> QED BY <2>6, <3>10 DEF SubsInv
  <2>8. CASE ~asks
    <3> DEFINE asked == Subs!Passed(call.read.asked)
               told == <<Subs!Result(main)>>
               read == [call.read EXCEPT !.told = told, !.late = FALSE, !.asked = asked]
    <3>1. call' = [call EXCEPT !.read = read]
      BY <2>1, <2>2, <2>8 DEF SubsReads, Subs!Told
    <3>2. asked \in Seq(SubsAsked) /\ Len(asked) = Len(call.read.asked) /\ \A i \in DOMAIN asked : asked[i].passed
      BY <2>2, SubsPassing DEF SubsAsked
    <3>3. chain.about # "asset" => asked = <<>>
      BY <2>2, <3>2 DEF SubsOn
    <3> HIDE DEF asked, told
    <3>5. read \in [beside : {call.read.beside}, told : {told}, asked : {asked}, late : {FALSE}]
      BY <2>2 DEF SubsReads
    <3> HIDE DEF read
    <3>6. call'.read = read /\ call.op = chain.about
      BY <2>2, <3>1 DEF SubsReads
    <3>7. SubsAsked' = SubsAsked
      BY <2>4 DEF SubsAsked
    <3>8. SubsReads'
      BY <2>2, <2>4, <3>1, <3>2, <3>5, <3>6, <3>7 DEF SubsReads
    <3>9. told[1] = Subs!Result(main)
      BY DEF told
    <3>10. inbox = <<>> => SubsKnows'
      <4> SUFFICES ASSUME inbox = <<>> PROVE SubsKnows'
        OBVIOUS
      <4>1. main = last /\ chain'.sent[1] = main /\ call'.read.told[1] = Subs!Result(main)
        BY <2>3, <2>4, <3>5, <3>6, <3>9
      <4>2. CASE chain.about = "asset"
        <5>1. Subs!Result(main) = [token |-> main, agents |-> call.read.beside]
          BY <3>6, <4>2 DEF Subs!Result
        <5>2. SubsTold'
          BY <3>2, <3>5, <3>6, <4>1, <5>1 DEF SubsTold
        <5> QED BY <2>4, <4>2, <5>2 DEF SubsKnows
      <4>3. CASE chain.about = "accounts"
        <5>1. Subs!Result(main) = Subs!Secondary(main, call.read.beside)
          BY <3>6, <4>3 DEF Subs!Result
        <5>2. call'.read.beside = call.read.beside
          BY <3>5, <3>6
        <5> QED BY <2>4, <4>1, <4>3, <5>1, <5>2 DEF SubsKnows
      <4>4. CASE chain.about = "ticker"
        <5>1. Subs!Result(main) = Subs!Details(main)
          BY <3>6, <4>4 DEF Subs!Result
        <5>2. main \in [held : BOOLEAN, expiry : 0 .. MaxTime, issued : BOOLEAN]
          BY <2>3, <4>4 DEF Subs!MainOf, Subs!Registrations
        <5>3. chain.now \in Nat /\ main.expiry \in Nat
          BY <1>90, <5>2, TickerAssumption
        <5>4. SubsToldTicker(Subs!Result(main), main, chain.now)
          BY <5>1, <5>2, <5>3 DEF Subs!Details, SubsToldTicker
        <5> QED BY <2>4, <4>1, <4>4, <5>4 DEF SubsKnows
      <4> QED BY <1>90, <4>2, <4>3, <4>4
    <3>11. call'.read.asked = asked
      BY <3>5, <3>6
    <3>12. SubsOn'
      BY <2>3, <2>4, <3>3, <3>8, <3>10, <3>11 DEF SubsOn
    <3> QED BY <2>6, <3>12 DEF SubsInv
  <2> QED BY <2>7, <2>8
<1>5. ASSUME NEW i \in 1 .. MaxInbox, Subs!Answer(i) PROVE SubsInv'
  <2> DEFINE asked == call.read.asked
             left == SubsLeft(asked, i)
             told == <<Subs!Result(asked[i].main)>>
             read == [call.read EXCEPT !.told = told, !.late = asked[i].passed, !.asked = left]
  <2>1. /\ Subs!Built /\ i \in DOMAIN asked /\ chain' = chain
        /\ call' = Subs!Told(asked[i].main, asked[i].passed, left)
    BY <1>5 DEF Subs!Answer, SubsLeft
  <2>2. SubsOn /\ SubsReads /\ asked \in Seq(SubsAsked)
    BY <1>91, <2>1
  <2>3. chain.about = "asset" /\ call.op = "asset"
    BY <2>1, <2>2 DEF SubsOn, SubsReads
  <2>4. asked[i].passed \in BOOLEAN
    <3>1. asked[i] \in SubsAsked
      BY <2>1, <2>2
    <3> QED BY <3>1 DEF SubsAsked
  <2>5. call' = [call EXCEPT !.read = read]
    BY <2>1, <2>2 DEF SubsReads, Subs!Told
  <2>6. /\ left \in Seq(SubsAsked)
        /\ i # Len(asked) => left # <<>> /\ left[Len(left)] = asked[Len(asked)]
        /\ i = Len(asked) \/ (\A j \in DOMAIN asked : asked[j].passed) => \A j \in DOMAIN left : left[j].passed
    BY <2>1, <2>2, SubsAnswered DEF SubsAsked
  <2>7. told[1] = [token |-> asked[i].main, agents |-> call.read.beside]
    BY <2>3 DEF Subs!Result
  <2> HIDE DEF left, told
  <2>8. read \in [beside : {call.read.beside}, told : {told}, asked : {left}, late : {asked[i].passed}]
    BY <2>2 DEF SubsReads
  <2> HIDE DEF read
  <2>9. call'.read = read
    BY <2>2, <2>5 DEF SubsReads
  <2>10. SubsAsked' = SubsAsked
    BY <2>1 DEF SubsAsked
  <2>11. SubsReads'
    BY <2>1, <2>2, <2>4, <2>5, <2>6, <2>8, <2>9, <2>10 DEF SubsReads
  <2>12. chain.inbox = <<>> /\ chain.sent # <<>> => (SubsLastAsked \/ SubsTold)'
    <3> SUFFICES ASSUME SubsLastAsked \/ SubsTold PROVE (SubsLastAsked \/ SubsTold)'
      BY <2>2, <2>3 DEF SubsOn, SubsKnows
    <3>1. call'.read.asked = left /\ call'.read.late = asked[i].passed /\ call'.read.told[1] = told[1] /\ call'.read.beside = call.read.beside
      BY <2>8, <2>9
    <3>2. CASE SubsLastAsked /\ i # Len(asked)
      <4>1. SubsLastAsked'
        BY <2>1, <2>6, <3>1, <3>2 DEF SubsLastAsked
      <4> QED BY <4>1
    <3>3. CASE SubsLastAsked /\ i = Len(asked)
      <4>1. asked[i].main = chain.sent[1]
        BY <3>3 DEF SubsLastAsked
      <4>2. SubsTold'
        BY <2>1, <2>6, <2>7, <3>1, <3>3, <4>1 DEF SubsTold
      <4> QED BY <4>2
    <3>4. CASE SubsTold
      <4>1. asked[i].passed /\ \A j \in DOMAIN asked : asked[j].passed
        BY <2>1, <3>4 DEF SubsTold
      <4>2. SubsTold'
        BY <2>1, <2>6, <2>7, <3>1, <4>1 DEF SubsTold
      <4> QED BY <4>2
    <3> QED BY <3>2, <3>3, <3>4
  <2>13. SubsOn'
    BY <2>1, <2>2, <2>3, <2>11, <2>12 DEF SubsOn, SubsKnows
  <2>14. SubsTyped'
    BY <1>0, <2>1 DEF SubsTyped
  <2> QED BY <2>13, <2>14 DEF SubsInv
<1>92. chain.now \in Nat /\ MaxTime \in Nat /\ chain.now <= MaxTime
  BY <1>90, TickerAssumption
<1>6. ASSUME NEW main \in Subs!MainOf(chain.about), Subs!Happens([chain EXCEPT !.main = main]) PROVE SubsInv'
  <2> DEFINE after == [chain EXCEPT !.main = main]
  <2>1. /\ SubsOf(after) /\ after.about = chain.about /\ after.sent = chain.sent /\ after.inbox = chain.inbox
        /\ after.now = chain.now
    BY <1>0 DEF SubsTyped, SubsOf
  <2>2. Subs!Happens(after)
    BY <1>6
  <2> HIDE DEF after
  <2> QED BY <1>92, <2>1, <2>2, SubsStale
<1>7. ASSUME NEW a \in 0 .. 1, Subs!SetAgents(a) PROVE SubsInv'
  <2> DEFINE after == [chain EXCEPT !.beside = a]
  <2>1. /\ SubsOf(after) /\ after.about = chain.about /\ after.sent = chain.sent /\ after.inbox = chain.inbox
        /\ after.now = chain.now
    BY <1>0 DEF SubsTyped, SubsOf
  <2>2. Subs!Happens(after)
    BY <1>7 DEF Subs!SetAgents
  <2> HIDE DEF after
  <2> QED BY <1>92, <2>1, <2>2, SubsStale
<1>8. CASE Subs!Tick
  <2> DEFINE now == chain.now + 1
             after == [chain EXCEPT !.now = now]
  <2>1. Subs!Happens(after) /\ chain.now < MaxTime
    BY <1>8 DEF Subs!Tick
  <2>2. now \in 1 .. MaxTime /\ now \in Nat /\ now >= chain.now
    BY <1>92, <2>1
  <2> HIDE DEF now
  <2>3. /\ SubsOf(after) /\ after.about = chain.about /\ after.sent = chain.sent /\ after.inbox = chain.inbox
        /\ after.now = now
    BY <1>0, <2>2 DEF SubsTyped, SubsOf
  <2> QED BY <2>1, <2>2, <2>3, SubsStale
<1>9. ASSUME NEW t \in Subs!Tokens, Subs!SetToken(t) PROVE SubsInv'
  BY <1>6, <1>9 DEF Subs!SetToken, Subs!MainOf
<1>10. ASSUME NEW k \in Watched, NEW record \in Subs!Kinds, Subs!SetRecord(k, record) PROVE SubsInv'
  <2> DEFINE main == [chain.main EXCEPT ![k] = record]
  <2>1. chain.about = "accounts" /\ Subs!Happens([chain EXCEPT !.main = main])
    BY <1>10 DEF Subs!SetRecord
  <2>2. main \in Subs!MainOf(chain.about)
    BY <1>90, <2>1 DEF Subs!MainOf, Subs!Records
  <2> QED BY <1>6, <2>1, <2>2
<1>11. ASSUME NEW expiry \in 1 .. MaxTime, Subs!Register(expiry) PROVE SubsInv'
  <2> DEFINE main == [chain.main EXCEPT !.held = TRUE, !.expiry = expiry]
  <2>1. chain.about = "ticker" /\ Subs!Happens([chain EXCEPT !.main.held = TRUE, !.main.expiry = expiry])
    BY <1>11 DEF Subs!Register
  <2>2. main \in Subs!MainOf(chain.about) /\ [chain EXCEPT !.main.held = TRUE, !.main.expiry = expiry] = [chain EXCEPT !.main = main]
    <3>1. chain.main \in Subs!Registrations
      BY <1>90, <2>1 DEF Subs!MainOf
    <3>2. main \in Subs!Registrations
      <4>1. expiry \in 0 .. MaxTime
        BY TickerAssumption
      <4>2. \A reg \in Subs!Registrations, e \in 0 .. MaxTime :
              [reg EXCEPT !.expiry = e] \in Subs!Registrations /\ [reg EXCEPT !.held = TRUE] \in Subs!Registrations
        BY DEF Subs!Registrations
      <4>3. main = [[chain.main EXCEPT !.held = TRUE] EXCEPT !.expiry = expiry]
        OBVIOUS
      <4> QED BY <3>1, <4>1, <4>2, <4>3
    <3>3. [chain EXCEPT !.main.held = TRUE, !.main.expiry = expiry] = [chain EXCEPT !.main = main]
      BY <1>90, <3>1 DEF Subs!Registrations
    <3> QED BY <2>1, <3>2, <3>3 DEF Subs!MainOf
  <2> QED BY <1>6, <2>1, <2>2
<1>12. CASE Subs!Issue
  <2> DEFINE main == [chain.main EXCEPT !.issued = TRUE]
  <2>1. chain.about = "ticker" /\ Subs!Happens([chain EXCEPT !.main = main])
    BY <1>12 DEF Subs!Issue
  <2>2. main \in Subs!MainOf(chain.about)
    BY <1>90, <2>1 DEF Subs!MainOf, Subs!Registrations
  <2> QED BY <1>6, <2>1, <2>2
<1> QED BY <1>1, <1>2, <1>3, <1>4, <1>5, <1>7, <1>8, <1>9, <1>10, <1>11, <1>12 DEF Subs!Next

LEMMA SubsStutter == SubsInv /\ UNCHANGED <<chain, call>> => SubsInv'
BY DEF SubsInv, SubsTyped, SubsOf, SubsOff, SubsOn, SubsReads, SubsAsked, SubsKnows, SubsLastAsked, SubsTold

LEMMA SubsOK == SubsInv => Subs!TypeOK
<1> SUFFICES ASSUME SubsInv PROVE Subs!TypeOK
  OBVIOUS
<1>1. call.op \in {"none", chain.about} /\ call.left \subseteq {"beside"}
  BY DEF SubsInv, SubsOff, SubsOn, SubsReads, Idle
<1> QED BY <1>1 DEF SubsInv, SubsTyped, SubsOf, Subs!TypeOK

LEMMA SubsTrue == SubsInv => Subs!LastToldIsTrue
<1> SUFFICES ASSUME SubsInv, Subs!AllQuiet PROVE Subs!LastToldIsTrue
  BY DEF Subs!LastToldIsTrue
<1> DEFINE told == call.read.told[1]
<1>1. Subs!Built /\ chain.sent = <<chain.main>> /\ chain.inbox = <<>> /\ call.read.asked = <<>>
  BY DEF Subs!AllQuiet
<1>2. SubsOn /\ chain.sent # <<>> /\ chain.sent[1] = chain.main
  BY <1>1 DEF SubsInv, SubsOff, Subs!Built, Idle
<1>3. SubsKnows
  BY <1>1, <1>2 DEF SubsOn
<1>4. chain.about \in {"asset", "accounts", "ticker"} /\ chain.main \in Subs!MainOf(chain.about)
  BY DEF SubsInv, SubsTyped, SubsOf
<1>5. CASE chain.about = "asset"
  <2>1. (told.token = chain.main \/ call.read.late) /\ told.agents = call.read.beside
    BY <1>1, <1>2, <1>3, <1>5 DEF SubsKnows, SubsLastAsked, SubsTold
  <2> QED BY <1>5, <2>1 DEF Subs!LastToldIsTrue
<1>6. CASE chain.about = "accounts"
  <2>1. told = Subs!Secondary(chain.main, call.read.beside) /\ chain.main \in [Watched -> {"none", "mine", "foreign", "primary"}]
    BY <1>2, <1>3, <1>4, <1>6 DEF SubsKnows, Subs!MainOf, Subs!Records, Subs!Kinds
  <2> HIDE DEF told
  <2>2. \A k \in Watched : \/ (k \in told) = (chain.main[k] = "mine")
                           \/ k \in call.read.beside /\ chain.main[k] = "foreign"
                           \/ k \notin call.read.beside /\ chain.main[k] = "mine"
    BY <2>1 DEF Subs!Secondary
  <2> QED BY <1>6, <2>2 DEF Subs!LastToldIsTrue, told
<1>7. CASE chain.about = "ticker"
  <2>1. SubsToldTicker(told, chain.main, chain.now)
    BY <1>2, <1>3, <1>7 DEF SubsKnows
  <2>2. \/ told = "AssetCreated" /\ chain.main.issued
        \/ told = "Reserved" /\ chain.main.held /\ ~chain.main.issued
        \/ told = "Free" /\ ~chain.main.issued /\ (chain.main.expiry < chain.now \/ ~chain.main.held)
    BY <2>1 DEF SubsToldTicker
  <2> QED BY <1>7, <2>2 DEF Subs!LastToldIsTrue
<1> QED BY <1>4, <1>5, <1>6, <1>7

LEMMA SubsDone == SubsInv /\ Subs!Next => Subs!LastToldIsTrue'
<1>1. SubsInv /\ Subs!Next => SubsInv'
  BY SubsNext
<1>2. SubsInv' => Subs!LastToldIsTrue'
  BY SubsTrue, PTL
<1> QED BY <1>1, <1>2
===============================================================================
