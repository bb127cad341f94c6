------------------------------- MODULE Compliance ------------------------------
(***************************************************************************)
(* The compliance requirements of an Asset and its trusted claim issuers:  *)
(* setting, adding, changing and removing requirements, pausing them, and  *)
(* adding, removing and setting the issuers, while others do the same.     *)
(***************************************************************************)
EXTENDS FollowedCall, Integers, SequencesExt

CONSTANTS
  Requirements,   \* requirements that are passed, lists of conditions:
                  \* records with claim, type, target, weight and issuers
  Sets,           \* sets of requirements that are passed, lists of them
  Issuers,        \* Identities that may be trusted
  Invalid,        \* those of them that do not exist
  MaxComplexity,  \* maxConditionComplexity
  Ids             \* ids of requirements, 1 .. a bound

(***************************************************************************)
(* A condition is about a claim that the sender, the receiver or both must *)
(* have or not have, attested by its issuers or the default ones.  On      *)
(* chain a requirement has the conditions of either side apart.            *)
(***************************************************************************)
Condition(side, target) ==
  [claim |-> side.claim, type |-> side.type, target |-> target,
   weight |-> side.weight, issuers |-> side.issuers]
SideOf(c) == [claim |-> c.claim, type |-> c.type, weight |-> c.weight, issuers |-> c.issuers]

(* requirementToComplianceRequirement.  Mutant: a condition on both is one *)
(* on the sender.                                                          *)
ToChain_Sender(list) ==
  LET side(targets) == LET held == SelectSeq(list, LAMBDA c : c.target \in targets)
                       IN  [i \in DOMAIN held |-> SideOf(held[i])]
  IN  [sender |-> side({"sender", "both"}), receiver |-> side({"receiver"})]
ToChain(list) ==
  LET side(targets) == LET held == SelectSeq(list, LAMBDA c : c.target \in targets)
                       IN  [i \in DOMAIN held |-> SideOf(held[i])]
  IN  [sender |-> side({"sender", "both"}), receiver |-> side({"receiver", "both"})]

(* conditionsAreEqual: neither the target is compared, nor whether a claim *)
(* must be present or absent.  Mutant: nor the claim.                      *)
SameCondition_Any(a, b) == TRUE
SameCondition(a, b) == a.claim = b.claim /\ a.issuers = b.issuers

(* complianceRequirementToRequirement: of the sender's conditions that are *)
(* the same only the first is kept, and one of the receiver's makes it one *)
(* on both.  Mutant: it is left out.                                       *)
AddSender(list, side) ==
  IF \E i \in DOMAIN list : SameCondition(list[i], side) THEN list
  ELSE Append(list, Condition(side, "sender"))
AddReceiver_None(list, side) ==
  IF \E i \in DOMAIN list : SameCondition(list[i], side) THEN list
  ELSE Append(list, Condition(side, "receiver"))
AddReceiver(list, side) ==
  LET first == SelectInSeq(list, LAMBDA c : SameCondition(c, side)) IN
  IF first # 0 /\ list[first].target = "sender" THEN [list EXCEPT ![first].target = "both"]
  ELSE Append(list, Condition(side, "receiver"))
FromChain(req) == FoldLeft(AddReceiver, FoldLeft(AddSender, <<>>, req.sender), req.receiver)

(* The requirements by their ids, with none for an id not in use, whether  *)
(* they are paused, and the default trusted claim issuers.                 *)
TypeOK ==
  /\ chain.paused \in BOOLEAN /\ chain.trusted \subseteq Issuers \ Invalid
  /\ DOMAIN chain.reqs \subseteq Ids
  /\ \A id \in DOMAIN chain.reqs : chain.reqs[id] \in {ToChain(r) : r \in Requirements}
  /\ call.op \in {"none", "reset", "add", "change", "remove", "pause", "issuers"}
  /\ call.left \subseteq {"requirements", "state", "issuers", "dids"}

None == [id \in {} |-> ToChain(<<>>)]
Init == chain \in [reqs : {None}, paused : BOOLEAN, trusted : SUBSET (Issuers \ Invalid)] /\ call = Idle

-----------------------------------------------------------------------------
(* hasSameElements, of the conditions of two requirements                  *)
SameConditions(first, second) ==
  /\ Len(first) = Len(second)
  /\ \A i \in DOMAIN first : \E j \in DOMAIN second : SameCondition(first[i], second[j])

(* assertRequirementsNotTooComplex: what was counted before is multiplied, *)
(* too, by the issuers of a condition, or by two when it is on both sides. *)
Times(c, default) ==
  (IF c.target = "both" THEN 2 ELSE 1) * (IF c.issuers = 0 THEN default ELSE c.issuers)
Complexity(list, default) ==
  FoldLeft(LAMBDA sum, c : (sum + c.weight) * Times(c, default), 0, list)

(* The requirements in the order of their ids, and as they are read.       *)
InOrder(reqs) == LET ids == SetToSortSeq(DOMAIN reqs, LAMBDA a, b : a < b)
                 IN  [n \in DOMAIN ids |-> reqs[ids[n]]]
Read(reqs) == [n \in DOMAIN InOrder(reqs) |-> FromChain(InOrder(reqs)[n])]
Without(id) == [i \in DOMAIN chain.reqs \ {id} |-> chain.reqs[i]]
Simple(list) == Complexity(list, Cardinality(chain.trusted)) <= MaxComplexity

(* setAssetRequirements *)
Reset(set) == Calls("reset", [set |-> set], {"requirements"})
SameRequirements(first, second) ==
  /\ Len(first) = Len(second)
  /\ \A i \in DOMAIN first : \E j \in DOMAIN second : SameConditions(first[i], second[j])
MayReset(set) == Simple(FlattenSeq(set)) /\ ~SameRequirements(set, Read(chain.reqs))

(* addAssetRequirement *)
AddRequirement(r) == Calls("add", [conditions |-> r], {"requirements"})
MayAdd(r) ==
  /\ \A id \in DOMAIN chain.reqs : ~SameConditions(FromChain(chain.reqs[id]), r)
  /\ Simple(FlattenSeq(Read(chain.reqs)) \o r)

(* modifyComplianceRequirement *)
Change(id, r) == Calls("change", [id |-> id, conditions |-> r], {"requirements"})
MayChange(id, r) ==
  /\ id \in DOMAIN chain.reqs
  /\ ~SameConditions(r, FromChain(chain.reqs[id]))
  /\ Simple(FlattenSeq(Read(Without(id))) \o r)

(* removeAssetRequirement.  Mutant: there or not.                          *)
RemoveRequirement(id) == Calls("remove", [id |-> id], {"requirements"})
MayRemove_Any(id) == TRUE
MayRemove(id) == id \in DOMAIN chain.reqs

ReadRequirements ==
  \/ Answers("reset", "requirements") /\ Check("requirements", MayReset(call.args.set))
  \/ Answers("add", "requirements") /\ Check("requirements", MayAdd(call.args.conditions))
  \/ Answers("change", "requirements") /\ Check("requirements", MayChange(call.args.id, call.args.conditions))
  \/ Answers("remove", "requirements") /\ Check("requirements", MayRemove(call.args.id))

(* togglePauseRequirements *)
Pause(on) == Calls("pause", [on |-> on], {"state"})
ReadState == Answers("pause", "state") /\ Check("state", chain.paused # call.args.on)

(* modifyAssetTrustedClaimIssuers: what is deleted is worked out from the  *)
(* issuers there are; then it is asked whether those passed exist.         *)
Trust(how, whom) == Calls("issuers", [how |-> how, whom |-> whom], {"issuers"})
MayTrust(how, whom) ==
  CASE how = "add" -> whom \cap chain.trusted = {}
    [] how = "remove" -> whom \subseteq chain.trusted
    [] OTHER -> whom # chain.trusted
(* Mutant: what is set is added to those there are.                        *)
ToDelete_Set(how, whom) == IF how = "remove" THEN whom ELSE {}
ToDelete(how, whom) ==
  CASE how = "add" -> {} [] how = "remove" -> whom [] OTHER -> chain.trusted
ReadIssuers ==
  /\ Answers("issuers", "issuers")
  /\ IF ~MayTrust(call.args.how, call.args.whom) THEN Refuse
     ELSE Keep("issuers", [delete |-> ToDelete(call.args.how, call.args.whom),
                           add |-> IF call.args.how = "remove" THEN {} ELSE call.args.whom], {"dids"})
ReadDids == Answers("issuers", "dids") /\ Check("dids", call.args.whom \cap Invalid = {})

-----------------------------------------------------------------------------
(* The compliance pallet (external to the SDK) *)

(* The complexity the chain counts: of each condition, times its issuers,  *)
(* on each of its sides.                                                   *)
Counted(reqs) ==
  LET sides == FlattenSeq([n \in DOMAIN InOrder(reqs) |->
                             InOrder(reqs)[n].sender \o InOrder(reqs)[n].receiver])
  IN  FoldLeft(LAMBDA sum, c : sum + c.weight * Times(Condition(c, "either"), Cardinality(chain.trusted)), 0, sides)

LastId == Max(DOMAIN chain.reqs \cup {0})
Adding(r) == [id \in DOMAIN chain.reqs \cup {LastId + 1} |-> IF id = LastId + 1 THEN r ELSE chain.reqs[id]]
After ==
  CASE call.op = "reset" -> [chain EXCEPT !.reqs = [id \in DOMAIN call.args.set |-> ToChain(call.args.set[id])]]
    [] call.op = "add" -> [chain EXCEPT !.reqs = Adding(ToChain(call.args.conditions))]
    [] call.op = "change" -> [chain EXCEPT !.reqs =
         [id \in DOMAIN @ |-> IF id = call.args.id THEN ToChain(call.args.conditions) ELSE @[id]]]
    [] call.op = "remove" -> [chain EXCEPT !.reqs = Without(call.args.id)]
    [] call.op = "pause" -> [chain EXCEPT !.paused = call.args.on]
    [] call.op = "issuers" -> [chain EXCEPT !.trusted = (@ \ call.read.delete) \cup call.read.add]
    [] OTHER -> chain

Accepted ==
  CASE call.op \in {"reset", "add"} -> Counted(After.reqs) <= MaxComplexity
    [] call.op = "change" -> call.args.id \in DOMAIN chain.reqs /\ Counted(After.reqs) <= MaxComplexity
    [] call.op = "remove" -> call.args.id \in DOMAIN chain.reqs
    [] call.op = "issuers" ->
         call.read.delete \subseteq chain.trusted /\ call.read.add \cap (chain.trusted \ call.read.delete) = {}
    [] OTHER -> TRUE

Dispatch == Built /\ DOMAIN After.reqs \subseteq Ids /\ Dispatches(Accepted, After)

OthersAdd(r) == LastId + 1 \in Ids /\ Happens([chain EXCEPT !.reqs = Adding(ToChain(r))])
OthersRemove(id) == Happens([chain EXCEPT !.reqs = Without(id)])
OthersPause == Happens([chain EXCEPT !.paused = ~@])
OthersTrust(i) == Happens([chain EXCEPT !.trusted = IF i \in @ THEN @ \ {i} ELSE @ \cup {i}])

Next ==
  \/ \E set \in Sets : Reset(set)
  \/ \E r \in Requirements : AddRequirement(r) \/ \E id \in Ids : Change(id, r)
  \/ \E id \in Ids : RemoveRequirement(id)
  \/ \E on \in BOOLEAN : Pause(on)
  \/ \E how \in {"add", "remove", "set"}, whom \in SUBSET Issuers : Trust(how, whom)
  \/ ReadRequirements \/ ReadState \/ ReadIssuers \/ ReadDids
  \/ Dispatch
  \/ \E r \in Requirements : OthersAdd(r)
  \/ \E id \in DOMAIN chain.reqs : OthersRemove(id)
  \/ OthersPause
  \/ \E i \in Issuers \ Invalid : OthersTrust(i)

-----------------------------------------------------------------------------
(* Properties *)

(* What is demanded of whom, by conditions that are passed or read, and by *)
(* a requirement on chain.                                                 *)
Demanded(list) ==
  UNION {{<<who, SideOf(c)>> : c \in {c \in Range(list) : c.target \in {who, "both"}}} :
         who \in {"sender", "receiver"}}
Demands(req) == ({"sender"} \X Range(req.sender)) \cup ({"receiver"} \X Range(req.receiver))
(* Two demands are about the same claim, which one wants and one does not. *)
Confused(demands) ==
  \E a, b \in demands : a[2].type # b[2].type /\ a[2].claim = b[2].claim /\ a[2].issuers = b[2].issuers
AllDemands == UNION {Demands(chain.reqs[id]) : id \in DOMAIN chain.reqs}
(* What was checked is only reverted when something changed, or when there *)
(* are no default issuers: then nothing counts; or when a requirement that *)
(* stays wants a claim and does not want it: one of the two is not read.   *)
RevertedOnlyIfStale ==
  Built /\ Fresh =>
    \/ Accepted
    \/ chain.trusted = {}
    \/ call.op \in {"add", "change"} /\ Confused(AllDemands)

(* A condition after others is on both sides or has more than one issuer.  *)
Overcounted(list) == \E i \in 2 .. Len(list) : Times(list[i], Cardinality(chain.trusted)) > 1

(* Who is turned away asked for what is so, for a requirement there is not *)
(* or for an Identity that cannot be trusted, or for too complex a set of  *)
(* requirements; but conditions on the same claim are taken for the same   *)
(* one, the side they are on is not looked at, and conditions before       *)
(* others are counted for too much.                                        *)
TurnedAwayRightly ==
  TurnedAway /\ Fresh =>
    CASE call.op \in {"add", "change"} ->
           \/ call.op = "change" /\ call.args.id \notin DOMAIN chain.reqs
           \/ \E id \in DOMAIN chain.reqs :
                {d[2] : d \in Demands(chain.reqs[id])} = {SideOf(c) : c \in Range(call.args.conditions)}
           \/ Confused(AllDemands \cup Demanded(call.args.conditions))
           \/ Overcounted(FlattenSeq(Read(chain.reqs)) \o call.args.conditions)
           \/ ~Accepted
      [] call.op = "reset" ->
           \/ {Demands(chain.reqs[id]) : id \in DOMAIN chain.reqs} = {Demanded(r) : r \in Range(call.args.set)}
           \/ Confused(AllDemands \cup UNION {Demanded(r) : r \in Range(call.args.set)})
           \/ Overcounted(FlattenSeq(call.args.set))
           \/ ~Accepted
      [] call.op = "remove" -> ~Accepted
      [] call.op = "pause" -> chain.paused = call.args.on
      [] OTHER ->
           \/ call.args.whom \cap Invalid # {}
           \/ call.args.how = "add" /\ \E i \in call.args.whom : i \in chain.trusted
           \/ call.args.how = "remove" /\ \E i \in call.args.whom : i \notin chain.trusted
           \/ call.args.how = "set" /\ call.args.whom = chain.trusted

(* The requirements and the issuers asked for are the ones there are in    *)
(* the end, whatever others did; the other requirements stay.  A           *)
(* requirement is read as what it demands, unless it wants a claim and     *)
(* does not want it.                                                       *)
DoneAsAsked ==
  Built /\ Ends /\ Accepted =>
    /\ call.op = "reset" =>
         /\ Cardinality(DOMAIN chain'.reqs) = Len(call.args.set)
         /\ \A n \in DOMAIN call.args.set : Demands(InOrder(chain'.reqs)[n]) = Demanded(call.args.set[n])
    /\ call.op \in {"add", "change"} =>
         \E id \in DOMAIN chain'.reqs :
           /\ Demands(chain'.reqs[id]) = Demanded(call.args.conditions)
           /\ [i \in DOMAIN chain'.reqs \ {id} |-> chain'.reqs[i]] = Without(id)
    /\ \A id \in DOMAIN chain'.reqs :
         \/ Demanded(FromChain(chain'.reqs[id])) = Demands(chain'.reqs[id])
         \/ Confused(Demands(chain'.reqs[id]))
    /\ call.op = "issuers" =>
         CASE call.args.how = "add" -> chain'.trusted = chain.trusted \cup call.args.whom
           [] call.args.how = "remove" -> chain'.trusted = chain.trusted \ call.args.whom
           [] OTHER -> call.args.whom \subseteq chain'.trusted /\ (Fresh => chain'.trusted = call.args.whom)
===============================================================================
