-------------------------------- MODULE MultiSigs ------------------------------
(***************************************************************************)
(* Creating a MultiSig and changing its signers, while those asked accept, *)
(* and others of the Identity change it.                                   *)
(***************************************************************************)
EXTENDS FollowedCall, Integers, Sequences, FiniteSets

CONSTANTS
  Signers,   \* those that may sign
  Lists,     \* lists of signers a MultiSig is created with or changed to
  Quorums    \* how many signatures are required

(* The creator, the signers, those asked to be, and how many must sign.    *)
Chains == [creator : {"me", "other", "none"}, signers : SUBSET Signers, asked : SUBSET Signers,
           required : Quorums \cup {0}]

TypeOK ==
  /\ chain \in Chains
  /\ chain.creator = "none" => chain.signers = {} /\ chain.asked = {}
  /\ call.op \in {"none", "create", "modify"}
  /\ call.left \subseteq {"signers", "required", "creator"}

Init ==
  /\ chain \in [creator : {"other", "none"}, signers : {{}}, asked : {{}}, required : {0}]
  /\ call = Idle

-----------------------------------------------------------------------------
In(list) == {list[i] : i \in DOMAIN list}

Create(list, required) ==
  /\ required <= Len(list)
  /\ Calls("create", [list |-> list, required |-> required], {})

(* prepareStorage reads the details; the creator is read when they are     *)
(* there.                                                                  *)
Modify(list) == chain.creator # "none" /\ Calls("modify", [list |-> list], {"signers", "required"})

(* calculateSignerDelta.  Mutant: all that are passed are added.           *)
ToAdd_All(current, target) == In(target)
ToAdd(current, target)    == In(target) \ current
ToRemove(current, target) == current \ In(target)

Then(r, found) == Keep(r, found, IF call.left = {r} THEN {"creator"} ELSE {})
ReadSigners ==
  /\ Answers("modify", "signers")
  /\ LET found == [add |-> ToAdd(chain.signers, call.args.list),
                   remove |-> ToRemove(chain.signers, call.args.list)]
     IN Then("signers", IF "required" \in call.left THEN [delta |-> found]
                        ELSE [delta |-> found, required |-> call.read.required])
ReadRequired ==
  /\ Answers("modify", "required")
  /\ Then("required", IF "signers" \in call.left THEN [required |-> chain.required]
                      ELSE [delta |-> call.read.delta, required |-> chain.required])

(* Mutant: the quorum is not compared with the new signers.                *)
EnoughSigners_Any(list, required) == TRUE
EnoughSigners(list, required) == required <= Len(list)
MayModify ==
  /\ call.read.delta.add \cup call.read.delta.remove # {}
  /\ chain.creator = "me"
  /\ EnoughSigners(call.args.list, call.read.required)
ReadCreator == Answers("modify", "creator") /\ Check("creator", MayModify)

-----------------------------------------------------------------------------
(* The multisig pallet (external to the SDK) *)

(* Those that are added are asked, and are no signers until they accept;   *)
(* the ones that stay must be enough without them.                         *)
Accepted ==
  CASE call.op = "create" -> call.args.required <= Cardinality(In(call.args.list))
    [] call.op = "modify" ->
         /\ chain.creator = "me"
         /\ call.read.delta.add \cap chain.signers = {}
         /\ call.read.delta.remove \subseteq chain.signers
         /\ call.read.delta.remove # {} =>
              Cardinality(chain.signers \ call.read.delta.remove) >= chain.required
    [] OTHER -> TRUE

DispatchCreate ==
  /\ call.op = "create"
  /\ Dispatches(Accepted, [creator |-> "me", signers |-> {}, asked |-> In(call.args.list),
                           required |-> call.args.required])
DispatchModify ==
  /\ Built /\ call.op = "modify"
  /\ Dispatches(Accepted, [chain EXCEPT !.signers = @ \ call.read.delta.remove,
                                        !.asked = @ \cup call.read.delta.add])

Accept(s) == s \in chain.asked /\ Happens([chain EXCEPT !.asked = @ \ {s}, !.signers = @ \cup {s}])
Leave(s)  ==
  /\ s \in chain.signers /\ Cardinality(chain.signers) > chain.required
  /\ Happens([chain EXCEPT !.signers = @ \ {s}])
Require(n) == n <= Cardinality(chain.signers) /\ Happens([chain EXCEPT !.required = n])

Next ==
  \/ \E list \in Lists, n \in Quorums : Create(list, n)
  \/ \E list \in Lists : Modify(list)
  \/ ReadSigners \/ ReadRequired \/ ReadCreator
  \/ DispatchCreate \/ DispatchModify
  \/ \E s \in Signers : Accept(s) \/ Leave(s)
  \/ \E n \in Quorums : Require(n)

-----------------------------------------------------------------------------
(* Properties *)

(* What was checked is only reverted when something changed, or when the   *)
(* signers that stay are too few until those that are added accept, though *)
(* all together are enough, or one is listed twice.                        *)
RevertedOnlyIfStale ==
  Built /\ Fresh =>
    \/ Accepted
    \/ call.op = "create" /\ Cardinality(In(call.args.list)) < Len(call.args.list)
    \/ /\ call.op = "modify"
       /\ Cardinality(chain.signers \cap In(call.args.list)) < chain.required
       /\ chain.required <= Len(call.args.list)

(* Who is turned away is not the creator, asked for the signers there are, *)
(* or for too few of them.                                                 *)
TurnedAwayRightly ==
  TurnedAway /\ Fresh =>
    \/ chain.creator # "me"
    \/ chain.signers = In(call.args.list)
    \/ Cardinality(In(call.args.list)) < chain.required

(* Only those asked for are signers in the end, and all of them are or     *)
(* have been asked to be.                                                  *)
DoneAsAsked ==
  Built /\ Ends /\ Fresh /\ Accepted =>
    /\ chain'.signers \subseteq In(call.args.list)
    /\ In(call.args.list) \subseteq chain'.signers \cup chain'.asked
    /\ chain'.required = IF call.op = "create" THEN call.args.required ELSE chain.required
===============================================================================
