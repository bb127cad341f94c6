--------------------------------- MODULE Tokens --------------------------------
(***************************************************************************)
(* Issuing, redeeming and forcibly transferring the tokens of an Asset,    *)
(* and freezing its transfers, while others issue, transfer and redeem     *)
(* them, freeze the Asset and make it divisible.                           *)
(***************************************************************************)
EXTENDS FollowedCall, Integers

CONSTANTS
  Amounts,      \* amounts passed, in halves of a token
  MaxBalance    \* MAX_BALANCE, in halves of a token

(* mine and theirs: free balances of a portfolio of one's own and of       *)
(* another's, all the tokens there are.                                    *)
Chains == {c \in [mine : 0 .. MaxBalance, theirs : 0 .. MaxBalance,
                  frozen : BOOLEAN, divisible : BOOLEAN] :
             c.mine + c.theirs <= MaxBalance}

TypeOK ==
  /\ chain \in Chains
  /\ call.op \in {"none", "issue", "redeem", "force", "freeze", "unfreeze"}
  /\ call.left \subseteq {"details", "balance", "frozen"}

Whole(n)   == n % 2 = 0
Granular(n) == chain.divisible \/ Whole(n)
Supply     == chain.mine + chain.theirs

Init ==
  /\ chain \in {c \in Chains : c.divisible \/ (Whole(c.mine) /\ Whole(c.theirs))}
  /\ call = Idle

-----------------------------------------------------------------------------
Issue(n)  == Calls("issue", [amount |-> n], {"details"})
Redeem(n) == Calls("redeem", [amount |-> n], {"balance", "details"})
(* own: are the tokens to be taken out of a portfolio of one's own?        *)
ControllerTransfer(n, own) ==
  Calls("force", [amount |-> n, own |-> own], {"balance"})
ToggleFreeze(op) == Calls(op, NoArgs, {"frozen"})

(* bigNumberToBalance.  Mutant: the decimals are not looked at.            *)
Converts_Always(n, divisible) == TRUE
Converts(n, divisible) == divisible \/ Whole(n)

(* Mutant: the limit itself may not be reached.                            *)
Fits_Below(n) == Supply + n < MaxBalance
Fits(n) == Supply + n <= MaxBalance

MayIssue == Fits(call.args.amount) /\ Converts(call.args.amount, chain.divisible)

ReadDetails ==
  \/ Answers("issue", "details") /\ Check("details", MayIssue)
  \/ Answers("redeem", "details") /\ Check("details", Converts(call.args.amount, chain.divisible))

(* The amount of a controller transfer is converted as if the Asset were   *)
(* divisible.                                                              *)
ReadBalance ==
  \/ Answers("redeem", "balance") /\ Check("balance", call.args.amount <= chain.mine)
  \/ /\ Answers("force", "balance")
     /\ Check("balance", /\ ~call.args.own
                         /\ call.args.amount <= chain.theirs
                         /\ Converts(call.args.amount, TRUE))

(* Mutant: thawing is not checked.                                         *)
MayToggle_Any == call.op = "freeze" => ~chain.frozen
MayToggle == chain.frozen = (call.op = "unfreeze")
ReadFrozen == call.op \in {"freeze", "unfreeze"} /\ "frozen" \in call.left /\ Check("frozen", MayToggle)

-----------------------------------------------------------------------------
(* The asset pallet (external to the SDK) *)

AcceptsIssue(n)  == Supply + n <= MaxBalance /\ Granular(n)
AcceptsRedeem(n) == n <= chain.mine /\ Granular(n)
AcceptsForce(n)  == n <= chain.theirs /\ Granular(n)

Accepted ==
  CASE call.op = "issue"    -> AcceptsIssue(call.args.amount)
    [] call.op = "redeem"   -> AcceptsRedeem(call.args.amount)
    [] call.op = "force"    -> AcceptsForce(call.args.amount)
    [] call.op = "freeze"   -> ~chain.frozen
    [] call.op = "unfreeze" -> chain.frozen

Pays(n, m) == [chain EXCEPT !.mine = @ + n, !.theirs = @ + m]

DispatchIssue  == call.op = "issue" /\ Dispatches(Accepted, Pays(call.args.amount, 0))
DispatchRedeem == call.op = "redeem" /\ Dispatches(Accepted, Pays(-call.args.amount, 0))
DispatchForce  ==
  call.op = "force" /\ Dispatches(Accepted, Pays(call.args.amount, -call.args.amount))
DispatchToggle ==
  /\ call.op \in {"freeze", "unfreeze"}
  /\ Dispatches(Accepted, [chain EXCEPT !.frozen = call.op = "freeze"])

OthersIssue(n)  == AcceptsIssue(n) /\ Happens(Pays(n, 0))
OthersRedeem(n) == n <= chain.theirs /\ Granular(n) /\ Happens(Pays(0, -n))
Transfer(n) ==
  /\ ~chain.frozen /\ Granular(n)
  /\ \/ n <= chain.mine /\ Happens(Pays(-n, n))
     \/ n <= chain.theirs /\ Happens(Pays(n, -n))
OthersToggle  == Happens([chain EXCEPT !.frozen = ~@])
MakeDivisible == Happens([chain EXCEPT !.divisible = TRUE])

Next ==
  \/ \E n \in Amounts : Issue(n) \/ Redeem(n) \/ OthersIssue(n) \/ OthersRedeem(n) \/ Transfer(n)
  \/ \E n \in Amounts, own \in BOOLEAN : ControllerTransfer(n, own)
  \/ \E op \in {"freeze", "unfreeze"} : ToggleFreeze(op)
  \/ ReadDetails \/ ReadBalance \/ ReadFrozen
  \/ DispatchIssue \/ DispatchRedeem \/ DispatchForce \/ DispatchToggle
  \/ OthersToggle \/ MakeDivisible

-----------------------------------------------------------------------------
(* Properties *)

(* What the checks let through is only reverted when something changed,    *)
(* but for a forced transfer of a part of an indivisible token.            *)
RevertedOnlyIfStale ==
  Built /\ Fresh => Accepted \/ (call.op = "force" /\ ~Granular(call.args.amount))

(* Who is turned away would have been reverted; tokens of one's own are    *)
(* not asked for by force.                                                 *)
TurnedAwayRightly ==
  TurnedAway /\ Fresh => ~Accepted \/ (call.op = "force" /\ call.args.own)
===============================================================================
