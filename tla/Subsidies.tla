-------------------------------- MODULE Subsidies ------------------------------
(***************************************************************************)
(* The allowance of a Subsidy and its end, and a transfer of POLYX, while  *)
(* fees are paid, the Subsidy changes hands and CDD claims come and go.    *)
(***************************************************************************)
EXTENDS FollowedCall, Integers

CONSTANTS
  Amounts,   \* allowances and amounts
  Limit      \* bound on allowances and balances

(* Who pays for the beneficiary, and how much is left; the free balance of *)
(* the sender, and who has a valid CDD claim.                              *)
Chains == [payer : {"subsidizer", "another", "none"}, left : 0 .. Limit,
           free : 0 .. Limit, cdd : SUBSET {"sender", "receiver"}]

TypeOK ==
  /\ chain \in Chains
  /\ chain.payer = "none" => chain.left = 0
  /\ call.op \in {"none", "allowance", "quit", "transfer"}
  /\ call.left \subseteq {"subsidy", "balance", "receiver", "senderCdd", "receiverCdd"}

Init == chain \in Chains /\ (chain.payer = "none" => chain.left = 0) /\ call = Idle

-----------------------------------------------------------------------------
(* modifyAllowance, of the subsidizer; quitSubsidy, of either of the two.  *)
Modify(how, amount) == Calls("allowance", [how |-> how, amount |-> amount], {"subsidy"})
Quit == Calls("quit", NoArgs, {"subsidy"})

(* The relationship, and what is left of it.  Mutant: an allowance may     *)
(* decrease by more than is left.                                          *)
Enough_Any(amount) == chain.left # amount
Enough(amount) == chain.left > amount
MayChange(how, amount) ==
  /\ how = "set" => chain.left # amount
  /\ how = "decrease" => Enough(amount)
ReadSubsidy ==
  \/ /\ Answers("allowance", "subsidy")
     /\ Check("subsidy", chain.payer = "subsidizer" /\ MayChange(call.args.how, call.args.amount))
  \/ Answers("quit", "subsidy") /\ Check("subsidy", chain.payer = "subsidizer")

Transfer(amount) == Calls("transfer", [amount |-> amount], {"balance", "receiver"})
(* The claims are only looked at once the balance and the receiver are     *)
(* known.                                                                  *)
Then(r) == Keep(r, NoArgs, IF call.left = {r} THEN {"senderCdd", "receiverCdd"} ELSE {})
ReadBalance ==
  Answers("transfer", "balance") /\ IF call.args.amount > chain.free THEN Refuse ELSE Then("balance")
ReadReceiver == Answers("transfer", "receiver") /\ Then("receiver")
ReadCdd ==
  \/ Answers("transfer", "senderCdd") /\ Check("senderCdd", "sender" \in chain.cdd)
  \/ Answers("transfer", "receiverCdd") /\ Check("receiverCdd", "receiver" \in chain.cdd)

-----------------------------------------------------------------------------
(* The relayer and balances pallets (external to the SDK) *)

Accepted ==
  CASE call.op = "allowance" ->
         chain.payer = "subsidizer" /\ (call.args.how = "decrease" => call.args.amount <= chain.left)
    [] call.op = "quit" -> chain.payer = "subsidizer"
    [] call.op = "transfer" -> call.args.amount <= chain.free /\ chain.cdd = {"sender", "receiver"}
    [] OTHER -> TRUE

Allowed(how, amount) ==
  CASE how = "set" -> amount [] how = "increase" -> chain.left + amount [] OTHER -> chain.left - amount


DispatchAllowance ==
  /\ Built /\ call.op = "allowance" /\ Allowed(call.args.how, call.args.amount) <= Limit
  /\ Dispatches(Accepted, [chain EXCEPT !.left = Allowed(call.args.how, call.args.amount)])
DispatchQuit == call.op = "quit" /\ Dispatches(Accepted, [chain EXCEPT !.payer = "none", !.left = 0])
DispatchTransfer ==
  call.op = "transfer" /\ Dispatches(Accepted, [chain EXCEPT !.free = @ - call.args.amount])

(* Others: fees paid out of the Subsidy, its end and another in its place. *)
Spend(n)  == n <= chain.left /\ Happens([chain EXCEPT !.left = @ - n])
Subsidize(who) == Happens([chain EXCEPT !.payer = who, !.left = IF who = "none" THEN 0 ELSE 1])
Pay(n)    == Happens([chain EXCEPT !.free = n])
Certify(whom) == Happens([chain EXCEPT !.cdd = whom])

Next ==
  \/ \E how \in {"set", "increase", "decrease"}, n \in Amounts : Modify(how, n)
  \/ Quit \/ \E n \in Amounts : Transfer(n)
  \/ ReadSubsidy \/ ReadBalance \/ ReadReceiver \/ ReadCdd
  \/ DispatchAllowance \/ DispatchQuit \/ DispatchTransfer
  \/ \E n \in Amounts : Spend(n)
  \/ \E n \in 0 .. Limit : Pay(n)
  \/ \E who \in {"subsidizer", "another", "none"} : Subsidize(who)
  \/ \E whom \in SUBSET {"sender", "receiver"} : Certify(whom)

-----------------------------------------------------------------------------
(* Properties *)

(* What was checked is only reverted when something changed: the allowance *)
(* was spent, the Subsidy ended, the balance moved or a claim ran out.     *)
RevertedOnlyIfStale == Built /\ Fresh => Accepted

(* Who is turned away could not have been served, or asks for what is so;  *)
(* an allowance is not decreased to nothing, which the chain would do.     *)
TurnedAwayRightly ==
  TurnedAway /\ Fresh =>
    ~Accepted \/ (call.op = "allowance" /\ call.args.how # "increase" /\ chain.left = call.args.amount)
===============================================================================
