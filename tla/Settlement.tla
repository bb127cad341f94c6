------------------------------ MODULE Settlement ------------------------------
(***************************************************************************)
(* Settlement instructions: the procedures addInstruction,                 *)
(* modifyInstructionAffirmation (affirm, withdraw, reject),                *)
(* executeManualInstruction and rescheduleInstruction.  One call at a time *)
(* is followed from the method to the dispatch of its transaction; all     *)
(* else happens around it: the other identities affirm, withdraw, reject,  *)
(* execute and reschedule, custody moves, portfolios are deleted, blocks   *)
(* go by and the chain settles what is due.                                *)
(*                                                                         *)
(* The call is cut where it awaits the chain: every cut reads the chain as *)
(* it is then and keeps what it read.                                      *)
(***************************************************************************)
EXTENDS Naturals, Sequences, FiniteSets

CONSTANTS
  Dids, VenueOwner,        \* identities; the owner of the venue
  Portfolios, OwnerOf,     \* portfolios and the identities they belong to
  Default,                 \* the default portfolios, which always exist
  Movable,                 \* the portfolios whose custody may change
  Requests,                \* arguments of addInstructions
  Selections,                 \* arguments "portfolios" of affirm, withdraw, reject
  MaxLegs,                 \* MAX_LEGS_LENGTH
  MaxBlock,                \* bound on the chain's growth
  MaxInstructions,         \* bound: no more are added once there are as many
  MaxChanges               \* bound on changes of custody and deletions

Types  == {"affirmation", "block", "manual"}
Leg    == [from : Portfolios, to : Portfolios]
(* What a user asks for; "flaw" stands for a leg of amount zero, or for a  *)
(* value date before the trade date.                                       *)
Input  == [legs : Seq(Leg), type : Types, end : Nat,
           flaw : {"none", "amount", "dates"}]

ASSUME PartiesAssumption ==
  /\ VenueOwner \in Dids /\ OwnerOf \in [Portfolios -> Dids] /\ Default \cup Movable \subseteq Portfolios
ASSUME InputAssumption ==
  /\ \A r \in Requests : r \in Seq(Input)
  /\ Selections \subseteq SUBSET Portfolios /\ {} \in Selections
ASSUME BoundsAssumption ==
  {MaxLegs, MaxInstructions, MaxChanges} \subseteq Nat /\ MaxBlock \in Nat \ {0}

VARIABLES
  block,        \* number of the latest block
  instructions, \* the instructions of the venue, by id
  custodian,    \* custodian of each portfolio
  existing,     \* the portfolios that exist
  changes,      \* changes of custody and deletions so far
  call          \* the procedure call that is followed

chain == <<block, instructions, custodian, existing, changes>>
vars  == <<chain, call>>

Instruction == [legs : Seq(Leg), type : Types, end : Nat,
                status : {"pending", "failed", "executed", "rejected"},
                affirmed : SUBSET Portfolios, due : BOOLEAN]

Operations == {"add", "affirm", "withdraw", "reject", "execute", "skip", "reschedule"}
Stages == {"idle", "open", "legs", "custody", "details", "affirmations", "ready"}

(* by: the signing identity; want, choice: the arguments; legs and k: the  *)
(* legs read and how many of them were looked at; found: the portfolios of *)
(* the signer, and kept: the positions in it of those that are sent;       *)
(* senders: senderLegAmount; stale (history): has anything the call        *)
(* depends on changed since it began?                                      *)
Call == [at : Stages, by : Dids, op : Operations, id : Nat, want : Requests \cup {<<>>},
         choice : Selections, legs : Seq(Leg), k : Nat, found : Seq(Portfolios),
         kept : SUBSET Nat, senders : Nat, toAffirm : Seq(SUBSET Portfolios), stale : BOOLEAN]

Idle == [at |-> "idle", by |-> VenueOwner, op |-> "add", id |-> 0, want |-> <<>>,
         choice |-> {}, legs |-> <<>>, k |-> 0, found |-> <<>>, kept |-> {}, senders |-> 0,
         toAffirm |-> <<>>, stale |-> FALSE]

Sides(leg)     == {leg.from, leg.to}
Involved(legs) == UNION {Sides(legs[i]) : i \in DOMAIN legs}
Senders(legs)  == {legs[i].from : i \in DOMAIN legs}
OnChain(id)    == instructions[id].status \in {"pending", "failed"}

TypeOK ==
  /\ block \in 1 .. MaxBlock /\ changes \in 0 .. MaxChanges
  /\ instructions \in Seq(Instruction)
  /\ custodian \in [Portfolios -> Dids] /\ existing \subseteq Portfolios
  /\ call \in Call /\ call.id <= Len(instructions)
  /\ call.senders <= call.k /\ call.k <= Len(call.legs)
  /\ call.kept \subseteq DOMAIN call.found

Init ==
  /\ block = 1 /\ instructions = <<>> /\ custodian = OwnerOf
  /\ existing = Portfolios /\ changes = 0
  /\ call = Idle

-----------------------------------------------------------------------------
(* Steps of the call *)

Goto(stage) == call' = [call EXCEPT !.at = stage] /\ UNCHANGED chain
Refuse      == call' = Idle /\ UNCHANGED chain
Check(test, stage) == IF test THEN Goto(stage) ELSE Refuse

At(stage, ops) == call.at = stage /\ call.op \in ops
Affirmations == {"affirm", "withdraw", "reject"}
Executions   == {"execute", "skip"}    \* without, with skipAffirmationCheck
Subject == instructions[call.id]

Start(d, op, id, stage) ==
  /\ call.at = "idle"
  /\ \E choice \in Selections, want \in (IF op = "add" THEN Requests ELSE {<<>>}) :
       /\ choice # {} => op \in Affirmations
       /\ op = "reject" => Cardinality(choice) <= 1
       /\ call' = [Idle EXCEPT !.at = stage, !.by = d, !.op = op, !.id = id,
                               !.choice = choice, !.want = want]
  /\ UNCHANGED chain

(* The methods of Venue (for its owner) and of Instruction.                *)
AddInstructions == Start(VenueOwner, "add", 0, "custody")
Modify(d, op, id) == op \in Affirmations /\ Start(d, op, id, "open")
ExecuteManually(d, op, id) == op \in Executions /\ Start(d, op, id, "open")
Reschedule(d, id) == Start(d, "reschedule", id, "details")

(* getLegs: it throws when the instruction has been pruned; the legs are   *)
(* asked for after that, and there may be none left.                       *)
OpenLegs == call.at = "open" /\ Check(OnChain(call.id), "legs")

ReadLegs ==
  LET legs == IF OnChain(call.id) THEN Subject.legs ELSE <<>>
  IN  /\ call.at = "legs"
      /\ call' = [call EXCEPT !.at = IF legs = <<>> THEN "details" ELSE "custody", !.legs = legs]
      /\ UNCHANGED chain

(* isParam: no choice means every portfolio.                               *)
IsParam(p) == call.choice = {} \/ p \in call.choice

(* checkCustody: of a portfolio that no longer exists the owner decides.   *)
(* executeManually asks for the custodian of every portfolio, which throws *)
(* for one that does not exist.                                            *)
Controls(d, p) == IF p \in existing THEN custodian[p] = d ELSE OwnerOf[p] = d
Throws(leg)    == call.op \in Executions /\ ~(Sides(leg) \subseteq existing)

(* The signer's portfolios of a leg; whether it is counted: it sends from  *)
(* one that exists.  Mutant: every portfolio found is counted.             *)
Mine(p)     == IsParam(p) /\ Controls(call.by, p)
IfMine(p)   == IF Mine(p) THEN <<p>> ELSE <<>>
Found(leg)  == IfMine(leg.from) \o IfMine(leg.to)
Counted_BothSides(leg) == Len(Found(leg))
Counted(leg) == IF Mine(leg.from) /\ leg.from \in existing THEN 1 ELSE 0

(* One leg of prepareStorage (assemblePortfolios).                         *)
CheckLeg ==
  LET leg == call.legs[call.k + 1]
  IN  /\ At("custody", Affirmations \cup Executions)
      /\ IF Throws(leg) THEN Refuse
         ELSE /\ call' = [call EXCEPT
                   !.at = IF call.k + 1 = Len(call.legs) THEN "details" ELSE "custody",
                   !.k = @ + 1, !.found = @ \o Found(leg), !.senders = @ + Counted(leg)]
              /\ UNCHANGED chain

(* Whether the end block forbids a change, and a manual execution.         *)
(* Mutants: both one block early.                                          *)
ReachedEnd_Early(i) == i.type = "block" /\ block + 1 >= i.end
ReachedEnd(i)       == i.type = "block" /\ block >= i.end
BeforeEnd_Early(i)  == block < i.end
BeforeEnd(i)        == block <= i.end

(* assertInstructionValid, then the two checks on the portfolios found.    *)
NamesUninvolved == call.choice # {} /\ Cardinality(call.choice) # Len(call.found)

CheckModifiable ==
  /\ At("details", Affirmations)
  /\ Check(OnChain(call.id) /\ ~ReachedEnd(Subject) /\ ~NamesUninvolved /\ call.found # <<>>,
           "affirmations")

(* userAffirmations: nothing is known of an instruction that was pruned.   *)
AffirmationStatus(p) ==
  IF ~OnChain(call.id) THEN "Unknown"
  ELSE IF p \in Subject.affirmed THEN "Affirmed" ELSE "Pending"

(* excludeCriteria.  Mutant: nothing is excluded.                          *)
Eligible_All(p) == TRUE
Eligible(p) ==
  /\ call.op = "affirm" => AffirmationStatus(p) # "Affirmed"
  /\ call.op = "withdraw" => AffirmationStatus(p) # "Pending"

(* validPortfolioIds, by their positions: the status of every portfolio    *)
(* found is read at once.  Mutant: only the first is kept.                 *)
ValidPortfolios_First ==
  {n \in DOMAIN call.found : Eligible(call.found[n]) /\ \A m \in 1 .. n - 1 : ~Eligible(call.found[m])}
ValidPortfolios == {n \in DOMAIN call.found : Eligible(call.found[n])}

ReadAffirmations ==
  /\ At("affirmations", Affirmations)
  /\ IF ValidPortfolios = {} THEN Refuse
     ELSE call' = [call EXCEPT !.at = "ready", !.kept = ValidPortfolios] /\ UNCHANGED chain

(* assertInstructionValidForManualExecution and the venue's owner.         *)
CheckExecutable ==
  /\ At("details", Executions)
  /\ Check(/\ Subject.type = "manual" /\ ~BeforeEnd(Subject)
           /\ call.found = <<>> => call.by = VenueOwner,
           IF call.op = "skip" THEN "ready" ELSE "affirmations")

(* instructionAffirmsPending: zero for an instruction that was pruned.     *)
AffirmsPending(i) ==
  IF i.status \in {"pending", "failed"} THEN Cardinality(Involved(i.legs) \ i.affirmed) ELSE 0

CheckAffirmed ==
  /\ At("affirmations", Executions) /\ Check(AffirmsPending(Subject) = 0, "ready")

CheckFailed ==
  /\ At("details", {"reschedule"}) /\ Check(Subject.status = "failed", "ready")

-----------------------------------------------------------------------------
(* addInstruction *)

(* portfoliosToAffirm, one set for every instruction.                      *)
ReadCustody ==
  /\ At("custody", {"add"})
  /\ IF \A n \in DOMAIN call.want : Involved(call.want[n].legs) \subseteq existing
       THEN call' = [call EXCEPT !.at = "details", !.toAffirm =
              [n \in DOMAIN call.want |->
                 {p \in Involved(call.want[n].legs) : custodian[p] = call.by}]]
            /\ UNCHANGED chain
       ELSE Refuse

(* getTxArgsAndErrors.                                                     *)
Valid(i) ==
  /\ i.legs # <<>> /\ Len(i.legs) <= MaxLegs /\ i.flaw = "none"
  /\ i.type # "affirmation" => i.end > block
  /\ \A n \in DOMAIN i.legs : OwnerOf[i.legs[n].from] # OwnerOf[i.legs[n].to]
  /\ Involved(i.legs) \subseteq existing

CheckRequest ==
  /\ At("details", {"add"})
  /\ Check(call.want # <<>> /\ \A n \in DOMAIN call.want : Valid(call.want[n]), "ready")

New(i, portfolios) ==
  [legs |-> i.legs, type |-> i.type, end |-> i.end, status |-> "pending",
   affirmed |-> portfolios, due |-> i.type = "affirmation" /\ portfolios = Involved(i.legs)]

(* The order in the batch: those without an affirmation go first.  Place  *)
(* is where an instruction goes, Order what is at a place.                 *)
NotAfter(toAffirm, m, n) ==
  IF (toAffirm[m] = {}) = (toAffirm[n] = {}) THEN m <= n ELSE toAffirm[m] = {}
Place(toAffirm, n) == Cardinality({m \in DOMAIN toAffirm : NotAfter(toAffirm, m, n)})
Order(toAffirm) ==
  [place \in DOMAIN toAffirm |-> CHOOSE n \in DOMAIN toAffirm : Place(toAffirm, n) = place]

(* The transactions of the batch.  Mutant: the portfolios are taken by the *)
(* position in it.                                                         *)
Transactions_ByPosition(want, toAffirm) ==
  [n \in DOMAIN want |-> New(want[Order(toAffirm)[n]], toAffirm[n])]
Transactions(want, toAffirm) ==
  [n \in DOMAIN want |-> New(want[Order(toAffirm)[n]], toAffirm[Order(toAffirm)[n]])]

-----------------------------------------------------------------------------
(* The settlement pallet (external to the SDK) *)

Open(i) == i.status \in {"pending", "failed"} /\ (i.type = "block" => block < i.end)

(* Does the chain let d affirm, withdraw or reject with the portfolios P?  *)
AcceptsModify(d, op, i, P, legCount) ==
  /\ Open(i) /\ P # {} /\ P \subseteq Involved(i.legs)
  /\ \A p \in P : custodian[p] = d
  /\ op = "affirm" => /\ P \cap i.affirmed = {} /\ P \cap Senders(i.legs) \subseteq existing
                      /\ Cardinality({n \in DOMAIN i.legs : i.legs[n].from \in P}) <= legCount
  /\ op = "withdraw" => P \subseteq i.affirmed

AcceptsExecute(d, i, P) ==
  /\ i.status \in {"pending", "failed"} /\ i.type = "manual" /\ block > i.end
  /\ IF P = {} THEN d = VenueOwner ELSE \A p \in P : custodian[p] = d
  /\ Involved(i.legs) \subseteq i.affirmed

AcceptsNew(d, i) ==
  /\ i.type # "affirmation" => i.end > block
  /\ \A p \in i.affirmed : custodian[p] = d
  /\ i.affirmed \cap Senders(i.legs) \subseteq existing

Modified(op, i, P) ==
  IF op = "affirm"
    THEN [i EXCEPT !.affirmed = @ \cup P,
                   !.due = @ \/ (i.type = "affirmation" /\ i.affirmed \cup P = Involved(i.legs))]
  ELSE IF op = "withdraw"
    THEN [i EXCEPT !.affirmed = @ \ P, !.due = @ /\ i.type # "affirmation"]
  ELSE [i EXCEPT !.status = "rejected", !.due = FALSE]

(* What the call depends on, of the instructions all at block b.           *)
View(all, b) ==
  IF call.op = "add" THEN {n \in DOMAIN call.want : call.want[n].end > b}
  ELSE <<all[call.id], all[call.id].type = "block" /\ b >= all[call.id].end>>

(* A call under way grows stale when the chain changes under it.           *)
Aging ==
  IF call.at = "idle" THEN UNCHANGED call
  ELSE call' = [call EXCEPT !.stale = \/ @ \/ custodian' # custodian \/ existing' # existing
                                      \/ View(instructions', block') # View(instructions, block)]

Replace(id, i) ==
  /\ instructions' = [instructions EXCEPT ![id] = i]
  /\ UNCHANGED <<block, custodian, existing, changes>>

(* A settlement that does not go through, say for lack of compliance,      *)
(* leaves the instruction failed.                                          *)
Settle(id) ==
  \E result \in {"executed", "failed"} :
    Replace(id, [instructions[id] EXCEPT !.status = result, !.due = FALSE])

Rescheduled(id) == Replace(id, [instructions[id] EXCEPT !.status = "pending", !.due = TRUE])

(* The transaction of the call is dispatched: it takes effect, or is       *)
(* reverted.                                                               *)
First(kept) == {call.found[n] : n \in {n \in kept : \A m \in kept : n <= m}}
Named     == IF call.op = "reject" THEN First(call.kept) ELSE {call.found[n] : n \in call.kept}
Requested == Transactions(call.want, call.toAffirm)

Accepted ==
  CASE call.op = "add"           -> \A n \in DOMAIN Requested : AcceptsNew(call.by, Requested[n])
    [] call.op \in Affirmations  -> AcceptsModify(call.by, call.op, Subject, Named, call.senders)
    [] call.op \in Executions    -> AcceptsExecute(call.by, Subject, First(DOMAIN call.found))
    [] call.op = "reschedule"    -> Subject.status = "failed"

Revert == call.at = "ready" /\ ~Accepted /\ Refuse

Dispatch(op) == At("ready", op) /\ Accepted /\ call' = Idle

DispatchAdd ==
  /\ Dispatch({"add"})
  /\ instructions' = instructions \o Requested
  /\ UNCHANGED <<block, custodian, existing, changes>>

DispatchModify     == Dispatch(Affirmations) /\ Replace(call.id, Modified(call.op, Subject, Named))
DispatchExecute    == Dispatch(Executions) /\ Settle(call.id)
DispatchReschedule == Dispatch({"reschedule"}) /\ Rescheduled(call.id)

(* What others do, through this SDK or not.                                *)
OthersModify(d, op, id) ==
  /\ \E P \in SUBSET Involved(instructions[id].legs) :
       /\ AcceptsModify(d, op, instructions[id], P, Len(instructions[id].legs))
       /\ Replace(id, Modified(op, instructions[id], P))
  /\ Aging

OthersExecute(d, id) ==
  /\ \E P \in {{}} \cup {{p} : p \in Involved(instructions[id].legs)} :
       AcceptsExecute(d, instructions[id], P)
  /\ Settle(id) /\ Aging

OthersReschedule(id) == instructions[id].status = "failed" /\ Rescheduled(id) /\ Aging

(* The chain settles what is due: all have affirmed, the block has come,   *)
(* or the instruction was rescheduled.                                     *)
ChainSettles(id) ==
  LET i == instructions[id] IN
  /\ i.status = "pending" /\ (i.due \/ (i.type = "block" /\ block >= i.end))
  /\ IF Involved(i.legs) \subseteq i.affirmed THEN Settle(id)
     ELSE Replace(id, [i EXCEPT !.status = "failed", !.due = FALSE])
  /\ Aging

NewBlock ==
  /\ block < MaxBlock /\ block' = block + 1
  /\ UNCHANGED <<instructions, custodian, existing, changes>>
  /\ Aging

SetCustodian(p, d) ==
  /\ p \in existing \cap Movable /\ custodian[p] # d /\ changes < MaxChanges
  /\ custodian' = [custodian EXCEPT ![p] = d] /\ changes' = changes + 1
  /\ UNCHANGED <<block, instructions, existing>>
  /\ Aging

(* A portfolio that is to send holds what it sends.                        *)
DeletePortfolio(p) ==
  /\ p \in existing \ Default /\ custodian[p] = OwnerOf[p] /\ changes < MaxChanges
  /\ \A id \in DOMAIN instructions : OnChain(id) => p \notin Senders(instructions[id].legs)
  /\ existing' = existing \ {p} /\ changes' = changes + 1
  /\ UNCHANGED <<block, instructions, custodian>>
  /\ Aging

-----------------------------------------------------------------------------
Prepare ==
  \/ OpenLegs \/ ReadLegs \/ CheckLeg
  \/ CheckModifiable \/ ReadAffirmations
  \/ CheckExecutable \/ CheckAffirmed \/ CheckFailed
  \/ ReadCustody \/ CheckRequest

Next ==
  \/ Len(instructions) < MaxInstructions /\ AddInstructions
  \/ Prepare \/ Revert
  \/ DispatchAdd \/ DispatchModify \/ DispatchExecute \/ DispatchReschedule
  \/ \E id \in DOMAIN instructions :
       \/ ChainSettles(id) \/ OthersReschedule(id)
       \/ \E d \in Dids :
            \/ Reschedule(d, id) \/ OthersExecute(d, id)
            \/ \E op \in Operations :
                 Modify(d, op, id) \/ ExecuteManually(d, op, id)
            \/ \E op \in Affirmations : OthersModify(d, op, id)
  \/ NewBlock
  \/ \E p \in Portfolios : DeletePortfolio(p) \/ \E d \in Dids : SetCustodian(p, d)

Spec == Init /\ [][Next]_vars

-----------------------------------------------------------------------------
(* Properties *)

TurnedAway == call.at \notin {"idle", "ready"} /\ call'.at = "idle"
Dispatched == call.at = "ready" /\ call'.at = "idle" /\ Accepted
Fresh      == ~call.stale
Custodied  == {p \in Involved(Subject.legs) : custodian[p] = call.by}

(* The checks of the procedures are enough: a transaction they let through *)
(* is only reverted when something it depends on changed since the call    *)
(* began, when the user asked to skip the check of the affirmations, or    *)
(* when it affirms for a portfolio that is to send and was deleted.        *)
SenderGone == call.op = "affirm" /\ ~(Named \cap Senders(Subject.legs) \subseteq existing)

RevertedOnlyIfStale ==
  call.at = "ready" /\ Fresh /\ call.op # "skip" /\ ~SenderGone => Accepted

(* Would the chain take an affirmation, a withdrawal or a rejection of the *)
(* call by its choice of portfolios, or by any of the signer's?            *)
Possible ==
  LET scope == IF call.choice = {} THEN Custodied ELSE call.choice
  IN  /\ scope \subseteq Custodied
      /\ \E p \in scope : AcceptsModify(call.by, call.op, Subject, {p}, Len(Subject.legs))

(* ... and not too much: who is turned away from an affirmation, a         *)
(* withdrawal or a rejection, nothing having changed, had no portfolio the *)
(* chain would have taken.  A portfolio chosen by name is in one leg only. *)
OnceEach ==
  \A m, n \in DOMAIN call.found :
    call.found[m] = call.found[n] /\ call.found[m] \in call.choice => m = n

TurnedAwayRightly ==
  [][(TurnedAway /\ Fresh /\ call.op \in Affirmations /\ OnceEach) => ~Possible]_vars

(* Every instruction of a batch is created once, affirmed by the           *)
(* portfolios of it the venue owner has custody of.                        *)
Added ==
  LET new == Len(instructions) + 1 .. Len(instructions')
  IN  /\ Cardinality(new) = Len(call.want)
      /\ \A n \in DOMAIN call.want : \E id \in new :
           LET i == instructions'[id]
               w == call.want[n]
           IN  /\ i.legs = w.legs /\ i.type = w.type /\ i.end = w.end
               /\ i.affirmed = {p \in Involved(w.legs) : custodian[p] = call.by}

(* Instructions are added as they were asked for; and of an affirmation or *)
(* a withdrawal without portfolios, "if empty, all the legs containing any *)
(* custodied Portfolios of the signer will be affirmed/affirmation will be *)
(* withdrawn".  A manual execution is never sent before its block,         *)
(* whatever happened since that was checked.                               *)
DoneAsAsked ==
  [][/\ Dispatched /\ Fresh /\ call.op = "add" => Added
     /\ Dispatched /\ Fresh /\ call.choice = {} =>
          /\ call.op = "affirm" => Custodied \subseteq instructions'[call.id].affirmed
          /\ call.op = "withdraw" => Custodied \cap instructions'[call.id].affirmed = {}
     /\ At("ready", Executions)' => (block > Subject.end)']_vars
===============================================================================
