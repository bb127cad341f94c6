------------------------------- MODULE CaDefaults ------------------------------
(***************************************************************************)
(* The default configuration of an Asset's corporate actions, and the      *)
(* documents linked to one of them, while others change both.              *)
(***************************************************************************)
EXTENDS FollowedCall, Integers, Sequences, FiniteSets

CONSTANTS
  Holders,      \* Identities that are targeted and taxed
  TargetLists,  \* lists of targets
  TaxLists,     \* lists of taxes of holders, pairs <<holder, tax>>
  Taxes,        \* taxes withheld
  Contents,     \* contents of documents
  DocLists,     \* lists of documents to link
  MaxDidWhts,   \* how many holders may have a tax of their own
  NotPassed     \* an argument that is left out

(* The targets, that are included or excluded, the default tax, the taxes  *)
(* of holders that have their own, and the documents of the Asset by their *)
(* ids, of which some are linked.                                          *)
Treatments == {"Include", "Exclude"}
OwnTaxes == {taxes \in SUBSET (Holders \X Taxes) :
               /\ \A t, u \in taxes : t[1] = u[1] => t = u
               /\ Cardinality(taxes) <= MaxDidWhts}
Docs == {docs \in SUBSET ({1, 2} \X Contents) : \A d, e \in docs : d[1] = e[1] => d = e}
Chains == [targets : [identities : {{t[i] : i \in DOMAIN t} : t \in TargetLists}, treatment : Treatments],
           tax : Taxes, taxes : OwnTaxes, docs : Docs, linked : SUBSET {1, 2}]

Inputs == [identities : TargetLists, treatment : Treatments]
Configs == [targets : Inputs \cup {NotPassed}, tax : Taxes \cup {NotPassed},
            taxes : TaxLists \cup {NotPassed}]

TypeOK ==
  chain \in Chains /\ call.op \in {"none", "modify", "link"} /\ call.left \subseteq {"config", "entries"}

Init == chain \in Chains /\ chain.linked = {} /\ call = Idle

-----------------------------------------------------------------------------
Pairs(taxes) == {taxes[i] : i \in DOMAIN taxes}
(* hasSameElements of what is stored, where nothing is repeated, and what  *)
(* is passed.  Mutant: whatever their lengths.                             *)
SameAsStored_AnyLength(stored, list) == stored \subseteq {list[i] : i \in DOMAIN list}
SameAsStored(stored, list) ==
  Cardinality(stored) = Len(list) /\ stored \subseteq {list[i] : i \in DOMAIN list}

(* areSameTargets: the same Identities, treated the same.                  *)
SameTargets(targets, new) ==
  SameAsStored(targets.identities, new.identities) /\ targets.treatment = new.treatment

(* Only what is passed is counted, before anything is read.                *)
Modify(args) ==
  /\ \E field \in DOMAIN args : args[field] # NotPassed
  /\ args.taxes # NotPassed => Len(args.taxes) <= MaxDidWhts
  /\ Calls("modify", args, {"config"})

MayModify ==
  /\ call.args.targets # NotPassed => ~SameTargets(chain.targets, call.args.targets)
  /\ call.args.tax # NotPassed => call.args.tax # chain.tax
  /\ call.args.taxes # NotPassed => ~SameAsStored(chain.taxes, call.args.taxes)
ReadConfig == Answers("modify", "config") /\ Check("config", MayModify)

Link(list) == Calls("link", [list |-> list], {"entries"})

(* The ids of the documents asked for: of some with the same contents, the *)
(* one that comes first in the answer, which is in no order.  Mutant: all  *)
(* of them.                                                                *)
Wanted(list) == {list[i] : i \in DOMAIN list}
Ids_All(wanted) == {{d[1] : d \in {d \in chain.docs : d[2] \in wanted}}}
Ids(wanted) ==
  {ids \in SUBSET {d[1] : d \in chain.docs} :
     \A c \in Contents :
       Cardinality({d \in chain.docs : d[1] \in ids /\ d[2] = c}) = IF c \in wanted THEN 1 ELSE 0}
ReadEntries ==
  /\ Answers("link", "entries")
  /\ IF \E w \in Wanted(call.args.list) : \A d \in chain.docs : d[2] # w THEN Refuse
     ELSE \E ids \in Ids(Wanted(call.args.list)) : Keep("entries", [ids |-> ids], {})

-----------------------------------------------------------------------------
(* The corporate action and asset pallets (external to the SDK) *)

(* A tax of a holder is set in the place of the one there was; the others  *)
(* stay.                                                                   *)
Overridden(taxes, new) ==
  {t \in taxes : \A i \in DOMAIN new : new[i][1] # t[1]} \cup
  {new[i] : i \in {i \in DOMAIN new : \A j \in DOMAIN new : new[j][1] = new[i][1] => j <= i}}

Aimed(new) == [identities |-> Wanted(new.identities), treatment |-> new.treatment]
Given(new, old) == IF new = NotPassed THEN old ELSE new
TaxesAfter == IF call.args.taxes = NotPassed THEN chain.taxes ELSE Overridden(chain.taxes, call.args.taxes)

Accepted ==
  IF call.op = "modify" THEN Cardinality(TaxesAfter) <= MaxDidWhts
                        ELSE call.read.ids \subseteq {d[1] : d \in chain.docs}

DispatchModify ==
  /\ call.op = "modify"
  /\ Dispatches(Accepted, [chain EXCEPT
       !.targets = IF call.args.targets = NotPassed THEN @ ELSE Aimed(call.args.targets),
       !.tax = Given(call.args.tax, @), !.taxes = TaxesAfter])
DispatchLink == call.op = "link" /\ Dispatches(Accepted, [chain EXCEPT !.linked = call.read.ids])

OthersSet(tax)     == Happens([chain EXCEPT !.tax = tax])
OthersTax(list)    == Happens([chain EXCEPT !.taxes = Pairs(list)])
OthersTarget(new)  == Happens([chain EXCEPT !.targets = Aimed(new)])
OthersRemove(d)    == Happens([chain EXCEPT !.docs = @ \ {d}, !.linked = @ \ {d[1]}])

Next ==
  \/ \E args \in Configs : Modify(args)
  \/ \E list \in DocLists : Link(list)
  \/ ReadConfig \/ ReadEntries \/ DispatchModify \/ DispatchLink
  \/ \E tax \in Taxes : OthersSet(tax)
  \/ \E list \in TaxLists : Pairs(list) \in OwnTaxes /\ OthersTax(list)
  \/ \E new \in Inputs : OthersTarget(new)
  \/ \E d \in chain.docs : OthersRemove(d)

-----------------------------------------------------------------------------
(* Properties *)

(* What was checked is only reverted when something changed, or when the   *)
(* taxes passed and those there were are together too many: they are not   *)
(* replaced, only added to.                                                *)
RevertedOnlyIfStale ==
  Built /\ Fresh => Accepted \/ (call.op = "modify" /\ ~(chain.taxes \subseteq Pairs(call.args.taxes)))

(* Who is turned away asked for something that is so, or for a document    *)
(* the Asset does not have; something that is so is turned away, unless a  *)
(* list repeats an element.                                                *)
TurnedAwayRightly ==
  TurnedAway /\ Fresh =>
    IF call.op = "modify"
      THEN \/ call.args.targets # NotPassed /\ Aimed(call.args.targets) = chain.targets
           \/ call.args.tax = chain.tax
           \/ call.args.taxes # NotPassed /\ Pairs(call.args.taxes) = chain.taxes
      ELSE ~(Wanted(call.args.list) \subseteq {d[2] : d \in chain.docs})

(* What is asked for is so in the end, whatever others did: the documents  *)
(* of a list are linked, each once, those targeted, their treatment and    *)
(* the taxes are as they were passed.                                      *)
DoneAsAsked ==
  Built /\ Ends /\ Accepted =>
    /\ call.op = "link" =>
         /\ {d[2] : d \in {d \in chain'.docs : d[1] \in chain'.linked}} = Wanted(call.args.list)
         /\ Cardinality(chain'.linked) = Cardinality(Wanted(call.args.list))
    /\ call.op = "modify" =>
         /\ call.args.targets # NotPassed => chain'.targets = Aimed(call.args.targets)
         /\ call.args.tax # NotPassed => chain'.tax = call.args.tax
         /\ call.args.taxes # NotPassed => Pairs(call.args.taxes) \subseteq chain'.taxes
===============================================================================
