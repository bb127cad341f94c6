------------------------------ MODULE Restrictions -----------------------------
(***************************************************************************)
(* The statistics of an Asset, the transfer restrictions that need them    *)
(* and who is exempt: enabling and disabling a statistic, adding a         *)
(* restriction, and setting those of one type, while others do the same.   *)
(* The chain is told whole sets, worked out from what was read.            *)
(***************************************************************************)
EXTENDS FollowedCall, Integers, FiniteSets

CONSTANTS
  Kinds,      \* kinds of restrictions, each with the statistic it needs
  Values,     \* limits
  Holders,    \* Identities that may be exempt
  MaxConditions   \* maxTransferConditionsPerAsset

Restrictions == Kinds \X Values
OfKind(kind, restrictions) == {r \in restrictions : r[1] = kind}

(* The statistics that are enabled, the restrictions, and of each kind who *)
(* is exempt.                                                              *)
Chains == [stats : SUBSET Kinds, restrictions : SUBSET Restrictions, exempt : [Kinds -> SUBSET Holders]]

Valid(c) ==
  /\ \A r \in c.restrictions : r[1] \in c.stats
  /\ Cardinality(c.restrictions) <= MaxConditions

TypeOK ==
  /\ chain \in Chains /\ Valid(chain)
  /\ call.op \in {"none", "enable", "disable", "add", "set"}
  /\ call.left \subseteq {"stats", "both", "same", "others", "exempt"}

Init == chain \in [stats : SUBSET Kinds, restrictions : {{}}, exempt : {[k \in Kinds |-> {}]}] /\ call = Idle

-----------------------------------------------------------------------------
(* addAssetStat and removeAssetStat *)

Enable(kind)  == Calls("enable", [kind |-> kind], {"stats"})
Disable(kind) == Calls("disable", [kind |-> kind], {"both"})

(* Mutant: a statistic that a restriction needs may be disabled.           *)
MayDisable_InUse(kind) == kind \in chain.stats
MayDisable(kind) == kind \in chain.stats /\ OfKind(kind, chain.restrictions) = {}

ReadStats ==
  /\ Answers("enable", "stats")
  /\ IF call.args.kind \in chain.stats THEN Refuse
     ELSE Keep("stats", [stats |-> chain.stats \cup {call.args.kind}], {})
ReadUse ==
  /\ Answers("disable", "both")
  /\ IF ~MayDisable(call.args.kind) THEN Refuse
     ELSE Keep("both", [stats |-> chain.stats \ {call.args.kind}], {})

(* addTransferRestriction *)

Add(kind, value, exempted) ==
  Calls("add", [kind |-> kind, value |-> value, exempted |-> exempted], {"both"})
MayAdd(r) ==
  /\ r[1] \in chain.stats
  /\ Cardinality(chain.restrictions) < MaxConditions
  /\ r \notin chain.restrictions
ReadBoth ==
  /\ Answers("add", "both")
  /\ LET r == <<call.args.kind, call.args.value>>
     IN IF ~MayAdd(r) THEN Refuse
        ELSE Keep("both", [conditions |-> chain.restrictions \cup {r}], {})

(* setTransferRestrictions: the statistics, the restrictions by type, each *)
(* with a read of its own, and the exemptions of this one.                 *)
Set(kind, values, exempted) ==
  /\ values = {} => exempted = {}
  /\ Calls("set", [kind |-> kind, values |-> values, exempted |-> exempted], {"stats"})

ReadNeeded ==
  /\ Answers("set", "stats")
  /\ IF call.args.values # {} /\ call.args.kind \notin chain.stats THEN Refuse
     ELSE Keep("stats", [others |-> 0, same |-> {}], {"same", "others"})
ReadSame ==
  /\ Answers("set", "same")
  /\ Keep("same", [call.read EXCEPT !.same = OfKind(call.args.kind, chain.restrictions)],
          IF "others" \in call.left THEN {} ELSE {"exempt"})
ReadOthers ==
  /\ Answers("set", "others")
  /\ Keep("others",
          [call.read EXCEPT !.others = Cardinality(chain.restrictions \ OfKind(call.args.kind, chain.restrictions))],
          IF "same" \in call.left THEN {} ELSE {"exempt"})

(* The smallest change to the exemptions.  Mutant: nobody loses his.       *)
ToRemove_None(current, given) == {}
ToSet(current, given)    == given \ current
ToRemove(current, given) == current \ given

(* Nothing changes when the restrictions are as many, each is there, and   *)
(* the exemptions are the same.                                            *)
Conditions == {call.args.kind} \X call.args.values
Unchanged(exempt) == call.read.same = Conditions /\ exempt = call.args.exempted
ReadExempt ==
  /\ Answers("set", "exempt")
  /\ LET current == chain.exempt[call.args.kind] IN
     IF Unchanged(current) \/ call.read.others + Cardinality(Conditions) >= MaxConditions THEN Refuse
     ELSE Keep("exempt", [conditions |-> Conditions, count |-> call.read.others + Cardinality(Conditions),
                          set |-> ToSet(current, call.args.exempted),
                          remove |-> ToRemove(current, call.args.exempted)], {})

-----------------------------------------------------------------------------
(* The statistics pallet (external to the SDK) *)

(* Statistics and conditions are replaced by those that are passed.        *)
After ==
  CASE call.op \in {"enable", "disable"} -> [chain EXCEPT !.stats = call.read.stats]
    [] call.op = "add" -> [chain EXCEPT !.restrictions = call.read.conditions,
                                        !.exempt[call.args.kind] = @ \cup call.args.exempted]
    [] call.op = "set" -> [chain EXCEPT !.restrictions = call.read.conditions,
                                        !.exempt[call.args.kind] = (@ \cup call.read.set) \ call.read.remove]
    [] OTHER -> chain

Accepted == Valid(After)
Dispatch == Built /\ Dispatches(Accepted, After)

OthersStats(stats) == LET c == [chain EXCEPT !.stats = stats] IN Valid(c) /\ Happens(c)
OthersRestrict(r) ==
  LET c == [chain EXCEPT !.restrictions = IF r \in @ THEN @ \ {r} ELSE @ \cup {r}] IN Valid(c) /\ Happens(c)
OthersExempt(kind, h) ==
  Happens([chain EXCEPT !.exempt[kind] = IF h \in @ THEN @ \ {h} ELSE @ \cup {h}])

Next ==
  \/ \E kind \in Kinds : Enable(kind) \/ Disable(kind)
  \/ \E kind \in Kinds, value \in Values, exempted \in SUBSET Holders : Add(kind, value, exempted)
  \/ \E kind \in Kinds, values \in SUBSET Values, exempted \in SUBSET Holders : Set(kind, values, exempted)
  \/ ReadStats \/ ReadUse \/ ReadBoth \/ ReadNeeded \/ ReadSame \/ ReadOthers \/ ReadExempt
  \/ Dispatch
  \/ \E stats \in SUBSET Kinds : OthersStats(stats)
  \/ \E r \in Restrictions : OthersRestrict(r)
  \/ \E kind \in Kinds, h \in Holders : OthersExempt(kind, h)

-----------------------------------------------------------------------------
(* Properties *)

(* What was checked is only reverted when something changed.               *)
RevertedOnlyIfStale == Built /\ Fresh => Accepted

(* Who is turned away asked for what is so, for a restriction without its  *)
(* statistic or a statistic that a restriction needs, or finds no slot     *)
(* left; a set of restrictions that would take the last slot is turned     *)
(* away too.                                                               *)
TurnedAwayRightly ==
  TurnedAway /\ Fresh =>
    LET kind == call.args.kind IN
    CASE call.op = "enable"  -> kind \in chain.stats
      [] call.op = "disable" -> kind \notin chain.stats \/ OfKind(kind, chain.restrictions) # {}
      [] call.op = "add" ->
           \/ kind \notin chain.stats \/ <<kind, call.args.value>> \in chain.restrictions
           \/ Cardinality(chain.restrictions) >= MaxConditions
      [] OTHER ->
           \/ kind \notin chain.stats
           \/ OfKind(kind, chain.restrictions) = Conditions /\ chain.exempt[kind] = call.args.exempted
           \/ Cardinality(chain.restrictions \ OfKind(kind, chain.restrictions))
                + Cardinality(Conditions) >= MaxConditions

(* The statistics, restrictions and exemptions asked for are so in the     *)
(* end, and unless something changed, nothing else of them is lost or      *)
(* added: what is sent is a whole set worked out from an earlier one.  Of  *)
(* the restrictions of other kinds see OtherKindsStay.                     *)
DoneAsAsked ==
  Built /\ Ends /\ Fresh /\ Accepted =>
    LET kind == call.args.kind IN
    /\ chain'.stats = CASE call.op = "enable" -> chain.stats \cup {kind}
                        [] call.op = "disable" -> chain.stats \ {kind}
                        [] OTHER -> chain.stats
    /\ call.op = "add" =>
         /\ chain'.restrictions = chain.restrictions \cup {<<kind, call.args.value>>}
         /\ chain'.exempt[kind] = chain.exempt[kind] \cup call.args.exempted
    /\ call.op = "set" =>
         OfKind(kind, chain'.restrictions) = Conditions /\ chain'.exempt[kind] = call.args.exempted

(* Setting the restrictions of a type leaves those of the others alone:    *)
(* "Sets all Transfer Restrictions of the corresponding type on this       *)
(* Asset".                                                                 *)
OtherKindsStay ==
  Built /\ Ends /\ Fresh /\ call.op = "set" =>
    \A k \in Kinds \ {call.args.kind} : OfKind(k, chain'.restrictions) = OfKind(k, chain.restrictions)
===============================================================================
