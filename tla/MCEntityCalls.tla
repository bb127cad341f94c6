----------------------------- MODULE MCEntityCalls -----------------------------
(***************************************************************************)
(* The values of the constants that are no plain sets.                     *)
(***************************************************************************)
EXTENDS EntityCalls

CONSTANTS a, b

(* Lists are empty, of one element, repeated, and out of order.            *)
MCIdLists   == {<<>>, <<1>>, <<1, 1>>, <<2, 1>>}
Edit(divisible, name, round, ids) ==
  [divisible |-> divisible, name |-> name, round |-> round, ids |-> ids]
MCChanges   == {Edit(TRUE, NotPassed, NotPassed, NotPassed), Edit(FALSE, NotPassed, NotPassed, NotPassed),
                Edit(NotPassed, a, NotPassed, NotPassed), Edit(NotPassed, NotPassed, b, NotPassed),
                Edit(NotPassed, NotPassed, NotPassed, <<2, 1>>), Edit(TRUE, b, a, <<1>>)}
MCNameLists == {<<a>>, <<a, b>>, <<b, b>>}
MCPayLists  == {<<"you">>, <<"me", "you">>, <<"you", "you">>}

MCTargetLists == {<<>>, <<"me", "me">>, <<"me", "you">>}
MCDocLists    == {<<"x">>, <<"x", "y">>}
MCTaxLists    == {<<>>, << <<"me", 1>> >>, << <<"you", 2>> >>}

MCSignerLists == {<<"a">>, <<"a", "b">>, <<"a", "a">>, <<"b", "c">>}

Condition(claim, type, target, issuers) ==
  [claim |-> claim, type |-> type, target |-> target, weight |-> 1, issuers |-> issuers]
C1 == Condition("x", "present", "sender", 0)
C2 == Condition("x", "absent", "receiver", 0)
C3 == Condition("y", "present", "both", 1)
C4 == Condition("x", "absent", "sender", 0)
MCRequirements    == {<<C1>>, <<C2>>, <<C3>>, <<C1, C2>>, <<C1, C3>>, <<C1, C4>>}
MCRequirementSets == {<<>>, << <<C1>> >>, << <<C2>>, <<C3>> >>}

T(mod, name) == [mod |-> mod, name |-> name]
Leave == T("identity", "leave")
Join  == T("identity", "add")
Bond  == T("staking", "bond")
AgentTags == {T("externalAgents", "create"), T("sto", "invest"), T("sto", "stop"),
              T("asset", "issue"), T("asset", "freeze"), T("capitalDistribution", "pay")}
MCTags     == {Leave, Join, Bond} \cup AgentTags
MCExempt   == {Leave, T("staking", "*")}
MCTxGroups == {{Leave, Join}, {Join, Bond}}
(* Permissions about two modules, one exempt, one with an exempt tag.      *)
Wholly     == [type |-> "Null", values |-> {}, exceptions |-> {}]
MCWrittenPermissions == {Wholly} \cup
  [type : {"Include", "Exclude"}, values : SUBSET {T("identity", "*"), Leave, Join, T("staking", "*")},
   exceptions : SUBSET {Leave, Join}]
MCAssigned == {Wholly, [type |-> "Include", values |-> {Join}, exceptions |-> {}],
               [type |-> "Exclude", values |-> {T("identity", "*")}, exceptions |-> {Join}]}
Some(of)   == [all |-> FALSE, of |-> of]
Every      == [all |-> TRUE, of |-> {}]
MCRequests ==
  {[txs |-> Some(of), assets |-> Some({})] :
     of \in SUBSET {Leave, Join, Bond} \cup {{t} : t \in AgentTags} \cup
            {{T("sto", "stop"), T("asset", "freeze")}}}
  \cup {[txs |-> Every, assets |-> Some({})], [txs |-> Some({Join}), assets |-> Every],
        [txs |-> Some({}), assets |-> Some({"A"})], [txs |-> Some({}), assets |-> Some({"B"})]}

Claim(kind, tag) == [kind |-> kind, tag |-> tag]
MCPassedClaims ==
  {{Claim("unique", "scope")}, {Claim("cdd", "0")}, {Claim("plain", "nobody")},
   {Claim("plain", "scope"), Claim("cdd", "1")}}
===============================================================================
