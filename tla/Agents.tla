--------------------------------- MODULE Agents --------------------------------
(***************************************************************************)
(* The external agents of an Asset and their permission groups: creating a *)
(* group, changing its permissions, moving an agent to a group or to the   *)
(* permissions of one, removing an agent, waiving one's own permissions    *)
(* and appointing the corporate actions agent, while others do the same.   *)
(***************************************************************************)
EXTENDS FollowedCall, Integers, FiniteSets

CONSTANTS
  Customs,  \* custom groups, in use or not
  Own,      \* permissions of custom groups
  People    \* Identities that may be agents; "me" is the one that signs

(* A known group has the permissions that bear its name.                   *)
Known  == {"full", "caa"}
Perms  == Known \cup Own
Groups == Known \cup Customs
Nobody == "none"

(* The group each is in, the permissions of the custom groups there are,   *)
(* and who was asked to become corporate actions agent.                    *)
Chains == [group : [People -> Groups \cup {Nobody}], custom : [Customs -> Perms \cup {Nobody}],
           asked : SUBSET People]

InUse   == {g \in Customs : chain.custom[g] # Nobody}
In(g)   == {p \in People : chain.group[p] = g}
PermsIn(c, g) == IF g \in Customs THEN c.custom[g] ELSE g
PermsOf(g) == PermsIn(chain, g)

(* What an agent is moved to: a group, or permissions.                     *)
Moves == [who : People, group : Groups \cup {Nobody}, perms : Perms \cup {Nobody}]

TypeOK ==
  /\ chain \in Chains
  /\ In("full") # {}
  /\ \A p \in People : chain.group[p] \in Known \cup InUse \cup {Nobody}
  /\ call.op \in {"none", "create", "set", "move", "remove", "waive", "appoint"}
  /\ call.left \subseteq {"agents", "group", "groups", "permissions"}

Init ==
  /\ chain = [group |-> [p \in People |-> IF p = "me" THEN "full" ELSE Nobody],
              custom |-> [g \in Customs |-> Nobody], asked |-> {}]
  /\ call = Idle

-----------------------------------------------------------------------------
CreateGroup(perms) == Calls("create", [perms |-> perms], {"groups"})
SetPermissions(g, perms) == Calls("set", [group |-> g, perms |-> perms], {"permissions"})
Move(args) == Calls("move", args, {"agents", "group"})
RemoveAgent(who) == Calls("remove", [who |-> who], {"agents"})
Waive == Calls("waive", [who |-> "me"], {"agents"})
Appoint(who) == Calls("appoint", [who |-> who], {"agents"})

(* One with full permissions, and exactly one such among the agents found: *)
(* whoever that is, should the two reads disagree.  Mutant: there is       *)
(* always another.                                                         *)
LastFull_Never(group, agents) == FALSE
LastFull(group, agents) ==
  group = "full" /\ \E p \in People : {q \in People : agents[q] = "full"} = {p}

MayRemove ==
  chain.group[call.args.who] # Nobody /\ ~LastFull(chain.group[call.args.who], chain.group)
ReadAgents ==
  \/ Answers("remove", "agents") /\ Check("agents", MayRemove)
  \/ Answers("waive", "agents") /\ Check("agents", chain.group["me"] # Nobody)
  \/ Answers("appoint", "agents") /\ Check("agents", In("caa") = {})

(* The agents and the group of the one that is moved, one read each, are   *)
(* judged when both are there; permissions are looked for next among the   *)
(* groups.                                                                 *)
Target(g, current) ==
  IF g = current THEN Refuse ELSE Keep("permissions", [target |-> g], {})
Judge(r, agents, current) ==
  IF LastFull(current, agents) \/ agents[call.args.who] = Nobody THEN Refuse
  ELSE IF call.args.group = Nobody THEN Keep(r, [current |-> current], {"groups"})
  ELSE IF call.args.group = current THEN Refuse
  ELSE Keep(r, [target |-> call.args.group], {})
ReadMoved ==
  \/ /\ Answers("move", "agents")
     /\ IF "group" \in call.left THEN Keep("agents", [agents |-> chain.group], {})
                                 ELSE Judge("agents", chain.group, call.read.current)
  \/ /\ Answers("move", "group")
     /\ IF chain.group[call.args.who] = Nobody THEN Refuse
        ELSE LET current == chain.group[call.args.who] IN
             IF "agents" \in call.left THEN Keep("group", [current |-> current], {})
                                       ELSE Judge("group", call.read.agents, current)

ReadGroups ==
  /\ call.op \in {"create", "move"} /\ "groups" \in call.left
  /\ Keep("groups", [found |-> InUse, current |-> IF call.op = "move" THEN call.read.current ELSE Nobody],
          {"permissions"})

(* getGroupFromPermissions, of the custom groups found and the known ones. *)
(* Mutant: of the custom ones only.                                        *)
Alike_Custom(found, perms) == {g \in found : PermsOf(g) = perms}
Alike(found, perms) == {g \in found \cup Known : PermsOf(g) = perms}
Match(found, perms) ==
  IF Alike(found, perms) \cap Customs # {} THEN CHOOSE g \in Alike(found, perms) \cap Customs : TRUE
  ELSE CHOOSE g \in Alike(found, perms) : TRUE

ReadPermissions ==
  \/ Answers("create", "permissions") /\ Check("permissions", Alike(call.read.found, call.args.perms) = {})
  \/ Answers("set", "permissions") /\ Check("permissions", PermsOf(call.args.group) # call.args.perms)
  \/ /\ Answers("move", "permissions")
     /\ IF Alike(call.read.found, call.args.perms) = {}
          THEN Keep("permissions", [target |-> Nobody], {})
          ELSE Target(Match(call.read.found, call.args.perms), call.read.current)

-----------------------------------------------------------------------------
(* The external agents pallet (external to the SDK) *)

(* There is always someone with full permissions.                          *)
MayDemote(who) == chain.group[who] # Nobody /\ In("full") # {who}
Accepted ==
  call.op \in {"move", "remove", "waive"} => MayDemote(call.args.who)

New == CHOOSE g \in Customs : g \notin InUse
Room == InUse # Customs

DispatchCreate ==
  /\ call.op = "create" /\ Room
  /\ Dispatches(Accepted, [chain EXCEPT !.custom[New] = call.args.perms])
DispatchSet ==
  /\ call.op = "set"
  /\ Dispatches(Accepted, [chain EXCEPT !.custom[call.args.group] = call.args.perms])
(* Group and all, when no group has the permissions.                       *)
DispatchMove ==
  /\ Built /\ call.op = "move" /\ (call.read.target = Nobody => Room)
  /\ Dispatches(Accepted,
       IF call.read.target = Nobody
         THEN [chain EXCEPT !.custom[New] = call.args.perms, !.group[call.args.who] = New]
         ELSE [chain EXCEPT !.group[call.args.who] = call.read.target])
DispatchRemove ==
  /\ call.op \in {"remove", "waive"}
  /\ Dispatches(Accepted, [chain EXCEPT !.group[call.args.who] = Nobody])
DispatchAppoint ==
  /\ call.op = "appoint"
  /\ Dispatches(Accepted, [chain EXCEPT !.asked = @ \cup {call.args.who}])

OthersMove(who, g) ==
  /\ chain.group[who] # "full" \/ In("full") # {who}
  /\ g \in Known \cup InUse \cup {Nobody}
  /\ Happens([chain EXCEPT !.group[who] = g])
OthersGroup(perms) == Room /\ Happens([chain EXCEPT !.custom[New] = perms])
OthersSet(g, perms) == Happens([chain EXCEPT !.custom[g] = perms])
Accept(who) ==
  /\ who \in chain.asked /\ chain.group[who] = Nobody
  /\ Happens([chain EXCEPT !.asked = @ \ {who}, !.group[who] = "caa"])

Next ==
  \/ \E perms \in Perms : CreateGroup(perms)
  \/ \E g \in InUse, perms \in Perms : SetPermissions(g, perms)
  \/ \E args \in Moves : /\ (args.group = Nobody) # (args.perms = Nobody)
                         /\ args.group \in Known \cup InUse \cup {Nobody}
                         /\ Move(args)
  \/ \E who \in People : RemoveAgent(who) \/ Appoint(who) \/ Accept(who)
  \/ Waive
  \/ ReadAgents \/ ReadMoved \/ ReadGroups \/ ReadPermissions
  \/ DispatchCreate \/ DispatchSet \/ DispatchMove \/ DispatchRemove \/ DispatchAppoint
  \/ \E who \in People, g \in Groups \cup {Nobody} : OthersMove(who, g)
  \/ \E perms \in Own : OthersGroup(perms) \/ \E g \in InUse : OthersSet(g, perms)

-----------------------------------------------------------------------------
(* Properties *)

(* What was checked is only reverted when something changed; but nobody    *)
(* checks that the one who waives is not the last with full permissions.   *)
RevertedOnlyIfStale ==
  Built /\ Fresh => Accepted \/ (call.op = "waive" /\ In("full") = {"me"})

(* Who is turned away is no agent, the last one with full permissions, or  *)
(* asked for permissions, a group or an appointment that is so already.    *)
TurnedAwayRightly ==
  TurnedAway /\ Fresh =>
    CASE call.op = "create" -> \E g \in Known \cup InUse : PermsOf(g) = call.args.perms
      [] call.op = "set" -> PermsOf(call.args.group) = call.args.perms
      [] call.op = "move" ->
           \/ ~MayDemote(call.args.who)
           \/ chain.group[call.args.who] = call.args.group
           \/ PermsOf(chain.group[call.args.who]) = call.args.perms
      [] call.op = "appoint" -> \E p \in People : chain.group[p] = "caa"
      [] OTHER -> ~MayDemote(call.args.who)

(* An agent ends up with the permissions asked for, and no second group    *)
(* with the same ones comes to be, unless something changed.               *)
DoneAsAsked ==
  Built /\ Ends /\ Fresh /\ Accepted /\ call.op \in {"create", "move"} /\ call.args.perms # Nobody =>
    /\ call.op = "move" => PermsIn(chain', chain'.group[call.args.who]) = call.args.perms
    /\ Cardinality({g \in Groups : PermsIn(chain', g) = call.args.perms}) =
         IF \E g \in Groups : PermsOf(g) = call.args.perms
           THEN Cardinality({g \in Groups : PermsOf(g) = call.args.perms})
           ELSE 1
===============================================================================
