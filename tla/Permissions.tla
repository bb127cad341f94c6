------------------------------- MODULE Permissions ------------------------------
(***************************************************************************)
(* What a secondary Account, or an agent of an Asset, may send: how the    *)
(* SDK writes permissions to the chain, reads them back and judges by them *)
(* before a transaction is sent, while the Account is linked, unlinked and *)
(* made primary, and the agent changes its group.                          *)
(***************************************************************************)
EXTENDS FollowedCall, FiniteSets

CONSTANTS
  Tags,      \* transactions, each with its module and its name
  Exempt,    \* tags and modules that any Account may send
  TxGroups,  \* sets of tags that go together
  Written,   \* permissions for transactions as the SDK has them
  Assigned,  \* those that others assign
  Requests   \* what is asked for: of transactions, and of Assets

Module(m) == [mod |-> m, name |-> "*"]
IsTag(x)  == x.name # "*"

(* isModuleOrTagMatch                                                      *)
Match(a, b) == IF IsTag(a) = IsTag(b) THEN a = b ELSE a.mod = b.mod

-----------------------------------------------------------------------------
(* Writing and reading permissions *)

Null     == [type |-> "Null", values |-> {}, exceptions |-> {}]
Whole    == [kind |-> "Whole", pallets |-> {}]
Mods(xs) == {x.mod : x \in xs}
Names(m, tags) == {t.name : t \in {t \in tags : t.mod = m}}

(* buildPalletPermissions throws for a module together with one of its     *)
(* tags, and for an exception to what is not a module passed.              *)
Buildable(p) ==
  /\ \A v \in p.values : ~IsTag(v) => Names(v.mod, p.values) = {"*"}
  /\ \A e \in p.exceptions : Module(e.mod) \in p.values

(* Of each pallet the whole, these of it, or all except these.  Mutant:    *)
(* the exceptions are left out.                                            *)
Pallet_Whole(m, p) ==
  IF Module(m) \in p.values THEN [mod |-> m, kind |-> "Whole", names |-> {}]
                            ELSE [mod |-> m, kind |-> "These", names |-> Names(m, p.values)]
Pallet(m, p) ==
  LET except == Names(m, p.exceptions) IN
  IF Module(m) \notin p.values THEN [mod |-> m, kind |-> "These", names |-> Names(m, p.values)]
  ELSE [mod |-> m, kind |-> IF except = {} THEN "Whole" ELSE "Except", names |-> except]
ToExtrinsic(p) ==
  IF p = Null THEN Whole
  ELSE [kind |-> IF p.type = "Include" THEN "These" ELSE "Except",
        pallets |-> {Pallet(m, p) : m \in Mods(p.values)}]

(* extrinsicPermissionsToTransactionPermissions                            *)
TagsOf(pallet) == {[mod |-> pallet.mod, name |-> n] : n \in pallet.names}
ToTransactions(e) ==
  IF e.kind = "Whole" THEN Null
  ELSE [type |-> IF e.kind = "These" THEN "Include" ELSE "Exclude",
        values |-> UNION {IF x.kind = "These" THEN TagsOf(x) ELSE {Module(x.mod)} : x \in e.pallets},
        exceptions |-> UNION {IF x.kind = "Except" THEN TagsOf(x) ELSE {} : x \in e.pallets}]

(* transactionPermissionsToTxGroups: the groups no tag of which is missing.*)
(* Mutant: what is excepted is not looked at.                              *)
Held_NoExceptions(p) ==
  {g \in TxGroups : \A t \in g : \E v \in p.values : Match(v, t)}
Held(p) ==
  LET included == IF p.type = "Include" THEN p.values ELSE p.exceptions
      excluded == IF p.type = "Include" THEN p.exceptions ELSE p.values
  IN  {g \in TxGroups : \A t \in g : /\ ~ \E x \in excluded : Match(x, t)
                                     /\ \E i \in included : Match(i, t)}

-----------------------------------------------------------------------------
(* Judging by them *)

(* What is excluded although it is a transaction that any Account may      *)
(* send: a module only if it is one of them as a whole.  Mutant: a module  *)
(* with any of them.                                                       *)
Excused_Any(v) == \E e \in Exempt : Match(v, e)
Excused(v) == \E e \in Exempt : IF IsTag(v) THEN Match(v, e) ELSE v = e

(* getMissingTransactionPermissions                                        *)
MissingOf(tags, p) ==
  IF p.type = "Include"
    THEN {t \in tags : t \in p.exceptions \/ \A v \in p.values \cup Exempt : ~Match(t, v)}
    ELSE {t \in tags : t \notin p.exceptions /\ \E v \in p.values : ~Excused(v) /\ Match(t, v)}

(* A request is for everything, or for some.                               *)
HasTransactions(need, p) == p = Null \/ (~need.all /\ MissingOf(need.of, p) = {})

(* getMissingAssetPermissions, and of portfolios the same.                 *)
HasSection(need, section) ==
  \/ section.kind = "Whole"
  \/ ~need.all /\ IF section.kind = "These" THEN need.of \subseteq section.values
                                            ELSE need.of \cap section.values = {}

(* isPresent; and of the groups that have a name, what they may not send.  *)
(* Mutant: what is excluded is taken as included.                          *)
Present_Included(t, p) == (\E v \in p.values : Match(v, t)) /\ t \notin p.exceptions
Present(t, p) ==
  (p.type = "Include") <=> ((\E v \in p.values : Match(v, t)) /\ t \notin p.exceptions)
Barred(group, t) ==
  CASE group = "meta" -> t.mod = "externalAgents"
    [] group = "pia"  -> ~(t.mod = "sto" /\ t.name # "invest")
                         /\ ~(t.mod = "asset" /\ t.name \in {"issue", "redeem", "controllerTransfer"})
    [] group = "caa"  -> t.mod \notin {"corporateAction", "corporateBallot", "capitalDistribution"}

-----------------------------------------------------------------------------
(* Who the Account or the agent is, what it (or the custom group) may      *)
(* send, and the Assets the Account may touch.                             *)
Keys     == {"primary", "secondary", "stranger"}
Agents   == {"nobody", "full", "custom", "meta", "pia", "caa"}
Sections == {[kind |-> "Whole", values |-> {}], [kind |-> "These", values |-> {"A"}],
             [kind |-> "Except", values |-> {"A"}]}
OnChain  == {ToExtrinsic(p) : p \in {p \in Written : Buildable(p)}}

TypeOK ==
  /\ chain.who \in Keys \cup Agents /\ chain.perms \in OnChain /\ chain.assets \in Sections
  /\ call.op \in {"none", "account", "agent", "grant"}
  /\ call.left \subseteq {"identity", "primary", "record", "group", "permissions", "convert"}

Init ==
  /\ chain \in [who : Keys \cup Agents, perms : OnChain, assets : Sections]
  /\ chain.who \in Agents => chain.assets.kind = "Whole"
  /\ call = Idle

(* Account.checkPermissions reads the Identity, then its primary key and   *)
(* the Account's record beside each other.                                 *)
CheckAccount(need) == chain.who \in Keys /\ Calls("account", need, {"identity"})
ReadIdentity ==
  /\ Answers("account", "identity")
  /\ IF chain.who = "stranger" THEN Refuse ELSE Keep("identity", NoArgs, {"primary", "record"})
Judge(r, primary, record) ==
  IF primary THEN Keep(r, NoArgs, {})
  ELSE IF record = {} THEN Refuse
  ELSE Check(r, \A c \in record : /\ HasTransactions(call.args.txs, ToTransactions(c.perms))
                                  /\ HasSection(call.args.assets, c.assets))
Record == IF chain.who = "secondary" THEN {[perms |-> chain.perms, assets |-> chain.assets]} ELSE {}
ReadPrimary ==
  /\ Answers("account", "primary")
  /\ LET primary == chain.who = "primary" IN
     IF "record" \in call.left THEN Keep("primary", [primary |-> primary], {})
                               ELSE Judge("primary", primary, call.read.record)
ReadRecord ==
  /\ Answers("account", "record")
  /\ IF "primary" \in call.left THEN Keep("record", [record |-> Record], {})
                                ELSE Judge("record", call.read.primary, Record)

(* AssetPermissions.checkPermissions: the group of the agent, then, of a   *)
(* custom one, what it may send.                                           *)
CheckAgent(need) ==
  /\ chain.who \in Agents /\ (need.txs.all \/ need.txs.of # {})
  /\ Calls("agent", need, {"group"})
ReadGroup ==
  /\ Answers("agent", "group")
  /\ CASE chain.who = "nobody" -> Refuse
       [] chain.who = "full"   -> Keep("group", NoArgs, {})
       [] chain.who = "custom" -> Keep("group", NoArgs, {"permissions"})
       [] OTHER -> Check("group", ~call.args.txs.all /\ \A t \in call.args.txs.of : ~Barred(chain.who, t))
ReadPermissions ==
  /\ Answers("agent", "permissions")
  /\ LET p == ToTransactions(chain.perms) IN
     Check("permissions", p = Null \/ (~call.args.txs.all /\ \A t \in call.args.txs.of : Present(t, p)))

(* Permissions that are passed are converted when the procedure's other    *)
(* reads (Accounts, Agents) are answered.                                  *)
Grant(p) == chain.who \in {"secondary", "custom"} /\ Calls("grant", [perms |-> p], {"convert"})
Convert ==
  /\ Answers("grant", "convert")
  /\ IF Buildable(call.args.perms) THEN Keep("convert", [perms |-> ToExtrinsic(call.args.perms)], {})
                                   ELSE Refuse

-----------------------------------------------------------------------------
(* Identity and external agents pallets (external to the SDK) *)

PalletAllows(x, t) ==
  x.mod = t.mod /\ CASE x.kind = "Whole" -> TRUE
                     [] x.kind = "These" -> t.name \in x.names
                     [] x.kind = "Except" -> t.name \notin x.names
Allows(e, t) ==
  CASE e.kind = "Whole" -> TRUE
    [] e.kind = "These" -> \E x \in e.pallets : PalletAllows(x, t)
    [] e.kind = "Except" -> ~ \E x \in e.pallets : PalletAllows(x, t)
Free(t) == t \in Exempt \/ Module(t.mod) \in Exempt

AgentMay(t) ==
  CASE chain.who = "nobody" -> FALSE
    [] chain.who = "full" -> TRUE
    [] chain.who = "custom" -> Allows(chain.perms, t)
    [] chain.who = "meta" -> t.mod # "externalAgents"
    [] chain.who = "pia" -> \/ t \in {[mod |-> "asset", name |-> n] : n \in {"issue", "redeem", "controllerTransfer"}}
                            \/ t.mod = "sto" /\ t.name # "invest"
    [] chain.who = "caa" -> t.mod \in {"corporateAction", "corporateBallot", "capitalDistribution"}

Touches(assets, a) == CASE assets.kind = "Whole" -> TRUE
                        [] assets.kind = "These" -> a \in assets.values
                        [] assets.kind = "Except" -> a \notin assets.values

(* The transactions asked for are sent, and touch the Assets.              *)
Needed(need, every) == IF need.all THEN every ELSE need.of
Accepted ==
  CASE call.op = "account" ->
         \/ chain.who = "primary"
         \/ /\ chain.who = "secondary"
            /\ \A t \in Needed(call.args.txs, Tags) : Free(t) \/ Allows(chain.perms, t)
            /\ \A a \in Needed(call.args.assets, {"A", "B"}) : Touches(chain.assets, a)
    [] call.op = "agent" -> \A t \in Needed(call.args.txs, Tags) : AgentMay(t)
    [] OTHER -> chain.who \in {"secondary", "custom"}

Send == call.op \in {"account", "agent"} /\ Dispatches(Accepted, chain)
DispatchGrant ==
  Built /\ call.op = "grant" /\ Dispatches(Accepted, [chain EXCEPT !.perms = call.read.perms])

Become(who) ==
  /\ {who, chain.who} \subseteq Keys \/ {who, chain.who} \subseteq Agents
  /\ Happens([chain EXCEPT !.who = who])
Assign(p) == chain.who \in {"secondary", "custom"} /\ Happens([chain EXCEPT !.perms = ToExtrinsic(p)])

Next ==
  \/ \E need \in Requests : CheckAccount(need) \/ CheckAgent(need)
  \/ \E p \in Written : Grant(p)
  \/ ReadIdentity \/ ReadPrimary \/ ReadRecord \/ ReadGroup \/ ReadPermissions \/ Convert
  \/ Send \/ DispatchGrant
  \/ \E who \in Keys \cup Agents : Become(who)
  \/ \E p \in Assigned : Assign(p)

-----------------------------------------------------------------------------
(* Properties *)

(* Who is found to have the permissions is not refused by the chain,       *)
(* unless something changed.                                               *)
RevertedOnlyIfStale == Built /\ Fresh => Accepted

(* Who is found to lack them would have been refused; but a transaction    *)
(* that any Account may send is missed when it is excluded by name or with *)
(* its module, and a list of all there is does not pass for all.  Only     *)
(* permissions that contradict themselves are not converted.               *)
TurnedAwayRightly ==
  TurnedAway /\ Fresh =>
    IF call.op = "grant"
      THEN LET p == call.args.perms IN
           \/ \E v, w \in p.values : v # w /\ Match(v, w)
           \/ \E e \in p.exceptions : \A v \in p.values : IsTag(v) \/ v.mod # e.mod
      ELSE \/ ~Accepted
           \/ call.args.txs.all \/ call.args.assets.all
           \/ call.op = "account" /\ \E t \in call.args.txs.of : Free(t) /\ ~Allows(chain.perms, t)

(* SectionPermissions: "values to be included/excluded", and "transactions *)
(* to be exempted from inclusion/exclusion".                               *)
Meant(p, t) ==
  LET listed == Module(t.mod) \in p.values \/ t \in p.values IN
  CASE p.type = "Null" -> TRUE
    [] p.type = "Include" -> listed /\ t \notin p.exceptions
    [] p.type = "Exclude" -> ~listed \/ t \in p.exceptions

(* Permissions that are granted allow what they mean, and who is said to   *)
(* hold a group of transactions has permission for every one of them; but  *)
(* of permissions that exclude, no group is ever said to be held.          *)
DoneAsAsked ==
  /\ Built /\ Ends /\ Accepted /\ call.op = "grant" =>
       \A t \in Tags : Allows(chain'.perms, t) <=> Meant(call.args.perms, t)
  /\ chain'.perms.kind # "Whole" =>
       \A g \in TxGroups :
         LET all == \A t \in g : Allows(chain'.perms, t) IN
         /\ g \in Held(ToTransactions(chain'.perms)) => all
         /\ chain'.perms.kind = "These" /\ all => g \in Held(ToTransactions(chain'.perms))
===============================================================================
