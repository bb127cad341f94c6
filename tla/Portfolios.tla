------------------------------- MODULE Portfolios ------------------------------
(***************************************************************************)
(* Creating, renaming and deleting portfolios, moving funds between two of *)
(* the same owner, and quitting custody, while their owners and custodians *)
(* do the same.                                                            *)
(***************************************************************************)
EXTENDS FollowedCall, Integers, Sequences

CONSTANTS
  Names,       \* names of portfolios
  NameLists,   \* lists of names passed to createPortfolios
  Amounts,     \* amounts moved
  MaxHeld      \* what the portfolios of one owner hold together

(* The default portfolio and number 1 of the caller, and of somebody else. *)
Number1  == {"mine", "theirs"}
Places   == Number1 \cup {"myDefault", "theirDefault"}
OwnerOf(p) == IF p \in {"mine", "myDefault"} THEN "me" ELSE "other"

(* there: is it there?  keeper: the custodian; name: of "mine"; others:    *)
(* the names of more portfolios of the caller; held: the funds in each.    *)
Chains == [there : [Number1 -> BOOLEAN], keeper : [Number1 -> {"me", "other"}],
           name : Names, others : SUBSET Names, held : [Places -> 0 .. MaxHeld]]

TypeOK ==
  /\ chain \in Chains
  /\ chain.there["mine"] => chain.name \notin chain.others
  /\ \A p \in Number1 : ~chain.there[p] => chain.held[p] = 0
  /\ call.op \in {"none", "create", "rename", "delete", "move", "quit"}
  /\ call.left \subseteq {"role", "names", "from", "to", "balances", "exists"}

Init ==
  /\ \E name \in Names, n \in Amounts, keeper \in [Number1 -> {"me", "other"}] :
       chain = [there |-> [p \in Number1 |-> TRUE], keeper |-> keeper,
                name |-> name, others |-> {}, held |-> [p \in Places |-> IF p \in Number1 THEN 0 ELSE MaxHeld]]
  /\ call = Idle

Exists(p)   == p \in Number1 => chain.there[p]
Keeper(p)   == IF p \in Number1 THEN chain.keeper[p] ELSE OwnerOf(p)
NamesOfMine == chain.others \cup IF chain.there["mine"] THEN {chain.name} ELSE {}

-----------------------------------------------------------------------------
CreatePortfolios(list) == Calls("create", [list |-> list], {"names"})
(* Only for a portfolio of one's own.                                      *)
Rename(name) == Calls("rename", [name |-> name], {"names"})
Delete(p)    == Calls("delete", [p |-> p], {"role", "exists", "balances"})
(* same: is the destination the same object as the origin?                 *)
MoveFunds(from, to, n, same) ==
  /\ same => from = to
  /\ Calls("move", [from |-> from, to |-> to, amount |-> n, same |-> same], {"role", "from", "to"})
QuitCustody(p) == Calls("quit", [p |-> p], {"role", "exists"})

Subject == IF call.op = "move" THEN call.args.from ELSE call.args.p

(* PortfolioCustodian: the custodian of a portfolio that is there.         *)
ReadRole ==
  /\ call.op \in {"delete", "move", "quit"} /\ "role" \in call.left
  /\ Check("role", Exists(Subject) /\ Keeper(Subject) = "me")

(* Mutant: of the names to create, only the first is looked for.           *)
FreeNames_First(list) == list # <<>> => list[1] \notin NamesOfMine
FreeNames(list) == \A i \in DOMAIN list : list[i] \notin NamesOfMine
ReadNames ==
  \/ Answers("create", "names") /\ Check("names", FreeNames(call.args.list))
  \/ Answers("rename", "names") /\ Check("names", call.args.name \notin NamesOfMine)

(* Default portfolios are told from each other by having no number, the    *)
(* numbers of others by being the same object.  Mutant: not at all.        *)
Distinct_Any(from, to, same) == TRUE
Distinct(from, to, same) == ~(same \/ (from = to /\ from \notin Number1))

(* assertPortfolioExists for both, then the balances.                      *)
ReadEnds ==
  \E r \in {"from", "to"} :
    /\ Answers("move", r)
    /\ IF /\ Exists(call.args[r])
          /\ call.left \cap {"from", "to"} = {r} =>
               /\ OwnerOf(call.args.from) = OwnerOf(call.args.to)
               /\ Distinct(call.args.from, call.args.to, call.args.same)
         THEN Keep(r, call.read, IF call.left \cap {"from", "to"} = {r} THEN {"balances"} ELSE {})
         ELSE Refuse

(* getAssetBalances, which needs a portfolio that is there.  Mutant: it    *)
(* need not be empty.                                                      *)
MayDelete_Full(p) == Exists(p)
MayDelete(p) == Exists(p) /\ chain.held[p] = 0
ReadBalances ==
  \/ Answers("delete", "balances") /\ Check("balances", MayDelete(call.args.p))
  \/ /\ Answers("move", "balances")
     /\ Check("balances", Exists(call.args.from) /\ call.args.amount <= chain.held[call.args.from])

(* Who owns a portfolio cannot quit its custody.                           *)
ReadExists ==
  \/ Answers("delete", "exists") /\ Check("exists", Exists(call.args.p))
  \/ Answers("quit", "exists") /\ Check("exists", OwnerOf(call.args.p) # "me" /\ Exists(call.args.p))

-----------------------------------------------------------------------------
(* The portfolio pallet (external to the SDK).  A number that is deleted   *)
(* or renamed is one of the caller's.                                      *)

AcceptsCreate(list) ==
  /\ \A i \in DOMAIN list : list[i] \notin NamesOfMine
  /\ \A i, j \in DOMAIN list : list[i] = list[j] => i = j
AcceptsDelete == Exists("mine") /\ chain.held["mine"] = 0 /\ Keeper("mine") = "me"
AcceptsMove(from, to, n) ==
  /\ from # to /\ Exists(from) /\ Exists(to)
  /\ Keeper(from) = "me" /\ n <= chain.held[from]

Accepted ==
  CASE call.op = "create" -> AcceptsCreate(call.args.list)
    [] call.op = "rename" -> Exists("mine") /\ call.args.name \notin NamesOfMine
    [] call.op = "delete" -> AcceptsDelete
    [] call.op = "move"   -> AcceptsMove(call.args.from, call.args.to, call.args.amount)
    [] call.op = "quit"   -> Exists(call.args.p) /\ Keeper(call.args.p) = "me"

Moved(from, to, n) == [chain EXCEPT !.held[from] = @ - n, !.held[to] = @ + n]

DispatchCreate ==
  call.op = "create" /\ Dispatches(Accepted, [chain EXCEPT !.others = @ \cup
                          {call.args.list[i] : i \in DOMAIN call.args.list}])
DispatchRename ==
  call.op = "rename" /\ Dispatches(Accepted, [chain EXCEPT !.name = call.args.name])
(* What is sent is the number alone, for whoever owns the portfolio.       *)
DispatchDelete ==
  call.op = "delete" /\ Dispatches(Accepted, [chain EXCEPT !.there["mine"] = FALSE])
DispatchMove ==
  /\ call.op = "move"
  /\ Dispatches(Accepted, Moved(call.args.from, call.args.to, call.args.amount))
DispatchQuit ==
  call.op = "quit" /\ Dispatches(Accepted, [chain EXCEPT !.keeper[call.args.p] = OwnerOf(call.args.p)])

OthersName ==
  \/ \E n \in Names \ NamesOfMine :
       \/ Happens([chain EXCEPT !.others = @ \cup {n}])
       \/ chain.there["mine"] /\ Happens([chain EXCEPT !.name = n])
  \/ \E n \in chain.others : Happens([chain EXCEPT !.others = @ \ {n}])
OthersDelete(p) == chain.held[p] = 0 /\ Happens([chain EXCEPT !.there[p] = FALSE])
OthersKeep(p, who) == chain.there[p] /\ Happens([chain EXCEPT !.keeper[p] = who])
OthersMove(from, to, n) ==
  /\ OwnerOf(from) = OwnerOf(to) /\ from # to /\ Exists(from) /\ Exists(to)
  /\ n <= chain.held[from] /\ Happens(Moved(from, to, n))

Next ==
  \/ \E list \in NameLists : CreatePortfolios(list)
  \/ \E name \in Names : Rename(name)
  \/ \E p \in Number1 : Delete(p) \/ OthersDelete(p)
  \/ \E p \in Number1 : QuitCustody(p)
  \/ \E p \in Number1, who \in {"me", "other"} : OthersKeep(p, who)
  \/ \E from, to \in Places, n \in Amounts :
       OthersMove(from, to, n) \/ \E same \in BOOLEAN : MoveFunds(from, to, n, same)
  \/ ReadRole \/ ReadNames \/ ReadEnds \/ ReadBalances \/ ReadExists
  \/ DispatchCreate \/ DispatchRename \/ DispatchDelete \/ DispatchMove \/ DispatchQuit
  \/ OthersName

-----------------------------------------------------------------------------
(* Properties *)

(* What the checks let through is only reverted when something changed;    *)
(* for a name that is passed twice; for a portfolio to rename that is not  *)
(* there; for a numbered portfolio that is moved to another entity of the  *)
(* same one; and for a portfolio to delete that is somebody else's.        *)
RevertedOnlyIfStale ==
  Built /\ Fresh =>
    \/ Accepted
    \/ call.op = "create" /\ \E i, j \in DOMAIN call.args.list : i < j /\ call.args.list[i] = call.args.list[j]
    \/ call.op = "rename" /\ ~Exists("mine")
    \/ call.op = "move" /\ call.args.from = call.args.to /\ call.args.from \in Number1 /\ ~call.args.same
    \/ call.op = "delete" /\ call.args.p # "mine"

(* Who is turned away would have been reverted, or does not own or keep    *)
(* what the call is about; funds do not change their owner.                *)
TurnedAwayRightly ==
  TurnedAway /\ Fresh =>
    \/ ~Accepted
    \/ call.op = "move" /\ OwnerOf(call.args.from) # OwnerOf(call.args.to)
    \/ call.op = "quit" /\ call.args.p = "mine"
    \/ call.op = "delete" /\ call.args.p # "mine"
===============================================================================
