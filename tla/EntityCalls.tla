------------------------------ MODULE EntityCalls ------------------------------
(***************************************************************************)
(* The modules that follow one call: on an Asset; on Identities, Accounts  *)
(* and what they are allowed; through the pages of a list; and connecting. *)
(* Each has a chain of its own, and a behaviour is one of any of them:     *)
(* "part" tells of which.                                                  *)
(***************************************************************************)
EXTENDS FollowedCall, Integers, Sequences, FiniteSets

CONSTANTS
  Parts,                               \* the parts of which there are behaviours
  NotPassed,                           \* an argument that is left out
  Amounts,                             \* amounts of tokens, and of POLYX
  MaxTime, MaxDate,                    \* bounds on clocks
  Period,                              \* Tickers: how long a reservation lasts
  Issuances, MaxBalance,               \* Tokens: amounts, and the limit of the supply
  GivenNames, IdLists, Changes, MaxDocs, \* AssetDetails
  Locks,                               \* Metadata
  NameLists, MaxHeld,                  \* Portfolios
  Texts, Types, VenueIds,              \* Venues
  Holders, PayLists,                   \* Distributions, CaDefaults
  MaxPoints, Starts, Periods, Repetitions, Schedules, NoDate, \* Checkpoints
  Taxes, DocContents, MaxDidWhts, TargetLists, DocLists, TaxLists, \* CaDefaults
  Watched, MaxInbox,                   \* Subscriptions: Accounts, notifications
  AccountKeys, First, Scopes,          \* Accounts
  Limit,                               \* Subsidies: bound on allowances
  Signers, SignerLists, Quorums,       \* MultiSigs
  Customs, Own, People,                \* Agents
  RestrictionKinds, Values, Exempted, MaxConditions, \* Restrictions
  Requirements, RequirementSets, Issuers, Invalid, MaxComplexity, RequirementIds, \* Compliance
  Tags, Exempt, TxGroups, WrittenPermissions, Assigned, Requests, \* Permissions
  DiligenceIds, Default, PassedClaims, \* Claims
  PageEntries, Claimed, Sizes          \* Paging

ASSUME TickerAssumption == MaxTime \in Nat \ {0} /\ Period \in Nat

ASSUME InboxAssumption == MaxInbox \in Nat

ASSUME TokenAssumption == Issuances \subseteq Nat /\ MaxBalance \in Nat

ASSUME MetadataAssumption == Locks \subseteq 0 .. MaxTime + 1 /\ 0 \in Locks

ASSUME PortfolioAssumption == NameLists \subseteq Seq(GivenNames) /\ Amounts \subseteq Nat /\ MaxHeld \in Nat

(* "me" holds of the Asset; somebody is to be paid.                        *)
ASSUME DistributionAssumption ==
  MaxDate \in Nat \ {0} /\ "me" \in Holders /\ PayLists \subseteq Seq(Holders) \ {<<>>}

(* A start that is left out is no date there is.                           *)
ASSUME CheckpointAssumption ==
  /\ Starts \subseteq Nat /\ Periods \subseteq Nat /\ Repetitions \subseteq Nat /\ Schedules \subseteq Nat
  /\ MaxPoints \in Nat /\ NoDate \in Nat /\ NoDate > MaxDate

(* A list of taxes has none of a holder that differ; what is left out is   *)
(* nothing that is passed.                                                 *)
ASSUME DefaultsAssumption ==
  /\ TargetLists \subseteq Seq(Holders) /\ DocLists \subseteq Seq(DocContents)
  /\ \A list \in TaxLists : /\ list \in Seq(Holders \X Taxes)
                            /\ \A i, j \in DOMAIN list : list[i][1] = list[j][1] => list[i] = list[j]
  /\ NotPassed \notin Taxes /\ NotPassed \notin TaxLists
  /\ MaxDidWhts \in Nat

ASSUME AccountAssumption == First \in AccountKeys

ASSUME SubsidyAssumption == Limit \in Nat \ {0}

ASSUME SignerAssumption == SignerLists \subseteq Seq(Signers) /\ Quorums \subseteq Nat

ASSUME ComplianceAssumption == RequirementSets \subseteq Seq(Requirements)

(* Neither a group nor permissions are what tells that there are none.     *)
ASSUME AgentAssumption == "me" \in People /\ "none" \notin Customs \cup Own

ASSUME RestrictionAssumption ==
  IsFiniteSet(RestrictionKinds) /\ IsFiniteSet(Values) /\ MaxConditions \in Nat

(* The keys come after 0, where reading starts; no page is empty.          *)
ASSUME PagingAssumption ==
  /\ IsFiniteSet(PageEntries) /\ PageEntries \subseteq Nat \ {0}
  /\ Claimed \subseteq Nat /\ Sizes \subseteq Nat \ {0}

VARIABLE part

Tickers   == INSTANCE Tickers
Tokens    == INSTANCE Tokens WITH Amounts <- Issuances
Details   == INSTANCE AssetDetails WITH Names <- GivenNames, Lists <- IdLists
Metadata  == INSTANCE Metadata
Folios    == INSTANCE Portfolios WITH Names <- GivenNames
Venues    == INSTANCE Venues
Dist      == INSTANCE Distributions WITH Targets <- Holders, MaxTime <- MaxDate
Points    == INSTANCE Checkpoints WITH MaxTime <- MaxDate
Defaults  == INSTANCE CaDefaults WITH Contents <- DocContents
Balances  == INSTANCE CheckpointBalances WITH Amounts <- Amounts \cup {0}
Subs      == INSTANCE Subscriptions WITH Keys <- Watched
Accounts  == INSTANCE Accounts WITH Keys <- AccountKeys
Subsidies == INSTANCE Subsidies
MultiSigs == INSTANCE MultiSigs WITH Lists <- SignerLists
Agents    == INSTANCE Agents
Limits    == INSTANCE Restrictions WITH Kinds <- RestrictionKinds, Holders <- Exempted
Compliance == INSTANCE Compliance WITH Sets <- RequirementSets, Ids <- RequirementIds
Perms     == INSTANCE Permissions WITH Written <- WrittenPermissions
Claims    == INSTANCE Claims WITH Ids <- DiligenceIds, Passed <- PassedClaims
Paging    == INSTANCE Paging WITH Keys <- PageEntries
Conn      == INSTANCE Connection

(* A list is no longer than ids are left for at first.                     *)
ASSUME DetailAssumption ==
  /\ MaxDocs \in Nat
  /\ \A list \in IdLists : list \in Seq(Details!Elements) /\ Len(list) <= MaxDocs
  /\ Changes \subseteq [divisible : BOOLEAN \cup {NotPassed}, name : GivenNames \cup {NotPassed},
                        round : GivenNames \cup {NotPassed}, ids : IdLists \cup {NotPassed}]

(* A tag names its module and a transaction, a module "*" in its stead;    *)
(* exceptions are tags, and others assign only what can be built.          *)
Titled(x) == x \in [mod : {x.mod}, name : {x.name}]
ASSUME PermissionAssumption ==
  /\ \A x \in Tags \cup Exempt : Titled(x)
  /\ \A t \in Tags : Perms!IsTag(t)
  /\ TxGroups \subseteq SUBSET Tags
  /\ \A p \in WrittenPermissions :
       /\ p.type \in {"Null", "Include", "Exclude"} /\ (p.type = "Null" => p = Perms!Null)
       /\ p \in [type : {p.type}, values : {p.values}, exceptions : {p.exceptions}]
       /\ \A v \in p.values : Titled(v)
       /\ \A e \in p.exceptions : Titled(e) /\ Perms!IsTag(e)
  /\ Assigned \subseteq {p \in WrittenPermissions : Perms!Buildable(p)}
  /\ Requests \subseteq [txs : [all : BOOLEAN, of : SUBSET Tags], assets : [all : BOOLEAN, of : SUBSET {"A", "B"}]]

(* No two CDD claims are passed at once: the last would be the one.        *)
ASSUME ClaimAssumption ==
  /\ IsFiniteSet(DiligenceIds)
  /\ \A claims \in PassedClaims : /\ claims \subseteq Claims!Claims \cup {Claims!Unknown}
                                  /\ Cardinality(Claims!CddIds(claims)) <= 1

Init ==
  /\ part \in Parts
  /\ \/ part = "tickers"       /\ Tickers!Init
     \/ part = "tokens"        /\ Tokens!Init
     \/ part = "assetdetails"  /\ Details!Init
     \/ part = "metadata"      /\ Metadata!Init
     \/ part = "portfolios"    /\ Folios!Init
     \/ part = "venues"        /\ Venues!Init
     \/ part = "distributions" /\ Dist!Init
     \/ part = "checkpoints"   /\ Points!Init
     \/ part = "cadefaults"    /\ Defaults!Init
     \/ part = "balances"      /\ Balances!Init
     \/ part = "subscriptions" /\ Subs!Init
     \/ part = "accounts"      /\ Accounts!Init
     \/ part = "subsidies"     /\ Subsidies!Init
     \/ part = "multisigs"     /\ MultiSigs!Init
     \/ part = "agents"        /\ Agents!Init
     \/ part = "restrictions"  /\ Limits!Init
     \/ part = "compliance"    /\ Compliance!Init
     \/ part = "permissions"   /\ Perms!Init
     \/ part = "claims"        /\ Claims!Init
     \/ part = "paging"        /\ Paging!Init
     \/ part = "connection"    /\ Conn!Init

Next ==
  /\ UNCHANGED part
  /\ \/ part = "tickers"       /\ Tickers!Next
     \/ part = "tokens"        /\ Tokens!Next
     \/ part = "assetdetails"  /\ Details!Next
     \/ part = "metadata"      /\ Metadata!Next
     \/ part = "portfolios"    /\ Folios!Next
     \/ part = "venues"        /\ Venues!Next
     \/ part = "distributions" /\ Dist!Next
     \/ part = "checkpoints"   /\ Points!Next
     \/ part = "cadefaults"    /\ Defaults!Next
     \/ part = "balances"      /\ Balances!Next
     \/ part = "subscriptions" /\ Subs!Next
     \/ part = "accounts"      /\ Accounts!Next
     \/ part = "subsidies"     /\ Subsidies!Next
     \/ part = "multisigs"     /\ MultiSigs!Next
     \/ part = "agents"        /\ Agents!Next
     \/ part = "restrictions"  /\ Limits!Next
     \/ part = "compliance"    /\ Compliance!Next
     \/ part = "permissions"   /\ Perms!Next
     \/ part = "claims"        /\ Claims!Next
     \/ part = "paging"        /\ Paging!Next
     \/ part = "connection"    /\ Conn!Next

vars == <<part, chain, call>>
Spec == Init /\ [][Next]_vars

(* The chain keeps what its pallets keep, and the call one of its kind.    *)
TypeOK ==
  /\ part = "tickers"       => Tickers!TypeOK
  /\ part = "tokens"        => Tokens!TypeOK
  /\ part = "assetdetails"  => Details!TypeOK
  /\ part = "metadata"      => Metadata!TypeOK
  /\ part = "portfolios"    => Folios!TypeOK
  /\ part = "venues"        => Venues!TypeOK
  /\ part = "distributions" => Dist!TypeOK
  /\ part = "checkpoints"   => Points!TypeOK
  /\ part = "cadefaults"    => Defaults!TypeOK
  /\ part = "balances"      => Balances!TypeOK
  /\ part = "subscriptions" => Subs!TypeOK
  /\ part = "accounts"      => Accounts!TypeOK
  /\ part = "subsidies"     => Subsidies!TypeOK
  /\ part = "multisigs"     => MultiSigs!TypeOK
  /\ part = "agents"        => Agents!TypeOK
  /\ part = "restrictions"  => Limits!TypeOK
  /\ part = "compliance"    => Compliance!TypeOK
  /\ part = "permissions"   => Perms!TypeOK
  /\ part = "claims"        => Claims!TypeOK
  /\ part = "paging"        => Paging!TypeOK
  /\ part = "connection"    => Conn!TypeOK

(* The checks of a preparation let through what the chain accepts, unless  *)
(* something changed in between, but for what each module names.           *)
RevertedOnlyIfStale ==
  /\ part = "tickers"       => Tickers!RevertedOnlyIfStale
  /\ part = "tokens"        => Tokens!RevertedOnlyIfStale
  /\ part = "assetdetails"  => Details!RevertedOnlyIfStale
  /\ part = "metadata"      => Metadata!RevertedOnlyIfStale
  /\ part = "portfolios"    => Folios!RevertedOnlyIfStale
  /\ part = "distributions" => Dist!RevertedOnlyIfStale
  /\ part = "checkpoints"   => Points!RevertedOnlyIfStale
  /\ part = "cadefaults"    => Defaults!RevertedOnlyIfStale
  /\ part = "accounts"      => Accounts!RevertedOnlyIfStale
  /\ part = "subsidies"     => Subsidies!RevertedOnlyIfStale
  /\ part = "multisigs"     => MultiSigs!RevertedOnlyIfStale
  /\ part = "agents"        => Agents!RevertedOnlyIfStale
  /\ part = "restrictions"  => Limits!RevertedOnlyIfStale
  /\ part = "compliance"    => Compliance!RevertedOnlyIfStale
  /\ part = "permissions"   => Perms!RevertedOnlyIfStale
  /\ part = "claims"        => Claims!RevertedOnlyIfStale

(* Who is turned away could not have been served, but for what each module *)
(* names.                                                                  *)
TurnedAwayRightly ==
  [][/\ part = "tickers"       => Tickers!TurnedAwayRightly
     /\ part = "tokens"        => Tokens!TurnedAwayRightly
     /\ part = "assetdetails"  => Details!TurnedAwayRightly
     /\ part = "metadata"      => Metadata!TurnedAwayRightly
     /\ part = "portfolios"    => Folios!TurnedAwayRightly
     /\ part = "venues"        => Venues!TurnedAwayRightly
     /\ part = "distributions" => Dist!TurnedAwayRightly
     /\ part = "checkpoints"   => Points!TurnedAwayRightly
     /\ part = "cadefaults"    => Defaults!TurnedAwayRightly
     /\ part = "accounts"      => Accounts!TurnedAwayRightly
     /\ part = "subsidies"     => Subsidies!TurnedAwayRightly
     /\ part = "multisigs"     => MultiSigs!TurnedAwayRightly
     /\ part = "agents"        => Agents!TurnedAwayRightly
     /\ part = "restrictions"  => Limits!TurnedAwayRightly
     /\ part = "compliance"    => Compliance!TurnedAwayRightly
     /\ part = "permissions"   => Perms!TurnedAwayRightly
     /\ part = "claims"        => Claims!TurnedAwayRightly
     /\ part = "connection"    => Conn!TurnedAwayRightly]_vars

(* What a call that is accepted was asked to do is done, and nothing else, *)
(* and charged as it was quoted, though others wrote the same things       *)
(* meanwhile; the last date a schedule is said to have is that of its last *)
(* point, a balance is that of its checkpoint, and the last a subscriber   *)
(* was told is what is; of a list read page by page all is read once, and  *)
(* who is connected was welcome.                                           *)
DoneAsAsked ==
  [][/\ part = "tickers"       => Tickers!DoneAsAsked
     /\ part = "assetdetails"  => Details!DoneAsAsked
     /\ part = "venues"        => Venues!DoneAsAsked
     /\ part = "checkpoints"   => Points!ExpiryIsLast'
     /\ part = "cadefaults"    => Defaults!DoneAsAsked
     /\ part = "balances"      => Balances!AnswerIsTrue'
     /\ part = "subscriptions" => Subs!LastToldIsTrue'
     /\ part = "multisigs"     => MultiSigs!DoneAsAsked
     /\ part = "agents"        => Agents!DoneAsAsked
     /\ part = "restrictions"  => Limits!DoneAsAsked
     /\ part = "compliance"    => Compliance!DoneAsAsked
     /\ part = "permissions"   => Perms!DoneAsAsked
     /\ part = "claims"        => Claims!DoneAsAsked
     /\ part = "paging"        => Paging!PagesAreWhole' /\ Paging!PagesGoOn'
     /\ part = "connection"    => Conn!ConnectedRightly']_vars

(* Setting the restrictions of a type leaves those of the others alone:    *)
(* "Sets all Transfer Restrictions of the corresponding type on this       *)
(* Asset".                                                                 *)
OtherKindsStay == [][part = "restrictions" => Limits!OtherKindsStay]_vars

-----------------------------------------------------------------------------
(* What each part keeps from step to step, for the proofs: beyond the type *)
(* of what its pallets hold, how far the call under way has come, and, if  *)
(* the chain has not changed since, what it found there.                   *)

(* c is a call of the procedure op, with what it may have been passed, and *)
(* the reads that may be left of it.                                       *)
Of(c, op, args, left) ==
  c \in [op : {op}, args : args, read : {c.read}, left : SUBSET left, stale : BOOLEAN]

(* Tickers *)

TickersReserve ==
  /\ Of(call, "reserve", Tickers!Reserves, {"status", "role"})
  /\ "role" \in call.left => call.args.extend
  /\ Fresh => /\ "status" \in call.left \/ Tickers!MayReserve
              /\ call.args.extend => "role" \in call.left \/ chain.holder = "me"
TickersStatus ==
  /\ Of(call, "create", Tickers!Creates, {"status"})
  /\ call.left = {"status"}
TickersType ==
  /\ Of(call, "create", Tickers!Creates, {"type"})
  /\ call.left = {"type"}
  /\ Fresh => call.read.status = Tickers!Status
TickersCreate ==
  /\ Of(call, "create", Tickers!Creates, {"role"})
  /\ call.read.new \in BOOLEAN
  /\ Fresh => /\ call.read.status = Tickers!Status /\ Tickers!MayCreate(Tickers!Status)
              /\ Tickers!Status = "Reserved" => "role" \in call.left \/ chain.holder = "me"
              /\ "role" \in call.left => Tickers!Status = "Reserved"
              /\ call.read.fee = Tickers!Quoted(Tickers!Status, call.read.new)
                                  \cup IF call.args.papers THEN {"AddDocuments"} ELSE {}
TickersCall == call = Idle \/ TickersReserve \/ TickersStatus \/ TickersType \/ TickersCreate

TickersTyped ==
  /\ chain \in Tickers!Chains
  /\ chain.issuer # Tickers!Nobody => chain.holder # Tickers!Nobody
TickersInv == TickersTyped /\ TickersCall

(* Tokens *)

TokensIssue ==
  /\ Of(call, "issue", [amount : Issuances], {"details"})
  /\ Fresh => "details" \in call.left \/ Tokens!MayIssue
TokensRedeem ==
  /\ Of(call, "redeem", [amount : Issuances], {"balance", "details"})
  /\ Fresh => /\ "details" \in call.left \/ Tokens!Granular(call.args.amount)
              /\ "balance" \in call.left \/ call.args.amount <= chain.mine
TokensForce ==
  /\ Of(call, "force", [amount : Issuances, own : BOOLEAN], {"balance"})
  /\ Fresh => "balance" \in call.left \/ call.args.amount <= chain.theirs
TokensToggle ==
  /\ call.op \in {"freeze", "unfreeze"} /\ Of(call, call.op, {NoArgs}, {"frozen"})
  /\ Fresh => "frozen" \in call.left \/ Tokens!MayToggle
TokensCall == call = Idle \/ TokensIssue \/ TokensRedeem \/ TokensForce \/ TokensToggle
TokensInv == chain \in Tokens!Chains /\ TokensCall

(* AssetDetails *)

(* Of the documents no two have the same id.                               *)
DetailsChains ==
  {c \in [divisible : BOOLEAN, name : GivenNames, round : GivenNames, ids : IdLists,
          docs : SUBSET ((1 .. MaxDocs) \X Details!Elements), last : 0 .. MaxDocs] :
     /\ \A d \in c.docs : d[1] <= c.last
     /\ \A d, e \in c.docs : d[1] = e[1] => d = e}
DetailsHas(read, left) ==
  /\ "details" \notin left => /\ {"divisible", "name"} \subseteq DOMAIN read
                              /\ read.divisible = chain.divisible /\ read.name = chain.name
  /\ "round" \notin left => "round" \in DOMAIN read /\ read.round = chain.round
  /\ "identifiers" \notin left => "ids" \in DOMAIN read /\ read.ids = chain.ids
DetailsModify ==
  /\ Of(call, "modify", Changes, {"details", "round", "identifiers"})
  /\ \E field \in DOMAIN call.args : call.args[field] # NotPassed
  /\ Fresh => /\ DetailsHas(call.read, call.left)
              /\ call.left = {} => Details!MayModify(call.read)
DetailsDocuments ==
  /\ Of(call, "documents", [list : IdLists], {"entries"})
  /\ Fresh /\ call.left = {} => call.read = [removed |-> {d[1] : d \in chain.docs}]
DetailsCall == call = Idle \/ DetailsModify \/ DetailsDocuments
DetailsInv == chain \in DetailsChains /\ DetailsCall

(* What is so already.                                                     *)
DetailsSame ==
  IF call.op = "documents"
    THEN LET now == Details!Contents(chain.docs) IN Details!Alike(now, call.args.list) \/ Details!Repeats(now)
    ELSE \/ call.args.divisible = TRUE /\ chain.divisible
         \/ call.args.name = chain.name
         \/ call.args.round = chain.round
         \/ call.args.ids # NotPassed /\ (Details!Alike(chain.ids, call.args.ids) \/ Details!Repeats(chain.ids))

(* Metadata *)

(* A lock is put with a value, or on one; an entry to set was registered.  *)
MetadataRegister ==
  /\ Of(call, "register", Metadata!Sets, {"names"})
  /\ call.args.lock # Metadata!NotGiven => call.args.value
  /\ Fresh /\ call.left = {} => ~chain.global /\ ~chain.local
MetadataSet ==
  /\ Of(call, "set", Metadata!Sets, {"value"})
  /\ Fresh => chain.local
  /\ Fresh /\ call.left = {} => ~Metadata!Locked /\ (call.args.value \/ chain.value)
MetadataCall == call = Idle \/ MetadataRegister \/ MetadataSet

(* An entry without a value has no lock.                                   *)
MetadataTyped == chain \in Metadata!Chains /\ (chain.value => chain.local) /\ (chain.lock # 0 => chain.value)
MetadataInv == MetadataTyped /\ MetadataCall

(* Portfolios *)

FoliosCreate ==
  Of(call, "create", [list : NameLists], {"names"}) /\ (Fresh /\ call.left = {} => Folios!FreeNames(call.args.list))
FoliosRename ==
  Of(call, "rename", [name : GivenNames], {"names"}) /\ (Fresh /\ call.left = {} => call.args.name \notin Folios!NamesOfMine)
FoliosDelete ==
  /\ Of(call, "delete", [p : Folios!Number1], {"role", "exists", "balances"})
  /\ Fresh => /\ "role" \in call.left \/ (Folios!Exists(call.args.p) /\ Folios!Keeper(call.args.p) = "me")
              /\ "balances" \in call.left \/ Folios!MayDelete(call.args.p)
FoliosQuit ==
  /\ Of(call, "quit", [p : Folios!Number1], {"role", "exists"})
  /\ Fresh => "role" \in call.left \/ (Folios!Exists(call.args.p) /\ Folios!Keeper(call.args.p) = "me")

(* Both ends are looked at before the balances are.                        *)
FoliosMove ==
  /\ Of(call, "move", [from : Folios!Places, to : Folios!Places, amount : Amounts, same : BOOLEAN], {"role", "from", "to", "balances"})
  /\ call.args.same => call.args.from = call.args.to
  /\ "balances" \in call.left => call.left \cap {"from", "to"} = {}
  /\ call.left \cap {"from", "to"} = {} => /\ Folios!OwnerOf(call.args.from) = Folios!OwnerOf(call.args.to)
                                           /\ Folios!Distinct(call.args.from, call.args.to, call.args.same)
  /\ Fresh => /\ "role" \in call.left \/ (Folios!Exists(call.args.from) /\ Folios!Keeper(call.args.from) = "me")
              /\ "from" \in call.left \/ Folios!Exists(call.args.from)
              /\ "to" \in call.left \/ Folios!Exists(call.args.to)
              /\ call.left \cap {"from", "to", "balances"} = {} => call.args.amount <= chain.held[call.args.from]
FoliosCall == call = Idle \/ FoliosCreate \/ FoliosRename \/ FoliosDelete \/ FoliosQuit \/ FoliosMove

(* An owner's funds are all in the two portfolios.                         *)
FoliosOf(c) ==
  /\ c \in Folios!Chains /\ (c.there["mine"] => c.name \notin c.others)
  /\ \A p \in Folios!Number1 : ~c.there[p] => c.held[p] = 0
  /\ c.held["mine"] + c.held["myDefault"] = MaxHeld /\ c.held["theirs"] + c.held["theirDefault"] = MaxHeld
FoliosTyped == FoliosOf(chain)
FoliosInv == FoliosTyped /\ FoliosCall

FoliosExcused ==
  \/ Folios!Accepted
  \/ call.op = "create" /\ \E i, j \in DOMAIN call.args.list : i < j /\ call.args.list[i] = call.args.list[j]
  \/ call.op = "rename" /\ ~Folios!Exists("mine")
  \/ call.op = "move" /\ call.args.from = call.args.to /\ call.args.from \in Folios!Number1 /\ ~call.args.same
  \/ call.op = "delete" /\ call.args.p # "mine"

FoliosBarred ==
  \/ ~Folios!Accepted
  \/ call.op = "move" /\ Folios!OwnerOf(call.args.from) # Folios!OwnerOf(call.args.to)
  \/ call.op = "quit" /\ call.args.p = "mine"
  \/ call.op = "delete" /\ call.args.p # "mine"

(* Venues *)

(* Whether the filter is sent was told from what the filter was.           *)
VenuesModify ==
  /\ Of(call, "modify", Venues!Modifies, {"details"})
  /\ Fresh /\ call.left = {} => Venues!MayModify
VenuesFilter == Of(call, "filter", Venues!Filters, {"filtering"}) /\ call.left = {"filtering"}
VenuesFound ==
  /\ Of(call, "filter", Venues!Filters, {"filtering"}) /\ call.left = {} /\ call.read.send \in BOOLEAN
  /\ call.read.send => call.args.enabled # NotPassed
  /\ Fresh => (call.read.send <=> Venues!Sends(call.args.enabled))
VenuesCall == call = Idle \/ VenuesModify \/ VenuesFilter \/ VenuesFound

VenuesTyped == chain \in Venues!Chains
VenuesInv == VenuesTyped /\ VenuesCall

(* Distributions *)

(* Whether there is one to call does not change while one is configured.   *)
DistConfigure ==
  /\ Of(call, "configure", [payment : 2 .. MaxDate, expiry : Dist!Moments, record : Dist!Records, amount : Amounts],
        {"clock", "dates", "funds"})
  /\ call.left \in {{"clock"}, {"dates"}, {"funds"}, {}}
  /\ ~Dist!Known
  /\ call.left # {"clock"} => call.args.payment <= call.args.expiry
  /\ Fresh => /\ call.left \in {{"funds"}, {}} => Dist!DatesValid(call.args.record, call.args.payment, call.args.expiry)
              /\ call.left = {} => call.args.amount <= chain.free
DistPay ==
  /\ Of(call, "pay", [list : PayLists], {"clock", "paid"})
  /\ call.left \in {{"clock"}, {"paid"}, {}}
  /\ Fresh => /\ call.left # {"clock"} => Dist!IsOpen
              /\ call.left = {} => \A i \in DOMAIN call.args.list : call.args.list[i] \notin chain.paid
DistClaim ==
  /\ Of(call, "claim", {NoArgs}, {"clock", "checkpoint", "balance"})
  /\ call.left \in {{"clock"}, {"checkpoint"}, {"balance"}, {}}
  /\ Fresh => /\ call.left # {"clock"} => Dist!IsOpen
              /\ call.left \in {{"balance"}, {}} => chain.dist
DistReclaim ==
  /\ Of(call, "reclaim", {NoArgs}, {"clock", "details"})
  /\ call.left \in {{"clock"}, {"details"}, {}}
  /\ Fresh => /\ call.left # {"clock"} => chain.expiry = Dist!Never \/ chain.expiry < chain.now
              /\ call.left = {} => chain.dist /\ ~chain.reclaimed
DistRemove ==
  /\ Of(call, "remove", [byId : BOOLEAN], {"distribution"})
  /\ Fresh /\ call.left = {} => Dist!Removable(call.args.byId)
DistRecord ==
  /\ Of(call, "record", [record : Dist!Records], {"checkpoint", "clock"})
  /\ call.left \in {{"checkpoint"}, {"clock"}, {}}
  /\ Fresh /\ call.left = {} => chain.payment > chain.now /\ Dist!DatesValid(call.args.record, chain.payment, chain.expiry)
DistCall == call = Idle \/ DistConfigure \/ DistPay \/ DistClaim \/ DistReclaim \/ DistRemove \/ DistRecord

(* It is paid after its record date and before it expires; nothing is left *)
(* of one that is reclaimed, and one that never was is not.                *)
DistOf(c) ==
  /\ c \in Dist!Chains
  /\ c.record <= c.payment /\ c.payment <= c.expiry
  /\ c.reclaimed => c.left = 0
  /\ c.dist \/ c.reclaimed => c.payment # Dist!Never
DistTyped == DistOf(chain)
DistInv == DistTyped /\ DistCall

DistExcused ==
  \/ Dist!Accepted
  \/ call.op = "claim" /\ ("me" \in chain.paid \/ chain.left = 0)
  \/ call.op = "pay" /\ \/ Dist!Cardinality(Dist!Whom(call.args.list)) < Len(call.args.list)
                        \/ Len(call.args.list) > chain.left \/ ~chain.dist
  \/ call.op = "reclaim" /\ chain.expiry = Dist!Never
  \/ call.op = "configure" /\ call.args.payment = call.args.expiry
  \/ call.op = "remove" /\ (call.args.byId \/ chain.payment = chain.now)
  \/ call.op = "record" /\ ~chain.dist

DistBarred ==
  \/ ~Dist!Accepted
  \/ call.op = "claim" /\ ~chain.made
  \/ call.op = "reclaim" /\ chain.expiry = chain.now
  \/ call.op = "configure" /\ (call.args.payment <= chain.now \/ Dist!DateOf(call.args.record) = call.args.payment)
  \/ call.op = "record" /\ Dist!DateOf(call.args.record) = chain.payment

(* Checkpoints *)

(* What is kept of a schedule: as many points are left as it was created   *)
(* for, less those that were made, and its next date is as many periods    *)
(* after its start.                                                        *)
PointsKept ==
  [id : Nat, start : Nat, period : Nat, remaining : Nat, at : Nat, refs : 0 .. 1, asked : Nat]
PointsGood(s, last) ==
  /\ s \in PointsKept /\ s.id <= last
  /\ s.remaining <= s.asked /\ (s.asked = 0 <=> s.remaining = 0)
  /\ s.period # 0 /\ s.asked # 0 => s.at + s.period * (s.remaining - 1) = s.start + s.period * (s.asked - 1)

PointsCheckpoint == Of(call, "checkpoint", {NoArgs}, {})
PointsCreate ==
  /\ Of(call, "create", Points!Specs, {"clock"})
  /\ Fresh /\ call.left = {} => Points!InTime(call.args.start)
PointsRemove ==
  /\ Of(call, "remove", [id : Schedules], {"schedules", "references"})
  /\ call.left \in {{"schedules"}, {"references"}, {}}
  /\ Fresh /\ call.left # {"schedules"} => Points!Found(call.args.id) # {}
  /\ Fresh /\ call.left = {} => Points!Unused(call.args.id)
PointsCall == call = Idle \/ PointsCheckpoint \/ PointsCreate \/ PointsRemove

PointsOf(c) ==
  /\ c \in [now : 1 .. MaxDate, points : 0 .. MaxPoints, last : Nat, stored : SUBSET PointsKept]
  /\ \A s \in c.stored : PointsGood(s, c.last)
  /\ \A s, t \in c.stored : s.id = t.id => s = t
PointsTyped == PointsOf(chain)
PointsInv == PointsTyped /\ PointsCall

(* CaDefaults *)

(* A list of so many has no more elements.                                 *)
Listed(list) == {list[i] : i \in DOMAIN list}

(* Of documents that have an id each, some are chosen by their ids, one of *)
(* each contents that is wanted.                                           *)
DefaultsChosen(docs, ids, wanted) ==
  /\ ids \subseteq {d[1] : d \in docs}
  /\ \A c \in DocContents :
       Defaults!Cardinality({d \in docs : d[1] \in ids /\ d[2] = c}) = IF c \in wanted THEN 1 ELSE 0

(* They were chosen from what there is, or what there was: the documents   *)
(* only become fewer.                                                      *)
DefaultsBacked(ids, wanted) ==
  \E docs \in Defaults!Docs : /\ chain.docs \subseteq docs /\ (Fresh => chain.docs = docs)
                       /\ DefaultsChosen(docs, ids, wanted)

DefaultsModify ==
  /\ Of(call, "modify", Defaults!Configs, {"config"})
  /\ call.args.taxes # NotPassed => Len(call.args.taxes) <= MaxDidWhts
  /\ Fresh /\ call.left = {} => Defaults!MayModify
DefaultsLink ==
  /\ Of(call, "link", [list : DocLists], {"entries"})
  /\ call.left = {} => /\ call.read \in [ids : SUBSET {1, 2}]
                       /\ DefaultsBacked(call.read.ids, Defaults!Wanted(call.args.list))
DefaultsCall == call = Idle \/ DefaultsModify \/ DefaultsLink
DefaultsTyped == chain \in Defaults!Chains
DefaultsInv == DefaultsTyped /\ DefaultsCall

DefaultsBarred ==
  IF call.op = "modify"
    THEN \/ call.args.targets # NotPassed /\ Defaults!Aimed(call.args.targets) = chain.targets
         \/ call.args.tax = chain.tax
         \/ call.args.taxes # NotPassed /\ Defaults!Pairs(call.args.taxes) = chain.taxes
    ELSE ~(Defaults!Wanted(call.args.list) \subseteq {d[2] : d \in chain.docs})

DefaultsPointed(docs, ids) == {d[2] : d \in {d \in docs : d[1] \in ids}}

(* CheckpointBalances *)

(* The first update at the point or after it is what it held there.        *)
BalancesHeld == Amounts \cup {0}
BalancesGood(c) ==
  /\ c.held \in BalancesHeld /\ c.points \in 0 .. MaxPoints /\ c.was \in Seq(BalancesHeld) /\ Len(c.was) = c.points
  /\ c.updates = [p \in DOMAIN c.updates |-> c.updates[p]] /\ DOMAIN c.updates \subseteq 1 .. c.points
  /\ \A p \in DOMAIN c.updates : c.updates[p] = c.was[p]
  /\ \A p \in 1 .. c.points : (\A u \in DOMAIN c.updates : u < p) => c.was[p] = c.held
  /\ \A p, q \in 1 .. c.points :
       p < q /\ (\A u \in DOMAIN c.updates : u < p \/ u >= q) => c.was[p] = c.was[q]
BalancesRecord(c) == c \in [held : {c.held}, points : {c.points}, updates : {c.updates}, was : {c.was}]
BalancesTyped == BalancesRecord(chain) /\ BalancesGood(chain)

(* Nothing that is stored is changed: checkpoints and updates are added.   *)
BalancesGrows(c, d) ==
  /\ c.points <= d.points /\ DOMAIN c.updates \subseteq DOMAIN d.updates
  /\ \A p \in 1 .. c.points : d.was[p] = c.was[p]

BalancesCalled(op) == Of(call, op, [point : 1 .. chain.points], {"current", "updates", "stored"})
BalancesUpdated == \E u \in DOMAIN chain.updates : u >= call.args.point

BalancesUpdates == BalancesCalled("balance") /\ call.left = {"updates"}
BalancesCurrent ==
  BalancesCalled("balance") /\ call.left = {"current"} /\ call.read = [first |-> 0, reply |-> 0]
BalancesPage == BalancesCalled("all") /\ call.left = {"current"}
BalancesPaged ==
  /\ BalancesCalled("all") /\ call.left = {"updates"} /\ call.read \in [current : BalancesHeld]
  /\ BalancesUpdated \/ call.read.current = chain.was[call.args.point]
BalancesStored ==
  /\ BalancesCalled("balance") \/ BalancesCalled("all")
  /\ call.left = {"stored"} /\ call.read \in [first : DOMAIN chain.updates, reply : BalancesHeld]
  /\ chain.was[call.read.first] = chain.was[call.args.point]
BalancesReply ==
  /\ BalancesCalled("balance") \/ BalancesCalled("all")
  /\ call.left = {}
  /\ \/ call.read.reply = chain.was[call.args.point]
     \/ call.op = "balance" /\ call.read.first = 0 /\ BalancesUpdated
BalancesCall == call = Idle \/ BalancesUpdates \/ BalancesCurrent \/ BalancesPage \/ BalancesPaged \/ BalancesStored \/ BalancesReply

BalancesInv == BalancesTyped /\ BalancesCall

(* Subscriptions *)

SubsAsked == [main : Subs!MainOf(chain.about), passed : BOOLEAN]
SubsOf(c) ==
  /\ c \in [about : {"asset", "accounts", "ticker"}, main : Subs!MainOf(c.about), beside : 0 .. 1, now : 1 .. MaxTime,
            sent : {<<>>} \cup {<<main>> : main \in Subs!MainOf(c.about)}, inbox : Seq(Subs!MainOf(c.about))]
  /\ Len(c.inbox) <= MaxInbox
SubsTyped == SubsOf(chain)

(* Before there is a subscription the node tells nothing.                  *)
SubsOff ==
  /\ chain.sent = <<>> /\ chain.inbox = <<>>
  /\ \/ call = Idle
     \/ call \in [op : {chain.about}, args : {NoArgs}, read : {NoArgs}, left : {{"beside"}}, stale : BOOLEAN]

(* The last notification the node made is the last to be delivered; when   *)
(* it was, it is the last that was asked for, and nothing was told since;  *)
(* or it was told, and who is still asked for, or told since, is late.     *)
SubsLastAsked ==
  LET asked == call.read.asked
  IN asked # <<>> /\ asked[Len(asked)].main = chain.sent[1] /\ ~asked[Len(asked)].passed
SubsTold ==
  /\ call.read.told[1].token = chain.sent[1] \/ call.read.late
  /\ call.read.told[1].agents = call.read.beside
  /\ \A i \in DOMAIN call.read.asked : call.read.asked[i].passed
SubsToldTicker(told, reg, now) ==
  \/ told = "AssetCreated" /\ reg.issued
  \/ told = "Reserved" /\ reg.held /\ ~reg.issued
  \/ told = "Free" /\ ~reg.issued /\ (reg.expiry < now \/ ~reg.held)
SubsKnows ==
  /\ chain.about = "asset"    => SubsLastAsked \/ SubsTold
  /\ chain.about = "accounts" => call.read.told[1] = Subs!Secondary(chain.sent[1], call.read.beside)
  /\ chain.about = "ticker"   => SubsToldTicker(call.read.told[1], chain.sent[1], chain.now)
SubsReads ==
  call \in [op : {chain.about}, args : {NoArgs},
            read : [beside : {call.read.beside}, told : {call.read.told}, asked : Seq(SubsAsked), late : BOOLEAN],
            left : {{}}, stale : BOOLEAN]
SubsOn ==
  /\ SubsReads
  /\ chain.about # "asset" => call.read.asked = <<>>
  /\ chain.inbox # <<>> => chain.sent = <<chain.inbox[Len(chain.inbox)]>>
  /\ chain.inbox = <<>> /\ chain.sent # <<>> => SubsKnows
SubsInv == SubsTyped /\ (SubsOff \/ SubsOn)

(* An answer takes its question out, and passes those that were before it. *)
SubsLeft(asked, i) == Subs!Passed(SubSeq(asked, 1, i - 1)) \o SubSeq(asked, i + 1, Len(asked))

(* Accounts *)

AccountsLeave ==
  /\ Of(call, "leave", [signer : AccountKeys], {"frozen", "records"})
  /\ Fresh /\ "records" \notin call.left => Accounts!Kind(call.args.signer) = "secondary"
AccountsRemove ==
  /\ Of(call, "remove", [signer : AccountKeys, keys : SUBSET AccountKeys], {"frozen", "primary", "records"})
  /\ Fresh => Accounts!Member(call.args.signer) /\ ("records" \notin call.left => Accounts!Secondary(call.args.keys))
AccountsScope ==
  /\ Of(call, "scope", [signer : AccountKeys, keys : SUBSET AccountKeys, scope : Scopes], {"frozen", "primary", "records"})
  /\ Fresh => /\ "primary" \notin call.left => Accounts!Primary(call.args.signer)
              /\ "records" \notin call.left => Accounts!Secondary(call.args.keys)
AccountsFreeze ==
  /\ Of(call, "freeze", [signer : AccountKeys, on : BOOLEAN], {"frozen", "state"})
  /\ Fresh => Accounts!Member(call.args.signer)
AccountsCall == call = Idle \/ AccountsLeave \/ AccountsRemove \/ AccountsScope \/ AccountsFreeze

AccountsOne(kind) == \E k \in AccountKeys : kind[k] = "primary" /\ \A l \in AccountKeys \ {k} : kind[l] # "primary"
AccountsTyped == chain \in Accounts!Chains /\ AccountsOne(chain.kind)
AccountsInv == AccountsTyped /\ AccountsCall

AccountsExcused == Accounts!Accepted \/ (call.op \in {"remove", "freeze"} /\ Accounts!Kind(call.args.signer) = "secondary")

AccountsBarred ==
  \/ ~Accounts!Accepted
  \/ call.op = "leave" /\ chain.frozen
  \/ call.op = "freeze" /\ chain.frozen = call.args.on

(* Subsidies *)

SubsidiesAllowance ==
  /\ Of(call, "allowance", [how : {"set", "increase", "decrease"}, amount : Amounts], {"subsidy"})
  /\ Fresh /\ call.left = {} =>
       chain.payer = "subsidizer" /\ Subsidies!MayChange(call.args.how, call.args.amount)
SubsidiesQuit ==
  /\ Of(call, "quit", {NoArgs}, {"subsidy"})
  /\ Fresh /\ call.left = {} => chain.payer = "subsidizer"
SubsidiesTransfer ==
  /\ Of(call, "transfer", [amount : Amounts], {"balance", "receiver"})
  /\ call.left # {}
  /\ Fresh => "balance" \in call.left \/ call.args.amount <= chain.free
SubsidiesCdd ==
  /\ Of(call, "transfer", [amount : Amounts], {"senderCdd", "receiverCdd"})
  /\ Fresh => /\ call.args.amount <= chain.free
              /\ "senderCdd" \in call.left \/ "sender" \in chain.cdd
              /\ "receiverCdd" \in call.left \/ "receiver" \in chain.cdd
SubsidiesCall == call = Idle \/ SubsidiesAllowance \/ SubsidiesQuit \/ SubsidiesTransfer \/ SubsidiesCdd

SubsidiesTyped == chain \in Subsidies!Chains /\ (chain.payer = "none" => chain.left = 0)
SubsidiesInv == SubsidiesTyped /\ SubsidiesCall

(* MultiSigs *)

MultiSigsDelta(delta) ==
  delta = [add |-> MultiSigs!ToAdd(chain.signers, call.args.list), remove |-> MultiSigs!ToRemove(chain.signers, call.args.list)]

MultiSigsCreate ==
  /\ Of(call, "create", [list : SignerLists, required : Quorums], {})
  /\ call.args.required <= Len(call.args.list)
MultiSigsNothing ==
  Of(call, "modify", [list : SignerLists], {"signers", "required"}) /\ call.left = {"signers", "required"}
MultiSigsSigners ==
  /\ Of(call, "modify", [list : SignerLists], {"required"}) /\ call.left = {"required"}
  /\ call.read.delta \in [add : SUBSET Signers, remove : SUBSET Signers]
  /\ Fresh => MultiSigsDelta(call.read.delta)
MultiSigsRequired ==
  /\ Of(call, "modify", [list : SignerLists], {"signers"}) /\ call.left = {"signers"}
  /\ call.read.required \in Quorums \cup {0}
  /\ Fresh => call.read.required = chain.required
MultiSigsModify ==
  /\ Of(call, "modify", [list : SignerLists], {"creator"})
  /\ call.read.delta \in [add : SUBSET Signers, remove : SUBSET Signers]
  /\ call.read.required \in Quorums \cup {0}
  /\ Fresh => MultiSigsDelta(call.read.delta) /\ call.read.required = chain.required
  /\ call.left = {} => /\ call.read.delta.add \cup call.read.delta.remove # {}
                       /\ call.read.required <= Len(call.args.list)
                       /\ Fresh => chain.creator = "me"
MultiSigsCall == call = Idle \/ MultiSigsCreate \/ MultiSigsNothing \/ MultiSigsSigners \/ MultiSigsRequired \/ MultiSigsModify

MultiSigsTyped == chain \in MultiSigs!Chains /\ (chain.creator = "none" => chain.signers = {} /\ chain.asked = {})
MultiSigsInv == MultiSigsTyped /\ MultiSigsCall

MultiSigsExcused ==
  \/ MultiSigs!Accepted
  \/ call.op = "create" /\ MultiSigs!Cardinality(MultiSigs!In(call.args.list)) < Len(call.args.list)
  \/ /\ call.op = "modify"
     /\ MultiSigs!Cardinality(chain.signers \cap MultiSigs!In(call.args.list)) < chain.required
     /\ chain.required <= Len(call.args.list)

MultiSigsBarred ==
  \/ chain.creator # "me"
  \/ chain.signers = MultiSigs!In(call.args.list)
  \/ MultiSigs!Cardinality(MultiSigs!In(call.args.list)) < chain.required

(* Agents *)

(* What an agent is moved to, a group or permissions; a group that was in  *)
(* use stays in use.                                                       *)
AgentsArgs ==
  /\ call.args \in Agents!Moves /\ (call.args.group = Agents!Nobody <=> call.args.perms # Agents!Nobody)
  /\ call.args.group \in Agents!Known \cup Agents!InUse \cup {Agents!Nobody}
AgentsMoving(left) == Of(call, "move", Agents!Moves, left) /\ AgentsArgs /\ call.left = left
AgentsAlone(perms) == \A g \in Agents!Known \cup Agents!InUse : Agents!PermsOf(g) # perms
AgentsTarget(g, perms) == IF g = Agents!Nobody THEN AgentsAlone(perms) ELSE Agents!PermsOf(g) = perms

AgentsCreate ==
  /\ Of(call, "create", [perms : Agents!Perms], {"groups", "permissions"})
  /\ call.left \in {{"groups"}, {"permissions"}, {}}
  /\ Fresh /\ "groups" \notin call.left => call.read.found = Agents!InUse
  /\ Fresh /\ call.left = {} => AgentsAlone(call.args.perms)
AgentsSet == Of(call, "set", [group : Customs, perms : Agents!Perms], {"permissions"})
AgentsBoth == AgentsMoving({"agents", "group"})
AgentsGroup == AgentsMoving({"group"}) /\ (Fresh => call.read.agents = chain.group)
AgentsAgents ==
  /\ AgentsMoving({"agents"})
  /\ Fresh => call.read.current = chain.group[call.args.who]
AgentsGroups ==
  /\ AgentsMoving({"groups"}) /\ call.args.group = Agents!Nobody
  /\ Fresh => call.read.current = chain.group[call.args.who] /\ Agents!MayDemote(call.args.who)
AgentsFound ==
  /\ AgentsMoving({"permissions"}) /\ call.args.group = Agents!Nobody /\ call.read.found \subseteq Agents!InUse
  /\ Fresh => /\ call.read.current = chain.group[call.args.who] /\ Agents!MayDemote(call.args.who)
              /\ call.read.found = Agents!InUse
AgentsMove ==
  /\ AgentsMoving({}) /\ call.read.target \in Agents!Known \cup Agents!InUse \cup {Agents!Nobody}
  /\ call.read.target = Agents!Nobody => call.args.group = Agents!Nobody
  /\ Fresh => /\ Agents!MayDemote(call.args.who)
              /\ call.args.perms # Agents!Nobody => AgentsTarget(call.read.target, call.args.perms)
AgentsRemove ==
  /\ Of(call, "remove", [who : People], {"agents"})
  /\ Fresh /\ call.left = {} => Agents!MayDemote(call.args.who)
AgentsWaive ==
  /\ Of(call, "waive", [who : {"me"}], {"agents"})
  /\ Fresh /\ call.left = {} => chain.group["me"] # Agents!Nobody
AgentsAppoint == Of(call, "appoint", [who : People], {"agents"})
AgentsCall == call = Idle \/ AgentsCreate \/ AgentsSet \/ AgentsBoth \/ AgentsGroup \/ AgentsAgents \/ AgentsGroups \/ AgentsFound \/ AgentsMove \/ AgentsRemove \/ AgentsWaive \/ AgentsAppoint

AgentsTyped ==
  /\ chain \in Agents!Chains /\ Agents!In("full") # {}
  /\ \A p \in People : chain.group[p] \in Agents!Known \cup Agents!InUse \cup {Agents!Nobody}
AgentsInv == AgentsTyped /\ AgentsCall

(* The agents and the group of the one that is moved are judged.           *)
AgentsJudging(r, agents, current) ==
  /\ AgentsMoving({r}) /\ r \in {"agents", "group"}
  /\ Fresh => agents = chain.group /\ current = chain.group[call.args.who]
  /\ Agents!Judge(r, agents, current)

AgentsExcused == Agents!Accepted \/ (call.op = "waive" /\ Agents!In("full") = {"me"})

AgentsBarred ==
  CASE call.op = "create" -> \E g \in Agents!Known \cup Agents!InUse : Agents!PermsOf(g) = call.args.perms
    [] call.op = "set" -> Agents!PermsOf(call.args.group) = call.args.perms
    [] call.op = "move" ->
         \/ ~Agents!MayDemote(call.args.who)
         \/ chain.group[call.args.who] = call.args.group
         \/ Agents!PermsOf(chain.group[call.args.who]) = call.args.perms
    [] call.op = "appoint" -> \E p \in People : chain.group[p] = "caa"
    [] OTHER -> ~Agents!MayDemote(call.args.who)

(* Restrictions *)

(* What is read of a statistic, of those there are and of all restrictions.*)
LimitsEnable ==
  /\ Of(call, "enable", [kind : RestrictionKinds], {"stats"})
  /\ call.left = {} => call.read.stats \subseteq RestrictionKinds
  /\ Fresh /\ call.left = {} => call.read.stats = chain.stats \cup {call.args.kind} /\ call.args.kind \notin chain.stats
LimitsDisable ==
  /\ Of(call, "disable", [kind : RestrictionKinds], {"both"})
  /\ call.left = {} => call.read.stats \subseteq RestrictionKinds
  /\ Fresh /\ call.left = {} => call.read.stats = chain.stats \ {call.args.kind} /\ Limits!MayDisable(call.args.kind)
LimitsAdd ==
  /\ Of(call, "add", [kind : RestrictionKinds, value : Values, exempted : SUBSET Exempted], {"both"})
  /\ call.left = {} => call.read.conditions \subseteq Limits!Restrictions
  /\ Fresh /\ call.left = {} =>
       /\ Limits!MayAdd(<<call.args.kind, call.args.value>>)
       /\ call.read.conditions = chain.restrictions \cup {<<call.args.kind, call.args.value>>}

LimitsSets == [kind : RestrictionKinds, values : SUBSET Values, exempted : SUBSET Exempted]

(* A type that is given restrictions has its statistic.                    *)
LimitsNeeds == call.args.values # {} => call.args.kind \in chain.stats
LimitsOf == Limits!OfKind(call.args.kind, chain.restrictions)
LimitsOthers == Limits!Cardinality(chain.restrictions \ LimitsOf)
LimitsNeeded == Of(call, "set", LimitsSets, {"stats"}) /\ call.left = {"stats"}
LimitsReading ==
  /\ Of(call, "set", LimitsSets, {"same", "others", "exempt"})
  /\ call.left \in {{"same", "others"}, {"same"}, {"others"}, {"exempt"}}
  /\ call.read \in [others : Nat, same : SUBSET Limits!Restrictions]
  /\ Fresh => /\ LimitsNeeds
              /\ "same" \notin call.left => call.read.same = LimitsOf
              /\ "others" \notin call.left => call.read.others = LimitsOthers
LimitsSet ==
  /\ Of(call, "set", LimitsSets, {}) /\ call.left = {}
  /\ call.read.conditions = Limits!Conditions /\ Limits!Cardinality(Limits!Conditions) <= MaxConditions
  /\ call.read.set \in SUBSET Exempted /\ call.read.remove \in SUBSET Exempted
  /\ Fresh => /\ LimitsNeeds
              /\ call.read.set = Limits!ToSet(chain.exempt[call.args.kind], call.args.exempted)
              /\ call.read.remove = Limits!ToRemove(chain.exempt[call.args.kind], call.args.exempted)
LimitsCall == call = Idle \/ LimitsEnable \/ LimitsDisable \/ LimitsAdd \/ LimitsNeeded \/ LimitsReading \/ LimitsSet

LimitsTyped == chain \in Limits!Chains /\ Limits!Valid(chain)
LimitsInv == LimitsTyped /\ LimitsCall

LimitsBarred(kind) ==
  CASE call.op = "enable"  -> kind \in chain.stats
    [] call.op = "disable" -> kind \notin chain.stats \/ Limits!OfKind(kind, chain.restrictions) # {}
    [] call.op = "add" ->
         \/ kind \notin chain.stats \/ <<kind, call.args.value>> \in chain.restrictions
         \/ Limits!Cardinality(chain.restrictions) >= MaxConditions
    [] OTHER ->
         \/ kind \notin chain.stats
         \/ Limits!OfKind(kind, chain.restrictions) = Limits!Conditions /\ chain.exempt[kind] = call.args.exempted
         \/ Limits!Cardinality(chain.restrictions \ Limits!OfKind(kind, chain.restrictions))
              + Limits!Cardinality(Limits!Conditions) >= MaxConditions

(* Compliance *)

ComplianceReset  == Of(call, "reset", [set : RequirementSets], {"requirements"})
ComplianceAdd    == Of(call, "add", [conditions : Requirements], {"requirements"})
ComplianceChange == Of(call, "change", [id : RequirementIds, conditions : Requirements], {"requirements"})
ComplianceRemove ==
  /\ Of(call, "remove", [id : RequirementIds], {"requirements"})
  /\ Fresh => "requirements" \in call.left \/ call.args.id \in DOMAIN chain.reqs
CompliancePause  == Of(call, "pause", [on : BOOLEAN], {"state"})
ComplianceTrust ==
  /\ Of(call, "issuers", [how : {"add", "remove", "set"}, whom : SUBSET Issuers], {"issuers"})
  /\ call.left = {"issuers"}
ComplianceDids ==
  /\ Of(call, "issuers", [how : {"add", "remove", "set"}, whom : SUBSET Issuers], {"dids"})
  /\ call.read.add \subseteq call.args.whom
  /\ call.left = {} => call.args.whom \cap Invalid = {}
  /\ Fresh => /\ call.read.delete \subseteq chain.trusted
              /\ call.read.add \cap (chain.trusted \ call.read.delete) = {}
ComplianceCall ==
  \/ call = Idle \/ ComplianceReset \/ ComplianceAdd \/ ComplianceChange \/ ComplianceRemove
  \/ CompliancePause \/ ComplianceTrust \/ ComplianceDids

(* What is demanded is a requirement that can be passed, as the chain has  *)
(* it; nobody is trusted who is not there.                                 *)
ComplianceDemands(reqs) ==
  /\ reqs = [id \in DOMAIN reqs |-> reqs[id]] /\ DOMAIN reqs \subseteq RequirementIds
  /\ \A id \in DOMAIN reqs : reqs[id] \in {Compliance!ToChain(r) : r \in Requirements}
ComplianceOf(c) ==
  /\ c \in [reqs : {c.reqs}, paused : BOOLEAN, trusted : SUBSET (Issuers \ Invalid)]
  /\ ComplianceDemands(c.reqs)
ComplianceTyped == ComplianceOf(chain)
ComplianceInv == ComplianceTyped /\ ComplianceCall

(* What turns away who asks for what needs no summing up.                  *)
ComplianceBarred ==
  /\ call.op = "remove" => call.args.id \notin DOMAIN chain.reqs
  /\ call.op = "pause" => chain.paused = call.args.on
  /\ call.op = "issuers" =>
       \/ call.args.whom \cap Invalid # {}
       \/ call.args.how = "add" /\ \E i \in call.args.whom : i \in chain.trusted
       \/ call.args.how = "remove" /\ \E i \in call.args.whom : i \notin chain.trusted
       \/ call.args.how = "set" /\ call.args.whom = chain.trusted

(* Permissions *)

(* A tag, or its module, is among these.                                   *)
PermsLists(values, t) == t \in values \/ Perms!Module(t.mod) \in values
PermsWritten == {p \in WrittenPermissions : Perms!Buildable(p)}

(* The Account's primary key and its record are read beside each other,    *)
(* and judged when both are there.                                         *)
PermsHas(need) == Perms!HasTransactions(need.txs, Perms!ToTransactions(chain.perms)) /\ Perms!HasSection(need.assets, chain.assets)
PermsMay(txs) ==
  CASE chain.who = "nobody" -> FALSE
    [] chain.who = "full"   -> TRUE
    [] chain.who = "custom" -> LET p == Perms!ToTransactions(chain.perms)
                               IN  p = Perms!Null \/ (~txs.all /\ \A t \in txs.of : Perms!Present(t, p))
    [] OTHER -> ~txs.all /\ \A t \in txs.of : ~Perms!Barred(chain.who, t)
PermsAccount ==
  /\ Of(call, "account", Requests, {"identity", "primary", "record"})
  /\ "identity" \in call.left => call.left = {"identity"}
  /\ call.left = {"record"} => call.read.primary \in BOOLEAN /\ (Fresh => (call.read.primary <=> chain.who = "primary"))
  /\ call.left = {"primary"} /\ Fresh => call.read.record = Perms!Record
  /\ Fresh /\ call.left = {} => chain.who = "primary" \/ (chain.who = "secondary" /\ PermsHas(call.args))
PermsAgent ==
  /\ Of(call, "agent", Requests, {"group", "permissions"})
  /\ chain.who \in Perms!Agents /\ (call.args.txs.all \/ call.args.txs.of # {})
  /\ "group" \in call.left => call.left = {"group"}
  /\ Fresh /\ "permissions" \in call.left => chain.who = "custom"
  /\ Fresh /\ call.left = {} => PermsMay(call.args.txs)
PermsGrant ==
  /\ Of(call, "grant", [perms : WrittenPermissions], {"convert"})
  /\ call.left = {} => call.args.perms \in PermsWritten /\ call.read.perms = Perms!ToExtrinsic(call.args.perms)
  /\ Fresh => chain.who \in {"secondary", "custom"}
PermsCall == call = Idle \/ PermsAccount \/ PermsAgent \/ PermsGrant
PermsTyped == chain \in [who : Perms!Keys \cup Perms!Agents, perms : Perms!OnChain, assets : Perms!Sections]
PermsInv == PermsTyped /\ PermsCall

PermsWithout ==
  IF call.op = "grant"
    THEN LET p == call.args.perms IN
         \/ \E v, w \in p.values : v # w /\ Perms!Match(v, w)
         \/ \E e \in p.exceptions : \A v \in p.values : Perms!IsTag(v) \/ v.mod # e.mod
    ELSE \/ ~Perms!Accepted
         \/ call.args.txs.all \/ call.args.assets.all
         \/ call.op = "account" /\ \E t \in call.args.txs.of : Perms!Free(t) /\ ~Perms!Allows(chain.perms, t)

(* Claims *)

(* Sets of ids that hold no two.                                           *)
AtMostOne(S) == \A x, y \in S : x = y

(* The ids among claims, and claims of one kind.                           *)
ClaimsPassable == Claims!Claims \cup {Claims!Unknown}

(* The CDD claims of an issuer have one id, and those of an Identity one   *)
(* and the default one.                                                    *)
ClaimsAgree(mine, theirs) ==
  /\ mine \in SUBSET Claims!Claims /\ theirs \in SUBSET DiligenceIds
  /\ AtMostOne(Claims!CddIds(mine))
  /\ AtMostOne((Claims!CddIds(mine) \cup theirs) \ {Default})
ClaimsOf(c) ==
  /\ c \in [mine : SUBSET Claims!Claims, theirs : SUBSET DiligenceIds, balance : BOOLEAN, up : BOOLEAN,
            mirror : [mine : SUBSET Claims!Claims, theirs : SUBSET DiligenceIds]]
  /\ ClaimsAgree(c.mine, c.theirs) /\ ClaimsAgree(c.mirror.mine, c.mirror.theirs)
ClaimsTyped == ClaimsOf(chain)

(* What a claim that is added has to agree with, if it did.                *)
ClaimsOurs == Claims!CddIds(chain.mine) \cup chain.theirs
ClaimsFits == ClaimsOurs = {} \/ \E first \in ClaimsOurs : \A id \in Claims!CddIds(call.args.claims) : ~Claims!Clash(id, first)

ClaimsAdd ==
  /\ Of(call, "add", [claims : PassedClaims], {"dids", "up", "heartbeat", "issued"})
  /\ "dids" \notin call.left => Claims!Unknown \notin call.args.claims
  /\ "heartbeat" \in call.left => call.left \cap {"up", "issued"} = {}
  /\ "issued" \in call.left => call.left = {"issued"} /\ call.read.up \in BOOLEAN /\ (Fresh => (call.read.up <=> chain.up))
  /\ Fresh /\ Claims!Synced /\ call.left \cap {"up", "heartbeat", "issued"} = {} /\ "cdd" \in Claims!Kinds(call.args.claims) => ClaimsFits
ClaimsEdit ==
  /\ Of(call, "edit", [claims : PassedClaims], {"dids", "up", "mirror"})
  /\ "dids" \notin call.left => Claims!Unknown \notin call.args.claims
  /\ "mirror" \in call.left => "up" \notin call.left /\ (Fresh => chain.up)
  /\ Fresh /\ chain.up /\ call.left \cap {"up", "mirror"} = {} => Claims!Issued(call.args.claims, chain.mirror.mine)
ClaimsRevoke ==
  /\ Of(call, "revoke", [claims : PassedClaims], {"dids", "up", "mirror", "balances"})
  /\ "dids" \notin call.left => Claims!Unknown \notin call.args.claims
  /\ "mirror" \in call.left => call.left \cap {"up", "balances"} = {} /\ (Fresh => chain.up)
  /\ "balances" \in call.left => "up" \notin call.left
  /\ Fresh /\ chain.up /\ call.left \cap {"up", "mirror"} = {} => Claims!Issued(call.args.claims, chain.mirror.mine)
  /\ Fresh /\ call.left \cap {"up", "mirror", "balances"} = {} => (chain.balance => Claims!Unique \notin call.args.claims)
ClaimsCall == call = Idle \/ ClaimsAdd \/ ClaimsEdit \/ ClaimsRevoke
ClaimsInv == ClaimsTyped /\ ClaimsCall

ClaimsExcused ==
  \/ Claims!Accepted
  \/ call.op # "add" /\ ~chain.up
  \/ ~Claims!Synced
  \/ call.op # "revoke" /\ Claims!Unique \in call.args.claims
  \/ call.op = "edit" /\ "cdd" \in Claims!Kinds(call.args.claims)
  \/ call.op = "add" /\ Default \in Claims!CddIds(chain.mine) \cup chain.theirs

ClaimsBarred ==
  \/ Claims!Unknown \in call.args.claims
  \/ ~Claims!Accepted
  \/ call.op = "edit" /\ ~Claims!Issued(call.args.claims, chain.mine)
  \/ ~Claims!Synced

(* Paging *)

(* How many entries of a list are ahead of k; is it on a page that was     *)
(* read?                                                                   *)
PagingPlace(k, list) == Cardinality(Paging!Ahead(k, list))
PagingPast(k, list)  == call.left = {} \/ PagingPlace(k, list) < Paging!Start
PagingOnce(k, past)  == IF past THEN Paging!ToldOnce(k) ELSE Paging!Untold(k)

(* What is told of an entry that has not changed, while pages are read:    *)
(* what has no claims is on none; by key, what is not after the last key   *)
(* of the page before was told, once; by offset, what is ahead of the page *)
(* to come, if nothing changes ahead of it.                                *)
PagingTells(k) ==
  IF chain.has[k] = 0 THEN Paging!Untold(k)
  ELSE /\ call.op = "chain" => PagingOnce(k, call.left = {} \/ k <= Paging!Start)
       /\ call.op = "passed" =>
            /\ PagingPast(k, PageEntries) => ~Paging!Untold(k)
            /\ Paging!Steady(PageEntries) /\ Paging!Existing = PageEntries =>
                 PagingOnce(k, PagingPast(k, PageEntries))
       /\ call.op \in {"oldest", "newest"} /\ Paging!Steady(Paging!Ahead(k, PageEntries)) =>
            PagingOnce(k, PagingPast(k, Paging!Existing))
       /\ call.op = "found" /\ Paging!Steady(Paging!Ahead(k, PageEntries)) =>
            /\ PagingPast(k, Paging!Existing) => ~Paging!Untold(k)
            /\ Paging!Steady(PageEntries) => PagingOnce(k, PagingPast(k, Paging!Existing))
            /\ "page" \in call.left =>
                 /\ k \in call.read.list
                 /\ Paging!Ahead(k, call.read.list) = Paging!Ahead(k, Paging!Existing)
                 /\ Paging!Steady(PageEntries) => call.read.list = Paging!Existing

(* The page that is read next starts somewhere.                            *)
PagingForm ==
  /\ call.op \in Paging!Lists
  /\ Of(call, call.op, [size : Sizes], {"groups", "page"})
  /\ call.read \in [start : {call.read.start}, told : Paging!Told, list : SUBSET PageEntries]
  /\ call.left \in {{"page"}, {}} \/ (call.op = "found" /\ call.left = {"groups"})
  /\ call.left # {} /\ call.op # "counted" => call.read.start \in Nat
PagingReading == PagingForm /\ \A k \in PageEntries \ chain.touched : PagingTells(k)
PagingCall == call = Idle \/ PagingReading

PagingTyped == chain \in [has : Paging!Entries, touched : SUBSET PageEntries]
PagingInv == PagingTyped /\ PagingCall

(* Connection *)

(* What has been found by when, and which connections are open then.       *)
ConnAt(lefts, open) ==
  /\ Of(call, "connect", {NoArgs}, {"open", "node", "spec", "forever", "api", "context", "v1", "v2", "indexer"})
  /\ call.left \in lefts /\ chain.open = open /\ chain.client = "none" /\ chain.refused = "nowhere"

ConnOpen     == ConnAt({{"open"}}, {"socket"})
ConnVersions ==
  /\ ConnAt({{"node", "spec"}, {"node"}, {"spec"}}, {"socket"})
  /\ Fresh => ("node" \notin call.left => chain.node) /\ ("spec" \notin call.left => chain.spec)
ConnForever  == ConnAt({{"forever"}}, {"socket"})
ConnApi      == ConnAt({{"api"}}, {}) /\ (Fresh => chain.node /\ chain.spec)
ConnContext  == ConnAt({{"context"}}, {"api"}) /\ (Fresh => chain.node /\ chain.spec)
ConnV1 ==
  ConnAt({{"v1"}}, {"api"}) /\ (Fresh => chain.node /\ chain.spec /\ chain.manager # "fails")
ConnV2 ==
  /\ ConnAt({{"v2"}}, {"api"})
  /\ Fresh => chain.node /\ chain.spec /\ chain.manager # "fails" /\ chain.v1 # "forbids" /\ chain.v2 # "none"
ConnIndexer  == ConnAt({{"indexer"}}, {"api"}) /\ (Fresh => Conn!Welcome)
ConnReady    == ConnAt({{}}, {"api"}) /\ (Fresh => Conn!Welcome)
ConnLeaves ==
  /\ Of(call, "disconnect", {NoArgs}, {"delay"}) /\ call.left = {"delay"}
  /\ chain.client = "leaving" /\ chain.refused = "nowhere" /\ chain.open = {"api"}

(* What is left open by who has returned.                                  *)
ConnRests ==
  /\ call = Idle
  /\ \/ chain.client = "live" /\ chain.refused = "nowhere" /\ chain.open = {"api"}
     \/ chain.client \in {"none", "gone"} /\ chain.refused = "nowhere" /\ chain.open = {}
     \/ chain.client = "none" /\ chain.refused = "unreachable" /\ chain.open = {}
     \/ chain.client = "none" /\ chain.refused \in {"versions", "nodeError"} /\ chain.open = {"socket"}
     \/ chain.client = "none" /\ chain.refused \in {"context", "v1", "v2"} /\ chain.open = {"api"}

ConnGoing ==
  \/ ConnOpen \/ ConnVersions \/ ConnForever \/ ConnApi \/ ConnContext
  \/ ConnV1 \/ ConnV2 \/ ConnIndexer \/ ConnReady \/ ConnLeaves
ConnInv == chain \in Conn!Chains /\ (ConnRests \/ ConnGoing)

ConnBarred == ~Conn!Welcome \/ chain'.refused \in {"unreachable", "nodeError"}

-----------------------------------------------------------------------------
(* The parts together *)

(* Each keeps its own invariant.                                           *)
PartsInv ==
  /\ part = "tickers"       => TickersInv
  /\ part = "tokens"        => TokensInv
  /\ part = "assetdetails"  => DetailsInv
  /\ part = "metadata"      => MetadataInv
  /\ part = "portfolios"    => FoliosInv
  /\ part = "venues"        => VenuesInv
  /\ part = "distributions" => DistInv
  /\ part = "checkpoints"   => PointsInv
  /\ part = "cadefaults"    => DefaultsInv
  /\ part = "balances"      => BalancesInv
  /\ part = "subscriptions" => SubsInv
  /\ part = "accounts"      => AccountsInv
  /\ part = "subsidies"     => SubsidiesInv
  /\ part = "multisigs"     => MultiSigsInv
  /\ part = "agents"        => AgentsInv
  /\ part = "restrictions"  => LimitsInv
  /\ part = "compliance"    => ComplianceInv
  /\ part = "permissions"   => PermsInv
  /\ part = "claims"        => ClaimsInv
  /\ part = "paging"        => PagingInv
  /\ part = "connection"    => ConnInv
===============================================================================
