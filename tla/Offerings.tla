------------------------------- MODULE Offerings -------------------------------
(***************************************************************************)
(* Offerings: launchOffering, investInOffering, closeOffering,             *)
(* toggleFreezeOffering and modifyOfferingTimes.  One call of the SDK is   *)
(* followed, cut at its reads of the chain, while others invest, freeze,   *)
(* close and reschedule the same Offering, balances move and time passes.  *)
(***************************************************************************)
EXTENDS Integers, Sequences

CONSTANTS
  Plans,       \* the Offerings launched, with their tiers
  Amounts,     \* amounts bought
  MaxPrices,   \* maximum average prices
  NoLimit,     \* no maximum price
  Balances,    \* balances of the portfolios the tokens and funds come from
  Windows,     \* the times <<start, end>> asked for, 0 to leave one as it is
  MaxTime      \* bound on the clock

Never == MaxTime + 1    \* the end of an Offering that has none

Times == 1 .. Never
Tier  == [remaining : Nat, price : Nat]
Plan  == [tiers : Seq(Tier), min : Nat, start : Times, end : Times]

ASSUME PlansAssumption  == Plans \subseteq Plan
ASSUME NumbersAssumption ==
  /\ Amounts \subseteq Nat \ {0} /\ Balances \subseteq Nat
  /\ MaxPrices \subseteq Nat \cup {NoLimit} /\ MaxTime \in Nat \ {0}
  /\ Windows \subseteq (0 .. MaxTime) \X (0 .. Never) \ {<<0, 0>>}

VARIABLES
  now,      \* the clock
  sale,     \* status of the Offering on chain, or "none"
  terms,    \* its tiers, minimum investment and window
  stock,    \* free balance of the token in the offering portfolio
  funds,    \* free balance of the currency in the funding portfolio
  places,   \* do both portfolios exist, and a venue of which type?
  call      \* the call that is followed

market == <<sale, terms, stock, funds, places>>
vars   == <<now, market, call>>

(* plan, amount, limit, start, end, named (was a venue passed?): what the  *)
(* call was passed.  read, terms, free: what it read, or for modifyTimes   *)
(* the window it sends; price: what an investment is found to cost; stale  *)
(* (history): has anything changed since the call began?                   *)
Idle == [at |-> "idle", op |-> "invest", plan |-> CHOOSE p \in Plans : TRUE,
         amount |-> 0, limit |-> NoLimit, start |-> 0, end |-> 0, named |-> FALSE,
         read |-> [sale |-> "none", timing |-> "none", balance |-> "none"],
         terms |-> CHOOSE p \in Plans : TRUE, free |-> 0, price |-> 0, stale |-> FALSE]

Sales == {"Live", "Frozen", "Closed", "ClosedEarly"}
Venues == {"none", "other", "sto"}

Call == [at : {"idle", "details", "balance", "portfolios", "venue", "built"},
         op : {"invest", "close", "freeze", "unfreeze", "modify", "launch"}, plan : Plans,
         amount : Nat, limit : Nat \cup {NoLimit}, start : 0 .. MaxTime, end : 0 .. Never,
         named : BOOLEAN,
         read : [sale : Sales \cup {"none"},
                 timing : {"none", "NotStarted", "Started", "Expired"},
                 balance : {"none", "SoldOut", "Residual", "Available"}],
         terms : Plan, free : Nat, price : Nat, stale : BOOLEAN]

TypeOK ==
  /\ now \in 1 .. MaxTime
  /\ sale \in Sales \cup {"none"} /\ terms \in Plan
  /\ stock \in Nat /\ funds \in Nat
  /\ places \in [portfolios : BOOLEAN, venue : Venues]
  /\ call \in Call

Init ==
  /\ now = 1 /\ sale = "none" /\ terms \in Plans
  /\ stock \in Balances /\ funds \in Balances
  /\ places \in [portfolios : {TRUE}, venue : Venues]
  /\ call = Idle

-----------------------------------------------------------------------------
(* fundraiserToOfferingDetails *)

(* The sums of the first numbers of s, as many as the argument says.       *)
Sums(s) == LET sum[i \in 0 .. Len(s)] == IF i = 0 THEN 0 ELSE sum[i - 1] + s[i] IN sum
Total(s) == Sums(s)[Len(s)]

Remaining(tiers) == [i \in 1 .. Len(tiers) |-> tiers[i].remaining]
Values(tiers)    == [i \in 1 .. Len(tiers) |-> tiers[i].price * tiers[i].remaining]
Left(tiers)      == Total(Remaining(tiers))
ValueLeft(tiers) == Total(Values(tiers))

(* Mutant: the start is taken for reached a moment early.                  *)
Timing_Early(start, end) ==
  IF end # Never /\ now > end THEN "Expired" ELSE IF now >= start - 1 THEN "Started" ELSE "NotStarted"
Timing(start, end) ==
  IF end # Never /\ now > end THEN "Expired" ELSE IF now > start THEN "Started" ELSE "NotStarted"

(* Mutant: the minimum is compared with the number of tokens left.         *)
BalanceStatus_Tokens(t) ==
  IF Left(t.tiers) = 0 THEN "SoldOut" ELSE IF Left(t.tiers) < t.min THEN "Residual" ELSE "Available"
BalanceStatus(t) ==
  IF ValueLeft(t.tiers) = 0 THEN "SoldOut"
  ELSE IF ValueLeft(t.tiers) < t.min THEN "Residual" ELSE "Available"

Details == [sale |-> sale, timing |-> Timing(terms.start, terms.end),
            balance |-> BalanceStatus(terms)]

-----------------------------------------------------------------------------
(* calculateTierStats: what is taken from each tier in turn.  A tier that  *)
(* would raise the average above the limit is passed over.                 *)
Smaller(a, b) == IF a < b THEN a ELSE b

(* Mutant: the price of the last tier reached is paid for everything.      *)
Take_LastPrice(stats, tier, amount, limit) ==
  LET taken  == Smaller(tier.remaining, stats.left)
      bought == amount - stats.left + taken
      price  == IF taken = 0 THEN stats.price ELSE bought * tier.price
  IN  IF stats.left = 0 \/ (limit # NoLimit /\ (bought = 0 \/ price > limit * bought)) THEN stats
      ELSE [left |-> stats.left - taken, total |-> bought, price |-> price]
Take(stats, tier, amount, limit) ==
  LET taken  == Smaller(tier.remaining, stats.left)
      bought == amount - stats.left + taken
      price  == stats.price + taken * tier.price
  IN  IF stats.left = 0 \/ (limit # NoLimit /\ (bought = 0 \/ price > limit * bought)) THEN stats
      ELSE [left |-> stats.left - taken, total |-> bought, price |-> price]

TierStats(tiers, amount, limit) ==
  LET stats[i \in 0 .. Len(tiers)] ==
        IF i = 0 THEN [left |-> amount, total |-> 0, price |-> 0]
        ELSE Take(stats[i - 1], tiers[i], amount, limit)
  IN  stats[Len(tiers)]

-----------------------------------------------------------------------------
(* The calls *)

Goto(stage) == call' = [call EXCEPT !.at = stage] /\ UNCHANGED <<now, market>>
Refuse      == call' = Idle /\ UNCHANGED <<now, market>>
Check(test, stage) == IF test THEN Goto(stage) ELSE Refuse

Start(op, args) ==
  /\ call.at = "idle"
  /\ call' = [args EXCEPT !.op = op, !.at = IF op = "launch" THEN "portfolios" ELSE "details"]
  /\ UNCHANGED <<now, market>>

Invest(n, max)    == sale # "none" /\ Start("invest", [Idle EXCEPT !.amount = n, !.limit = max])
CloseIt           == sale # "none" /\ Start("close", Idle)
ToggleFreeze(op)  == sale # "none" /\ Start(op, Idle)
ModifyTimes(s, e) == sale # "none" /\ Start("modify", [Idle EXCEPT !.start = s, !.end = e])
Launch(plan, own) == sale = "none" /\ Start("launch", [Idle EXCEPT !.plan = plan, !.named = own])

Ended == {"Closed", "ClosedEarly"}

(* toggleFreezeOffering: whether it has ended is told by the window, and   *)
(* only who unfreezes is told that it is closed.                           *)
MayToggle(d) ==
  d.timing # "Expired" /\ (IF call.op = "freeze" THEN d.sale # "Frozen" ELSE d.sale = "Frozen")

MayClose(d) == d.sale \notin Ended

(* validateInput.  A Date that is passed is another object than the one    *)
(* that was read: only the absence of an end is ever found unchanged.      *)
SameTimes == call.start = 0 /\ (call.end = 0 \/ (call.end = Never /\ terms.end = Never))
MayModify(d) ==
  /\ d.sale \notin Ended /\ ~SameTimes /\ d.timing # "Expired"
  /\ call.start # 0 => d.timing = "NotStarted" /\ now <= call.start
  /\ call.end \notin {0, Never} => now <= call.end

(* What is not asked to change is sent as it was read.  Mutant: an end     *)
(* that is not passed is none.                                             *)
NewWindow_NoEnd(t) == [t EXCEPT !.start = IF call.start = 0 THEN @ ELSE call.start,
                                !.end = IF call.end = 0 THEN Never ELSE call.end]
(* Mutant: a start that is not passed is sent as nothing.                  *)
NewWindow_NoStart(t) == [t EXCEPT !.start = call.start,
                                  !.end = IF call.end = 0 THEN @ ELSE call.end]
NewWindow(t) == [t EXCEPT !.start = IF call.start = 0 THEN @ ELSE call.start,
                          !.end = IF call.end = 0 THEN @ ELSE call.end]

ReadDetails ==
  /\ call.at = "details"
  /\ LET d == Details IN
     CASE call.op = "close"                  -> Check(MayClose(d), "built")
       [] call.op \in {"freeze", "unfreeze"} -> Check(MayToggle(d), "built")
       [] call.op = "modify" ->
            IF MayModify(d)
              THEN call' = [call EXCEPT !.at = "built", !.terms = NewWindow(terms)]
                   /\ UNCHANGED <<now, market>>
              ELSE Refuse
       [] call.op = "invest" ->
            /\ call' = [call EXCEPT !.at = "balance", !.read = d, !.terms = terms]
            /\ UNCHANGED <<now, market>>

(* prepareInvestInSto, when the balance is there.                          *)
Accepting(d) == d.sale = "Live" /\ d.timing = "Started"

ReadBalance ==
  /\ call.at = "balance"
  /\ LET stats == TierStats(call.terms.tiers, call.amount, call.limit) IN
     IF /\ Accepting(call.read)
        /\ stats.price >= call.terms.min /\ stats.price <= funds
        /\ stats.total >= call.amount
       THEN call' = [call EXCEPT !.at = "built", !.price = stats.price] /\ UNCHANGED <<now, market>>
       ELSE Refuse

(* prepareLaunchOffering: the portfolios and the balance at once, then the *)
(* venue passed, whose type is not looked at, or one of its own.           *)
ReadPortfolios ==
  /\ call.at = "portfolios"
  /\ IF places.portfolios
       THEN call' = [call EXCEPT !.at = "venue", !.free = stock] /\ UNCHANGED <<now, market>>
       ELSE Refuse

VenueFound == IF call.named THEN places.venue # "none" ELSE places.venue = "sto"

ReadVenue ==
  call.at = "venue" /\ Check(VenueFound /\ Left(call.plan.tiers) <= call.free, "built")

-----------------------------------------------------------------------------
(* The sto pallet (external to the SDK) *)

Open(t) == sale = "Live" /\ t.start <= now /\ (t.end = Never \/ now < t.end)

(* What n tokens take from each tier, in order, and what they cost.        *)
Gone(tiers, n, i) ==
  LET before == Sums(Remaining(tiers))[i - 1]
  IN  IF n <= before THEN 0 ELSE Smaller(n - before, tiers[i].remaining)
Paid(tiers, n) == [i \in 1 .. Len(tiers) |-> Gone(tiers, n, i) * tiers[i].price]
Bill(tiers, n) == Total(Paid(tiers, n))

AcceptsInvest(n, max) ==
  LET bill == Bill(terms.tiers, n) IN
  /\ Open(terms) /\ n <= Left(terms.tiers)
  /\ bill >= terms.min /\ bill <= funds
  /\ max # NoLimit => bill <= max * n
AcceptsClose    == sale \notin Ended
AcceptsToggle   == sale \notin Ended /\ (terms.end = Never \/ now < terms.end)
AcceptsModify(t) ==
  /\ sale \notin Ended /\ (terms.end = Never \/ now < terms.end)
  /\ t.start # terms.start => now < terms.start
  /\ t.start < t.end
AcceptsLaunch(plan) ==
  /\ sale = "none" /\ places.portfolios /\ places.venue = "sto"
  /\ Left(plan.tiers) <= stock

After(tiers, n) ==
  [i \in 1 .. Len(tiers) |-> [tiers[i] EXCEPT !.remaining = @ - Gone(tiers, n, i)]]
Sell(n) ==
  /\ terms' = [terms EXCEPT !.tiers = After(@, n)]
  /\ funds' = funds - Bill(terms.tiers, n)
  /\ UNCHANGED <<sale, stock, places>>
SetSale(s) == sale' = s /\ UNCHANGED <<terms, stock, funds, places>>
SetWindow(t) ==
  /\ terms' = [terms EXCEPT !.start = t.start, !.end = t.end]
  /\ UNCHANGED <<sale, stock, funds, places>>
Create(plan) ==
  /\ sale' = "Live" /\ terms' = plan /\ stock' = stock - Left(plan.tiers)
  /\ UNCHANGED <<funds, places>>
Closing == IF terms.end # Never /\ terms.end < now THEN "Closed" ELSE "ClosedEarly"

Accepted ==
  CASE call.op = "invest" -> AcceptsInvest(call.amount, call.limit)
    [] call.op = "close"  -> AcceptsClose
    [] call.op \in {"freeze", "unfreeze"} -> AcceptsToggle
    [] call.op = "modify" -> AcceptsModify(call.terms)
    [] call.op = "launch" -> AcceptsLaunch(call.plan)

Takes(op) == call.at = "built" /\ call.op = op /\ Accepted /\ call' = Idle /\ UNCHANGED now

DispatchInvest == Takes("invest") /\ Sell(call.amount)
DispatchClose  == Takes("close") /\ SetSale(Closing)
DispatchToggle ==
  \/ Takes("freeze") /\ SetSale("Frozen")
  \/ Takes("unfreeze") /\ SetSale("Live")
DispatchModify == Takes("modify") /\ SetWindow(call.terms)
DispatchLaunch == Takes("launch") /\ Create(call.plan)
Revert         == call.at = "built" /\ ~Accepted /\ Refuse

(* A call under way grows stale when the chain changes under it, or when   *)
(* time passes.                                                            *)
Aging == call' = IF call.at = "idle" THEN call ELSE [call EXCEPT !.stale = TRUE]

OthersInvest(n) == sale # "none" /\ AcceptsInvest(n, NoLimit) /\ Sell(n) /\ Aging /\ UNCHANGED now
OthersSet(s) ==
  /\ sale \in {"Live", "Frozen"} \ {s} /\ s \in Ended => s = Closing
  /\ SetSale(s) /\ Aging /\ UNCHANGED now
OthersMove(s, e) ==
  LET t == [terms EXCEPT !.start = IF s = 0 THEN @ ELSE s, !.end = IF e = 0 THEN @ ELSE e] IN
  sale # "none" /\ AcceptsModify(t) /\ SetWindow(t) /\ Aging /\ UNCHANGED now
(* Tokens come and go before the launch, funds after it; a portfolio is    *)
(* deleted.                                                                *)
Transfer ==
  /\ \/ sale # "none" /\ funds' \in Balances \ {funds} /\ UNCHANGED <<stock, places>>
     \/ sale = "none" /\ stock' \in Balances \ {stock} /\ UNCHANGED <<funds, places>>
     \/ sale = "none" /\ places' = [places EXCEPT !.portfolios = FALSE]
         /\ UNCHANGED <<funds, stock>>
  /\ Aging /\ UNCHANGED <<now, sale, terms>>
Tick == now < MaxTime /\ now' = now + 1 /\ Aging /\ UNCHANGED market

-----------------------------------------------------------------------------
Begin ==
  \/ \E n \in Amounts, max \in MaxPrices : Invest(n, max)
  \/ CloseIt
  \/ \E op \in {"freeze", "unfreeze"} : ToggleFreeze(op)
  \/ \E w \in Windows : ModifyTimes(w[1], w[2])
  \/ \E plan \in Plans, own \in BOOLEAN : Launch(plan, own)

Next ==
  \/ Begin \/ ReadDetails \/ ReadBalance \/ ReadPortfolios \/ ReadVenue
  \/ DispatchInvest \/ DispatchClose \/ DispatchToggle \/ DispatchModify \/ DispatchLaunch \/ Revert
  \/ \E n \in Amounts : OthersInvest(n)
  \/ \E s \in Sales : OthersSet(s)
  \/ \E w \in Windows : OthersMove(w[1], w[2])
  \/ Transfer \/ Tick

Spec == Init /\ [][Next]_vars

-----------------------------------------------------------------------------
(* Properties *)

Fresh == ~call.stale
Ready == call.at = "built"
Ends  == call'.at = "idle"

Ascending(tiers) == \A i, j \in DOMAIN tiers : i < j => tiers[i].price <= tiers[j].price
(* Only with tiers in the order of their prices is the limit on the price  *)
(* the chain's: the chain passes over none.                                *)
Comparable(tiers) == call.limit # NoLimit => Ascending(tiers)

(* At its start and at its end an Offering is one thing for the SDK and    *)
(* another for the chain: it is not started yet, and not expired yet.      *)
AtEdge == now \in {terms.start, terms.end}

(* What the checks let through is only reverted when something changed     *)
(* since the call began; at those edges; and for what they do not look     *)
(* at: the type of a venue that is passed, the order of the new times, and *)
(* whether an Offering to freeze is closed.                                *)
RevertedOnlyIfStale ==
  Ready /\ Fresh /\ ~AtEdge /\ Comparable(terms.tiers) =>
    \/ Accepted
    \/ call.op = "launch" /\ call.named /\ places.venue = "other"
    \/ call.op = "modify" /\ call.terms.start >= call.terms.end
    \/ call.op = "freeze" /\ sale \in Ended

(* Who is turned away would have been reverted, or would have changed      *)
(* nothing; but for those edges.                                           *)
TurnedAwayRightly ==
  [][call.at # "idle" /\ ~Ready /\ Ends /\ Fresh /\ ~AtEdge =>
       CASE call.op = "invest" ->
              Comparable(terms.tiers) => ~AcceptsInvest(call.amount, call.limit)
         [] call.op = "close"    -> ~AcceptsClose
         [] call.op = "freeze"   -> sale = "Frozen" \/ ~AcceptsToggle
         [] call.op = "unfreeze" -> sale = "Live" \/ ~AcceptsToggle
         [] call.op = "launch"   -> ~AcceptsLaunch(call.plan)
         [] OTHER -> TRUE]_vars

(* An investment costs what was worked out for it, and modifyTimes leaves  *)
(* what it is not passed the same, unless something changed meanwhile.     *)
DoneAsAsked ==
  [][Ready /\ Ends /\ Fresh /\ Accepted =>
       /\ call.op = "invest" /\ Comparable(terms.tiers) => funds - funds' = call.price
       /\ call.op = "modify" =>
            /\ call.start = 0 => terms'.start = terms.start
            /\ call.end = 0 => terms'.end = terms.end]_vars

(* OfferingBalanceStatus: tokens are said to be available if and only if   *)
(* some amount of them costs something and reaches the minimum investment. *)
(* Tokens that cost nothing are taken for sold out.                        *)
AvailableIfBuyable ==
  sale # "none" =>
    (Details.balance = "Available" <=>
       \E n \in 1 .. Left(terms.tiers) :
         Bill(terms.tiers, n) > 0 /\ Bill(terms.tiers, n) >= terms.min)
===============================================================================
