----------------------------- MODULE Distributions -----------------------------
(***************************************************************************)
(* A dividend distribution: configuring it, paying and claiming it,        *)
(* reclaiming what is left, removing it and moving its record date, while  *)
(* others pay and claim, the funds and the schedules of the Asset change   *)
(* and time passes.  What a DividendDistribution knows of its terms is     *)
(* what it was built with.                                                 *)
(***************************************************************************)
EXTENDS FollowedCall, Integers, Sequences, FiniteSets

CONSTANTS
  Holders,     \* holders of the Asset; "me" is one
  Targets,     \* those the distribution is for
  PayLists,    \* lists of Identities that are paid
  Amounts,     \* what is put up for it; a share is 1
  MaxTime      \* bound on the clock

Never   == MaxTime + 1
Moments == 1 .. Never

(* A record date: an existing checkpoint, the schedule, or a date.         *)
Existing  == [kind |-> "existing", date |-> 0]
Scheduled == [kind |-> "schedule", date |-> 0]
Dates     == {[kind |-> "date", date |-> t] : t \in 1 .. MaxTime}
Records   == {Existing, Scheduled} \cup Dates

(* dist: is there a distribution?  payment, expiry: its terms; record: the *)
(* date its balances are taken at, 0 for a checkpoint that exists; made:   *)
(* is that checkpoint there?  paid: who got his share; left: what is left  *)
(* of the amount; free: the funds there are for another; next: the next    *)
(* checkpoint of the schedule, 0 when it is gone.                          *)
Chains == [now : 1 .. MaxTime, dist : BOOLEAN, payment : Moments, expiry : Moments,
           record : 0 .. MaxTime, made : BOOLEAN, paid : SUBSET Holders, left : Nat,
           reclaimed : BOOLEAN, free : Nat, next : 0 .. MaxTime]

TypeOK ==
  /\ chain \in Chains
  /\ chain.dist => chain.record < chain.payment \/ chain.record = chain.payment
  /\ call.op \in {"none", "configure", "pay", "claim", "reclaim", "remove", "record"}

Init ==
  /\ \E free \in Amounts, next \in 0 .. MaxTime :
       chain = [now |-> 1, dist |-> FALSE, payment |-> Never, expiry |-> Never, record |-> 0,
                made |-> FALSE, paid |-> {}, left |-> 0, reclaimed |-> FALSE,
                free |-> free, next |-> next]
  /\ call = Idle

-----------------------------------------------------------------------------
Known == chain.payment # Never    \* there is, or was, a distribution to call

Configure(args) == ~Known /\ Calls("configure", args, {"clock"})
Pay(list)       == Known /\ Calls("pay", [list |-> list], {"clock"})
Claim           == Known /\ Calls("claim", NoArgs, {"clock"})
Reclaim         == Known /\ Calls("reclaim", NoArgs, {"clock"})
Remove(byId)    == Known /\ Calls("remove", [byId |-> byId], {"distribution"})
ModifyCheckpoint(record) == Known /\ Calls("record", [record |-> record], {"checkpoint"})

(* assertDistributionOpen.  Mutant: the expiry is not looked at.           *)
IsOpen_Forever == chain.payment <= chain.now
IsOpen == chain.payment <= chain.now /\ (chain.expiry = Never \/ chain.expiry >= chain.now)

(* assertCaCheckpointValid *)
Valid(record) ==
  CASE record.kind = "existing" -> TRUE
    [] record.kind = "schedule" -> chain.next # 0
    [] record.kind = "date"     -> record.date > chain.now
DateOf(record) == IF record.kind = "schedule" THEN chain.next ELSE record.date

(* assertDistributionDatesValid.  Mutant: the expiry is compared only.     *)
DatesValid_Expiry(record, payment, expiry) ==
  record.kind = "existing" \/ (Valid(record) /\ DateOf(record) <= expiry)
DatesValid(record, payment, expiry) ==
  record.kind = "existing" \/ (Valid(record) /\ DateOf(record) < payment /\ DateOf(record) <= expiry)

(* The checks each preparation makes of the time before it reads anything. *)
ReadClock ==
  /\ "clock" \in call.left
  /\ CASE call.op = "configure" ->
            IF call.args.payment > chain.now /\ call.args.expiry >= call.args.payment
              THEN Keep("clock", call.read, {"dates"}) ELSE Refuse
       [] call.op = "pay" ->
            IF IsOpen /\ \A i \in DOMAIN call.args.list : call.args.list[i] \in Targets
              THEN Keep("clock", call.read, {"paid"}) ELSE Refuse
       [] call.op = "claim" -> IF IsOpen THEN Keep("clock", call.read, {"checkpoint"}) ELSE Refuse
       [] call.op = "reclaim" ->
            IF chain.expiry = Never \/ chain.expiry < chain.now
              THEN Keep("clock", call.read, {"details"}) ELSE Refuse
       [] call.op = "record" ->
            Check("clock", chain.payment > chain.now
                             /\ DatesValid(call.args.record, chain.payment, chain.expiry))

ReadDates ==
  /\ Answers("configure", "dates")
  /\ IF DatesValid(call.args.record, call.args.payment, call.args.expiry)
       THEN Keep("dates", call.read, {"funds"}) ELSE Refuse
ReadFunds == Answers("configure", "funds") /\ Check("funds", call.args.amount <= chain.free)

ReadPaid ==
  /\ Answers("pay", "paid")
  /\ Check("paid", \A i \in DOMAIN call.args.list : call.args.list[i] \notin chain.paid)

(* DividendDistribution.getParticipant: who was paid is only read until    *)
(* the payment date.                                                       *)
Participant(h) ==
  [included |-> h \in Targets, paid |-> ~(chain.payment < chain.now) /\ h \in chain.paid]

(* A checkpoint that is not there yet has no participants.                 *)
ReadCheckpoint ==
  \/ /\ Answers("claim", "checkpoint")
     /\ IF chain.dist /\ chain.made THEN Keep("checkpoint", call.read, {"balance"}) ELSE Refuse
  \/ /\ Answers("record", "checkpoint")
     /\ IF Valid(call.args.record) THEN Keep("checkpoint", call.read, {"clock"}) ELSE Refuse
ReadBalance ==
  /\ Answers("claim", "balance")
  /\ Check("balance", Participant("me").included /\ ~Participant("me").paid)

ReadDetails == Answers("reclaim", "details") /\ Check("details", chain.dist /\ ~chain.reclaimed)

(* assertCaIsRemovable: of an id it is only asked that it exists.  Mutant: *)
(* of a distribution as well.                                              *)
Removable_Exists(byId) == chain.dist
Removable(byId) == chain.dist /\ (byId \/ chain.payment >= chain.now)
ReadDistribution == Answers("remove", "distribution") /\ Check("distribution", Removable(call.args.byId))

-----------------------------------------------------------------------------
(* The corporate action and capital distribution pallets (external)        *)

Running == chain.dist /\ chain.payment <= chain.now /\ (chain.expiry = Never \/ chain.now <= chain.expiry)
Shares(set) == [chain EXCEPT !.paid = @ \cup set, !.left = @ - Cardinality(set)]
Whom(list)  == {list[i] : i \in DOMAIN list}

(* An expired distribution's funds may be gone already.                    *)
AcceptsPay(list) ==
  /\ Running /\ ~chain.reclaimed /\ Cardinality(Whom(list)) = Len(list)
  /\ Whom(list) \subseteq Targets \ chain.paid /\ Len(list) <= chain.left
AcceptsRecord(record, payment) ==
  CASE record.kind = "existing" -> TRUE
    [] record.kind = "schedule" -> chain.next # 0 /\ chain.next <= payment
    [] record.kind = "date"     -> chain.now < record.date /\ record.date <= payment

Accepted ==
  CASE call.op = "configure" -> /\ call.args.amount <= chain.free
                                /\ call.args.payment < call.args.expiry
                                /\ AcceptsRecord(call.args.record, call.args.payment)
    [] call.op = "pay"       -> AcceptsPay(call.args.list)
    [] call.op = "claim"     -> AcceptsPay(<<"me">>)
    [] call.op = "reclaim"   -> chain.dist /\ ~chain.reclaimed /\ chain.expiry # Never /\ chain.expiry <= chain.now
    [] call.op = "remove"    -> chain.dist /\ chain.now < chain.payment
    [] call.op = "record"    -> /\ chain.dist /\ chain.now < chain.payment
                                /\ AcceptsRecord(call.args.record, chain.payment)

Recorded(c, record) ==
  [c EXCEPT !.record = DateOf(record), !.made = record.kind = "existing"]
Distributing(args) ==
  Recorded([chain EXCEPT !.dist = TRUE, !.payment = args.payment, !.expiry = args.expiry,
                         !.left = args.amount, !.free = @ - args.amount], args.record)
Reclaimed == [chain EXCEPT !.reclaimed = TRUE, !.free = @ + chain.left, !.left = 0]
Removed   == [chain EXCEPT !.dist = FALSE, !.free = @ + chain.left, !.left = 0]

DispatchConfigure == call.op = "configure" /\ Dispatches(Accepted, Distributing(call.args))
DispatchPay     == call.op = "pay" /\ Dispatches(Accepted, Shares(Whom(call.args.list)))
DispatchClaim   == call.op = "claim" /\ Dispatches(Accepted, Shares({"me"}))
DispatchReclaim == call.op = "reclaim" /\ Dispatches(Accepted, Reclaimed)
DispatchRemove  == call.op = "remove" /\ Dispatches(Accepted, Removed)
DispatchRecord  == call.op = "record" /\ Dispatches(Accepted, Recorded(chain, call.args.record))

OthersPay(h) == AcceptsPay(<<h>>) /\ Happens(Shares({h}))
OthersEnd ==
  \/ /\ chain.dist /\ ~chain.reclaimed /\ chain.expiry # Never /\ chain.expiry <= chain.now
     /\ Happens(Reclaimed)
  \/ chain.dist /\ chain.now < chain.payment /\ Happens(Removed)
(* The checkpoint is made some time after its date.                        *)
Snapshot == chain.dist /\ chain.record <= chain.now /\ Happens([chain EXCEPT !.made = TRUE])
Schedule(t) == (t = 0 \/ t > chain.now) /\ Happens([chain EXCEPT !.next = t])
Spend == ~Known /\ chain.free > 0 /\ Happens([chain EXCEPT !.free = @ - 1])
Tick  == chain.now < MaxTime /\ Happens([chain EXCEPT !.now = @ + 1])

Next ==
  \/ \E payment \in 2 .. MaxTime, expiry \in Moments, record \in Records, n \in Amounts :
       Configure([payment |-> payment, expiry |-> expiry, record |-> record, amount |-> n])
  \/ \E list \in PayLists : Pay(list)
  \/ Claim \/ Reclaim
  \/ \E byId \in BOOLEAN : Remove(byId)
  \/ \E record \in Records : ModifyCheckpoint(record)
  \/ ReadClock \/ ReadDates \/ ReadFunds \/ ReadPaid \/ ReadCheckpoint \/ ReadBalance
  \/ ReadDetails \/ ReadDistribution
  \/ DispatchConfigure \/ DispatchPay \/ DispatchClaim \/ DispatchReclaim \/ DispatchRemove
  \/ DispatchRecord
  \/ \E h \in Holders : OthersPay(h)
  \/ \E t \in 0 .. MaxTime : Schedule(t)
  \/ OthersEnd \/ Snapshot \/ Spend \/ Tick

-----------------------------------------------------------------------------
(* Properties *)

(* What the checks let through is only reverted when something changed     *)
(* since the call began, or for what they do not look at: whether the      *)
(* caller has claimed; whether the same Identity is passed twice, the      *)
(* funds suffice or the distribution paid is still there; whether it       *)
(* expires at all, or as soon as it is paid; and whether an id is that of  *)
(* a distribution that has started, or that starts just now.               *)
RevertedOnlyIfStale ==
  Built /\ Fresh =>
    \/ Accepted
    \/ call.op = "claim" /\ ("me" \in chain.paid \/ chain.left = 0)
    \/ call.op = "pay" /\ \/ Cardinality(Whom(call.args.list)) < Len(call.args.list)
                          \/ Len(call.args.list) > chain.left \/ ~chain.dist
    \/ call.op = "reclaim" /\ chain.expiry = Never
    \/ call.op = "configure" /\ call.args.payment = call.args.expiry
    \/ call.op = "remove" /\ (call.args.byId \/ chain.payment = chain.now)
    \/ call.op = "record" /\ ~chain.dist

(* Who is turned away would have been reverted; but a claim waits for the  *)
(* checkpoint, a record date may not be the payment date, and funds are    *)
(* reclaimed only after the moment of expiry.                              *)
TurnedAwayRightly ==
  TurnedAway /\ Fresh =>
    \/ ~Accepted
    \/ call.op = "claim" /\ ~chain.made
    \/ call.op = "reclaim" /\ chain.expiry = chain.now
    \/ call.op = "configure" /\ (call.args.payment <= chain.now \/ DateOf(call.args.record) = call.args.payment)
    \/ call.op = "record" /\ DateOf(call.args.record) = chain.payment
===============================================================================
