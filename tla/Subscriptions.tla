------------------------------ MODULE Subscriptions -----------------------------
(***************************************************************************)
(* Subscribing to what can be read: the details of an Asset, the secondary *)
(* Accounts of an Identity, and the details of a ticker reservation.  What *)
(* the node keeps notifying of is part of the result; the rest is read     *)
(* once, before, or asked for at each notification.                        *)
(***************************************************************************)
EXTENDS FollowedCall, Integers, Sequences

CONSTANTS
  Keys,       \* Accounts
  MaxTime,    \* bound on the clock
  MaxInbox    \* bound on the notifications under way

(* main: the storage that is subscribed to, of an Asset its token, of the  *)
(* Accounts their key records, of a ticker its registration and its Asset; *)
(* beside: the agents of the Asset; sent: the last notification the node   *)
(* made; inbox: those that have not been delivered.                        *)
Supplies      == {1, 2}
Kinds         == {"none", "mine", "foreign", "primary"}
Tokens        == [custom : BOOLEAN, supply : Supplies]
Records       == [Keys -> Kinds]
Registrations == [held : BOOLEAN, expiry : 0 .. MaxTime, issued : BOOLEAN]
MainOf(about) ==
  CASE about = "asset" -> Tokens [] about = "accounts" -> Records [] OTHER -> Registrations
Nothing == <<>>

TypeOK ==
  /\ chain.about \in {"asset", "accounts", "ticker"}
  /\ chain.main \in MainOf(chain.about) /\ chain.beside \in 0 .. 1 /\ chain.now \in 1 .. MaxTime
  /\ Len(chain.inbox) <= MaxInbox
  /\ call.op \in {"none", chain.about} /\ call.left \subseteq {"beside"}

Init ==
  /\ \E about \in {"asset", "accounts", "ticker"} :
       \E main \in MainOf(about), beside \in IF about = "asset" THEN {0, 1} ELSE {0} :
         chain = [about |-> about, main |-> main, beside |-> beside, now |-> 1,
                  sent |-> Nothing, inbox |-> <<>>]
  /\ chain.about = "ticker" => (chain.main.issued => chain.main.held)
  /\ call = Idle

-----------------------------------------------------------------------------
(* What a notification tells of *)

(* The details of a ticker, at the moment the notification is delivered.   *)
(* Mutant: an Asset does not matter.                                       *)
Details_Held(reg) ==
  IF reg.held /\ reg.expiry >= chain.now THEN "Reserved" ELSE "Free"
Details(reg) ==
  IF reg.issued THEN "AssetCreated"
  ELSE IF reg.held /\ reg.expiry >= chain.now THEN "Reserved"
  ELSE "Free"

(* The Accounts of a list that are secondary ones, of whatever Identity.   *)
(* Mutant: those that have a record.                                       *)
Secondary_Any(records, list) == {k \in list : records[k] # "none"}
Secondary(records, list)     == {k \in list : records[k] \in {"mine", "foreign"}}

(* The result of a notification that needs no more reads.                  *)
Result(main) ==
  CASE call.op = "ticker"   -> Details(main)
    [] call.op = "accounts" -> Secondary(main, call.read.beside)
    [] OTHER                -> [token |-> main, agents |-> call.read.beside]

-----------------------------------------------------------------------------
(* Subscribing: what is read once comes first, and the subscription begins *)
(* with the storage as it is then.                                         *)
Beside ==
  CASE chain.about = "asset"    -> chain.beside
    [] chain.about = "accounts" -> {k \in Keys : chain.main[k] \in {"mine", "primary"}}
    [] OTHER                    -> 0
Subscribe == Calls(chain.about, NoArgs, {"beside"})
ReadBeside ==
  Answers(chain.about, "beside")
  /\ Keep("beside", [beside |-> Beside, told |-> Nothing, asked |-> <<>>, late |-> FALSE], {})

Notify ==
  /\ Built /\ chain.sent # <<chain.main>> /\ Len(chain.inbox) + Len(call.read.asked) < MaxInbox
  /\ chain' = [chain EXCEPT !.sent = <<chain.main>>, !.inbox = Append(@, chain.main)]
  /\ UNCHANGED call

(* A custom type is looked up at each notification, and the callback told  *)
(* when that is answered, which a later notification may be first.         *)
Passed(asked)         == [i \in DOMAIN asked |-> [asked[i] EXCEPT !.passed = TRUE]]
Told(main, late, asked) ==
  [call EXCEPT !.read.told = <<Result(main)>>, !.read.late = late, !.read.asked = asked]
Deliver ==
  /\ Built /\ chain.inbox # <<>>
  /\ chain' = [chain EXCEPT !.inbox = Tail(@)]
  /\ LET main == Head(chain.inbox)
     IN IF chain.about = "asset" /\ main.custom
          THEN call' = [call EXCEPT !.read.asked = Append(@, [main |-> main, passed |-> FALSE])]
          ELSE call' = Told(main, FALSE, Passed(call.read.asked))
Answer(i) ==
  /\ Built /\ i \in DOMAIN call.read.asked
  /\ LET asked == call.read.asked
     IN call' = Told(asked[i].main, asked[i].passed,
                     Passed(SubSeq(asked, 1, i - 1)) \o SubSeq(asked, i + 1, Len(asked)))
  /\ UNCHANGED chain

-----------------------------------------------------------------------------
(* What others do (external to the SDK) *)

SetToken(t)  == chain.about = "asset" /\ Happens([chain EXCEPT !.main = t])
SetAgents(a) == chain.about = "asset" /\ Happens([chain EXCEPT !.beside = a])
SetRecord(k, record) == chain.about = "accounts" /\ Happens([chain EXCEPT !.main[k] = record])
Register(expiry) ==
  /\ chain.about = "ticker" /\ ~chain.main.issued /\ expiry >= chain.now
  /\ Happens([chain EXCEPT !.main.held = TRUE, !.main.expiry = expiry])
Issue ==
  /\ chain.about = "ticker" /\ chain.main.held
  /\ Happens([chain EXCEPT !.main.issued = TRUE])
Tick == chain.about = "ticker" /\ chain.now < MaxTime /\ Happens([chain EXCEPT !.now = @ + 1])

Next ==
  \/ Subscribe \/ ReadBeside \/ Notify \/ Deliver
  \/ \E i \in 1 .. MaxInbox : Answer(i)
  \/ \E t \in Tokens : SetToken(t)
  \/ \E a \in 0 .. 1 : SetAgents(a)
  \/ \E k \in Keys, record \in Kinds : SetRecord(k, record)
  \/ \E expiry \in 1 .. MaxTime : Register(expiry)
  \/ Issue \/ Tick

-----------------------------------------------------------------------------
(* Properties *)

(* When nothing is under way, what the callback was told last is what a    *)
(* read would give; but for a result that was overtaken by a later one,    *)
(* for an Account that has changed to another Identity or has come since,  *)
(* for a reservation that ran out since, and for the agents, which stay    *)
(* those of the beginning.                                                 *)
AllQuiet == Built /\ chain.sent = <<chain.main>> /\ chain.inbox = <<>> /\ call.read.asked = <<>>
LastToldIsTrue ==
  AllQuiet =>
    LET told == call.read.told[1]
        run  == chain.main.expiry < chain.now
    IN CASE chain.about = "asset" ->
              /\ told.token = chain.main \/ call.read.late
              /\ told.agents = call.read.beside
         [] chain.about = "accounts" ->
              \A k \in Keys :
                \/ (k \in told) = (chain.main[k] = "mine")
                \/ k \in call.read.beside /\ chain.main[k] = "foreign"
                \/ k \notin call.read.beside /\ chain.main[k] = "mine"
         [] OTHER ->
              \/ told = "AssetCreated" /\ chain.main.issued
              \/ told = "Reserved" /\ chain.main.held /\ ~chain.main.issued
              \/ told = "Free" /\ ~chain.main.issued /\ (run \/ ~chain.main.held)
===============================================================================
