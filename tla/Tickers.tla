-------------------------------- MODULE Tickers --------------------------------
(***************************************************************************)
(* Reserving a ticker, extending the reservation and creating the Asset,   *)
(* while others reserve it, are given it, create the Asset themselves or   *)
(* register the custom type, and while reservations run out.               *)
(***************************************************************************)
EXTENDS FollowedCall, Integers

CONSTANTS
  MaxTime,    \* bound on the clock
  Period      \* how long a reservation lasts

Never   == MaxTime + Period + 1
Parties == {"me", "other"}
Nobody  == "none"

(* holder and expiry: the registration of the ticker; issuer: the owner of *)
(* its Asset; typed: is the custom type registered?                        *)
Chains == [now : 1 .. MaxTime, holder : Parties \cup {Nobody}, expiry : 0 .. Never,
           issuer : Parties \cup {Nobody}, typed : BOOLEAN]

Reserves == [extend : BOOLEAN]
(* reserved: must it be reserved?  custom: a type of one's own; papers:    *)
(* does it come with documents?                                            *)
Creates  == [reserved : BOOLEAN, custom : BOOLEAN, papers : BOOLEAN]

TypeOK ==
  /\ chain \in Chains
  /\ chain.issuer # Nobody => chain.holder # Nobody
  /\ call.op \in {"none", "reserve", "create"}
  /\ call.left \subseteq {"status", "role", "type"}

Init ==
  /\ chain \in Chains
  /\ chain.now = 1 /\ chain.issuer = Nobody
  /\ chain.expiry \in IF chain.holder = Nobody THEN {0} ELSE {0, 1, Never}
  /\ call = Idle

-----------------------------------------------------------------------------
(* TickerReservation.details *)

(* Mutant: a reservation that has run out still counts.                    *)
Status_Forever ==
  IF chain.issuer # Nobody THEN "AssetCreated" ELSE IF chain.holder # Nobody THEN "Reserved" ELSE "Free"
Status ==
  IF chain.issuer # Nobody THEN "AssetCreated"
  ELSE IF chain.holder # Nobody /\ chain.expiry >= chain.now THEN "Reserved"
  ELSE "Free"

-----------------------------------------------------------------------------
Reserve(args) == Calls("reserve", args, {"status"} \cup IF args.extend THEN {"role"} ELSE {})
CreateAsset(args) == Calls("create", args, {"status"})

(* The role of ticker owner, run out or not.                               *)
ReadRole ==
  /\ call.op \in {"reserve", "create"} /\ "role" \in call.left
  /\ Check("role", chain.holder = "me")

(* prepareReserveTicker *)
MayReserve == IF call.args.extend THEN Status = "Reserved" ELSE Status = "Free"
ReadStatus == Answers("reserve", "status") /\ Check("status", MayReserve)

(* createAsset: what its prepareStorage reads decides of the role that is  *)
(* asked for.  Mutant: of a ticker that is reserved, no role.              *)
RoleAsked_None(status) == {}
RoleAsked(status) == IF status = "Free" THEN {} ELSE {"role"}

MayCreate(status) ==
  status # "AssetCreated" /\ (call.args.reserved => status # "Free")

(* The tags of the first transaction for which a fee is quoted: worked out *)
(* by hand when the ticker is free, else those of the transaction itself.  *)
(* A transaction or a tag that is no protocol operation costs nothing.     *)
(* Mutant: by hand, without the fee for the ticker.                        *)
Quoted_NoTicker(status, new) ==
  IF status = "Free" THEN {"CreateAsset"} ELSE IF new THEN {} ELSE {"CreateAsset"}
Quoted(status, new) ==
  IF status = "Free" THEN {"RegisterTicker", "CreateAsset"} ELSE IF new THEN {} ELSE {"CreateAsset"}

Settle(r, status, new) ==
  IF MayCreate(status)
    THEN Keep(r, [status |-> status, new |-> new,
                  fee |-> Quoted(status, new) \cup IF call.args.papers THEN {"AddDocuments"} ELSE {}],
              RoleAsked(status))
    ELSE Refuse

ReadStorage ==
  /\ Answers("create", "status")
  /\ IF call.args.custom THEN Keep("status", [status |-> Status], {"type"})
                         ELSE Settle("status", Status, FALSE)

ReadType == Answers("create", "type") /\ Settle("type", call.read.status, ~chain.typed)

-----------------------------------------------------------------------------
(* The asset pallet (external to the SDK) *)

Registered(who) == chain.holder = who /\ chain.now <= chain.expiry
Open(who)       == chain.issuer = Nobody /\ \A w \in Parties \ {who} : ~Registered(w)

Registering(who) == [chain EXCEPT !.holder = who, !.expiry = chain.now + Period]
Creating(who, new) ==
  [chain EXCEPT !.holder = who, !.expiry = Never, !.issuer = who, !.typed = @ \/ new]
Charged(papers) ==
  {"CreateAsset"} \cup (IF Registered("me") THEN {} ELSE {"RegisterTicker"})
                  \cup (IF papers THEN {"AddDocuments"} ELSE {})

Accepted == Open("me")

DispatchReserve == call.op = "reserve" /\ Dispatches(Accepted, Registering("me"))
DispatchCreate  == call.op = "create" /\ Dispatches(Accepted, Creating("me", call.read.new))

OthersReserve == Open("other") /\ Happens(Registering("other"))
OthersCreate  == Open("other") /\ Happens(Creating("other", FALSE))
OthersType    == Happens([chain EXCEPT !.typed = TRUE])
(* The ticker is passed on, with the reservation as it stands.             *)
PassOn(who) ==
  /\ chain.issuer = Nobody /\ chain.holder # Nobody
  /\ Happens([chain EXCEPT !.holder = who])
Tick == chain.now < MaxTime /\ Happens([chain EXCEPT !.now = @ + 1])

Next ==
  \/ \E args \in Reserves : Reserve(args)
  \/ \E args \in Creates : CreateAsset(args)
  \/ ReadRole \/ ReadStatus \/ ReadStorage \/ ReadType
  \/ DispatchReserve \/ DispatchCreate
  \/ OthersReserve \/ OthersCreate \/ OthersType \/ Tick
  \/ \E who \in Parties : PassOn(who)

-----------------------------------------------------------------------------
(* Properties *)

(* What the status and the role let through is only reverted when          *)
(* something changed since the call began.                                 *)
RevertedOnlyIfStale == Built /\ Fresh => Accepted

(* Who is turned away could not have had the ticker, asked for what was    *)
(* his already, for the extension of a reservation that is not running, or *)
(* for an Asset on a reservation there is not.                             *)
TurnedAwayRightly ==
  TurnedAway /\ Fresh =>
    \/ ~Accepted
    \/ call.op = "reserve" /\ (call.args.extend # Registered("me"))
    \/ call.op = "create" /\ call.args.reserved /\ ~Registered("me")

(* An Asset is charged for as it was quoted, unless something changed; a   *)
(* custom type registered on the way hides the fee for the Asset when the  *)
(* ticker is reserved.                                                     *)
DoneAsAsked ==
  Built /\ Ends /\ Fresh /\ call.op = "create" =>
    \/ call.read.fee = Charged(call.args.papers)
    \/ call.read.new /\ Registered("me")
===============================================================================
