------------------------------ MODULE Checkpoints ------------------------------
(***************************************************************************)
(* Checkpoints of an Asset and the schedules that make them: creating and  *)
(* removing a schedule, and the last date an entity of a schedule works    *)
(* out, while the points fall due, the schedule runs out and corporate     *)
(* actions come to refer to it.                                            *)
(***************************************************************************)
EXTENDS FollowedCall, Integers

CONSTANTS
  MaxTime,       \* bound on the clock
  MaxPoints,     \* bound on the checkpoints
  Starts,        \* dates a schedule may start at
  Periods,       \* its periods; 0: none
  Repetitions,   \* how often it repeats; 0: for ever
  Schedules,     \* ids of schedules
  NoDate         \* a start that is left out, an end there is not

Dates == 1 .. MaxTime + 2

(* As it is stored.  asked (history): the repetitions it was created with; *)
(* refs: how many corporate actions refer to it.                           *)
Stored == [id : Schedules, start : Dates, period : Periods, remaining : Repetitions,
           at : Int, refs : 0 .. 1, asked : Repetitions]
Chains == [now : 1 .. MaxTime, points : 0 .. MaxPoints, last : Schedules \cup {0}, stored : SUBSET Stored]

Specs == [start : Starts \cup {NoDate}, period : Periods, repetitions : Repetitions]

TypeOK ==
  /\ chain.now \in 1 .. MaxTime /\ chain.points \in 0 .. MaxPoints
  /\ \A s \in chain.stored : s.id <= chain.last /\ s.refs \in 0 .. 1 /\ s.remaining \in 0 .. s.asked
  /\ \A s, t \in chain.stored : s.id = t.id => s = t
  /\ call.op \in {"none", "checkpoint", "create", "remove"}
  /\ call.left \subseteq {"clock", "schedules", "references"}

Init == chain = [now |-> 1, points |-> 0, last |-> 0, stored |-> {}] /\ call = Idle

-----------------------------------------------------------------------------
(* The date of the last checkpoint, worked out by an entity of a schedule  *)
(* from the checkpoints that remain and the date of the next.  Mutant: one *)
(* period too late.                                                        *)
ExpiryDate_Remaining(s) ==
  IF s.period = 0 THEN s.start
  ELSE IF s.remaining = 0 THEN NoDate
  ELSE s.at + s.period * s.remaining
ExpiryDate(s) ==
  IF s.period = 0 THEN s.start
  ELSE IF s.remaining = 0 THEN NoDate
  ELSE s.at + s.period * (s.remaining - 1)

CreateCheckpoint == Calls("checkpoint", NoArgs, {})

(* A start that is passed must not have passed.  Mutant: the start is not  *)
(* looked at.                                                              *)
InTime_Any(start) == TRUE
InTime(start) == start # NoDate => start >= chain.now
CreateSchedule(args) == Calls("create", args, {"clock"})
ReadClock == Answers("create", "clock") /\ Check("clock", InTime(call.args.start))

RemoveSchedule(id) == Calls("remove", [id |-> id], {"schedules"})

Found(id) == {s \in chain.stored : s.id = id}
ReadSchedules ==
  /\ Answers("remove", "schedules")
  /\ IF Found(call.args.id) = {} THEN Refuse ELSE Keep("schedules", NoArgs, {"references"})

(* The references to an id, none when it is gone.  Mutant: a schedule that *)
(* is referred to may go.                                                  *)
Unused_Always(id) == TRUE
Unused(id) == \A s \in Found(id) : s.refs = 0
ReadReferences == Answers("remove", "references") /\ Check("references", Unused(call.args.id))

-----------------------------------------------------------------------------
(* The checkpoint pallet (external to the SDK) *)

Accepted ==
  CASE call.op = "create" -> ~(call.args.start < chain.now)
    [] call.op = "remove" -> \E s \in chain.stored : s.id = call.args.id /\ s.refs = 0
    [] OTHER -> TRUE

(* The next date of a schedule; the last point of one that does not go on  *)
(* ends it.                                                                *)
GoesOn(s) == s.period # 0 /\ s.remaining # 1
Later(s)  == [s EXCEPT !.at = @ + s.period, !.remaining = IF @ = 0 THEN 0 ELSE @ - 1]

Scheduled(args) ==
  LET start == IF args.start = NoDate THEN chain.now ELSE args.start
  IN [id |-> chain.last + 1, start |-> start, period |-> args.period, refs |-> 0, at |-> start,
      remaining |-> args.repetitions, asked |-> args.repetitions]

DispatchCheckpoint ==
  /\ call.op = "checkpoint" /\ chain.points < MaxPoints
  /\ Dispatches(Accepted, [chain EXCEPT !.points = @ + 1])
DispatchCreate ==
  /\ call.op = "create" /\ chain.last + 1 \in Schedules
  /\ Dispatches(Accepted, [chain EXCEPT !.stored = @ \cup {Scheduled(call.args)}, !.last = @ + 1])
DispatchRemove ==
  /\ call.op = "remove"
  /\ Dispatches(Accepted, [chain EXCEPT !.stored = @ \ Found(call.args.id)])

(* The next point of a schedule is made when it is due, or later, with the *)
(* next transfer.                                                          *)
MakePoint(s) ==
  /\ s.at <= chain.now /\ chain.points < MaxPoints
  /\ Happens([chain EXCEPT !.points = @ + 1,
                           !.stored = (@ \ {s}) \cup IF GoesOn(s) THEN {Later(s)} ELSE {}])
Refer(s)       == Happens([chain EXCEPT !.stored = (@ \ {s}) \cup {[s EXCEPT !.refs = 1 - @]}])
OthersRemove(s) == s.refs = 0 /\ Happens([chain EXCEPT !.stored = @ \ {s}])
Tick == chain.now < MaxTime /\ Happens([chain EXCEPT !.now = @ + 1])

Next ==
  \/ CreateCheckpoint
  \/ \E args \in Specs : CreateSchedule(args)
  \/ \E id \in Schedules : RemoveSchedule(id)
  \/ ReadClock \/ ReadSchedules \/ ReadReferences
  \/ DispatchCheckpoint \/ DispatchCreate \/ DispatchRemove
  \/ \E s \in chain.stored : MakePoint(s) \/ Refer(s) \/ OthersRemove(s)
  \/ Tick

-----------------------------------------------------------------------------
(* Properties *)

(* Whenever an entity of a schedule is made, the last date it works out is *)
(* that of the last of the checkpoints it was created for, however many    *)
(* were made.                                                              *)
ExpiryIsLast ==
  \A s \in chain.stored :
    ExpiryDate(s) = IF s.period = 0 THEN s.start
                    ELSE IF s.asked = 0 THEN NoDate
                    ELSE s.start + s.period * (s.asked - 1)

(* What was checked is only reverted when something changed: the schedule  *)
(* ran out or came to be referred to, or its start has passed.             *)
RevertedOnlyIfStale == Built /\ Fresh => Accepted

(* Who is turned away could not have been served.                          *)
TurnedAwayRightly == TurnedAway /\ Fresh => ~Accepted
===============================================================================
