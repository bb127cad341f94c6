-------------------------------- MODULE Metadata -------------------------------
(***************************************************************************)
(* Registering a name for a metadata entry of an Asset, and setting the    *)
(* entry's value or its details, while others register and set the same    *)
(* entry and time runs towards the end of its lock.                        *)
(***************************************************************************)
EXTENDS FollowedCall, Integers

CONSTANTS
  Locks,      \* locks asked for: 0 for none, a time, or Always
  MaxTime     \* bound on the clock

Always    == MaxTime + 1
NotGiven  == MaxTime + 2

(* global and local: is the name registered for every Asset, for this one? *)
(* value: has its entry one?  lock: until when it is locked.               *)
Chains == [now : 1 .. MaxTime, global : BOOLEAN, local : BOOLEAN, value : BOOLEAN,
           lock : Locks]
Sets   == [value : BOOLEAN, lock : Locks \cup {NotGiven}]

TypeOK ==
  /\ chain \in Chains
  /\ chain.value => chain.local
  /\ call.op \in {"none", "register", "set"} /\ call.left \subseteq {"names", "value"}

Init ==
  /\ chain = [now |-> 1, global |-> FALSE, local |-> FALSE, value |-> FALSE, lock |-> 0]
  /\ call = Idle

-----------------------------------------------------------------------------
(* Details are passed to register only with a value.                       *)
Register(args) ==
  (args.lock # NotGiven => args.value) /\ Calls("register", args, {"names"})
(* An entry to set is one that was found; details or a value are passed.   *)
SetEntry(args) ==
  /\ chain.local /\ (args.value \/ args.lock # NotGiven)
  /\ Calls("set", args, {"value"})

(* Mutant: only the names of the Asset itself are looked for.              *)
Taken_Local == chain.local
Taken == chain.global \/ chain.local
ReadNames == Answers("register", "names") /\ Check("names", ~Taken)

(* Mutant: a lock that ends some time is none.                             *)
Locked_Always == chain.value /\ chain.lock = Always
Locked == chain.value /\ (chain.lock = Always \/ chain.now < chain.lock)
ReadValue ==
  /\ Answers("set", "value")
  /\ Check("value", ~Locked /\ (call.args.value \/ chain.value))

-----------------------------------------------------------------------------
(* The asset pallet (external to the SDK) *)

Held == chain.lock > chain.now

(* A lock that holds is not put on an entry without a value.               *)
AcceptsSet(args) ==
  /\ chain.local /\ ~Held
  /\ args.lock \in {0, NotGiven} \/ args.value \/ chain.value

Accepted ==
  CASE call.op = "register" -> ~chain.local /\ ~chain.global
    [] call.op = "set"      -> AcceptsSet(call.args)

Written(args) ==
  [chain EXCEPT !.local = TRUE, !.value = @ \/ args.value,
                !.lock = IF args.lock = NotGiven THEN @ ELSE args.lock]

DispatchRegister == call.op = "register" /\ Dispatches(Accepted, Written(call.args))
DispatchSet      == call.op = "set" /\ Dispatches(Accepted, Written(call.args))

OthersRegister ==
  \/ ~chain.local /\ Happens([chain EXCEPT !.local = TRUE])
  \/ Happens([chain EXCEPT !.global = TRUE])
OthersSet(args) == AcceptsSet(args) /\ Happens(Written(args))
Tick == chain.now < MaxTime /\ Happens([chain EXCEPT !.now = @ + 1])

Next ==
  \/ \E args \in Sets : Register(args) \/ SetEntry(args) \/ OthersSet(args)
  \/ ReadNames \/ ReadValue \/ DispatchRegister \/ DispatchSet
  \/ OthersRegister \/ Tick

-----------------------------------------------------------------------------
(* Properties *)

(* Only a change in between has a call reverted.                           *)
RevertedOnlyIfStale == Built /\ Fresh => Accepted

(* Who is turned away would have been reverted, or asked for details of a  *)
(* value there is not.                                                     *)
TurnedAwayRightly ==
  TurnedAway /\ Fresh => ~Accepted \/ (call.op = "set" /\ ~call.args.value /\ ~chain.value)
===============================================================================
