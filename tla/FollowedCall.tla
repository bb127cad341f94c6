----------------------------- MODULE FollowedCall ------------------------------
(***************************************************************************)
(* The frame of the modules that follow one call of a procedure: what is   *)
(* on chain, the call, and the reads it has still to make.  Reads started  *)
(* together (the authorization and the preparation, or a Promise.all) are  *)
(* outstanding together and answered in any order; any of them may refuse  *)
(* the call.  A call without reads left is built: its transaction is       *)
(* dispatched next, and accepted or reverted by the chain.                 *)
(***************************************************************************)

VARIABLES
  chain,    \* what of the chain the component reads and changes, a record
  call      \* the call that is followed

(* op: its procedure; args: what it was passed; read: what it has read;    *)
(* left: the reads outstanding; stale (history): has the chain changed     *)
(* since it began?                                                         *)
NoArgs == [none |-> TRUE]
Idle   == [op |-> "none", args |-> NoArgs, read |-> NoArgs, left |-> {}, stale |-> FALSE]

Calls(op, args, reads) ==
  /\ call.op = "none"
  /\ call' = [Idle EXCEPT !.op = op, !.args = args, !.left = reads]
  /\ UNCHANGED chain

Answers(op, r) == call.op = op /\ r \in call.left

Refuse == call' = Idle /\ UNCHANGED chain

(* An answer is kept, and more reads may follow it.                        *)
Keep(r, found, more) ==
  /\ call' = [call EXCEPT !.read = found, !.left = (@ \ {r}) \cup more]
  /\ UNCHANGED chain

Check(r, test) == IF test THEN Keep(r, call.read, {}) ELSE Refuse

Built == call.op # "none" /\ call.left = {}

Dispatches(accepted, after) ==
  Built /\ call' = Idle /\ chain' = IF accepted THEN after ELSE chain

(* Anything else that happens on chain makes a call under way stale.       *)
Happens(after) ==
  /\ chain' = after /\ after # chain
  /\ call' = IF call.op = "none" THEN call ELSE [call EXCEPT !.stale = TRUE]

Ends  == call.op # "none" /\ call'.op = "none"
Fresh == ~call.stale

(* A call is turned away before its transaction is built.                  *)
TurnedAway == Ends /\ ~Built
===============================================================================
