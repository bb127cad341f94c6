--------------------------- MODULE CheckpointBalances --------------------------
(***************************************************************************)
(* What an Identity held at a checkpoint.  The chain stores a balance only *)
(* when it changes after a checkpoint; until then it is the current one.   *)
(* Several reads make up the answer, and others transfer between them.     *)
(***************************************************************************)
EXTENDS FollowedCall, Integers, FiniteSetsExt, Sequences

CONSTANTS
  Amounts,     \* balances of the Identity
  MaxPoints    \* bound on the checkpoints

None == 0

(* held: the current balance; updates: the checkpoints a balance is stored *)
(* for; was (history): the balance at each checkpoint.                     *)
TypeOK ==
  /\ chain.held \in Amounts /\ chain.points \in 0 .. MaxPoints
  /\ DOMAIN chain.updates \subseteq 1 .. chain.points
  /\ \A p \in DOMAIN chain.updates : chain.updates[p] = chain.was[p]
  /\ call.op \in {"none", "balance", "all"} /\ call.left \subseteq {"current", "updates", "stored"}

Init ==
  /\ \E held \in Amounts : chain = [held |-> held, points |-> 0, updates |-> <<>>, was |-> <<>>]
  /\ call = Idle

-----------------------------------------------------------------------------
Points == 1 .. chain.points
Balance(point)     == Calls("balance", [point |-> point], {"updates"})
AllBalances(point) == Calls("all", [point |-> point], {"current"})

(* The first update at the checkpoint or after it.  Mutant: after it.      *)
FirstUpdate_After(point) ==
  LET later == {p \in DOMAIN chain.updates : p > point} IN IF later = {} THEN None ELSE Min(later)
FirstUpdate(point) ==
  LET later == {p \in DOMAIN chain.updates : p >= point} IN IF later = {} THEN None ELSE Min(later)

(* balance asks for the updates first, and for the current balance when    *)
(* there are none.                                                         *)
ReadUpdates ==
  /\ Answers("balance", "updates")
  /\ LET first == FirstUpdate(call.args.point)
     IN Keep("updates", [first |-> first, reply |-> 0], IF first = None THEN {"current"} ELSE {"stored"})
ReadCurrent ==
  Answers("balance", "current") /\ Keep("current", [call.read EXCEPT !.reply = chain.held], {})

(* allBalances has the current balances before it asks for the updates.    *)
ReadPage ==
  Answers("all", "current") /\ Keep("current", [current |-> chain.held], {"updates"})
ReadPageUpdates ==
  /\ Answers("all", "updates")
  /\ LET first == FirstUpdate(call.args.point)
     IN Keep("updates", [first |-> first, reply |-> call.read.current],
             IF first = None THEN {} ELSE {"stored"})

ReadStored ==
  /\ call.op # "none" /\ "stored" \in call.left
  /\ Keep("stored", [call.read EXCEPT !.reply = chain.updates[call.read.first]], {})

Return == Built /\ call' = Idle /\ UNCHANGED chain

-----------------------------------------------------------------------------
(* The checkpoint pallet (external to the SDK) *)

MakePoint ==
  /\ chain.points < MaxPoints
  /\ Happens([chain EXCEPT !.points = @ + 1, !.was = Append(@, chain.held)])

(* The balance before the transfer is that of the last checkpoint.         *)
Transfer(amount) ==
  Happens([chain EXCEPT !.held = amount,
                        !.updates = IF chain.points = 0 \/ chain.points \in DOMAIN @ THEN @
                                    ELSE [p \in DOMAIN @ \cup {chain.points} |->
                                            IF p = chain.points THEN chain.held ELSE @[p]]])

Next ==
  \/ \E point \in Points : Balance(point) \/ AllBalances(point)
  \/ ReadUpdates \/ ReadCurrent \/ ReadPage \/ ReadPageUpdates \/ ReadStored \/ Return
  \/ MakePoint
  \/ \E amount \in Amounts : Transfer(amount)

-----------------------------------------------------------------------------
(* Properties *)

(* An answer is the balance at the checkpoint, whatever is transferred and *)
(* however many checkpoints are made meanwhile.  But balance, which finds  *)
(* no update and only then asks for the current balance, may be given that *)
(* of after a transfer.                                                    *)
AnswerIsTrue ==
  Built => \/ call.read.reply = chain.was[call.args.point]
           \/ /\ call.op = "balance" /\ call.read.first = None
              /\ \E p \in DOMAIN chain.updates : p >= call.args.point
===============================================================================
