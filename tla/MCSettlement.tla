---------------------------- MODULE MCSettlement ----------------------------
(* The owner of the venue, a counterparty with a numbered portfolio, and a *)
(* third identity; batches of one and two instructions, and invalid ones.  *)
EXTENDS Settlement, TLC

CONSTANTS alice, bob, carol, pa, pb, pn, pc

MCOwnerOf == pa :> alice @@ pb :> bob @@ pn :> bob @@ pc :> carol

Move(p, q) == [from |-> p, to |-> q]
Ask(legs, type, end) == [legs |-> legs, type |-> type, end |-> end, flaw |-> "none"]

OneLeg == Ask(<<Move(pb, pa)>>, "affirmation", 0)
Swap   == Ask(<<Move(pa, pb), Move(pb, pa)>>, "block", 3)
Manual == Ask(<<Move(pa, pn)>>, "manual", 2)
Sent   == Ask(<<Move(pn, pa)>>, "affirmation", 0)
Pair   == <<Ask(<<Move(pb, pa)>>, "manual", 3), Ask(<<Move(pc, pb)>>, "manual", 3)>>

MCRequests == {<<OneLeg>>, <<Swap>>, <<Manual>>, <<Sent>>, Pair, <<>>,
               <<Ask(<<>>, "affirmation", 0)>>, <<Ask(<<Move(pb, pn)>>, "affirmation", 0)>>,
               <<[OneLeg EXCEPT !.flaw = "amount"]>>}

MCSelections == {{}, {pa}, {pb}, {pb, pn}}
=============================================================================
