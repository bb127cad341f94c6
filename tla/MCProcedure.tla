---------------------------- MODULE MCProcedure ----------------------------
(* One call, as calls do not meet, and two operations on the context, one  *)
(* at a time; managers with two accounts, one and none.                    *)
EXTENDS Procedure, TLC

CONSTANTS m1, m2, m3, a1, a2, a3

MCManagers   == {m1, m2, m3}
MCAccountsOf == m1 :> <<a1, a2>> @@ m2 :> <<a3>> @@ m3 :> <<>>
MCOptions    == {NoAccount, a2}

MCNeeds == {[roles |-> "ask", signer |-> "ask", agent |-> "ask"],
            [roles |-> "met", signer |-> "met", agent |-> "none"],
            [roles |-> "unmet", signer |-> "met", agent |-> "met"],
            [roles |-> "met", signer |-> "ask", agent |-> "several"]}
=============================================================================
