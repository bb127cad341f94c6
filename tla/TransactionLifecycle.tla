------------------------ MODULE TransactionLifecycle ------------------------
(***************************************************************************)
(* What a transaction object promises to its user: the status it shows     *)
(* (TransactionStatus, types/index.ts) against the fate of the extrinsic   *)
(* on the chain.  A success is never announced for an extrinsic that did   *)
(* not take effect, a rejection never for one that left the signer, and    *)
(* an ending status is never taken back: but for a listener that throws    *)
(* while it is told of a new status (thrown).  Its error ends the          *)
(* transaction, Rejected too, however far the extrinsic is, and even after *)
(* Succeeded was announced.  A failure promises nothing: the extrinsic may *)
(* or may not have taken effect.                                           *)
(***************************************************************************)
VARIABLES status, chain, thrown

vars == <<status, chain, thrown>>

Init == status = "Idle" /\ chain = "none" /\ thrown = FALSE

Ending == {"Rejected", "Succeeded", "Failed", "Aborted"}

(* A status the listeners are told of, any of which may throw.             *)
Announce(s) == ~thrown /\ status' = s /\ thrown' \in BOOLEAN /\ UNCHANGED chain

(* The status of a run() that rejects.                                     *)
End(s)      == ~thrown /\ status' = s /\ UNCHANGED <<chain, thrown>>

Request   == status = "Idle" /\ Announce("Unapproved")
Decline   == status = "Unapproved" /\ chain = "none" /\ End("Rejected")
Submit    == /\ status = "Unapproved" /\ chain = "none" /\ ~thrown
             /\ chain' = "sent" /\ UNCHANGED <<status, thrown>>
Broadcast == status = "Unapproved" /\ chain # "none" /\ Announce("Running")
Settle    == chain = "sent" /\ chain' \in {"applied", "void"} /\ UNCHANGED <<status, thrown>>
Succeed   == status = "Running" /\ chain = "applied" /\ Announce("Succeeded")
Abort     == status = "Running" /\ End("Aborted")
Fail      == status \notin Ending /\ End("Failed")
Throw     == /\ thrown /\ thrown' = FALSE
             /\ status' \in {"Failed", "Rejected", "Aborted"} /\ UNCHANGED chain

Next == \/ Request \/ Decline \/ Submit \/ Broadcast \/ Settle
        \/ Succeed \/ Abort \/ Fail \/ Throw

Spec == Init /\ [][Next]_vars
=============================================================================
