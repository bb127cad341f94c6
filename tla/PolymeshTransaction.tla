------------------------- MODULE PolymeshTransaction -------------------------
(***************************************************************************)
(* One PolymeshTransactionBase object (PolymeshTransaction or              *)
(* PolymeshTransactionBatch) and the invocations of its run() method.      *)
(*                                                                         *)
(* run() is an async function: it is cut at every await, so each action    *)
(* below is one turn of the JavaScript event loop.  The node answers       *)
(* through a subscription (inbox[r], in order) and through getBlock        *)
(* requests (fetches, in any order).  The chain moves on its own.          *)
(***************************************************************************)
EXTENDS Naturals, Sequences

CONSTANTS
  Runs,      \* the invocations of run() on this object
  Blocks,    \* hashes of the blocks the extrinsic may be included in
  NoBlock,   \* "no block": blockHash is undefined
  Overlap,   \* may run() be called while an earlier call is still pending?
  IsBatch,   \* is the object a PolymeshTransactionBatch?
  Faults     \* what may go wrong in the environment of the SDK

ASSUME NoBlockAssumption == NoBlock \notin Blocks
ASSUME SwitchAssumption  == /\ Overlap \in BOOLEAN
                            /\ IsBatch \in BOOLEAN
ASSUME FaultsAssumption  ==
  Faults \subseteq {"fork",              \* a block is retracted
                    "finalityTimeout",   \* the node stops following finality
                    "drop",              \* the connection is lost while watching
                    "answerLost",        \* ... or before the submission is answered
                    "getBlock",          \* a getBlock request fails
                    "resolver",          \* the resolver or transformer throws
                    "listener"}          \* a status listener throws

VARIABLES
  status,    \* TransactionStatus of the object
  hasRun,    \* private hasRun flag
  error,     \* has this.error been set?
  receipt,   \* has this.receipt been set?
  block,     \* blockHash, blockNumber and txIndex, which are set together
  pc,        \* where each invocation of run() is suspended
  sub,       \* the closure of the signAndSend callback of each invocation
  fetches,   \* outstanding getBlock requests <<invocation, block>>
  inbox,     \* notifications of the node not yet delivered, oldest first
  ext,       \* the extrinsic each invocation submitted, as the chain sees it
  orphans    \* blocks that were retracted

object == <<status, hasRun, error, receipt, block>>
client == <<object, pc, sub, fetches>>
vars   == <<client, inbox, ext, orphans>>

-----------------------------------------------------------------------------
TransactionStatus == {"Idle", "Unapproved", "Running", "Rejected",
                      "Succeeded", "Failed", "Aborted"}
Terminal == {"Rejected", "Succeeded", "Failed", "Aborted"}

(* How the dispatch of the extrinsic ended, as its events tell: a batch    *)
(* whose part failed reports BatchInterrupted although the dispatch is ok. *)
Results  == {"ok", "failed", "interrupted"}
Dispatch == IF IsBatch THEN Results ELSE {"ok", "failed"}

Notification ==
  [kind : {"ready", "inBlock", "finalized", "error"},
   block : Blocks \cup {NoBlock}, result : Results \cup {"none"}]

(* Where an invocation of run() stands: before it, at one of its awaits,   *)
(* or settled; "refused" is a call that hasRun turned away.  Thrown: a      *)
(* status was set and announced, and a listener threw: the error is on its *)
(* way to the catch of run().                                              *)
Thrown == {"thrownUnapproved", "thrownRunning", "thrownSucceeded"}
Suspension == {"idle", "fees", "signing", "watching", "resolving",
               "fulfilled", "rejected", "refused"} \cup Thrown

(* The callback's closure: the block settingBlockData was last set for,    *)
(* what became of that request, the result finishing waits to report.      *)
Subscription == [state : {"closed", "pending", "open", "lost"},
                 block : Blocks \cup {NoBlock},
                 data : {"none", "pending", "ok", "failed"},
                 waiting : Results \cup {"none"}]

Extrinsic == [at : {"unsent", "pool", "block", "final", "gone"},
              block : Blocks \cup {NoBlock}, result : Results \cup {"none"}]

Unsent    == [at |-> "unsent", block |-> NoBlock, result |-> "none"]
Pooled    == [at |-> "pool", block |-> NoBlock, result |-> "none"]
Submitted(r) == ext[r].at # "unsent"
Applied(r)   == ext[r].at = "final" /\ ext[r].result = "ok"

NoSub == [state |-> "closed", block |-> NoBlock, data |-> "none", waiting |-> "none"]

Live(r)    == pc[r] \in {"fees", "signing", "watching", "resolving"} \cup Thrown
Settled(r) == pc[r] \in {"fulfilled", "rejected"}
Begun(r)   == Live(r) \/ Settled(r)

TypeOK ==
  /\ status \in TransactionStatus
  /\ hasRun \in BOOLEAN /\ error \in BOOLEAN /\ receipt \in BOOLEAN
  /\ block \in Blocks \cup {NoBlock}
  /\ pc \in [Runs -> Suspension]
  /\ sub \in [Runs -> Subscription]
  /\ fetches \subseteq Runs \X (Blocks \cup {NoBlock})
  /\ inbox \in [Runs -> Seq(Notification)]
  /\ ext \in [Runs -> Extrinsic]
  /\ orphans \subseteq Blocks

Init ==
  /\ status = "Idle" /\ hasRun = FALSE /\ error = FALSE /\ receipt = FALSE
  /\ block = NoBlock
  /\ pc = [r \in Runs |-> "idle"]
  /\ sub = [r \in Runs |-> NoSub]
  /\ fetches = {}
  /\ inbox = [r \in Runs |-> <<>>]
  /\ ext = [r \in Runs |-> Unsent]
  /\ orphans = {}

-----------------------------------------------------------------------------
(* run() *)

(* The catch and finally clauses of run(): the error is kept, its code     *)
(* decides the status s, and only now is the object marked as having run.  *)
Catch(r, s) ==
  /\ status' = s /\ error' = TRUE /\ hasRun' = TRUE
  /\ pc' = [pc EXCEPT ![r] = "rejected"]
  /\ UNCHANGED <<receipt, block>>

(* updateStatus() sets the status before it calls the listeners.           *)
UpdateStatus(r, s, next) ==
  /\ status' = s
  /\ pc' = [pc EXCEPT ![r] = next]
  /\ UNCHANGED <<error, receipt, block>>

(* The error of a listener is the user's, so its code can be any: at       *)
(* Running it goes through gettingUnsub's catch, where only 'Cancelled' in *)
(* its message counts.                                                     *)
ListenerThrew(r) ==
  /\ \/ pc[r] \in {"thrownUnapproved", "thrownSucceeded"}
        /\ \E s \in {"Failed", "Rejected", "Aborted"} : Catch(r, s)
     \/ pc[r] = "thrownRunning" /\ \E s \in {"Failed", "Rejected"} : Catch(r, s)
  /\ UNCHANGED <<sub, fetches, inbox, ext, orphans>>

(* The guard of run().  Mutant: only a success is remembered.              *)
AlreadyRun_OnlySuccess == hasRun /\ status = "Succeeded"
AlreadyRun == hasRun

Call(r) ==
  /\ pc[r] = "idle"
  /\ Overlap \/ \A q \in Runs : ~Live(q)
  /\ pc' = [pc EXCEPT ![r] = IF AlreadyRun THEN "refused" ELSE "fees"]
  /\ UNCHANGED <<object, sub, fetches, inbox, ext, orphans>>

FeesCovered(r) ==
  /\ pc[r] = "fees"
  /\ \/ UpdateStatus(r, "Unapproved", "signing")
     \/ "listener" \in Faults /\ UpdateStatus(r, "Unapproved", "thrownUnapproved")
  /\ UNCHANGED <<hasRun, sub, fetches, inbox, ext, orphans>>

FeesNotCovered(r) ==
  /\ pc[r] = "fees"
  /\ Catch(r, "Failed")
  /\ UNCHANGED <<sub, fetches, inbox, ext, orphans>>

-----------------------------------------------------------------------------
(* internalRun(): signing and submission *)

(* Mutant: any error of signAndSend counts as the signer's refusal.        *)
AwaitingSignature_AnyError(r) == pc[r] = "signing"
AwaitingSignature(r) == pc[r] = "signing" /\ sub[r].state = "closed"

SignerApproves(r) ==
  /\ AwaitingSignature(r)
  /\ ext' = [ext EXCEPT ![r] = Pooled]
  /\ sub' = [sub EXCEPT ![r].state = "pending"]
  /\ inbox' = [inbox EXCEPT ![r] = <<[kind |-> "ready", block |-> NoBlock, result |-> "none"]>>]
  /\ UNCHANGED <<object, pc, fetches, orphans>>

SignerCancels(r) ==
  /\ AwaitingSignature(r)
  /\ Catch(r, "Rejected")
  /\ UNCHANGED <<sub, fetches, inbox, ext, orphans>>

NodeRefuses(r) ==
  /\ AwaitingSignature(r)
  /\ Catch(r, "Failed")
  /\ UNCHANGED <<sub, fetches, inbox, ext, orphans>>

(* The node took the extrinsic, its answer never came: UnexpectedError.    *)
AnswerLost(r) ==
  /\ "answerLost" \in Faults
  /\ pc[r] = "signing" /\ sub[r].state = "pending"
  /\ Catch(r, "Failed")
  /\ sub' = [sub EXCEPT ![r].state = "closed"]
  /\ inbox' = [inbox EXCEPT ![r] = <<>>]
  /\ UNCHANGED <<fetches, ext, orphans>>

-----------------------------------------------------------------------------
(* internalRun(): the signAndSend callback *)

Delivers(r, kind) == inbox[r] # <<>> /\ Head(inbox[r]).kind = kind

(* gettingUnsub resolves: txHash is set and the transaction is Running.    *)
(* A throwing listener is caught by gettingUnsub's own catch: run()        *)
(* rejects, the subscription stays open.                                   *)
OnReady(r) ==
  /\ Delivers(r, "ready")
  /\ inbox' = [inbox EXCEPT ![r] = Tail(@)]
  /\ sub' = [sub EXCEPT ![r].state = "open"]
  /\ \/ UpdateStatus(r, "Running", "watching")
     \/ "listener" \in Faults /\ UpdateStatus(r, "Running", "thrownRunning")
  /\ UNCHANGED <<hasRun, fetches, ext, orphans>>

(* Promise.all over settingBlockData.  Mutants: it is not awaited; its     *)
(* failure is not passed on (no finishing.catch).                          *)
BlockDataPending_NotAwaited(data) == FALSE
BlockDataPending_NoCatch(data) == data \in {"pending", "failed"}
BlockDataPending(data) == data = "pending"

(* handleExtrinsicSuccess.  Mutant: BatchInterrupted is not looked at.     *)
DispatchedOk_NoBatchCheck(result) == result # "failed"
DispatchedOk(result) == result = "ok"

(* The finishing promise: once the latest block data request is answered   *)
(* (data), the receipt being waited for decides (waiting).  A run() that   *)
(* is already settled ignores it.                                          *)
Finish(r, waiting, data) ==
  IF pc[r] # "watching" \/ waiting = "none" \/ BlockDataPending(data)
    THEN UNCHANGED <<status, hasRun, error, receipt, pc>>
  ELSE IF data = "failed" \/ ~DispatchedOk(waiting)
    THEN /\ status' = "Failed" /\ error' = TRUE /\ hasRun' = TRUE
         /\ pc' = [pc EXCEPT ![r] = "rejected"]
         /\ UNCHANGED receipt
  ELSE /\ receipt' = TRUE
       /\ pc' = [pc EXCEPT ![r] = "resolving"]
       /\ UNCHANGED <<status, hasRun, error>>

(* What a receipt in a block lets run() wait for: only a failed dispatch   *)
(* ends there.  Mutant: any receipt does, before finality.                 *)
InBlockResult_NotFinal(result) == result
InBlockResult(result) == IF result = "failed" THEN "failed" ELSE "none"

(* A new getBlock request replaces settingBlockData; ExtrinsicFailed in    *)
(* the receipt is the last callback already in the (unfinalized) block.    *)
OnInBlock(r) ==
  /\ Delivers(r, "inBlock")
  /\ LET n == Head(inbox[r])
         last == InBlockResult(n.result) # "none"
     IN  /\ fetches' = fetches \cup {<<r, n.block>>}
         /\ sub' = [sub EXCEPT ![r] = [state |-> IF last THEN "closed" ELSE "open",
                                       block |-> n.block, data |-> "pending",
                                       waiting |-> InBlockResult(n.result)]]
         /\ inbox' = [inbox EXCEPT ![r] = IF last THEN <<>> ELSE Tail(@)]
         /\ Finish(r, InBlockResult(n.result), "pending")
  /\ UNCHANGED <<block, ext, orphans>>

(* Mutant: the wrong field of the notification is kept.                    *)
FinalResult_Kind(r) == Head(inbox[r]).kind
FinalResult(r) == Head(inbox[r]).result

OnFinalized(r) ==
  /\ Delivers(r, "finalized")
  /\ sub' = [sub EXCEPT ![r].state = "closed", ![r].waiting = FinalResult(r)]
  /\ inbox' = [inbox EXCEPT ![r] = <<>>]
  /\ Finish(r, FinalResult(r), sub[r].data)
  /\ UNCHANGED <<block, fetches, ext, orphans>>

(* isError: Dropped, Usurped, Invalid or FinalityTimeout.                  *)
(* Mutant: the error is logged, the promise is left pending.               *)
RejectAborted_Ignored(r) == UNCHANGED <<object, pc>>
RejectAborted(r) ==
  IF pc[r] = "watching" THEN Catch(r, "Aborted") ELSE UNCHANGED <<object, pc>>

OnError(r) ==
  /\ Delivers(r, "error")
  /\ sub' = [sub EXCEPT ![r].state = "closed"]
  /\ inbox' = [inbox EXCEPT ![r] = <<>>]
  /\ RejectAborted(r)
  /\ UNCHANGED <<fetches, ext, orphans>>

(* Every answer sets the block data; only the latest request is awaited.   *)
BlockFetched(r, b) ==
  /\ <<r, b>> \in fetches
  /\ fetches' = fetches \ {<<r, b>>}
  /\ block' = b
  /\ IF b = sub[r].block
       THEN /\ sub' = [sub EXCEPT ![r].data = "ok"]
            /\ Finish(r, sub[r].waiting, "ok")
       ELSE UNCHANGED <<status, hasRun, error, receipt, pc, sub>>
  /\ UNCHANGED <<inbox, ext, orphans>>

BlockFetchFails(r, b) ==
  /\ "getBlock" \in Faults
  /\ <<r, b>> \in fetches
  /\ fetches' = fetches \ {<<r, b>>}
  /\ IF b = sub[r].block
       THEN /\ sub' = [sub EXCEPT ![r].data = "failed"]
            /\ Finish(r, sub[r].waiting, "failed")
       ELSE UNCHANGED <<status, hasRun, error, receipt, pc, sub>>
  /\ UNCHANGED <<block, inbox, ext, orphans>>

-----------------------------------------------------------------------------
(* run(): resolver, transformer, Succeeded *)

Succeed(r) ==
  /\ pc[r] = "resolving"
  /\ \/ UpdateStatus(r, "Succeeded", "fulfilled") /\ hasRun' = TRUE
     \/ /\ "listener" \in Faults
        /\ UpdateStatus(r, "Succeeded", "thrownSucceeded") /\ UNCHANGED hasRun
     \/ "resolver" \in Faults /\ Catch(r, "Failed")
  /\ UNCHANGED <<sub, fetches, inbox, ext, orphans>>

-----------------------------------------------------------------------------
(* The node and the chain (external to the SDK) *)

Watched(r) == sub[r].state \in {"pending", "open"}

Notify(R, kind) ==
  inbox' = [r \in Runs |->
              IF r \in R /\ Watched(r)
                THEN Append(inbox[r], [kind |-> kind, block |-> ext'[r].block,
                                       result |-> ext'[r].result])
                ELSE inbox[r]]

In(b) == {r \in Runs : ext[r].at = "block" /\ ext[r].block = b}

Include(r) ==
  /\ ext[r].at = "pool"
  /\ \E b \in Blocks \ orphans, d \in Dispatch :
       ext' = [ext EXCEPT ![r] = [at |-> "block", block |-> b, result |-> d]]
  /\ Notify({r}, "inBlock")
  /\ UNCHANGED <<client, orphans>>

Finalize(b) ==
  /\ In(b) # {}
  /\ ext' = [r \in Runs |-> IF r \in In(b) THEN [ext[r] EXCEPT !.at = "final"] ELSE ext[r]]
  /\ Notify(In(b), "finalized")
  /\ UNCHANGED <<client, orphans>>

(* Retracted is not a completed status: the callback ignores it.           *)
Retract(b) ==
  /\ "fork" \in Faults
  /\ In(b) # {} /\ Blocks \ orphans # {b}
  /\ \A r \in Runs : ext[r].at = "final" => ext[r].block # b
  /\ ext' = [r \in Runs |-> IF r \in In(b) THEN Pooled ELSE ext[r]]
  /\ orphans' = orphans \cup {b}
  /\ UNCHANGED <<client, inbox>>

LeavePool(r) ==
  /\ ext[r].at = "pool"
  /\ ext' = [ext EXCEPT ![r].at = "gone"]
  /\ Notify({r}, "error")
  /\ UNCHANGED <<client, orphans>>

FinalityTimeout(r) ==
  /\ "finalityTimeout" \in Faults
  /\ ext[r].at = "block" /\ Watched(r)
  /\ \A i \in DOMAIN inbox[r] : inbox[r][i].kind # "error"
  /\ UNCHANGED ext
  /\ Notify({r}, "error")
  /\ UNCHANGED <<client, orphans>>

(* A transaction subscription is not renewed after a reconnection.         *)
LoseConnection(r) ==
  /\ "drop" \in Faults
  /\ sub[r].state = "open"
  /\ sub' = [sub EXCEPT ![r].state = "lost"]
  /\ inbox' = [inbox EXCEPT ![r] = <<>>]
  /\ UNCHANGED <<object, pc, fetches, ext, orphans>>

-----------------------------------------------------------------------------
Callback(r) == OnReady(r) \/ OnInBlock(r) \/ OnFinalized(r) \/ OnError(r)

Answer(r) == \E b \in Blocks : BlockFetched(r, b) \/ BlockFetchFails(r, b)

Next ==
  \/ \E r \in Runs :
       \/ Call(r) \/ FeesCovered(r) \/ FeesNotCovered(r)
       \/ SignerApproves(r) \/ SignerCancels(r) \/ NodeRefuses(r) \/ AnswerLost(r)
       \/ Callback(r) \/ Answer(r) \/ Succeed(r) \/ ListenerThrew(r)
       \/ Include(r) \/ LeavePool(r) \/ FinalityTimeout(r) \/ LoseConnection(r)
  \/ \E b \in Blocks : Finalize(b) \/ Retract(b)

Spec == Init /\ [][Next]_vars

(* The node answers what it was asked and delivers what it has, the event  *)
(* loop runs what is ready, a pooled extrinsic is included or thrown out   *)
(* (it is mortal unless the caller asks otherwise), a block is finalized   *)
(* or retracted.  Nothing makes a user call run() or a signer sign.        *)
Fairness ==
  /\ \A r \in Runs : /\ WF_vars(FeesCovered(r) \/ FeesNotCovered(r))
                     /\ WF_vars(Callback(r))
                     /\ \A b \in Blocks : WF_vars(BlockFetched(r, b) \/ BlockFetchFails(r, b))
                     /\ WF_vars(Succeed(r)) /\ WF_vars(ListenerThrew(r))
                     /\ WF_vars(Include(r) \/ LeavePool(r))
  /\ \A b \in Blocks : WF_vars(Finalize(b))

FairSpec == Spec /\ Fairness

-----------------------------------------------------------------------------
(* Properties *)

(* run() only resolves, and a success is only announced, for an extrinsic  *)
(* that is in a finalized block and took effect there, batch parts         *)
(* included (handleExtrinsicSuccess).                                      *)
SuccessIsFinal ==
  \A r \in Runs : pc[r] \in {"fulfilled", "thrownSucceeded"} => Applied(r)

(* The object never sends its extrinsic twice: hasRun prevents re-running  *)
(* (PolymeshTransactionBase.ts, the comment on hasRun).                    *)
AtMostOneSubmission ==
  \A q, r \in Runs : Submitted(q) /\ Submitted(r) => q = r

(* What the object's fields say agrees with its status: on success there   *)
(* is a receipt, block data and no error, on failure there is an error;    *)
(* and blockHash is the hash of the block where the transaction resides,   *)
(* as long as no block is retracted: then a late answer may be the last.   *)
ReportIsTrue ==
  /\ error <=> status \in {"Rejected", "Aborted", "Failed"}
  /\ status = "Succeeded" =>
       /\ receipt /\ ~error /\ block # NoBlock
       /\ orphans = {} => \A r \in Runs : Applied(r) => ext[r].block = block

(* An extrinsic that was handed to the node is eventually reported on,     *)
(* unless the subscription to it is lost: run() then hangs.                *)
SubmittedSettles == \A r \in Runs : Submitted(r) ~> Settled(r) \/ sub[r].state = "lost"

(* The object implements the lifecycle its documentation describes, with   *)
(* what a listener that throws does to it.                                 *)
ChainView ==
  IF \A r \in Runs : ~Submitted(r) THEN "none"
  ELSE IF \E r \in Runs : Applied(r) THEN "applied"
  ELSE IF \E r \in Runs : ext[r].at \in {"pool", "block"} THEN "sent"
  ELSE "void"

ErrorOnItsWay == \E r \in Runs : pc[r] \in Thrown

Lifecycle == INSTANCE TransactionLifecycle WITH chain <- ChainView, thrown <- ErrorOnItsWay

ImplementsLifecycle == Lifecycle!Spec
=============================================================================
