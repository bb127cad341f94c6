--------------------- MODULE PolymeshTransaction_proofs ---------------------
(* Theorems about the transaction object: about run(), for every set of    *)
(* invocations, every set of blocks and every combination of faults; and   *)
(* about the poll of the middleware it starts once it is settled.          *)
EXTENDS PolymeshTransaction, MiddlewareSync, TLAPS

-----------------------------------------------------------------------------
(* Facts about the helpers *)

LEMMA HeadTail ==
  ASSUME NEW S, NEW s \in Seq(S), s # <<>>
  PROVE  Head(s) \in S /\ Tail(s) \in Seq(S)
OBVIOUS

LEMMA TailAt ==
  ASSUME NEW S, NEW s \in Seq(S), s # <<>>, NEW i \in 1 .. Len(Tail(s))
  PROVE  Tail(s)[i] = s[i + 1] /\ i + 1 \in 1 .. Len(s) /\ i + 1 # 1
OBVIOUS

(* Notify keeps every inbox a sequence of notifications.                   *)
LEMMA NotifyType ==
  ASSUME TypeOK, NEW R \in SUBSET Runs,
         NEW kind \in {"ready", "inBlock", "finalized", "error"},
         ext' \in [Runs -> Extrinsic],
         Notify(R, kind)
  PROVE  inbox' \in [Runs -> Seq(Notification)]
<1>1. ASSUME NEW r \in Runs
      PROVE  [kind |-> kind, block |-> ext'[r].block, result |-> ext'[r].result] \in Notification
  BY DEF Notification, Extrinsic
<1>2. ASSUME NEW r \in Runs PROVE inbox[r] \in Seq(Notification)
  BY DEF TypeOK
<1>3. ASSUME NEW r \in Runs
      PROVE  Append(inbox[r], [kind |-> kind, block |-> ext'[r].block,
                               result |-> ext'[r].result]) \in Seq(Notification)
  BY <1>1, <1>2
<1> QED BY <1>2, <1>3 DEF Notify

(* A subscription whose state changes is one still.                        *)
LEMMA StateType ==
  ASSUME TypeOK, NEW r \in Runs, NEW state \in {"closed", "pending", "open", "lost"},
         sub' = [sub EXCEPT ![r].state = state]
  PROVE  sub' \in [Runs -> Subscription]
<1>1. sub[r] \in Subscription
  BY DEF TypeOK
<1>2. [sub[r] EXCEPT !.state = state] \in Subscription
  BY <1>1 DEF Subscription
<1> QED BY <1>2 DEF TypeOK

(* Finish settles the promise of run() within its types.                   *)
LEMMA FinishType ==
  ASSUME TypeOK, NEW r \in Runs, NEW w, NEW d, Finish(r, w, d)
  PROVE  /\ status' \in TransactionStatus
         /\ hasRun' \in BOOLEAN /\ error' \in BOOLEAN /\ receipt' \in BOOLEAN
         /\ pc' \in [Runs -> Suspension]
BY DEF Finish, TypeOK, TransactionStatus, Suspension

-----------------------------------------------------------------------------
(* Type correctness *)

LEMMA TypeInit == Init => TypeOK
<1> SUFFICES ASSUME Init PROVE TypeOK
  OBVIOUS
<1>1. NoSub \in Subscription /\ Unsent \in Extrinsic
  BY DEF NoSub, Subscription, Unsent, Extrinsic
<1>2. <<>> \in Seq(Notification)
  OBVIOUS
<1>3. "idle" \in Suspension /\ "Idle" \in TransactionStatus
  BY DEF Suspension, TransactionStatus
<1> QED BY <1>1, <1>2, <1>3 DEF Init, TypeOK

LEMMA TypeStep == TypeOK /\ [Next]_vars => TypeOK'
<1> SUFFICES ASSUME TypeOK, [Next]_vars PROVE TypeOK'
  OBVIOUS
<1>1. ASSUME NEW r \in Runs, Call(r) PROVE TypeOK'
  BY <1>1 DEF Call, TypeOK, object, Suspension
<1>2. ASSUME NEW r \in Runs, FeesCovered(r) \/ FeesNotCovered(r) PROVE TypeOK'
  BY <1>2 DEF FeesCovered, FeesNotCovered, Catch, UpdateStatus, TypeOK, TransactionStatus, Suspension,
              Thrown
<1>3. ASSUME NEW r \in Runs, SignerApproves(r) PROVE TypeOK'
  <2>1. <<[kind |-> "ready", block |-> NoBlock, result |-> "none"]>> \in Seq(Notification)
    BY DEF Notification
  <2>2. Pooled \in Extrinsic
    BY DEF Pooled, Extrinsic
  <2>3. sub' \in [Runs -> Subscription]
    BY <1>3, StateType DEF SignerApproves
  <2> QED BY <1>3, <2>1, <2>2, <2>3 DEF SignerApproves, TypeOK, object
<1>4. ASSUME NEW r \in Runs, SignerCancels(r) \/ NodeRefuses(r) PROVE TypeOK'
  BY <1>4 DEF SignerCancels, NodeRefuses, Catch, TypeOK, TransactionStatus, Suspension
<1>5. ASSUME NEW r \in Runs, AnswerLost(r) PROVE TypeOK'
  <2>1. sub' \in [Runs -> Subscription]
    BY <1>5, StateType DEF AnswerLost
  <2> QED BY <1>5, <2>1 DEF AnswerLost, Catch, TypeOK, TransactionStatus, Suspension
<1>6. ASSUME NEW r \in Runs, OnReady(r) PROVE TypeOK'
  <2>1. Tail(inbox[r]) \in Seq(Notification)
    BY <1>6, HeadTail DEF OnReady, Delivers, TypeOK
  <2>2. sub' \in [Runs -> Subscription]
    BY <1>6, StateType DEF OnReady
  <2> QED BY <1>6, <2>1, <2>2 DEF OnReady, UpdateStatus, TypeOK, TransactionStatus, Suspension, Thrown
<1>7. ASSUME NEW r \in Runs, OnInBlock(r) PROVE TypeOK'
  <2>1. Head(inbox[r]) \in Notification /\ Tail(inbox[r]) \in Seq(Notification)
    BY <1>7, HeadTail DEF OnInBlock, Delivers, TypeOK
  <2>2. Head(inbox[r]).block \in Blocks \cup {NoBlock}
    BY <2>1 DEF Notification
  <2>3. sub' \in [Runs -> Subscription]
    BY <1>7, <2>2 DEF OnInBlock, InBlockResult, TypeOK, Subscription, Results
  <2>4. inbox' \in [Runs -> Seq(Notification)]
    BY <1>7, <2>1 DEF OnInBlock, TypeOK
  <2> QED BY <1>7, <2>2, <2>3, <2>4, FinishType DEF OnInBlock, TypeOK
<1>8. ASSUME NEW r \in Runs, OnFinalized(r) PROVE TypeOK'
  <2>0. Head(inbox[r]) \in Notification
    BY <1>8, HeadTail DEF OnFinalized, Delivers, TypeOK
  <2>1. FinalResult(r) \in Results \cup {"none"}
    BY <2>0 DEF FinalResult, Notification
  <2>2. sub' \in [Runs -> Subscription]
    <3>1. sub[r] \in Subscription
      BY DEF TypeOK
    <3>2. [sub[r] EXCEPT !.state = "closed", !.waiting = FinalResult(r)] \in Subscription
      BY <2>1, <3>1 DEF Subscription
    <3>3. sub' = [sub EXCEPT ![r] = [sub[r] EXCEPT !.state = "closed", !.waiting = FinalResult(r)]]
      BY <1>8 DEF OnFinalized, TypeOK
    <3> QED BY <3>2, <3>3 DEF TypeOK
  <2> QED BY <1>8, <2>2, FinishType DEF OnFinalized, TypeOK
<1>9. ASSUME NEW r \in Runs, OnError(r) PROVE TypeOK'
  <2>1. sub' \in [Runs -> Subscription]
    BY <1>9, StateType DEF OnError
  <2>2. CASE pc[r] = "watching"
    <3>1. Catch(r, "Aborted")
      BY <1>9, <2>2 DEF OnError, RejectAborted
    <3> QED BY <1>9, <2>1, <3>1 DEF OnError, Catch, TypeOK, TransactionStatus, Suspension
  <2>3. CASE pc[r] # "watching"
    BY <1>9, <2>1, <2>3 DEF OnError, RejectAborted, object, TypeOK
  <2> QED BY <2>2, <2>3
<1>10. ASSUME NEW r \in Runs, Answer(r) PROVE TypeOK'
  <2>1. PICK b \in Blocks : BlockFetched(r, b) \/ BlockFetchFails(r, b)
    BY <1>10 DEF Answer
  <2>2. sub' \in [Runs -> Subscription]
    <3>1. \A d \in {"ok", "failed"} : [sub EXCEPT ![r].data = d] \in [Runs -> Subscription]
      BY DEF TypeOK, Subscription
    <3>2. sub' = sub \/ \E d \in {"ok", "failed"} : sub' = [sub EXCEPT ![r].data = d]
      BY <2>1 DEF BlockFetched, BlockFetchFails
    <3> QED BY <3>1, <3>2 DEF TypeOK
  <2>3. CASE b = sub[r].block
    BY <2>1, <2>2, <2>3, FinishType DEF BlockFetched, BlockFetchFails, TypeOK
  <2>4. CASE b # sub[r].block
    BY <2>1, <2>2, <2>4 DEF BlockFetched, BlockFetchFails, TypeOK
  <2> QED BY <2>3, <2>4
<1>11. ASSUME NEW r \in Runs, Succeed(r) \/ ListenerThrew(r) PROVE TypeOK'
  BY <1>11 DEF Succeed, ListenerThrew, Catch, UpdateStatus, TypeOK, TransactionStatus, Suspension, Thrown
<1>12. ASSUME NEW r \in Runs, Include(r) PROVE TypeOK'
  <2>1. ext' \in [Runs -> Extrinsic]
    BY <1>12 DEF Include, Dispatch, Results, TypeOK, Extrinsic
  <2>2. inbox' \in [Runs -> Seq(Notification)]
    BY <1>12, <2>1, NotifyType DEF Include
  <2> QED BY <1>12, <2>1, <2>2 DEF Include, TypeOK, client, object
<1>13. ASSUME NEW r \in Runs, LeavePool(r) \/ FinalityTimeout(r) PROVE TypeOK'
  <2>1. ext' \in [Runs -> Extrinsic]
    <3>1. [ext[r] EXCEPT !.at = "gone"] \in Extrinsic
      BY DEF TypeOK, Extrinsic
    <3>2. ext' = ext \/ ext' = [ext EXCEPT ![r] = [ext[r] EXCEPT !.at = "gone"]]
      BY <1>13 DEF LeavePool, FinalityTimeout
    <3> QED BY <3>1, <3>2 DEF TypeOK
  <2>2. inbox' \in [Runs -> Seq(Notification)]
    BY <1>13, <2>1, NotifyType DEF LeavePool, FinalityTimeout
  <2> QED BY <1>13, <2>1, <2>2 DEF LeavePool, FinalityTimeout, TypeOK, client, object
<1>14. ASSUME NEW r \in Runs, LoseConnection(r) PROVE TypeOK'
  <2>1. sub' \in [Runs -> Subscription]
    BY <1>14, StateType DEF LoseConnection
  <2> QED BY <1>14, <2>1 DEF LoseConnection, TypeOK, object
<1>15. ASSUME NEW b \in Blocks, Finalize(b) PROVE TypeOK'
  <2>1. ext' \in [Runs -> Extrinsic]
    BY <1>15 DEF Finalize, TypeOK, Extrinsic
  <2>2. In(b) \in SUBSET Runs
    BY DEF In
  <2>3. inbox' \in [Runs -> Seq(Notification)]
    BY <1>15, <2>1, <2>2, NotifyType DEF Finalize
  <2> QED BY <1>15, <2>1, <2>3 DEF Finalize, TypeOK, client, object
<1>16. ASSUME NEW b \in Blocks, Retract(b) PROVE TypeOK'
  <2>1. ext' \in [Runs -> Extrinsic]
    BY <1>16 DEF Retract, Pooled, TypeOK, Extrinsic
  <2> QED BY <1>16, <2>1 DEF Retract, TypeOK, client, object
<1>17. CASE UNCHANGED vars
  BY <1>17 DEF vars, client, object, TypeOK
<1> QED
  BY <1>1, <1>2, <1>3, <1>4, <1>5, <1>6, <1>7, <1>8, <1>9, <1>10, <1>11, <1>12, <1>13, <1>14,
     <1>15, <1>16, <1>17 DEF Next, Callback

(* Every variable keeps its type in every behaviour.                       *)
THEOREM TypeCorrect == Spec => []TypeOK
BY TypeInit, TypeStep, PTL DEF Spec

-----------------------------------------------------------------------------
(* A success speaks of a finalized extrinsic, whatever else goes wrong     *)

(* What an invocation has reached agrees with what it has submitted, and   *)
(* the first notification finds it waiting for the signature.              *)
PhaseAt(r) ==
  /\ ~Begun(r) \/ pc[r] = "fees" \/ AwaitingSignature(r) => ~Submitted(r)
  /\ ~Submitted(r) => sub[r].state = "closed" /\ inbox[r] = <<>>
  /\ pc[r] = "signing" /\ Submitted(r) =>
       sub[r].state = "pending" /\ inbox[r] # <<>> /\ inbox[r][1].kind = "ready"
  /\ \A i \in 1 .. Len(inbox[r]) : inbox[r][i].kind = "ready" => i = 1 /\ pc[r] = "signing"

PhaseInv == \A r \in Runs : PhaseAt(r)

(* SuccessIsFinal is not inductive: it needs what the notifications on     *)
(* their way, and the receipt being waited for, say about the chain.       *)
FinalAt(r) ==
  /\ pc[r] \in {"resolving", "fulfilled", "thrownSucceeded"} => Applied(r)
  /\ sub[r].waiting = "ok" => Applied(r)
  /\ \A i \in 1 .. Len(inbox[r]) : inbox[r][i].kind = "finalized" =>
       ext[r].at = "final" /\ ext[r].result = inbox[r][i].result

FinalInv == \A r \in Runs : FinalAt(r)

(* Finish only moves an invocation that is watching.                       *)
LEMMA FinishMoves ==
  ASSUME TypeOK, NEW r \in Runs, NEW w, NEW d, Finish(r, w, d), NEW q \in Runs
  PROVE  \/ pc'[q] = pc[q]
         \/ q = r /\ pc[q] = "watching" /\ pc'[q] \in {"rejected", "resolving"}
BY DEF Finish, TypeOK

(* Notify appends at most one notification, and only to an open inbox.     *)
LEMMA NotifyAppends ==
  ASSUME TypeOK, NEW R \in SUBSET Runs, NEW kind, Notify(R, kind), NEW q \in Runs
  PROVE  \/ inbox'[q] = inbox[q]
         \/ /\ q \in R /\ Watched(q)
            /\ Len(inbox'[q]) = Len(inbox[q]) + 1
            /\ \A i \in 1 .. Len(inbox[q]) : inbox'[q][i] = inbox[q][i]
            /\ inbox'[q][Len(inbox[q]) + 1].kind = kind
            /\ inbox'[q][Len(inbox[q]) + 1].result = ext'[q].result
            /\ inbox'[q][Len(inbox[q]) + 1].block = ext'[q].block
<1> DEFINE n == [kind |-> kind, block |-> ext'[q].block, result |-> ext'[q].result]
<1>1. inbox[q] \in Seq(Notification)
  BY DEF TypeOK
<1>2. CASE q \in R /\ Watched(q)
  <2>1. inbox'[q] = Append(inbox[q], n)
    BY <1>2 DEF Notify
  <2>2. /\ Len(Append(inbox[q], n)) = Len(inbox[q]) + 1
        /\ \A i \in 1 .. Len(inbox[q]) : Append(inbox[q], n)[i] = inbox[q][i]
        /\ Append(inbox[q], n)[Len(inbox[q]) + 1] = n
    BY <1>1
  <2> QED BY <1>2, <2>1, <2>2
<1>3. CASE ~(q \in R /\ Watched(q))
  BY <1>3 DEF Notify
<1> QED BY <1>2, <1>3

(* A notification after the first one leaves the phase as it is.           *)
LEMMA NotifyPhase ==
  ASSUME TypeOK, NEW q \in Runs, PhaseAt(q), UNCHANGED client,
         NEW R \in SUBSET Runs, NEW kind, kind # "ready", Notify(R, kind),
         Submitted(q) <=> Submitted(q)'
  PROVE  PhaseAt(q)'
<1>1. inbox[q] \in Seq(Notification)
  BY DEF TypeOK
<1>2. CASE inbox'[q] = inbox[q]
  BY <1>2 DEF PhaseAt, client, Begun, Live, Settled, AwaitingSignature, Thrown
<1>3. CASE inbox'[q] # inbox[q]
  <2>1. /\ Watched(q)
        /\ Len(inbox'[q]) = Len(inbox[q]) + 1
        /\ \A i \in 1 .. Len(inbox[q]) : inbox'[q][i] = inbox[q][i]
        /\ inbox'[q][Len(inbox[q]) + 1].kind = kind
    BY <1>3, NotifyAppends
  <2>2. Len(inbox[q]) \in Nat /\ (inbox[q] # <<>> => Len(inbox[q]) > 0)
    BY <1>1
  <2>3. inbox'[q] # <<>>
    BY <2>1, <2>2
  <2>4. UNCHANGED <<pc, sub, status, hasRun>>
    BY DEF client, object
  <2>5. ASSUME NEW i \in 1 .. Len(inbox'[q]), inbox'[q][i].kind = "ready"
        PROVE  i \in 1 .. Len(inbox[q]) /\ inbox[q][i].kind = "ready"
    <3>1. i \in 1 .. Len(inbox[q]) \/ i = Len(inbox[q]) + 1
      BY <2>1, <2>2
    <3> QED BY <2>1, <2>5, <3>1
  <2>6. \A i \in 1 .. Len(inbox'[q]) : inbox'[q][i].kind = "ready" => i = 1 /\ pc'[q] = "signing"
    BY <2>4, <2>5 DEF PhaseAt
  <2>7. inbox[q] # <<>> => inbox'[q][1] = inbox[q][1]
    BY <2>1, <2>2
  <2> QED BY <2>1, <2>3, <2>4, <2>6, <2>7
          DEF PhaseAt, Watched, Begun, Live, Settled, AwaitingSignature
<1> QED BY <1>2, <1>3

LEMMA PhaseInit == Init => PhaseInv
<1> SUFFICES ASSUME Init, NEW r \in Runs PROVE PhaseAt(r)
  BY DEF PhaseInv
<1>1. pc[r] = "idle" /\ sub[r] = NoSub /\ inbox[r] = <<>> /\ ext[r] = Unsent
  BY DEF Init
<1> QED
  BY <1>1 DEF PhaseAt, NoSub, Unsent, Submitted, Begun, Live, Settled

LEMMA PhaseStep == TypeOK /\ PhaseInv /\ [Next]_vars => PhaseInv'
<1> SUFFICES ASSUME TypeOK, PhaseInv, [Next]_vars, NEW q \in Runs PROVE PhaseAt(q)'
  BY DEF PhaseInv
<1> USE DEF Begun, Live, Settled, Submitted, AwaitingSignature, Thrown
<1>0. PhaseAt(q) /\ inbox[q] \in Seq(Notification) /\ pc[q] \in Suspension
  BY DEF PhaseInv, TypeOK
<1>1. ASSUME NEW r \in Runs, Call(r) \/ FeesCovered(r) \/ FeesNotCovered(r) \/ SignerCancels(r)
                             \/ NodeRefuses(r) \/ ListenerThrew(r)
      PROVE  PhaseAt(q)'
  BY <1>0, <1>1 DEF Call, FeesCovered, FeesNotCovered, SignerCancels, NodeRefuses, ListenerThrew,
                    Catch, UpdateStatus, PhaseAt, TypeOK
<1>2. ASSUME NEW r \in Runs, SignerApproves(r) PROVE PhaseAt(q)'
  BY <1>0, <1>2 DEF SignerApproves, Pooled, PhaseAt, TypeOK, Subscription, object
<1>3. ASSUME NEW r \in Runs, AnswerLost(r) PROVE PhaseAt(q)'
  BY <1>0, <1>3 DEF AnswerLost, Catch, PhaseAt, TypeOK, Subscription
<1>4. ASSUME NEW r \in Runs, Callback(r) PROVE PhaseAt(q)'
  <2>1. CASE q # r
    BY <1>0, <1>4, <2>1 DEF Callback, OnReady, OnInBlock, OnFinalized, OnError, Catch,
         UpdateStatus, Finish, RejectAborted, PhaseAt, TypeOK, Subscription, object
  <2>2. CASE q = r
    <3>1. /\ inbox[r] # <<>> /\ ext' = ext
          /\ inbox' \in {[inbox EXCEPT ![r] = <<>>], [inbox EXCEPT ![r] = Tail(@)]}
      BY <1>4 DEF Callback, OnReady, OnInBlock, OnFinalized, OnError, Delivers
    <3>2. inbox'[r] \in {<<>>, Tail(inbox[r])}
      BY <3>1 DEF TypeOK
    <3>3. \A i \in 1 .. Len(inbox'[r]) : inbox'[r][i].kind # "ready"
      <4>1. \A i \in 1 .. Len(inbox[r]) : inbox[r][i].kind = "ready" => i = 1
        BY <1>0, <2>2 DEF PhaseAt
      <4>2. inbox[r] \in Seq(Notification)
        BY DEF TypeOK
      <4>3. CASE inbox'[r] = <<>>
        BY <4>3
      <4>4. CASE inbox'[r] = Tail(inbox[r])
        <5>1. ASSUME NEW i \in 1 .. Len(Tail(inbox[r]))
              PROVE  Tail(inbox[r])[i].kind # "ready"
          BY <3>1, <4>1, <4>2, TailAt
        <5> QED BY <4>4, <5>1
      <4> QED BY <3>2, <4>3, <4>4
    <3>4. Submitted(r) /\ Submitted(r)'
      BY <1>0, <2>2, <3>1 DEF PhaseAt
    <3>5. CASE OnReady(r)
      <4>1. pc'[r] \in {"watching", "thrownRunning"}
        BY <3>5 DEF OnReady, UpdateStatus, TypeOK
      <4> QED BY <2>2, <3>3, <3>4, <4>1 DEF PhaseAt
    <3>6. CASE OnInBlock(r) \/ OnFinalized(r) \/ OnError(r)
      <4>1. inbox[r][1].kind # "ready"
        BY <3>6 DEF OnInBlock, OnFinalized, OnError, Delivers
      <4>2. pc[r] # "signing" /\ pc[r] # "fees" /\ Begun(r)
        BY <1>0, <2>2, <3>4, <4>1 DEF PhaseAt
      <4>3. pc'[r] = pc[r] \/ pc'[r] \in {"rejected", "resolving"}
        BY <3>6, FinishMoves DEF OnInBlock, OnFinalized, OnError, RejectAborted, Catch, object, TypeOK
      <4> QED BY <2>2, <3>3, <3>4, <4>2, <4>3 DEF PhaseAt
    <3> QED BY <1>4, <3>5, <3>6 DEF Callback
  <2> QED BY <2>1, <2>2
<1>5. ASSUME NEW r \in Runs, Answer(r) \/ Succeed(r) PROVE PhaseAt(q)'
  <2>1. CASE Succeed(r)
    BY <1>0, <2>1 DEF Succeed, Catch, UpdateStatus, PhaseAt, TypeOK
  <2>2. CASE Answer(r)
    <3>1. PICK b \in Blocks : BlockFetched(r, b) \/ BlockFetchFails(r, b)
      BY <2>2 DEF Answer
    <3>2. inbox' = inbox /\ ext' = ext
      BY <3>1 DEF BlockFetched, BlockFetchFails
    <3>3. sub'[q].state = sub[q].state
      <4>1. sub' = sub \/ \E d \in {"ok", "failed"} : sub' = [sub EXCEPT ![r].data = d]
        BY <3>1 DEF BlockFetched, BlockFetchFails
      <4>2. sub \in [Runs -> Subscription] /\ sub[q] \in Subscription
        BY DEF TypeOK
      <4>3. ASSUME NEW d PROVE [sub EXCEPT ![r].data = d][q].state = sub[q].state
        BY <4>2 DEF Subscription
      <4> QED BY <4>1, <4>3
    <3>4. \/ pc'[q] = pc[q]
          \/ q = r /\ pc[q] = "watching" /\ pc'[q] \in {"rejected", "resolving"}
      BY <3>1, FinishMoves DEF BlockFetched, BlockFetchFails
    <3> QED BY <1>0, <3>2, <3>3, <3>4 DEF PhaseAt
  <2> QED BY <1>5, <2>1, <2>2
<1>6. ASSUME NEW r \in Runs, Include(r) \/ LeavePool(r) \/ FinalityTimeout(r) PROVE PhaseAt(q)'
  <2>1. UNCHANGED client /\ \E kind \in {"inBlock", "error"} : Notify({r}, kind)
    BY <1>6 DEF Include, LeavePool, FinalityTimeout
  <2>2. Submitted(q) <=> Submitted(q)'
    <3>1. CASE Include(r)
      BY <3>1 DEF Include, TypeOK
    <3>2. CASE LeavePool(r)
      BY <3>2 DEF LeavePool, TypeOK, Extrinsic
    <3>3. CASE FinalityTimeout(r)
      BY <3>3 DEF FinalityTimeout
    <3> QED BY <1>6, <3>1, <3>2, <3>3
  <2> QED BY <1>0, <2>1, <2>2, NotifyPhase
<1>7. ASSUME NEW r \in Runs, LoseConnection(r) PROVE PhaseAt(q)'
  BY <1>0, <1>7 DEF LoseConnection, PhaseAt, TypeOK, Subscription, object
<1>8. ASSUME NEW b \in Blocks, Finalize(b) PROVE PhaseAt(q)'
  <2>1. In(b) \in SUBSET Runs /\ (Submitted(q) <=> Submitted(q)')
    BY <1>8 DEF Finalize, In, TypeOK, Extrinsic
  <2> QED BY <1>0, <1>8, <2>1, NotifyPhase DEF Finalize
<1>9. ASSUME NEW b \in Blocks, Retract(b) PROVE PhaseAt(q)'
  BY <1>0, <1>9 DEF Retract, In, Pooled, PhaseAt, TypeOK, client, object
<1>10. CASE UNCHANGED vars
  BY <1>0, <1>10 DEF vars, client, object, PhaseAt
<1> QED
  BY <1>1, <1>2, <1>3, <1>4, <1>5, <1>6, <1>7, <1>8, <1>9, <1>10 DEF Next

LEMMA FinalInit == Init => FinalInv
<1> SUFFICES ASSUME Init, NEW r \in Runs PROVE FinalAt(r)
  BY DEF FinalInv
<1>1. pc[r] = "idle" /\ sub[r] = NoSub /\ inbox[r] = <<>>
  BY DEF Init
<1> QED
  BY <1>1 DEF FinalAt, NoSub

(* A notification says of the chain what is the case, and goes on doing    *)
(* so, since a finalized extrinsic does not change.                        *)
LEMMA NotifyFinal ==
  ASSUME TypeOK, NEW q \in Runs, FinalAt(q), UNCHANGED client,
         NEW R \in SUBSET Runs, NEW kind, Notify(R, kind),
         ext[q].at = "final" => ext'[q] = ext[q],
         kind = "finalized" /\ q \in R => ext'[q].at = "final"
  PROVE  FinalAt(q)'
<1>1. inbox[q] \in Seq(Notification)
  BY DEF TypeOK
<1>2. CASE inbox'[q] = inbox[q]
  BY <1>2 DEF FinalAt, Applied, client
<1>3. CASE inbox'[q] # inbox[q]
  <2>1. /\ q \in R
        /\ Len(inbox'[q]) = Len(inbox[q]) + 1
        /\ \A i \in 1 .. Len(inbox[q]) : inbox'[q][i] = inbox[q][i]
        /\ inbox'[q][Len(inbox[q]) + 1].kind = kind
        /\ inbox'[q][Len(inbox[q]) + 1].result = ext'[q].result
    BY <1>3, NotifyAppends
  <2>2. ASSUME NEW i \in 1 .. Len(inbox'[q]), inbox'[q][i].kind = "finalized"
        PROVE  ext'[q].at = "final" /\ ext'[q].result = inbox'[q][i].result
    <3>1. CASE i \in 1 .. Len(inbox[q])
      BY <2>1, <2>2, <3>1 DEF FinalAt
    <3>2. CASE i \notin 1 .. Len(inbox[q])
      <4>1. i = Len(inbox[q]) + 1
        BY <1>1, <2>1, <3>2
      <4> QED BY <2>1, <2>2, <4>1
    <3> QED BY <3>1, <3>2
  <2> QED BY <2>2 DEF FinalAt, Applied, client
<1> QED BY <1>2, <1>3

(* Finish lets run() go on only for a receipt it waited for.               *)
LEMMA FinishFinal ==
  ASSUME TypeOK, NEW r \in Runs, NEW w, NEW d, Finish(r, w, d), NEW q \in Runs,
         pc'[q] \in {"resolving", "fulfilled", "thrownSucceeded"}
  PROVE  pc[q] = pc'[q] \/ (q = r /\ w = "ok")
BY DEF Finish, DispatchedOk, TypeOK

(* The callback's own changes: the inbox shrinks, and what run() goes on   *)
(* for, or waits to go on for, is in a finalized block.                    *)
LEMMA FinalCallback ==
  ASSUME TypeOK, NEW r \in Runs, Callback(r), NEW q \in Runs, FinalAt(q)
  PROVE  FinalAt(q)'
<1>1. inbox[q] \in Seq(Notification) /\ ext' = ext
  BY DEF TypeOK, Callback, OnReady, OnInBlock, OnFinalized, OnError
<1>2. \A i \in 1 .. Len(inbox'[q]) : inbox'[q][i].kind = "finalized" =>
         ext'[q].at = "final" /\ ext'[q].result = inbox'[q][i].result
  <2>1. inbox[r] # <<>> /\ inbox' \in {[inbox EXCEPT ![r] = <<>>], [inbox EXCEPT ![r] = Tail(@)]}
    BY DEF Callback, OnReady, OnInBlock, OnFinalized, OnError, Delivers
  <2>2. inbox'[q] = inbox[q] \/ inbox'[q] = <<>> \/ (q = r /\ inbox'[q] = Tail(inbox[q]))
    BY <2>1 DEF TypeOK
  <2>3. CASE q = r /\ inbox'[q] = Tail(inbox[q])
    BY <1>1, <2>1, <2>3, TailAt DEF FinalAt
  <2> QED BY <1>1, <2>2, <2>3 DEF FinalAt
<1>3. sub'[q].waiting = "ok" => Applied(q)
  <2>1. CASE OnReady(r)
    BY <2>1 DEF OnReady, FinalAt, TypeOK, Subscription
  <2>2. CASE OnInBlock(r)
    BY <2>2 DEF OnInBlock, InBlockResult, FinalAt, TypeOK, Subscription
  <2>3. CASE OnFinalized(r)
    <3>1. q = r /\ FinalResult(r) = "ok" => Applied(q)
      BY <1>1, <2>3 DEF OnFinalized, Delivers, FinalResult, FinalAt, Applied
    <3> QED BY <2>3, <3>1 DEF OnFinalized, FinalAt, TypeOK, Subscription
  <2>4. CASE OnError(r)
    BY <2>4 DEF OnError, FinalAt, TypeOK, Subscription
  <2> QED BY <2>1, <2>2, <2>3, <2>4 DEF Callback
<1>4. pc'[q] \in {"resolving", "fulfilled", "thrownSucceeded"} => Applied(q)
  <2>1. CASE OnReady(r)
    BY <2>1 DEF OnReady, UpdateStatus, Catch, FinalAt, TypeOK
  <2>2. CASE OnInBlock(r)
    BY <2>2, FinishFinal DEF OnInBlock, InBlockResult, FinalAt
  <2>3. CASE OnFinalized(r)
    <3>1. q = r /\ FinalResult(r) = "ok" => Applied(q)
      BY <1>1, <2>3 DEF OnFinalized, Delivers, FinalResult, FinalAt, Applied
    <3> QED BY <2>3, <3>1, FinishFinal DEF OnFinalized, FinalAt
  <2>4. CASE OnError(r)
    BY <2>4 DEF OnError, RejectAborted, Catch, object, FinalAt, TypeOK
  <2> QED BY <2>1, <2>2, <2>3, <2>4 DEF Callback
<1> QED BY <1>1, <1>2, <1>3, <1>4 DEF FinalAt, Applied

LEMMA FinalStep == TypeOK /\ PhaseInv /\ FinalInv /\ [Next]_vars => FinalInv'
<1> SUFFICES ASSUME TypeOK, PhaseInv, FinalInv, [Next]_vars, NEW q \in Runs PROVE FinalAt(q)'
  BY DEF FinalInv
<1>0. FinalAt(q) /\ PhaseAt(q) /\ inbox[q] \in Seq(Notification)
  BY DEF FinalInv, PhaseInv, TypeOK
<1>1. ASSUME NEW r \in Runs, Call(r) \/ FeesCovered(r) \/ FeesNotCovered(r) \/ SignerCancels(r)
                             \/ NodeRefuses(r) \/ ListenerThrew(r)
      PROVE  FinalAt(q)'
  BY <1>0, <1>1 DEF Call, FeesCovered, FeesNotCovered, SignerCancels, NodeRefuses, ListenerThrew,
                    Catch, UpdateStatus, FinalAt, Applied, TypeOK
<1>2. ASSUME NEW r \in Runs, SignerApproves(r) PROVE FinalAt(q)'
  BY <1>0, <1>2 DEF SignerApproves, FinalAt, PhaseAt, Applied, Submitted, TypeOK, Subscription,
                    AwaitingSignature, object
<1>3. ASSUME NEW r \in Runs, AnswerLost(r) PROVE FinalAt(q)'
  BY <1>0, <1>3 DEF AnswerLost, Catch, FinalAt, Applied, TypeOK, Subscription
<1>4. ASSUME NEW r \in Runs, Callback(r) PROVE FinalAt(q)'
  BY <1>0, <1>4, FinalCallback
<1>5. ASSUME NEW r \in Runs, Answer(r) PROVE FinalAt(q)'
  <2>1. PICK b \in Blocks : BlockFetched(r, b) \/ BlockFetchFails(r, b)
    BY <1>5 DEF Answer
  <2>2. inbox' = inbox /\ ext' = ext
    BY <2>1 DEF BlockFetched, BlockFetchFails
  <2>3. sub'[q].waiting = sub[q].waiting
    <3>1. sub' = sub \/ \E d \in {"ok", "failed"} : sub' = [sub EXCEPT ![r].data = d]
      BY <2>1 DEF BlockFetched, BlockFetchFails
    <3>2. sub \in [Runs -> Subscription] /\ sub[q] \in Subscription
      BY DEF TypeOK
    <3>3. ASSUME NEW d PROVE [sub EXCEPT ![r].data = d][q].waiting = sub[q].waiting
      BY <3>2 DEF Subscription
    <3> QED BY <3>1, <3>3
  <2>4. pc'[q] \in {"resolving", "fulfilled", "thrownSucceeded"} => pc[q] = pc'[q] \/ (q = r /\ sub[q].waiting = "ok")
    BY <2>1, FinishFinal DEF BlockFetched, BlockFetchFails
  <2> QED BY <1>0, <2>2, <2>3, <2>4 DEF FinalAt, Applied
<1>6. ASSUME NEW r \in Runs, Succeed(r) PROVE FinalAt(q)'
  BY <1>0, <1>6 DEF Succeed, Catch, UpdateStatus, FinalAt, Applied, TypeOK
<1>7. ASSUME NEW r \in Runs, Include(r) \/ LeavePool(r) \/ FinalityTimeout(r) PROVE FinalAt(q)'
  <2>1. UNCHANGED client /\ \E kind \in {"inBlock", "error"} : Notify({r}, kind)
    BY <1>7 DEF Include, LeavePool, FinalityTimeout
  <2>2. ext[q].at = "final" => ext'[q] = ext[q]
    BY <1>7 DEF Include, LeavePool, FinalityTimeout, TypeOK
  <2> QED BY <1>0, <2>1, <2>2, NotifyFinal
<1>8. ASSUME NEW r \in Runs, LoseConnection(r) PROVE FinalAt(q)'
  BY <1>0, <1>8 DEF LoseConnection, FinalAt, Applied, TypeOK, Subscription, object
<1>9. ASSUME NEW b \in Blocks, Finalize(b) PROVE FinalAt(q)'
  <2>1. In(b) \in SUBSET Runs /\ (ext[q].at = "final" => ext'[q] = ext[q])
    BY <1>9 DEF Finalize, In
  <2>2. q \in In(b) => ext'[q].at = "final"
    BY <1>9 DEF Finalize, TypeOK, Extrinsic
  <2> QED BY <1>0, <1>9, <2>1, <2>2, NotifyFinal DEF Finalize
<1>10. ASSUME NEW b \in Blocks, Retract(b) PROVE FinalAt(q)'
  BY <1>0, <1>10 DEF Retract, In, FinalAt, Applied, client, object
<1>11. CASE UNCHANGED vars
  BY <1>0, <1>11 DEF vars, client, object, FinalAt, Applied
<1> QED
  BY <1>1, <1>2, <1>3, <1>4, <1>5, <1>6, <1>7, <1>8, <1>9, <1>10, <1>11 DEF Next

(* run() resolves only for an extrinsic that is final and took effect,     *)
(* whatever the node, the listeners, the resolvers and other calls do.     *)
THEOREM SuccessFinal == Spec => []SuccessIsFinal
<1>1. FinalInv => SuccessIsFinal
  BY DEF FinalInv, FinalAt, SuccessIsFinal
<1> QED BY TypeInit, TypeStep, PhaseInit, PhaseStep, FinalInit, FinalStep, <1>1, PTL DEF Spec

-----------------------------------------------------------------------------
(* Calls of run() that do not overlap *)

(* Every step is a call of run(), a step of one pending call, or leaves    *)
(* the calls alone.                                                        *)
Calls(r) ==
  /\ pc[r] = "idle" /\ (Overlap \/ \A q \in Runs : ~Live(q))
  /\ pc' = [pc EXCEPT ![r] = IF hasRun THEN "refused" ELSE "fees"]
  /\ UNCHANGED <<object, ext>>

Announced(r) == status = "Succeeded" /\ pc[r] = "thrownSucceeded"

Advances(r) ==
  /\ Live(r)
  /\ \A q \in Runs : q # r => pc'[q] = pc[q] /\ (Submitted(q)' => Submitted(q))
  /\ \/ Live(r)' /\ hasRun' = hasRun /\ (status' \in Terminal => Announced(r)')
     \/ Settled(r)' /\ hasRun' = TRUE /\ UNCHANGED ext
  /\ pc[r] = "thrownSucceeded" =>
       pc'[r] = "rejected" /\ status' \in {"Failed", "Rejected", "Aborted"}
  /\ pc'[r] \in Thrown => "listener" \in Faults
  /\ status' = "Rejected" => ~Submitted(r) \/ "listener" \in Faults

Rests ==
  /\ UNCHANGED <<pc, status, hasRun>>
  /\ \A q \in Runs : Submitted(q)' => Submitted(q)

LEMMA FinishKinds ==
  ASSUME TypeOK, NEW r \in Runs, NEW w, NEW d, Finish(r, w, d), UNCHANGED ext,
         pc[r] = "watching" => status \notin Terminal
  PROVE  Advances(r) \/ Rests
<1>1. CASE UNCHANGED <<status, hasRun, error, receipt, pc>>
  BY <1>1 DEF Rests, Submitted
<1>2. CASE ~UNCHANGED <<status, hasRun, error, receipt, pc>>
  <2>1. pc[r] = "watching" /\ (\A q \in Runs : q # r => pc'[q] = pc[q])
    BY <1>2 DEF Finish, TypeOK
  <2>2. \/ pc'[r] = "rejected" /\ hasRun' = TRUE /\ status' = "Failed"
        \/ pc'[r] = "resolving" /\ hasRun' = hasRun /\ status' = status
    BY <1>2 DEF Finish, TypeOK
  <2> QED BY <2>1, <2>2 DEF Advances, Live, Settled, Submitted, Terminal, Thrown
<1> QED BY <1>1, <1>2

(* Without overlapping calls: one invocation gets past the hasRun guard,   *)
(* and once the object has run nothing is left that could change it.  An   *)
(* ending status before that is a success that a listener threw on.        *)
SerialInv ==
  /\ \A q, r \in Runs : Begun(q) /\ Begun(r) => q = r
  /\ \A r \in Runs : Settled(r) => hasRun
  /\ hasRun => \A r \in Runs : ~Live(r)
  /\ status \in Terminal => hasRun \/ \E r \in Runs : Announced(r)
  /\ \A r \in Runs : pc[r] \in Thrown => "listener" \in Faults
  /\ status = "Rejected" => "listener" \in Faults \/ \A r \in Runs : ~Submitted(r)

LEMMA StepKinds ==
  ASSUME TypeOK, PhaseInv, SerialInv, [Next]_vars
  PROVE  Rests \/ \E r \in Runs : Calls(r) \/ Advances(r)
<1>0. ASSUME NEW r \in Runs, Live(r), pc[r] # "thrownSucceeded" PROVE status \notin Terminal
  <2> SUFFICES ASSUME status \in Terminal PROVE FALSE
    OBVIOUS
  <2>1. PICK q \in Runs : Announced(q)
    BY <1>0 DEF SerialInv
  <2> QED BY <1>0, <2>1 DEF SerialInv, Announced, Begun, Live, Thrown
<1>1. ASSUME NEW r \in Runs, Call(r) PROVE Calls(r)
  BY <1>1 DEF Call, Calls, AlreadyRun
<1>2. ASSUME NEW r \in Runs, FeesCovered(r) \/ FeesNotCovered(r) \/ NodeRefuses(r) \/ AnswerLost(r)
                             \/ Succeed(r)
      PROVE  Advances(r)
  BY <1>2, <1>0 DEF FeesCovered, FeesNotCovered, NodeRefuses, AnswerLost, Succeed, UpdateStatus, Catch,
                    AwaitingSignature, Advances, Announced, Live, Settled, Submitted, Terminal, Thrown,
                    TypeOK
<1>a. ASSUME NEW r \in Runs, ListenerThrew(r) PROVE Advances(r)
  <2>1. pc[r] \in Thrown /\ "listener" \in Faults
    BY <1>a DEF ListenerThrew, Thrown, SerialInv
  <2> QED BY <1>a, <2>1 DEF ListenerThrew, Catch, Advances, Live, Settled, Submitted, Thrown, TypeOK
<1>3. ASSUME NEW r \in Runs, SignerCancels(r) PROVE Advances(r)
  <2>1. ~Submitted(r)
    BY <1>3 DEF SignerCancels, PhaseInv, PhaseAt
  <2> QED BY <1>3, <2>1 DEF SignerCancels, AwaitingSignature, Catch, Advances, Live, Settled,
                           Submitted, Thrown, TypeOK
<1>4. ASSUME NEW r \in Runs, SignerApproves(r) PROVE Advances(r)
  BY <1>4, <1>0 DEF SignerApproves, AwaitingSignature, Advances, Live, Submitted, Terminal, Thrown,
                    TypeOK, object
<1>5. ASSUME NEW r \in Runs, Callback(r) PROVE Rests \/ Advances(r)
  <2>1. CASE OnReady(r)
    <3>1. inbox[r] \in Seq(Notification) /\ inbox[r] # <<>> /\ inbox[r][1].kind = "ready"
      BY <2>1 DEF OnReady, Delivers, TypeOK
    <3>2. pc[r] = "signing"
      BY <3>1 DEF PhaseInv, PhaseAt
    <3> QED BY <2>1, <3>2 DEF OnReady, UpdateStatus, Advances, Live, Settled, Submitted, Terminal,
                              Thrown, TypeOK
  <2>2. CASE OnInBlock(r) \/ OnFinalized(r)
    <3>1. ext' = ext /\ \E w, d : Finish(r, w, d)
      BY <2>2 DEF OnInBlock, OnFinalized
    <3> QED BY <1>0, <3>1, FinishKinds DEF Live
  <2>3. CASE OnError(r)
    BY <2>3 DEF OnError, RejectAborted, Catch, object, Advances, Rests, Live, Settled, Submitted,
                Thrown, TypeOK
  <2> QED BY <1>5, <2>1, <2>2, <2>3 DEF Callback
<1>6. ASSUME NEW r \in Runs, Answer(r) PROVE Rests \/ Advances(r)
  <2>1. PICK b \in Blocks : BlockFetched(r, b) \/ BlockFetchFails(r, b)
    BY <1>6 DEF Answer
  <2>2. CASE b = sub[r].block
    <3>1. ext' = ext /\ \E w, d : Finish(r, w, d)
      BY <2>1, <2>2 DEF BlockFetched, BlockFetchFails
    <3> QED BY <1>0, <3>1, FinishKinds DEF Live
  <2>3. CASE b # sub[r].block
    BY <2>1, <2>3 DEF BlockFetched, BlockFetchFails, Rests, Submitted
  <2> QED BY <2>2, <2>3
<1>7. ASSUME NEW r \in Runs, Include(r) \/ LeavePool(r) \/ FinalityTimeout(r) \/ LoseConnection(r)
      PROVE  Rests
  <2>1. UNCHANGED <<pc, status, hasRun>>
    BY <1>7 DEF Include, LeavePool, FinalityTimeout, LoseConnection, client, object
  <2>2. ASSUME NEW q \in Runs, Submitted(q)' PROVE Submitted(q)
    BY <1>7, <2>2 DEF Include, LeavePool, FinalityTimeout, LoseConnection, Submitted, TypeOK
  <2> QED BY <2>1, <2>2 DEF Rests
<1>8. ASSUME NEW b \in Blocks, Finalize(b) \/ Retract(b) PROVE Rests
  BY <1>8 DEF Finalize, Retract, In, Rests, Submitted, client, object
<1>9. CASE UNCHANGED vars
  BY <1>9 DEF vars, client, object, Rests, Submitted
<1> QED
  BY <1>1, <1>2, <1>a, <1>3, <1>4, <1>5, <1>6, <1>7, <1>8, <1>9 DEF Next

LEMMA SerialInit == Init => SerialInv
BY DEF Init, SerialInv, Begun, Live, Settled, Terminal, Thrown

LEMMA SerialStep ==
  ASSUME Overlap = FALSE
  PROVE  TypeOK /\ PhaseInv /\ SerialInv /\ [Next]_vars => SerialInv'
<1> SUFFICES ASSUME TypeOK, PhaseInv, SerialInv, [Next]_vars PROVE SerialInv'
  OBVIOUS
<1>0. \A q \in Runs : Submitted(q) => Begun(q)
  BY DEF PhaseInv, PhaseAt
<1>1. CASE Rests
  BY <1>1 DEF Rests, SerialInv, Announced, Begun, Live, Settled
<1>2. ASSUME NEW r \in Runs, Calls(r) PROVE SerialInv'
  <2>1. CASE hasRun
    BY <1>2, <2>1 DEF Calls, SerialInv, Announced, Begun, Live, Settled, Submitted, Thrown, object,
                     TypeOK
  <2>2. CASE ~hasRun
    BY <1>2, <2>2 DEF Calls, SerialInv, Announced, Begun, Live, Settled, Submitted, Thrown, object,
                     TypeOK
  <2> QED BY <2>1, <2>2
<1>3. ASSUME NEW r \in Runs, Advances(r) PROVE SerialInv'
  <2>1. \A q \in Runs : q # r => ~Begun(q) /\ ~Begun(q)' /\ ~Submitted(q)'
    BY <1>0, <1>3 DEF Advances, SerialInv, Begun, Live, Settled
  <2>2. ~hasRun
    BY <1>3 DEF Advances, SerialInv
  <2>3. ~(Live(r)' /\ Settled(r)') /\ (Settled(r)' => pc'[r] \notin Thrown)
    BY DEF Live, Settled, Thrown
  <2>4. (\A q, p \in Runs : Begun(q) /\ Begun(p) => q = p)' /\ (\A q \in Runs : Settled(q) => hasRun)'
    BY <1>3, <2>1, <2>2, <2>3 DEF Advances, Begun
  <2>5. (hasRun => \A q \in Runs : ~Live(q))'
    BY <1>3, <2>1, <2>2, <2>3 DEF Advances, Begun
  <2>6. (status \in Terminal => hasRun \/ \E q \in Runs : Announced(q))'
    BY <1>3 DEF Advances
  <2>7. (\A q \in Runs : pc[q] \in Thrown => "listener" \in Faults)'
    BY <1>3 DEF Advances, SerialInv
  <2>8. (status = "Rejected" => "listener" \in Faults \/ \A q \in Runs : ~Submitted(q))'
    <3> SUFFICES ASSUME status' = "Rejected", "listener" \notin Faults PROVE ~Submitted(r)'
      BY <2>1
    <3>1. ~Announced(r)'
      BY DEF Announced
    <3>2. UNCHANGED ext /\ ~Submitted(r)
      BY <1>3, <3>1 DEF Advances, Terminal
    <3> QED BY <3>2 DEF Submitted
  <2> QED BY <2>4, <2>5, <2>6, <2>7, <2>8 DEF SerialInv
<1> QED BY <1>1, <1>2, <1>3, StepKinds

(* Called one after another, however they end, the calls of run() submit   *)
(* at most one extrinsic.                                                  *)
THEOREM SingleSubmission ==
  ASSUME Overlap = FALSE
  PROVE  Spec => []AtMostOneSubmission
<1>1. PhaseInv /\ SerialInv => AtMostOneSubmission
  BY DEF PhaseInv, PhaseAt, SerialInv, AtMostOneSubmission
<1> QED BY TypeInit, TypeStep, PhaseInit, PhaseStep, SerialInit, SerialStep, <1>1, PTL DEF Spec

(* A transaction reported as rejected by the signer never reached the node.*)
DeclinedIsUnsent == status = "Rejected" => \A r \in Runs : ~Submitted(r)

(* While calls of run() do not overlap and no status listener throws, a    *)
(* transaction that shows Rejected was never submitted (the signature      *)
(* cancelled in internalRun); the error of a listener may say 'Cancelled'  *)
(* when the extrinsic is on its way.                                       *)
THEOREM RejectedUnsent ==
  ASSUME Overlap = FALSE, "listener" \notin Faults
  PROVE  Spec => []DeclinedIsUnsent
<1>1. SerialInv => DeclinedIsUnsent
  BY DEF SerialInv, DeclinedIsUnsent
<1> QED BY TypeInit, TypeStep, PhaseInit, PhaseStep, SerialInit, SerialStep, <1>1, PTL DEF Spec

(* A listener threw when it was told of the success, and run() goes on to  *)
(* its catch.                                                              *)
TakenBack ==
  /\ status = "Succeeded" /\ status' \in {"Failed", "Rejected", "Aborted"}
  /\ "listener" \in Faults
  /\ \E r \in Runs : pc[r] = "thrownSucceeded" /\ pc'[r] = "rejected"

(* Late callbacks, late block data and further calls of run() do not       *)
(* change what the user was told; nothing else does either.                *)
Kept == status \in Terminal => (status' = status \/ TakenBack)
TerminalIsFinal == [][Kept]_vars

(* While calls of run() do not overlap, no step leaves an ending status    *)
(* but the catch of a run() whose success a listener threw on              *)
(* (updateStatus; without a listener that throws, no step at all).         *)
THEOREM StatusIsFinal ==
  ASSUME Overlap = FALSE
  PROVE  Spec => TerminalIsFinal
<1>1. TypeOK /\ PhaseInv /\ SerialInv /\ [Next]_vars => [Kept]_vars
  <2> SUFFICES ASSUME TypeOK, PhaseInv, SerialInv, [Next]_vars, status \in Terminal
               PROVE  status' = status \/ TakenBack
    BY DEF Kept
  <2>1. ASSUME NEW r \in Runs, Advances(r) PROVE TakenBack
    <3>1. Live(r) /\ ~hasRun
      BY <2>1 DEF Advances, SerialInv
    <3>2. PICK q \in Runs : Announced(q)
      BY <3>1 DEF SerialInv
    <3>3. q = r
      BY <3>1, <3>2 DEF SerialInv, Announced, Begun, Live, Thrown
    <3> QED BY <2>1, <3>2, <3>3 DEF Advances, Announced, SerialInv, TakenBack, Thrown
  <2>2. ASSUME NEW r \in Runs, Calls(r) PROVE status' = status
    BY <2>2 DEF Calls, object
  <2> QED BY <2>1, <2>2, StepKinds DEF Rests
<1> QED BY TypeInit, TypeStep, PhaseInit, PhaseStep, SerialInit, SerialStep, <1>1, PTL
        DEF Spec, TerminalIsFinal

-----------------------------------------------------------------------------
(* What the object reports *)

(* Block data are asked for before a block is final: the node tells of the *)
(* block an extrinsic is in first, and what it tells of has a block.       *)
At(r, kind, n) == \E j \in 1 .. n : inbox[r][j].kind = kind

NoticeAt(r) ==
  /\ ext[r].at \in {"unsent", "pool"} => ext[r].block = NoBlock
  /\ ~Submitted(r) => sub[r].block = NoBlock
  /\ sub[r].data = "none" <=> sub[r].block = NoBlock
  /\ Watched(r) /\ ext[r].at \in {"block", "final"} =>
       sub[r].data # "none" \/ At(r, "inBlock", Len(inbox[r]))
  /\ \A i \in 1 .. Len(inbox[r]) :
       /\ inbox[r][i].kind = "finalized" => sub[r].data # "none" \/ At(r, "inBlock", i - 1)
       /\ inbox[r][i].kind = "inBlock" => inbox[r][i].block # NoBlock

NoticeInv == \A r \in Runs : NoticeAt(r)

LEMMA NoticeInit == Init => NoticeInv
<1> SUFFICES ASSUME Init, NEW r \in Runs PROVE NoticeAt(r)
  BY DEF NoticeInv
<1>1. pc[r] = "idle" /\ sub[r] = NoSub /\ inbox[r] = <<>> /\ ext[r] = Unsent
  BY DEF Init
<1> QED
  BY <1>1 DEF NoticeAt, NoSub, Unsent, Submitted, Watched

(* A notification at the end of an inbox tells of the extrinsic as it is.  *)
LEMMA NotifyNotice ==
  ASSUME TypeOK, NEW q \in Runs, NoticeAt(q), UNCHANGED client,
         NEW R \in SUBSET Runs, NEW kind, Notify(R, kind),
         Submitted(q)' <=> Submitted(q),
         ext'[q].at \in {"unsent", "pool"} => ext'[q].block = NoBlock,
         ext'[q].at \in {"block", "final"} =>
           ext[q].at \in {"block", "final"} \/ (kind = "inBlock" /\ q \in R),
         kind = "finalized" /\ q \in R => ext[q].at \in {"block", "final"},
         kind = "inBlock" /\ q \in R => ext'[q].block # NoBlock
  PROVE  NoticeAt(q)'
<1>1. inbox[q] \in Seq(Notification) /\ Len(inbox[q]) \in Nat
  BY DEF TypeOK
<1>2. UNCHANGED sub
  BY DEF client
<1>3. CASE inbox'[q] = inbox[q]
  <2>1. Watched(q) /\ q \in R => inbox'[q] # inbox[q]
    <3> SUFFICES ASSUME Watched(q), q \in R PROVE inbox'[q] # inbox[q]
      OBVIOUS
    <3> DEFINE n == [kind |-> kind, block |-> ext'[q].block, result |-> ext'[q].result]
    <3>1. inbox'[q] = Append(inbox[q], n)
      BY DEF Notify
    <3>2. Len(Append(inbox[q], n)) = Len(inbox[q]) + 1
      BY <1>1
    <3> QED BY <1>1, <3>1, <3>2
  <2>2. \A n : At(q, "inBlock", n)' <=> At(q, "inBlock", n)
    BY <1>3 DEF At
  <2> QED BY <1>2, <1>3, <2>1, <2>2 DEF NoticeAt, Watched
<1>4. CASE inbox'[q] # inbox[q]
  <2>1. /\ q \in R /\ Watched(q)
        /\ Len(inbox'[q]) = Len(inbox[q]) + 1
        /\ \A i \in 1 .. Len(inbox[q]) : inbox'[q][i] = inbox[q][i]
        /\ inbox'[q][Len(inbox[q]) + 1].kind = kind
        /\ inbox'[q][Len(inbox[q]) + 1].block = ext'[q].block
    BY <1>4, NotifyAppends
  <2>2. ASSUME NEW n \in 0 .. Len(inbox[q]), At(q, "inBlock", n)
        PROVE  At(q, "inBlock", n)' /\ At(q, "inBlock", Len(inbox[q]))'
    <3>1. PICK j \in 1 .. n : inbox[q][j].kind = "inBlock"
      BY <2>2 DEF At
    <3>2. j \in 1 .. Len(inbox[q]) /\ j \in 1 .. Len(inbox'[q])
      BY <1>1, <2>1
    <3>3. inbox'[q][j].kind = "inBlock"
      BY <2>1, <3>1, <3>2
    <3> QED BY <3>1, <3>2, <3>3 DEF At
  <2>3. kind = "inBlock" => At(q, "inBlock", Len(inbox[q]))'
    <3>1. Len(inbox[q]) + 1 \in 1 .. Len(inbox'[q])
      BY <1>1, <2>1
    <3> QED BY <2>1, <3>1 DEF At
  <2>4. Watched(q)' /\ ext'[q].at \in {"block", "final"} =>
          sub'[q].data # "none" \/ At(q, "inBlock", Len(inbox[q]))'
    <3>1. Len(inbox[q]) \in 0 .. Len(inbox[q])
      BY <1>1
    <3> QED BY <1>2, <2>1, <2>2, <2>3, <3>1 DEF NoticeAt
  <2>5. ASSUME NEW i \in 1 .. Len(inbox'[q])
        PROVE  /\ inbox'[q][i].kind = "finalized" => sub'[q].data # "none" \/ At(q, "inBlock", i - 1)'
               /\ inbox'[q][i].kind = "inBlock" => inbox'[q][i].block # NoBlock
    <3>1. CASE i \in 1 .. Len(inbox[q])
      <4>1. i - 1 \in 0 .. Len(inbox[q])
        BY <1>1, <3>1
      <4> QED BY <1>2, <2>1, <2>2, <3>1, <4>1 DEF NoticeAt
    <3>2. CASE i \notin 1 .. Len(inbox[q])
      <4>1. i = Len(inbox[q]) + 1 /\ i - 1 = Len(inbox[q]) /\ Len(inbox[q]) \in 0 .. Len(inbox[q])
        BY <1>1, <2>1, <3>2
      <4> QED BY <1>2, <2>1, <2>2, <4>1 DEF NoticeAt
    <3> QED BY <3>1, <3>2
  <2> QED BY <1>2, <2>4, <2>5 DEF NoticeAt
<1> QED BY <1>3, <1>4

LEMMA NoticeStep == TypeOK /\ PhaseInv /\ NoticeInv /\ [Next]_vars => NoticeInv'
<1> SUFFICES ASSUME TypeOK, PhaseInv, NoticeInv, [Next]_vars, NEW q \in Runs PROVE NoticeAt(q)'
  BY DEF NoticeInv
<1>0. NoticeAt(q) /\ PhaseAt(q) /\ inbox[q] \in Seq(Notification) /\ sub[q] \in Subscription
  BY DEF NoticeInv, PhaseInv, TypeOK
<1>a. CASE UNCHANGED <<sub, inbox, ext>>
  BY <1>0, <1>a DEF NoticeAt, At, Submitted, Watched
<1>b. ASSUME NEW s \in {"closed", "lost"}, NEW r \in Runs, UNCHANGED ext,
             sub' = [sub EXCEPT ![r].state = s], inbox' = [inbox EXCEPT ![r] = <<>>]
      PROVE  NoticeAt(q)'
  <2>1. sub'[q].block = sub[q].block /\ sub'[q].data = sub[q].data
    BY <1>0, <1>b DEF TypeOK, Subscription
  <2>2. CASE q = r
    <3>1. inbox'[q] = <<>> /\ sub'[q].state = s
      BY <1>b, <2>2 DEF TypeOK, Subscription
    <3> QED BY <1>0, <1>b, <2>1, <3>1 DEF NoticeAt, Submitted, Watched
  <2>3. CASE q # r
    <3>1. inbox'[q] = inbox[q] /\ sub'[q] = sub[q]
      BY <1>b, <2>3 DEF TypeOK
    <3> QED BY <1>0, <1>b, <3>1 DEF NoticeAt, At, Submitted, Watched
  <2> QED BY <2>2, <2>3
<1>1. ASSUME NEW r \in Runs, Call(r) \/ FeesCovered(r) \/ FeesNotCovered(r) \/ SignerCancels(r)
                             \/ NodeRefuses(r) \/ Succeed(r) \/ ListenerThrew(r)
      PROVE  NoticeAt(q)'
  BY <1>a, <1>1 DEF Call, FeesCovered, FeesNotCovered, SignerCancels, NodeRefuses, Succeed,
                    ListenerThrew
<1>2. ASSUME NEW r \in Runs, SignerApproves(r) PROVE NoticeAt(q)'
  <2>1. CASE q = r
    <3>1. ext'[q] = Pooled /\ inbox'[q] = <<[kind |-> "ready", block |-> NoBlock, result |-> "none"]>>
      BY <1>2, <2>1 DEF SignerApproves, TypeOK
    <3>2. sub'[q].block = sub[q].block /\ sub'[q].data = sub[q].data
      BY <1>0, <1>2 DEF SignerApproves, TypeOK, Subscription
    <3> QED BY <1>0, <3>1, <3>2 DEF NoticeAt, Pooled, Submitted
  <2>2. CASE q # r
    <3>1. inbox'[q] = inbox[q] /\ sub'[q] = sub[q] /\ ext'[q] = ext[q]
      BY <1>2, <2>2 DEF SignerApproves, TypeOK
    <3> QED BY <1>0, <3>1 DEF NoticeAt, At, Submitted, Watched
  <2> QED BY <2>1, <2>2
<1>3. ASSUME NEW r \in Runs, AnswerLost(r) PROVE NoticeAt(q)'
  BY <1>b, <1>3 DEF AnswerLost
<1>4. ASSUME NEW r \in Runs, OnReady(r) PROVE NoticeAt(q)'
  <2>1. sub'[q].block = sub[q].block /\ sub'[q].data = sub[q].data /\ (Watched(q)' /\ q # r => Watched(q))
    BY <1>0, <1>4 DEF OnReady, TypeOK, Subscription, Watched
  <2>2. ext' = ext
    BY <1>4 DEF OnReady
  <2>3. CASE q # r
    <3>1. inbox'[q] = inbox[q]
      BY <1>4, <2>3 DEF OnReady, TypeOK
    <3> QED BY <1>0, <2>1, <2>2, <2>3, <3>1 DEF NoticeAt, At, Submitted
  <2>4. CASE q = r
    <3>1. inbox[q] # <<>> /\ inbox[q][1].kind = "ready" /\ inbox'[q] = Tail(inbox[q])
      BY <1>0, <1>4, <2>4 DEF OnReady, Delivers, TypeOK
    <3>2. Watched(q)
      <4>1. pc[q] = "signing" /\ Submitted(q)
        BY <1>0, <3>1 DEF PhaseAt
      <4> QED BY <1>0, <4>1 DEF PhaseAt, Watched
    <3>3. ASSUME NEW n \in 1 .. Len(inbox[q]), At(q, "inBlock", n)
          PROVE  At(q, "inBlock", n - 1)'
      <4>1. PICK j \in 1 .. n : inbox[q][j].kind = "inBlock"
        BY <3>3 DEF At
      <4>2. j # 1 /\ j - 1 \in 1 .. n - 1 /\ j - 1 \in 1 .. Len(Tail(inbox[q]))
        BY <1>0, <3>1, <4>1
      <4>3. inbox'[q][j - 1] = inbox[q][j]
        BY <1>0, <3>1, <4>2
      <4> QED BY <4>1, <4>2, <4>3 DEF At
    <3>4. Len(inbox'[q]) = Len(inbox[q]) - 1 /\ Len(inbox[q]) \in 1 .. Len(inbox[q])
      BY <1>0, <3>1
    <3>5. ASSUME NEW i \in 1 .. Len(inbox'[q])
          PROVE  /\ inbox'[q][i].kind = "finalized" => sub'[q].data # "none" \/ At(q, "inBlock", i - 1)'
                 /\ inbox'[q][i].kind = "inBlock" => inbox'[q][i].block # NoBlock
      <4>1. inbox'[q][i] = inbox[q][i + 1] /\ i + 1 \in 1 .. Len(inbox[q])
        BY <1>0, <3>1, TailAt
      <4>2. CASE i = 1
        <5>1. ~At(q, "inBlock", 1)
          BY <3>1 DEF At
        <5> QED BY <1>0, <2>1, <4>1, <4>2, <5>1 DEF NoticeAt
      <4>3. CASE i # 1
        <5>1. i \in 1 .. Len(inbox[q]) /\ (i + 1) - 1 = i
          BY <3>4
        <5> QED BY <1>0, <2>1, <3>3, <4>1, <5>1 DEF NoticeAt
      <4> QED BY <4>2, <4>3
    <3>6. Watched(q)' /\ ext'[q].at \in {"block", "final"} =>
            sub'[q].data # "none" \/ At(q, "inBlock", Len(inbox[q]))'
      BY <1>0, <2>1, <2>2, <3>2, <3>3, <3>4 DEF NoticeAt
    <3> QED BY <1>0, <2>1, <2>2, <3>5, <3>6 DEF NoticeAt, Submitted
  <2> QED BY <2>3, <2>4
<1>5. ASSUME NEW r \in Runs, OnInBlock(r) PROVE NoticeAt(q)'
  <2>1. CASE q # r
    <3>1. inbox'[q] = inbox[q] /\ sub'[q] = sub[q] /\ ext' = ext
      BY <1>5, <2>1 DEF OnInBlock, TypeOK
    <3> QED BY <1>0, <3>1 DEF NoticeAt, At, Submitted, Watched
  <2>2. CASE q = r
    <3>1. inbox[q] # <<>> /\ inbox[q][1] = Head(inbox[q]) /\ inbox[q][1].kind = "inBlock" /\ ext' = ext
      BY <1>0, <1>5, <2>2 DEF OnInBlock, Delivers, TypeOK
    <3>2. inbox[q][1].block # NoBlock /\ Submitted(q)
      BY <1>0, <3>1 DEF NoticeAt, PhaseAt
    <3>3. sub'[q].block = inbox[q][1].block /\ sub'[q].data = "pending"
      BY <1>5, <2>2, <3>1 DEF OnInBlock, TypeOK
    <3>4. inbox'[q] = <<>> \/ inbox'[q] = Tail(inbox[q])
      BY <1>5, <2>2 DEF OnInBlock, TypeOK
    <3>5. ASSUME NEW i \in 1 .. Len(inbox'[q]), inbox'[q][i].kind = "inBlock"
          PROVE  inbox'[q][i].block # NoBlock
      <4>1. inbox'[q] = Tail(inbox[q])
        BY <3>4, <3>5
      <4>2. inbox'[q][i] = inbox[q][i + 1] /\ i + 1 \in 1 .. Len(inbox[q])
        BY <1>0, <3>1, <4>1, TailAt
      <4> QED BY <1>0, <3>5, <4>2 DEF NoticeAt
    <3> QED BY <1>0, <3>1, <3>2, <3>3, <3>5 DEF NoticeAt, Submitted
  <2> QED BY <2>1, <2>2
<1>6. ASSUME NEW r \in Runs, OnFinalized(r) PROVE NoticeAt(q)'
  <2>1. inbox' = [inbox EXCEPT ![r] = <<>>] /\ UNCHANGED ext
    BY <1>6 DEF OnFinalized
  <2>2. sub'[q].block = sub[q].block /\ sub'[q].data = sub[q].data
    BY <1>0, <1>6 DEF OnFinalized, TypeOK, Subscription
  <2>3. CASE q = r
    <3>1. inbox'[q] = <<>> /\ sub'[q].state = "closed"
      BY <1>6, <2>3 DEF OnFinalized, TypeOK, Subscription
    <3> QED BY <1>0, <2>1, <2>2, <3>1 DEF NoticeAt, Submitted, Watched
  <2>4. CASE q # r
    <3>1. inbox'[q] = inbox[q] /\ sub'[q] = sub[q]
      BY <1>6, <2>4 DEF OnFinalized, TypeOK
    <3> QED BY <1>0, <2>1, <3>1 DEF NoticeAt, At, Submitted, Watched
  <2> QED BY <2>3, <2>4
<1>7. ASSUME NEW r \in Runs, OnError(r) \/ LoseConnection(r) PROVE NoticeAt(q)'
  BY <1>b, <1>7 DEF OnError, LoseConnection
<1>8. ASSUME NEW r \in Runs, Answer(r) PROVE NoticeAt(q)'
  <2>1. PICK b \in Blocks : BlockFetched(r, b) \/ BlockFetchFails(r, b)
    BY <1>8 DEF Answer
  <2>2. inbox' = inbox /\ ext' = ext
    BY <2>1 DEF BlockFetched, BlockFetchFails
  <2>3. CASE sub' = sub
    BY <1>a, <2>2, <2>3
  <2>4. CASE sub' # sub
    <3>1. PICK d \in {"ok", "failed"} : b = sub[r].block /\ sub' = [sub EXCEPT ![r].data = d]
      BY <2>1, <2>4 DEF BlockFetched, BlockFetchFails
    <3>2. sub'[q].block = sub[q].block /\ sub'[q].state = sub[q].state
      BY <1>0, <3>1 DEF TypeOK, Subscription
    <3>3. sub'[q].data = sub[q].data \/ (q = r /\ sub'[q].data = d)
      BY <1>0, <3>1 DEF TypeOK, Subscription
    <3> QED BY <1>0, <2>2, <3>1, <3>2, <3>3, NoBlockAssumption DEF NoticeAt, At, Submitted, Watched
  <2> QED BY <2>3, <2>4
<1>9. ASSUME NEW r \in Runs, Include(r) PROVE NoticeAt(q)'
  <2>1. ext'[q] = ext[q] \/ (q = r /\ ext[q].at = "pool" /\ ext'[q].at = "block" /\ ext'[q].block # NoBlock)
    BY <1>9, NoBlockAssumption DEF Include, TypeOK
  <2>2. r \in Runs /\ ext[r].at = "pool" /\ ext'[r].block # NoBlock
    BY <1>9, NoBlockAssumption DEF Include, TypeOK
  <2>3. UNCHANGED client /\ Notify({r}, "inBlock")
    BY <1>9 DEF Include
  <2>4. /\ Submitted(q)' <=> Submitted(q)
        /\ ext'[q].at \in {"unsent", "pool"} => ext'[q].block = NoBlock
        /\ ext'[q].at \in {"block", "final"} => ext[q].at \in {"block", "final"} \/ q \in {r}
    BY <1>0, <2>1 DEF Submitted, NoticeAt
  <2> QED BY <1>0, <2>2, <2>3, <2>4, NotifyNotice
<1>10. ASSUME NEW r \in Runs, LeavePool(r) \/ FinalityTimeout(r) PROVE NoticeAt(q)'
  <2>1. ext'[q] = ext[q] \/ (ext[q].at = "pool" /\ ext'[q].at = "gone")
    BY <1>10 DEF LeavePool, FinalityTimeout, TypeOK, Extrinsic
  <2>2. UNCHANGED client /\ Notify({r}, "error")
    BY <1>10 DEF LeavePool, FinalityTimeout
  <2>3. /\ Submitted(q)' <=> Submitted(q)
        /\ ext'[q].at \in {"unsent", "pool"} => ext'[q].block = NoBlock
        /\ ext'[q].at \in {"block", "final"} => ext[q].at \in {"block", "final"}
    BY <1>0, <2>1 DEF Submitted, NoticeAt
  <2> QED BY <1>0, <2>2, <2>3, NotifyNotice
<1>11. ASSUME NEW b \in Blocks, Finalize(b) PROVE NoticeAt(q)'
  <2>1. ext'[q] = ext[q] \/ (ext[q].at = "block" /\ ext'[q].at = "final")
    BY <1>11 DEF Finalize, In, TypeOK, Extrinsic
  <2>2. UNCHANGED client /\ Notify(In(b), "finalized") /\ In(b) \in SUBSET Runs
    BY <1>11 DEF Finalize, In
  <2>3. /\ Submitted(q)' <=> Submitted(q)
        /\ ext'[q].at \in {"unsent", "pool"} => ext'[q].block = NoBlock
        /\ ext'[q].at \in {"block", "final"} => ext[q].at \in {"block", "final"}
        /\ q \in In(b) => ext[q].at = "block"
    BY <1>0, <2>1 DEF Submitted, NoticeAt, In
  <2> QED BY <1>0, <2>2, <2>3, NotifyNotice
<1>12. ASSUME NEW b \in Blocks, Retract(b) PROVE NoticeAt(q)'
  <2>1. inbox' = inbox /\ sub' = sub
    BY <1>12 DEF Retract, client
  <2>2. ext'[q] = ext[q] \/ (ext[q].at = "block" /\ ext'[q] = Pooled)
    BY <1>12 DEF Retract, In, TypeOK
  <2> QED BY <1>0, <2>1, <2>2 DEF NoticeAt, At, Submitted, Watched, Pooled
<1>13. CASE UNCHANGED vars
  BY <1>a, <1>13 DEF vars, client
<1> QED
  BY <1>1, <1>2, <1>3, <1>4, <1>5, <1>6, <1>7, <1>8, <1>9, <1>10, <1>11, <1>12, <1>13
     DEF Next, Callback
(* A block that an invocation goes by: as long as none was retracted, it   *)
(* is the one its extrinsic is in.                                         *)
Where(r, b) == b # NoBlock /\ (orphans = {} => b = ext[r].block)

(* The block data an invocation waits for have come.                       *)
Informed(r) == sub[r].data = "ok" \/ pc[r] \in {"resolving", "fulfilled", "thrownSucceeded"}

PlaceAt(r) ==
  /\ \A i \in 1 .. Len(inbox[r]) : inbox[r][i].kind = "inBlock" => Where(r, inbox[r][i].block)
  /\ \A b \in Blocks : <<r, b>> \in fetches => Submitted(r) /\ Where(r, b)
  /\ sub[r].block # NoBlock => Where(r, sub[r].block)
  /\ Informed(r) => Where(r, block)
  /\ pc[r] \in {"resolving", "fulfilled", "thrownSucceeded"} => receipt

(* What the fields of the object say, and whom its success comes from.     *)
ReportInv ==
  /\ \A r \in Runs : PlaceAt(r)
  /\ error <=> status \in {"Rejected", "Aborted", "Failed"}
  /\ status = "Succeeded" => \E r \in Runs : pc[r] \in {"fulfilled", "thrownSucceeded"}

LEMMA ReportInit == Init => ReportInv
<1> SUFFICES ASSUME Init PROVE ReportInv
  OBVIOUS
<1>1. ASSUME NEW r \in Runs PROVE PlaceAt(r)
  <2>1. pc[r] = "idle" /\ sub[r] = NoSub /\ inbox[r] = <<>> /\ fetches = {}
    BY DEF Init
  <2> QED BY <2>1 DEF PlaceAt, Informed, NoSub
<1> QED BY <1>1 DEF ReportInv, Init

(* The block of an extrinsic changes only where it is included again.      *)
LEMMA WhereStays ==
  ASSUME TypeOK, PhaseInv, NoticeInv, [Next]_vars, NEW q \in Runs, NEW b, Where(q, b)
  PROVE  Where(q, b)'
<1>0. NoticeAt(q) /\ PhaseAt(q)
  BY DEF NoticeInv, PhaseInv
<1>1. orphans' = {} => orphans = {} /\ (ext'[q].block = ext[q].block \/ ext[q].block = NoBlock)
  <2>1. ASSUME NEW r \in Runs, Include(r)
        PROVE  orphans' = orphans /\ (ext'[q] = ext[q] \/ ext[q].at = "pool")
    BY <2>1 DEF Include, TypeOK
  <2>2. ASSUME NEW r \in Runs, SignerApproves(r)
        PROVE  orphans' = orphans /\ (ext'[q] = ext[q] \/ ext[q].at = "unsent")
    BY <1>0, <2>2 DEF SignerApproves, PhaseAt, Submitted, TypeOK
  <2>3. ASSUME NEW r \in Runs, LeavePool(r) \/ FinalityTimeout(r)
        PROVE  orphans' = orphans /\ ext'[q].block = ext[q].block
    <3>1. ext[q] \in Extrinsic /\ [ext[q] EXCEPT !.at = "gone"].block = ext[q].block
      BY DEF TypeOK, Extrinsic
    <3>2. ext' = ext \/ ext' = [ext EXCEPT ![r].at = "gone"]
      BY <2>3 DEF LeavePool, FinalityTimeout
    <3> QED BY <2>3, <3>1, <3>2 DEF LeavePool, FinalityTimeout, TypeOK
  <2>4. ASSUME NEW c \in Blocks, Finalize(c)
        PROVE  orphans' = orphans /\ ext'[q].block = ext[q].block
    BY <2>4 DEF Finalize, In, TypeOK, Extrinsic
  <2>5. ASSUME NEW c \in Blocks, Retract(c) PROVE orphans' # {}
    BY <2>5 DEF Retract
  <2>6. CASE UNCHANGED vars
    BY <2>6 DEF vars
  <2>7. ASSUME NEW r \in Runs, Callback(r) \/ Answer(r) PROVE UNCHANGED <<ext, orphans>>
    BY <2>7 DEF Callback, Answer, OnReady, OnInBlock, OnFinalized, OnError, BlockFetched, BlockFetchFails
  <2>8. ASSUME NEW r \in Runs, Call(r) \/ FeesCovered(r) \/ FeesNotCovered(r) \/ SignerCancels(r)
                               \/ NodeRefuses(r) \/ AnswerLost(r) \/ Succeed(r) \/ ListenerThrew(r)
                               \/ LoseConnection(r)
        PROVE  UNCHANGED <<ext, orphans>>
    BY <2>8 DEF Call, FeesCovered, FeesNotCovered, SignerCancels, NodeRefuses, AnswerLost, Succeed,
                ListenerThrew, LoseConnection
  <2> QED
    BY <1>0, <2>1, <2>2, <2>3, <2>4, <2>5, <2>6, <2>7, <2>8 DEF Next, NoticeAt
<1> QED BY <1>1 DEF Where

(* An invocation was told of block b; it now has the data of a block that  *)
(* it asked for.                                                           *)
Told(q, b) == \E i \in 1 .. Len(inbox[q]) : inbox[q][i].kind = "inBlock" /\ inbox[q][i].block = b
Fetched(q) == \E b \in Blocks : <<q, b>> \in fetches /\ block' = b

(* Where the blocks that an invocation goes by come from.                  *)
Learns(q) ==
  /\ Submitted(q) => Submitted(q)'
  /\ sub'[q].block = sub[q].block \/ Told(q, sub'[q].block)
  /\ \A b \in Blocks : <<q, b>> \in fetches' => <<q, b>> \in fetches \/ Told(q, b)
  /\ Informed(q)' => Informed(q) \/ Fetched(q)
  /\ pc'[q] \in {"resolving", "fulfilled", "thrownSucceeded"} => pc[q] \in {"resolving", "fulfilled", "thrownSucceeded"} \/ receipt'
  /\ receipt => receipt'
  /\ block' = block \/ \E r \in Runs : Fetched(r)

(* Finish lets run() resolve only once it has the data of the last block.  *)
LEMMA FinishLearns ==
  ASSUME TypeOK, NEW r \in Runs, NEW w, NEW d, Finish(r, w, d), NEW q \in Runs
  PROVE  /\ receipt => receipt'
         /\ pc'[q] \in {"resolving", "fulfilled", "thrownSucceeded"} =>
              pc[q] \in {"resolving", "fulfilled", "thrownSucceeded"} \/ (q = r /\ receipt' /\ d \notin {"pending", "failed"})
BY DEF Finish, BlockDataPending, TypeOK

LEMMA LearnsStep ==
  ASSUME TypeOK, PhaseInv, NoticeInv, [Next]_vars, NEW q \in Runs
  PROVE  Learns(q)
<1>0. /\ NoticeAt(q) /\ PhaseAt(q) /\ inbox[q] \in Seq(Notification)
      /\ sub[q] \in Subscription /\ ext[q] \in Extrinsic
  BY DEF NoticeInv, PhaseInv, TypeOK
<1>1. ASSUME NEW r \in Runs, Call(r) \/ FeesCovered(r) \/ FeesNotCovered(r) \/ SignerCancels(r)
                             \/ NodeRefuses(r) \/ Succeed(r) \/ ListenerThrew(r)
      PROVE  Learns(q)
  <2>1. UNCHANGED <<sub, fetches, ext, receipt, block>>
    BY <1>1 DEF Call, FeesCovered, FeesNotCovered, SignerCancels, NodeRefuses, Succeed, ListenerThrew,
                Catch, UpdateStatus, object
  <2>2. pc'[q] \in {"resolving", "fulfilled", "thrownSucceeded"} => pc[q] \in {"resolving", "fulfilled", "thrownSucceeded"}
    BY <1>1 DEF Call, FeesCovered, FeesNotCovered, SignerCancels, NodeRefuses, Succeed, ListenerThrew,
                Catch, UpdateStatus, TypeOK
  <2> QED BY <2>1, <2>2 DEF Learns, Informed, Submitted
<1>2. ASSUME NEW r \in Runs, NEW s, sub' = [sub EXCEPT ![r].state = s],
             Submitted(q) => Submitted(q)', UNCHANGED <<fetches, block, receipt>>,
             pc'[q] \in {"resolving", "fulfilled", "thrownSucceeded"} => pc[q] \in {"resolving", "fulfilled", "thrownSucceeded"}
      PROVE  Learns(q)
  <2>1. sub'[q].block = sub[q].block /\ sub'[q].data = sub[q].data
    BY <1>0, <1>2 DEF TypeOK, Subscription
  <2> QED BY <1>2, <2>1 DEF Learns, Informed
<1>3. ASSUME NEW r \in Runs, SignerApproves(r) PROVE Learns(q)
  <2>1. Submitted(q) => Submitted(q)'
    BY <1>3 DEF SignerApproves, Submitted, Pooled, TypeOK
  <2> QED BY <1>2, <1>3, <2>1 DEF SignerApproves, object
<1>4. ASSUME NEW r \in Runs, AnswerLost(r) \/ OnReady(r) \/ OnError(r) \/ LoseConnection(r)
      PROVE  Learns(q)
  <2>1. \E s : sub' = [sub EXCEPT ![r].state = s]
    BY <1>4 DEF AnswerLost, OnReady, OnError, LoseConnection
  <2>2. UNCHANGED <<fetches, block, receipt, ext>>
    BY <1>4 DEF AnswerLost, OnReady, OnError, LoseConnection, RejectAborted, Catch, UpdateStatus, object
  <2>3. pc'[q] \in {"resolving", "fulfilled", "thrownSucceeded"} => pc[q] \in {"resolving", "fulfilled", "thrownSucceeded"}
    BY <1>4 DEF AnswerLost, OnReady, OnError, LoseConnection, RejectAborted, Catch, UpdateStatus,
                TypeOK
  <2> QED BY <1>2, <2>1, <2>2, <2>3 DEF Submitted
<1>5. ASSUME NEW r \in Runs, OnInBlock(r) PROVE Learns(q)
  <2>1. UNCHANGED <<ext, block>> /\ Finish(r, InBlockResult(Head(inbox[r]).result), "pending")
    BY <1>5 DEF OnInBlock
  <2>2. /\ receipt => receipt'
        /\ pc'[q] \in {"resolving", "fulfilled", "thrownSucceeded"} => pc[q] \in {"resolving", "fulfilled", "thrownSucceeded"}
    BY <2>1, FinishLearns
  <2>3. CASE q # r
    <3>1. sub'[q] = sub[q] /\ \A b \in Blocks : <<q, b>> \in fetches' => <<q, b>> \in fetches
      BY <1>5, <2>3 DEF OnInBlock, TypeOK
    <3> QED BY <2>1, <2>2, <3>1 DEF Learns, Informed, Submitted
  <2>4. CASE q = r
    <3>1. inbox[q] # <<>> /\ inbox[q][1] = Head(inbox[q]) /\ inbox[q][1].kind = "inBlock"
      BY <1>0, <1>5, <2>4 DEF OnInBlock, Delivers
    <3>2. Told(q, Head(inbox[q]).block)
      <4>1. 1 \in 1 .. Len(inbox[q])
        BY <1>0, <3>1
      <4> QED BY <3>1, <4>1 DEF Told
    <3>3. sub'[q].block = Head(inbox[q]).block /\ sub'[q].data = "pending"
      BY <1>5, <2>4 DEF OnInBlock, TypeOK
    <3>4. \A b \in Blocks : <<q, b>> \in fetches' => <<q, b>> \in fetches \/ b = Head(inbox[q]).block
      BY <1>5, <2>4 DEF OnInBlock
    <3> QED BY <2>1, <2>2, <3>2, <3>3, <3>4 DEF Learns, Informed, Submitted
  <2> QED BY <2>3, <2>4
<1>6. ASSUME NEW r \in Runs, OnFinalized(r) PROVE Learns(q)
  <2>1. UNCHANGED <<ext, block, fetches>> /\ Finish(r, FinalResult(r), sub[r].data)
    BY <1>6 DEF OnFinalized
  <2>2. sub'[q].block = sub[q].block /\ sub'[q].data = sub[q].data
    BY <1>0, <1>6 DEF OnFinalized, TypeOK, Subscription
  <2>3. q = r => sub[q].data # "none"
    <3> SUFFICES ASSUME q = r PROVE sub[q].data # "none"
      OBVIOUS
    <3>1. 1 \in 1 .. Len(inbox[q]) /\ inbox[q][1].kind = "finalized"
      BY <1>0, <1>6 DEF OnFinalized, Delivers
    <3>2. ~At(q, "inBlock", 1 - 1)
      BY DEF At
    <3> QED BY <1>0, <3>1, <3>2 DEF NoticeAt
  <2>4. /\ receipt => receipt'
        /\ pc'[q] \in {"resolving", "fulfilled", "thrownSucceeded"} =>
             pc[q] \in {"resolving", "fulfilled", "thrownSucceeded"}
               \/ (q = r /\ receipt' /\ sub[r].data \notin {"pending", "failed"})
    BY <2>1, FinishLearns
  <2>5. q = r /\ sub[r].data \notin {"pending", "failed"} => sub[q].data = "ok"
    BY <1>0, <2>3 DEF Subscription
  <2> QED BY <2>1, <2>2, <2>4, <2>5 DEF Learns, Informed, Submitted
<1>7. ASSUME NEW r \in Runs, Answer(r) PROVE Learns(q)
  <2>1. PICK b \in Blocks : BlockFetched(r, b) \/ BlockFetchFails(r, b)
    BY <1>7 DEF Answer
  <2>2. /\ <<r, b>> \in fetches /\ ext' = ext
        /\ \A c \in Blocks : <<q, c>> \in fetches' => <<q, c>> \in fetches
    BY <2>1 DEF BlockFetched, BlockFetchFails
  <2>3. block' = block \/ Fetched(r)
    BY <2>1, <2>2 DEF BlockFetched, BlockFetchFails, Fetched
  <2>4. CASE sub' = sub /\ UNCHANGED <<pc, receipt>>
    BY <2>2, <2>3, <2>4 DEF Learns, Informed, Submitted
  <2>5. CASE BlockFetched(r, b) /\ b = sub[r].block
    <3>1. sub' = [sub EXCEPT ![r].data = "ok"] /\ Finish(r, sub[r].waiting, "ok") /\ Fetched(r)
      BY <2>5, <2>2 DEF BlockFetched, Fetched
    <3>2. sub'[q].block = sub[q].block /\ (q # r => sub'[q].data = sub[q].data)
      BY <1>0, <3>1 DEF TypeOK, Subscription
    <3>3. /\ receipt => receipt'
          /\ pc'[q] \in {"resolving", "fulfilled", "thrownSucceeded"} =>
               pc[q] \in {"resolving", "fulfilled", "thrownSucceeded"} \/ (q = r /\ receipt')
      BY <3>1, FinishLearns
    <3> QED BY <2>2, <2>3, <3>1, <3>2, <3>3 DEF Learns, Informed, Submitted
  <2>6. CASE BlockFetchFails(r, b) /\ b = sub[r].block
    <3>1. sub' = [sub EXCEPT ![r].data = "failed"] /\ Finish(r, sub[r].waiting, "failed")
      BY <2>6 DEF BlockFetchFails
    <3>2. sub'[q].block = sub[q].block /\ (sub'[q].data = "ok" => sub[q].data = "ok")
      BY <1>0, <3>1 DEF TypeOK, Subscription
    <3>3. /\ receipt => receipt'
          /\ pc'[q] \in {"resolving", "fulfilled", "thrownSucceeded"} => pc[q] \in {"resolving", "fulfilled", "thrownSucceeded"}
      BY <3>1, FinishLearns
    <3> QED BY <2>2, <2>3, <3>2, <3>3 DEF Learns, Informed, Submitted
  <2> QED BY <2>1, <2>4, <2>5, <2>6 DEF BlockFetched, BlockFetchFails
<1>8. ASSUME NEW r \in Runs, Include(r) \/ LeavePool(r) \/ FinalityTimeout(r) PROVE Learns(q)
  <2>1. UNCHANGED client
    BY <1>8 DEF Include, LeavePool, FinalityTimeout
  <2>2. ext' = ext \/ ext'[q] = ext[q] \/ ext'[q].at \in {"block", "gone"}
    <3>1. [ext[q] EXCEPT !.at = "gone"].at = "gone"
      BY <1>0 DEF Extrinsic
    <3>2. CASE Include(r)
      BY <3>2 DEF Include, TypeOK
    <3>3. CASE LeavePool(r) \/ FinalityTimeout(r)
      BY <3>1, <3>3 DEF LeavePool, FinalityTimeout, TypeOK
    <3> QED BY <1>8, <3>2, <3>3
  <2> QED BY <2>1, <2>2 DEF Learns, Informed, Submitted, client, object
<1>9. ASSUME NEW b \in Blocks, Finalize(b) \/ Retract(b) PROVE Learns(q)
  <2>1. UNCHANGED client /\ (Submitted(q) => Submitted(q)')
    BY <1>0, <1>9 DEF Finalize, Retract, Submitted, Pooled, TypeOK, Extrinsic
  <2> QED BY <2>1 DEF Learns, Informed, client, object
<1>10. CASE UNCHANGED vars
  BY <1>10 DEF Learns, Informed, Submitted, vars, client, object
<1> QED
  BY <1>1, <1>3, <1>4, <1>5, <1>6, <1>7, <1>8, <1>9, <1>10 DEF Next, Callback
(* What the node tells of a block is of the block the extrinsic is in.     *)
LEMMA ToldStep ==
  ASSUME TypeOK, PhaseInv, NoticeInv, [Next]_vars, NEW q \in Runs,
         NEW i \in 1 .. Len(inbox'[q]), inbox'[q][i].kind = "inBlock"
  PROVE  \/ Told(q, inbox'[q][i].block)
         \/ inbox'[q][i].block = ext'[q].block /\ ext'[q].block # NoBlock
<1>0. inbox[q] \in Seq(Notification)
  BY DEF TypeOK
<1>1. CASE inbox'[q] = inbox[q]
  BY <1>1 DEF Told
<1>2. CASE inbox[q] # <<>> /\ inbox'[q] = Tail(inbox[q])
  BY <1>0, <1>2, TailAt DEF Told
<1>3. ASSUME NEW R \in SUBSET Runs, NEW kind, Notify(R, kind),
             kind = "inBlock" /\ q \in R => ext'[q].block # NoBlock
      PROVE  \/ Told(q, inbox'[q][i].block)
             \/ inbox'[q][i].block = ext'[q].block /\ ext'[q].block # NoBlock
  <2>1. CASE inbox'[q] # inbox[q]
    <3>0. Notify(R, kind)
      BY <1>3
    <3>1. /\ q \in R
          /\ Len(inbox'[q]) = Len(inbox[q]) + 1
          /\ \A j \in 1 .. Len(inbox[q]) : inbox'[q][j] = inbox[q][j]
          /\ inbox'[q][Len(inbox[q]) + 1].kind = kind
          /\ inbox'[q][Len(inbox[q]) + 1].block = ext'[q].block
      BY <2>1, <3>0, NotifyAppends
    <3>2. CASE i \in 1 .. Len(inbox[q])
      BY <3>1, <3>2 DEF Told
    <3>3. CASE i \notin 1 .. Len(inbox[q])
      <4>1. i = Len(inbox[q]) + 1
        BY <1>0, <3>1, <3>3
      <4> QED BY <1>3, <3>1, <4>1
    <3> QED BY <3>2, <3>3
  <2> QED BY <1>1, <2>1
<1>4. CASE inbox'[q] = <<>>
  BY <1>4
<1>5. CASE inbox'[q] = <<[kind |-> "ready", block |-> NoBlock, result |-> "none"]>>
  BY <1>5
<1>6. ASSUME NEW r \in Runs, SignerApproves(r) \/ AnswerLost(r) \/ LoseConnection(r)
      PROVE  \/ inbox'[q] \in {inbox[q], <<>>}
             \/ inbox'[q] = <<[kind |-> "ready", block |-> NoBlock, result |-> "none"]>>
  BY <1>6 DEF SignerApproves, AnswerLost, LoseConnection, TypeOK
<1>7. ASSUME NEW r \in Runs, Callback(r)
      PROVE  inbox'[q] \in {inbox[q], <<>>} \/ (inbox[q] # <<>> /\ inbox'[q] = Tail(inbox[q]))
  <2>1. inbox[r] # <<>> /\ inbox' \in {[inbox EXCEPT ![r] = <<>>], [inbox EXCEPT ![r] = Tail(@)]}
    BY <1>7 DEF Callback, OnReady, OnInBlock, OnFinalized, OnError, Delivers
  <2> QED BY <2>1 DEF TypeOK
<1>8. ASSUME NEW r \in Runs, Call(r) \/ FeesCovered(r) \/ FeesNotCovered(r) \/ SignerCancels(r)
                             \/ NodeRefuses(r) \/ Succeed(r) \/ ListenerThrew(r) \/ Answer(r)
      PROVE  inbox' = inbox
  BY <1>8 DEF Call, FeesCovered, FeesNotCovered, SignerCancels, NodeRefuses, Succeed, ListenerThrew,
              Answer, BlockFetched, BlockFetchFails
<1>9. ASSUME NEW r \in Runs, Include(r) \/ LeavePool(r) \/ FinalityTimeout(r)
      PROVE  \E kind : Notify({r}, kind) /\ (kind = "inBlock" => ext'[r].block # NoBlock)
  <2>1. CASE Include(r)
    <3>1. ext'[r].block # NoBlock
      BY <2>1, NoBlockAssumption DEF Include, TypeOK
    <3> QED BY <2>1, <3>1 DEF Include
  <2>2. CASE LeavePool(r) \/ FinalityTimeout(r)
    BY <2>2 DEF LeavePool, FinalityTimeout
  <2> QED BY <1>9, <2>1, <2>2
<1>10. ASSUME NEW b \in Blocks, Finalize(b) PROVE Notify(In(b), "finalized") /\ In(b) \in SUBSET Runs
  BY <1>10 DEF Finalize, In
<1>11. ASSUME NEW b \in Blocks, Retract(b) PROVE inbox' = inbox
  BY <1>11 DEF Retract
<1>12. CASE UNCHANGED vars
  BY <1>1, <1>12 DEF vars
<1>13. ASSUME NEW r \in Runs, Include(r) \/ LeavePool(r) \/ FinalityTimeout(r)
       PROVE  \/ Told(q, inbox'[q][i].block)
              \/ inbox'[q][i].block = ext'[q].block /\ ext'[q].block # NoBlock
  BY <1>3, <1>9, <1>13
<1>14. ASSUME NEW b \in Blocks, Finalize(b)
       PROVE  \/ Told(q, inbox'[q][i].block)
              \/ inbox'[q][i].block = ext'[q].block /\ ext'[q].block # NoBlock
  BY <1>3, <1>10, <1>14
<1> QED
  BY <1>1, <1>2, <1>4, <1>5, <1>6, <1>7, <1>8, <1>11, <1>12, <1>13, <1>14 DEF Next

(* What a call knows of its block stays true, while calls do not overlap:  *)
(* only its own requests set the block data of the object.                 *)
LEMMA PlaceStep ==
  ASSUME TypeOK, PhaseInv, SerialInv, NoticeInv, \A r \in Runs : PlaceAt(r), [Next]_vars,
         NEW q \in Runs
  PROVE  PlaceAt(q)'
<1>0. PlaceAt(q) /\ Learns(q) /\ NoticeAt(q) /\ PhaseAt(q)
  BY LearnsStep DEF NoticeInv, PhaseInv
<1>1. ASSUME NEW b, Told(q, b) PROVE Submitted(q) /\ Where(q, b)
  <2>1. PICK i \in 1 .. Len(inbox[q]) : inbox[q][i].kind = "inBlock" /\ inbox[q][i].block = b
    BY <1>1 DEF Told
  <2>2. inbox[q] # <<>>
    BY <2>1
  <2> QED BY <1>0, <2>1, <2>2 DEF PlaceAt, PhaseAt
<1>2. ASSUME NEW b, Where(q, b) PROVE b # NoBlock /\ (orphans' = {} => b = ext'[q].block)
  <2>1. Where(q, b)'
    BY <1>2, WhereStays
  <2> QED BY <2>1 DEF Where
<1>3. ASSUME NEW i \in 1 .. Len(inbox'[q]), inbox'[q][i].kind = "inBlock"
      PROVE  Where(q, inbox[q][i].block)'
  <2>1. \/ Told(q, inbox'[q][i].block)
        \/ inbox'[q][i].block = ext'[q].block /\ ext'[q].block # NoBlock
    BY <1>3, ToldStep
  <2>2. CASE Told(q, inbox'[q][i].block)
    <3>1. PICK b : b = inbox'[q][i].block
      OBVIOUS
    <3>2. b # NoBlock /\ (orphans' = {} => b = ext'[q].block)
      BY <1>1, <1>2, <2>2, <3>1
    <3> QED BY <3>1, <3>2 DEF Where
  <2> QED BY <2>1, <2>2 DEF Where
<1>4. ASSUME NEW b \in Blocks, <<q, b>> \in fetches' PROVE Submitted(q)' /\ Where(q, b)'
  <2>1. Submitted(q) /\ Where(q, b)
    BY <1>0, <1>1, <1>4 DEF Learns, PlaceAt
  <2>2. Submitted(q)'
    BY <1>0, <2>1 DEF Learns
  <2> QED BY <2>1, <2>2, WhereStays
<1>5. ASSUME sub'[q].block # NoBlock PROVE Where(q, sub[q].block)'
  <2>1. PICK b : b = sub'[q].block
    OBVIOUS
  <2>2. Where(q, b)
    BY <1>0, <1>1, <1>5, <2>1 DEF Learns, PlaceAt
  <2>3. b # NoBlock /\ (orphans' = {} => b = ext'[q].block)
    BY <1>2, <2>2
  <2> QED BY <2>1, <2>3 DEF Where
<1>6. ASSUME Informed(q)' PROVE Where(q, block)'
  <2>0. PICK b : b = block'
    OBVIOUS
  <2>1. Where(q, b)
    <3>1. CASE Fetched(q)
      BY <1>0, <2>0, <3>1 DEF Fetched, PlaceAt
    <3>2. CASE Informed(q) /\ block' = block
      BY <1>0, <2>0, <3>2 DEF PlaceAt
    <3>3. CASE Informed(q) /\ block' # block
      <4>1. PICK r \in Runs : Fetched(r)
        BY <1>0, <3>3 DEF Learns
      <4>2. Begun(r)
        BY <4>1 DEF Fetched, PlaceAt, PhaseInv, PhaseAt
      <4>3. Begun(q)
        <5>1. sub[q].data = "ok" => Submitted(q)
          BY <1>0 DEF NoticeAt
        <5> QED BY <1>0, <3>3, <5>1 DEF Informed, PhaseAt, Begun, Live, Settled, Thrown
      <4> QED BY <3>1, <4>1, <4>2, <4>3 DEF SerialInv
    <3> QED BY <1>0, <1>6, <3>1, <3>2, <3>3 DEF Learns
  <2>2. b # NoBlock /\ (orphans' = {} => b = ext'[q].block)
    BY <1>2, <2>1
  <2> QED BY <2>0, <2>2 DEF Where
<1>7. pc'[q] \in {"resolving", "fulfilled", "thrownSucceeded"} => receipt'
  BY <1>0 DEF Learns, PlaceAt
<1> QED BY <1>3, <1>4, <1>5, <1>6, <1>7 DEF PlaceAt

(* How a step moves the error and the status: it fails, or it goes on.     *)
Fails   == error' = TRUE /\ status' \in {"Rejected", "Aborted", "Failed"}
Goes(r) == /\ Live(r) /\ error' = error
           /\ \/ status' \in {"Unapproved", "Running"}
              \/ status' = "Succeeded" /\ pc'[r] \in {"fulfilled", "thrownSucceeded"}

LEMMA MarksStep ==
  ASSUME TypeOK, PhaseInv, [Next]_vars
  PROVE  UNCHANGED <<status, error>> \/ Fails \/ \E r \in Runs : Goes(r)
<1>1. ASSUME NEW r \in Runs, FeesCovered(r) \/ FeesNotCovered(r) \/ SignerCancels(r) \/ NodeRefuses(r)
                             \/ AnswerLost(r) \/ Succeed(r) \/ ListenerThrew(r)
      PROVE  Fails \/ Goes(r)
  BY <1>1 DEF FeesCovered, FeesNotCovered, SignerCancels, NodeRefuses, AnswerLost, Succeed,
              ListenerThrew, Catch, UpdateStatus, Fails, Goes, Live, TypeOK
<1>2. ASSUME NEW r \in Runs, OnReady(r) PROVE Fails \/ Goes(r)
  <2>1. inbox[r] \in Seq(Notification) /\ inbox[r] # <<>> /\ inbox[r][1].kind = "ready"
    BY <1>2 DEF OnReady, Delivers, TypeOK
  <2>2. pc[r] = "signing"
    BY <2>1 DEF PhaseInv, PhaseAt
  <2> QED BY <1>2, <2>2 DEF OnReady, UpdateStatus, Goes, Live
<1>3. ASSUME NEW r \in Runs, OnInBlock(r) \/ OnFinalized(r) \/ OnError(r)
      PROVE  UNCHANGED <<status, error>> \/ Fails
  BY <1>3 DEF OnInBlock, OnFinalized, OnError, Finish, RejectAborted, Catch, Fails, object
<1>4. ASSUME NEW r \in Runs, Answer(r) PROVE UNCHANGED <<status, error>> \/ Fails
  BY <1>4 DEF Answer, BlockFetched, BlockFetchFails, Finish, Fails
<1>5. ASSUME NEW r \in Runs, Call(r) \/ SignerApproves(r) \/ Include(r) \/ LeavePool(r)
                             \/ FinalityTimeout(r) \/ LoseConnection(r)
      PROVE  UNCHANGED <<status, error>>
  BY <1>5 DEF Call, SignerApproves, Include, LeavePool, FinalityTimeout, LoseConnection, client, object
<1>6. ASSUME NEW b \in Blocks, Finalize(b) \/ Retract(b) PROVE UNCHANGED <<status, error>>
  BY <1>6 DEF Finalize, Retract, client, object
<1>7. CASE UNCHANGED vars
  BY <1>7 DEF vars, client, object
<1> QED
  BY <1>1, <1>2, <1>3, <1>4, <1>5, <1>6, <1>7 DEF Next, Callback

LEMMA ReportStep == TypeOK /\ PhaseInv /\ SerialInv /\ NoticeInv /\ ReportInv /\ [Next]_vars => ReportInv'
<1> SUFFICES ASSUME TypeOK, PhaseInv, SerialInv, NoticeInv, ReportInv, [Next]_vars PROVE ReportInv'
  OBVIOUS
<1>1. ASSUME NEW q \in Runs PROVE PlaceAt(q)'
  BY PlaceStep DEF ReportInv
<1>2. ASSUME NEW r \in Runs, Live(r) PROVE ~error
  BY <1>2 DEF SerialInv, Announced, ReportInv, Terminal
<1>3. (error <=> status \in {"Rejected", "Aborted", "Failed"})'
  <2>1. CASE UNCHANGED <<status, error>>
    BY <2>1 DEF ReportInv
  <2>2. CASE Fails
    BY <2>2 DEF Fails
  <2>3. ASSUME NEW r \in Runs, Goes(r)
        PROVE  (error <=> status \in {"Rejected", "Aborted", "Failed"})'
    <3>1. error' = error /\ ~error /\ status' \notin {"Rejected", "Aborted", "Failed"}
      BY <1>2, <2>3 DEF Goes
    <3> QED BY <3>1
  <2> QED BY <2>1, <2>2, <2>3, MarksStep
<1>4. ASSUME NEW q \in Runs, pc[q] \in {"fulfilled", "thrownSucceeded"}
      PROVE  pc'[q] = pc[q] \/ status' # "Succeeded"
  BY <1>4, StepKinds DEF Rests, Calls, Advances, Live, Thrown, TypeOK
<1>5. (status = "Succeeded" => \E r \in Runs : pc[r] \in {"fulfilled", "thrownSucceeded"})'
  BY <1>4, MarksStep DEF ReportInv, Fails, Goes
<1> QED BY <1>1, <1>3, <1>5 DEF ReportInv

(* While calls of run() do not overlap, the error, the receipt and the     *)
(* block data of the object agree with its status, and as long as no block *)
(* is retracted a success names the block its extrinsic is in.             *)
THEOREM ReportsTruly ==
  ASSUME Overlap = FALSE
  PROVE  Spec => []ReportIsTrue
<1>1. PhaseInv /\ SerialInv /\ ReportInv => ReportIsTrue
  <2> SUFFICES ASSUME PhaseInv, SerialInv, ReportInv, status = "Succeeded"
               PROVE  /\ receipt /\ ~error /\ block # NoBlock
                      /\ orphans = {} => \A r \in Runs : Applied(r) => ext[r].block = block
    BY DEF ReportIsTrue, ReportInv
  <2>1. PICK r \in Runs : pc[r] \in {"fulfilled", "thrownSucceeded"}
    BY DEF ReportInv
  <2>2. receipt /\ Where(r, block)
    BY <2>1 DEF ReportInv, PlaceAt, Informed
  <2>3. ASSUME NEW q \in Runs, Applied(q) PROVE q = r
    <3>1. Begun(q) /\ Begun(r)
      BY <2>1, <2>3 DEF Applied, PhaseInv, PhaseAt, Submitted, Begun, Live, Settled, Thrown
    <3> QED BY <3>1 DEF SerialInv
  <2> QED BY <2>2, <2>3 DEF Where, ReportInv
<1> QED BY TypeInit, TypeStep, PhaseInit, PhaseStep, SerialInit, SerialStep, NoticeInit, NoticeStep,
           ReportInit, ReportStep, <1>1, PTL DEF Spec

-----------------------------------------------------------------------------
(* PolymeshTransaction implements TransactionLifecycle: when calls of      *)
(* run() do not overlap, what the object shows of its extrinsic is what    *)
(* its documentation promises.                                             *)

(* The status an invocation is known to find at each of its awaits.        *)
StatusAt(r) ==
  /\ pc[r] = "fees" => status = "Idle"
  /\ pc[r] \in {"signing", "thrownUnapproved"} => status = "Unapproved"
  /\ pc[r] \in {"watching", "resolving", "thrownRunning"} => status = "Running"

(* Only one invocation gets past the guard, so that the status is its own. *)
StatusInv ==
  /\ \A r \in Runs : StatusAt(r)
  /\ (\A r \in Runs : ~Begun(r)) => status = "Idle"

(* What has become of the extrinsic of one invocation.                     *)
Fate(r) ==
  IF ~Submitted(r) THEN "none"
  ELSE IF Applied(r) THEN "applied"
  ELSE IF ext[r].at \in {"pool", "block"} THEN "sent"
  ELSE "void"

LEMMA ViewOfOne ==
  ASSUME NEW r \in Runs, \A q \in Runs : q # r => ~Submitted(q)
  PROVE  ChainView = Fate(r)
BY DEF ChainView, Fate, Submitted, Applied

LEMMA ViewOfOneNext ==
  ASSUME NEW r \in Runs, \A q \in Runs : q # r => ~Submitted(q)'
  PROVE  ChainView' = Fate(r)'
BY DEF ChainView, Fate, Submitted, Applied

LEMMA ViewUnchanged ==
  ASSUME UNCHANGED ext
  PROVE  ChainView' = ChainView
BY DEF ChainView, Submitted, Applied

Serial == TypeOK /\ PhaseInv /\ FinalInv /\ SerialInv /\ StatusInv

-----------------------------------------------------------------------------
LEMMA StatusInit == Init => StatusInv
BY DEF Init, StatusInv, StatusAt

LEMMA Alone ==
  ASSUME PhaseInv, SerialInv, NEW r \in Runs, Begun(r)
  PROVE  \A q \in Runs : q # r => ~Begun(q) /\ ~Submitted(q)
BY DEF SerialInv, PhaseInv, PhaseAt

LEMMA FinishStatus ==
  ASSUME TypeOK, NEW r \in Runs, NEW w, NEW d, Finish(r, w, d)
  PROVE  \/ UNCHANGED <<status, pc>>
         \/ /\ pc[r] = "watching" /\ pc' = [pc EXCEPT ![r] = "rejected"] /\ status' = "Failed"
         \/ /\ pc[r] = "watching" /\ pc' = [pc EXCEPT ![r] = "resolving"] /\ status' = status
BY DEF Finish

(* What the status and a call do in one step, as the lifecycle sees it.    *)
Shows(r) ==
  \/ pc[r] = "fees" /\ pc'[r] \in {"signing", "thrownUnapproved"} /\ status' = "Unapproved"
       /\ UNCHANGED ext
  \/ pc[r] = "signing" /\ pc'[r] \in {"watching", "thrownRunning"} /\ status' = "Running"
       /\ UNCHANGED ext /\ Submitted(r)
  \/ pc[r] = "watching" /\ pc'[r] = "resolving" /\ UNCHANGED <<status, ext>>
  \/ pc[r] = "watching" /\ pc'[r] = "rejected" /\ status' = "Aborted" /\ UNCHANGED ext
  \/ pc[r] = "resolving" /\ pc'[r] \in {"fulfilled", "thrownSucceeded"} /\ status' = "Succeeded"
       /\ UNCHANGED ext
  \/ pc[r] = "signing" /\ pc'[r] = "rejected" /\ status' = "Rejected" /\ UNCHANGED ext
       /\ ~Submitted(r)
  \/ Live(r) /\ pc[r] \notin Thrown /\ pc'[r] = "rejected" /\ status' = "Failed" /\ UNCHANGED ext
  \/ pc[r] \in Thrown /\ pc'[r] = "rejected" /\ status' \in {"Failed", "Rejected", "Aborted"}
       /\ UNCHANGED ext
  \/ pc[r] = "signing" /\ pc'[r] = "signing" /\ UNCHANGED status
       /\ ~Submitted(r) /\ ext' = [ext EXCEPT ![r] = Pooled]

(* An extrinsic moves on the chain by itself.                              *)
Moves ==
  /\ UNCHANGED <<pc, status>>
  /\ \A q \in Runs :
       \/ ext'[q] = ext[q]
       \/ ext[q].at \in {"pool", "block"} /\ ext'[q].at # "unsent"

LEMMA Views ==
  ASSUME TypeOK, PhaseInv, SerialInv, [Next]_vars
  PROVE  \/ Moves
         \/ \E r \in Runs : Calls(r)
         \/ \E r \in Runs : Shows(r) /\ (\A q \in Runs : q # r => pc'[q] = pc[q])
<1> DEFINE Others(r) == \A q \in Runs : q # r => pc'[q] = pc[q]
<1>1. ASSUME NEW r \in Runs, Call(r) PROVE Calls(r)
  BY <1>1 DEF Call, Calls, AlreadyRun
<1>2. ASSUME NEW r \in Runs, FeesCovered(r) \/ FeesNotCovered(r) \/ NodeRefuses(r) \/ AnswerLost(r)
                             \/ Succeed(r) \/ ListenerThrew(r)
      PROVE  Shows(r) /\ Others(r)
  BY <1>2 DEF FeesCovered, FeesNotCovered, NodeRefuses, AnswerLost, Succeed, ListenerThrew,
              UpdateStatus, Catch, AwaitingSignature, Shows, Live, Thrown, TypeOK
<1>3. ASSUME NEW r \in Runs, SignerCancels(r) \/ SignerApproves(r) PROVE Shows(r) /\ Others(r)
  <2>1. ~Submitted(r)
    BY <1>3 DEF SignerCancels, SignerApproves, PhaseInv, PhaseAt
  <2> QED BY <1>3, <2>1 DEF SignerCancels, SignerApproves, AwaitingSignature, Catch, Shows, TypeOK,
                           object
<1>4. ASSUME NEW r \in Runs, OnReady(r) PROVE Shows(r) /\ Others(r)
  <2>1. inbox[r] \in Seq(Notification) /\ inbox[r] # <<>> /\ inbox[r][1].kind = "ready"
    BY <1>4 DEF OnReady, Delivers, TypeOK
  <2>2. pc[r] = "signing" /\ Submitted(r)
    BY <2>1 DEF PhaseInv, PhaseAt
  <2> QED BY <1>4, <2>2 DEF OnReady, UpdateStatus, Shows, TypeOK
<1>5. ASSUME NEW r \in Runs, NEW w, NEW d, Finish(r, w, d), ext' = ext
      PROVE  Moves \/ (Shows(r) /\ Others(r))
  BY <1>5, FinishStatus DEF Moves, Shows, Live, Thrown, TypeOK
<1>6. ASSUME NEW r \in Runs, OnInBlock(r) \/ OnFinalized(r) PROVE Moves \/ (Shows(r) /\ Others(r))
  BY <1>5, <1>6 DEF OnInBlock, OnFinalized
<1>7. ASSUME NEW r \in Runs, OnError(r) PROVE Moves \/ (Shows(r) /\ Others(r))
  BY <1>7 DEF OnError, RejectAborted, Catch, object, Moves, Shows, TypeOK
<1>8. ASSUME NEW r \in Runs, Answer(r) PROVE Moves \/ (Shows(r) /\ Others(r))
  <2>1. ext' = ext /\ ((\E w, d : Finish(r, w, d)) \/ UNCHANGED <<pc, status>>)
    BY <1>8 DEF Answer, BlockFetched, BlockFetchFails
  <2> QED BY <1>5, <2>1 DEF Moves
<1>9. ASSUME NEW r \in Runs, Include(r) \/ LeavePool(r) \/ FinalityTimeout(r) \/ LoseConnection(r)
      PROVE  Moves
  BY <1>9 DEF Include, LeavePool, FinalityTimeout, LoseConnection, client, object, Moves, TypeOK,
              Extrinsic
<1>10. ASSUME NEW b \in Blocks, Finalize(b) \/ Retract(b) PROVE Moves
  BY <1>10 DEF Finalize, Retract, In, Pooled, Moves, client, object, TypeOK, Extrinsic
<1>11. CASE UNCHANGED vars
  BY <1>11 DEF vars, client, object, Moves
<1> QED
  BY <1>1, <1>2, <1>3, <1>4, <1>6, <1>7, <1>8, <1>9, <1>10, <1>11 DEF Next, Callback
LEMMA StatusStep ==
  ASSUME Overlap = FALSE
  PROVE  Serial /\ [Next]_vars => StatusInv'
<1> SUFFICES ASSUME Serial, [Next]_vars PROVE StatusInv'
  OBVIOUS
<1> USE DEF Serial
<1>1. CASE Moves
  BY <1>1 DEF Moves, StatusInv, StatusAt, Begun, Live, Settled
<1>2. ASSUME NEW r \in Runs, Calls(r) PROVE StatusInv'
  <2>2. CASE hasRun
    BY <1>2, <2>2 DEF Calls, StatusInv, StatusAt, Begun, Live, Settled, Thrown, object, TypeOK
  <2>3. CASE ~hasRun
    <3>1. \A q \in Runs : ~Begun(q)
      BY <1>2, <2>3 DEF Calls, SerialInv, Begun, Live, Settled
    <3>2. status' = "Idle"
      BY <1>2, <3>1 DEF Calls, StatusInv, object
    <3>3. \A q \in Runs : pc'[q] \in {"signing", "watching", "resolving"} \cup Thrown => FALSE
      BY <1>2, <3>1 DEF Calls, Begun, Live, Thrown, TypeOK
    <3> QED BY <3>2, <3>3 DEF StatusInv, StatusAt, Thrown
  <2> QED BY <2>2, <2>3
<1>3. ASSUME NEW r \in Runs, Shows(r), \A q \in Runs : q # r => pc'[q] = pc[q] PROVE StatusInv'
  <2>1. Begun(r) /\ Begun(r)'
    BY <1>3 DEF Shows, Begun, Live, Settled, Thrown
  <2>2. \A q \in Runs : q # r => ~Begun(q)'
    BY <1>3, <2>1, Alone DEF Begun, Live, Settled
  <2>3. \A q \in Runs : q # r => StatusAt(q)'
    BY <2>2 DEF StatusAt, Begun, Live, Thrown
  <2>4. StatusAt(r)'
    BY <1>3 DEF Shows, StatusAt, StatusInv
  <2> QED BY <2>1, <2>3, <2>4 DEF StatusInv
<1> QED BY <1>1, <1>2, <1>3, Views

-----------------------------------------------------------------------------
(* The refinement *)

LEMMA RefinedInit == Init => Lifecycle!Init
BY DEF Init, Lifecycle!Init, ChainView, ErrorOnItsWay, Thrown, Submitted, Unsent

LEMMA RefinedStep ==
  ASSUME Overlap = FALSE
  PROVE  Serial /\ [Next]_vars => [Lifecycle!Next]_(Lifecycle!vars)
<1> SUFFICES ASSUME Serial, [Next]_vars
             PROVE  Lifecycle!Next \/ (status' = status /\ ChainView' = ChainView /\ ErrorOnItsWay' = ErrorOnItsWay)
  BY DEF Lifecycle!vars
<1> USE DEF Serial
<1>1. CASE Moves
  <2>0. ErrorOnItsWay' = ErrorOnItsWay
    BY <1>1 DEF Moves, ErrorOnItsWay
  <2>1. CASE \A q \in Runs : ~Submitted(q)
    <3>1. \A q \in Runs : ext'[q] = ext[q]
      BY <1>1, <2>1 DEF Moves, Submitted
    <3> QED BY <1>1, <2>0, <2>1, <3>1 DEF Moves, ChainView, Submitted
  <2>2. ASSUME NEW r \in Runs, Submitted(r)
        PROVE  Lifecycle!Next \/ (status' = status /\ ChainView' = ChainView /\ ErrorOnItsWay' = ErrorOnItsWay)
    <3>1. \A q \in Runs : q # r => ~Submitted(q) /\ ~Submitted(q)'
      <4>1. Begun(r)
        BY <2>2 DEF PhaseInv, PhaseAt
      <4> QED BY <1>1, <4>1, Alone DEF Moves, Submitted
    <3>2. ChainView = Fate(r) /\ ChainView' = Fate(r)'
      BY <3>1, ViewOfOne, ViewOfOneNext
    <3>3. Submitted(r)' /\ (ext'[r] = ext[r] \/ Fate(r) = "sent")
      BY <1>1, <2>2 DEF Moves, Submitted, Fate, Applied
    <3>4. Fate(r)' = Fate(r) \/ (Fate(r) = "sent" /\ Fate(r)' \in {"sent", "applied", "void"})
      BY <3>3 DEF Fate, Submitted, Applied
    <3> QED BY <1>1, <2>0, <3>2, <3>4 DEF Moves, Lifecycle!Next, Lifecycle!Settle
  <2> QED BY <2>1, <2>2
<1>2. ASSUME NEW r \in Runs, Calls(r)
      PROVE  status' = status /\ ChainView' = ChainView /\ ErrorOnItsWay' = ErrorOnItsWay
  <2>1. ErrorOnItsWay <=> ErrorOnItsWay'
    BY <1>2 DEF Calls, ErrorOnItsWay, Thrown, TypeOK
  <2>2. ErrorOnItsWay' = ErrorOnItsWay
    BY <2>1 DEF ErrorOnItsWay
  <2> QED BY <1>2, <2>2, ViewUnchanged DEF Calls, object
<1>3. ASSUME NEW r \in Runs, Shows(r), \A q \in Runs : q # r => pc'[q] = pc[q]
      PROVE  Lifecycle!Next \/ (status' = status /\ ChainView' = ChainView /\ ErrorOnItsWay' = ErrorOnItsWay)
  <2>1. /\ Begun(r) /\ StatusAt(r) /\ FinalAt(r)
        /\ \A q \in Runs : q # r => ~Submitted(q)
    BY <1>3, Alone DEF Shows, Begun, Live, Thrown, StatusInv, FinalInv
  <2>a. /\ ErrorOnItsWay <=> pc[r] \in Thrown
        /\ ErrorOnItsWay' <=> pc'[r] \in Thrown
    BY <1>3, <2>1, Alone DEF ErrorOnItsWay, Begun, Live
  <2>b. ErrorOnItsWay \in BOOLEAN /\ ErrorOnItsWay' \in BOOLEAN
    BY DEF ErrorOnItsWay
  <2>2. ChainView = Fate(r)
    BY <2>1, ViewOfOne
  <2>3. CASE UNCHANGED ext
    <3>1. ChainView' = ChainView
      BY <2>3, ViewUnchanged
    <3>2. CASE pc[r] = "fees" /\ status' = "Unapproved"
      BY <2>1, <2>a, <2>b, <3>1, <3>2 DEF StatusAt, Thrown, Lifecycle!Next, Lifecycle!Request,
                                         Lifecycle!Announce
    <3>3. CASE pc[r] = "signing" /\ status' = "Running" /\ Submitted(r)
      BY <2>1, <2>2, <2>a, <2>b, <3>1, <3>3 DEF StatusAt, Fate, Thrown, Lifecycle!Next,
                                              Lifecycle!Broadcast, Lifecycle!Announce
    <3>4. CASE pc[r] \notin Thrown /\ pc'[r] \notin Thrown /\ status' = status
      BY <2>a, <2>b, <3>1, <3>4
    <3>5. CASE pc[r] = "watching" /\ pc'[r] = "rejected" /\ status' = "Aborted"
      BY <2>1, <2>a, <2>b, <3>1, <3>5 DEF StatusAt, Thrown, Lifecycle!Next, Lifecycle!Abort,
                                         Lifecycle!End
    <3>6. CASE pc[r] = "resolving" /\ status' = "Succeeded"
      BY <2>1, <2>2, <2>a, <2>b, <3>1, <3>6 DEF StatusAt, FinalAt, Fate, Applied, Submitted, Thrown,
                                    Lifecycle!Next, Lifecycle!Succeed, Lifecycle!Announce
    <3>7. CASE pc[r] = "signing" /\ pc'[r] = "rejected" /\ status' = "Rejected" /\ ~Submitted(r)
      BY <2>1, <2>2, <2>a, <2>b, <3>1, <3>7 DEF StatusAt, Fate, Thrown, Lifecycle!Next,
                                              Lifecycle!Decline, Lifecycle!End
    <3>8. CASE Live(r) /\ pc[r] \notin Thrown /\ pc'[r] = "rejected" /\ status' = "Failed"
      BY <2>1, <2>a, <2>b, <3>1, <3>8 DEF StatusAt, Live, Thrown, Lifecycle!Next, Lifecycle!Fail,
                                         Lifecycle!End, Lifecycle!Ending
    <3>9. CASE /\ pc[r] \in Thrown /\ pc'[r] = "rejected"
               /\ status' \in {"Failed", "Rejected", "Aborted"}
      BY <2>a, <2>b, <3>1, <3>9 DEF Thrown, Lifecycle!Next, Lifecycle!Throw
    <3>10. pc[r] \in {"watching", "signing"} /\ pc'[r] \in {"resolving", "signing"} =>
             pc[r] \notin Thrown /\ pc'[r] \notin Thrown
      BY DEF Thrown
    <3> QED BY <1>3, <2>3, <3>2, <3>3, <3>4, <3>5, <3>6, <3>7, <3>8, <3>9, <3>10 DEF Shows
  <2>4. CASE pc[r] = "signing" /\ pc'[r] = "signing" /\ UNCHANGED status /\ ~Submitted(r)
               /\ ext' = [ext EXCEPT ![r] = Pooled]
    <3>1. ChainView' = Fate(r)'
      BY <2>1, <2>4, ViewOfOneNext DEF Submitted, TypeOK
    <3>2. Fate(r) = "none" /\ Fate(r)' = "sent"
      BY <2>4 DEF Fate, Submitted, Applied, Pooled, TypeOK
    <3> QED BY <2>1, <2>2, <2>4, <2>a, <2>b, <3>1, <3>2 DEF StatusAt, Thrown, Lifecycle!Next,
                                                          Lifecycle!Submit
  <2> QED BY <1>3, <2>3, <2>4 DEF Shows
<1> QED BY <1>1, <1>2, <1>3, Views

(* Calls that do not overlap show a lifecycle: a success is of an          *)
(* extrinsic that took effect, a rejection of one that never left, and     *)
(* nothing that has ended begins again; only the error of a status         *)
(* listener (updateStatus) ends it as any failure, even after a success.   *)
THEOREM LifecycleImplemented ==
  ASSUME Overlap = FALSE
  PROVE  Spec => ImplementsLifecycle
<1>1. Init => Serial
  BY TypeInit, PhaseInit, FinalInit, SerialInit, StatusInit DEF Serial
<1>2. Serial /\ [Next]_vars => Serial'
  BY TypeStep, PhaseStep, FinalStep, SerialStep, StatusStep DEF Serial
<1> QED BY <1>1, <1>2, RefinedInit, RefinedStep, PTL DEF Spec, ImplementsLifecycle, Lifecycle!Spec

-----------------------------------------------------------------------------
(* What the listeners of onProcessedByMiddleware are told, for every block *)
(* of the transaction, every number of attempts, and however far the chain *)
(* and the middleware are apart.                                           *)

Tidings == {"synced", "timeout", "failure"}

(* The types, without the bound on the queries, which is proved.           *)
PollTyping ==
  /\ outcome \in {"pending", "succeeded", "failed"}
  /\ throws \in BOOLEAN /\ done \in BOOLEAN
  /\ finalized \in 0 .. MaxBlock /\ processed \in 0 .. MaxBlock
  /\ target \in 0 .. MaxBlock
  /\ loop \in {"off", "head", "query", "next", "over"}
  /\ attempt \in 0 .. Attempts - 1 /\ queries \in Nat
  /\ events \in Seq(Tidings)

(* An iteration makes one query; nothing is told before the last attempt,  *)
(* unless the middleware has caught up.                                    *)
PollInv ==
  /\ loop \in {"off", "head"} => queries = 0
  /\ loop = "query" => queries = attempt
  /\ loop = "next" => queries = attempt + 1
  /\ queries <= Attempts
  /\ loop \in {"off", "head", "query"} => events = <<>> /\ done = FALSE
  /\ loop = "next" /\ done = FALSE /\ attempt + 1 < Attempts => events = <<>>

(* The block that is waited for is not before that of the transaction.     *)
TargetInv ==
  /\ outcome = "pending" => loop = "off"
  /\ outcome = "succeeded" => TxBlock <= finalized
  /\ outcome = "succeeded" /\ loop \in {"query", "next"} => TxBlock <= target

SyncInv == PollTyping /\ PollInv /\ TargetInv /\ ToldOnceAndTruly

-----------------------------------------------------------------------------
(* What the steps need of the constants.                                   *)
LEMMA PollBounds == MaxBlock \in Nat /\ TxBlock \in 0 .. MaxBlock /\ Attempts \in Nat /\ Attempts > 0
BY BoundAssumption

LEMMA PollInitInv == PollInit => SyncInv
<1> SUFFICES ASSUME PollInit PROVE SyncInv
  OBVIOUS
<1>1. PollTyping
  <2>1. <<>> \in Seq(Tidings)
    OBVIOUS
  <2>2. 0 \in 0 .. Attempts - 1 /\ 0 \in 0 .. MaxBlock
    BY PollBounds
  <2>3. finalized \in 0 .. MaxBlock /\ processed \in 0 .. MaxBlock
    BY PollBounds DEF PollInit
  <2> QED BY <2>1, <2>2, <2>3 DEF PollInit, PollTyping
<1>2. PollInv /\ TargetInv
  BY PollBounds DEF PollInit, PollInv, TargetInv
<1>3. Len(events) = 0 /\ ~Heard("synced") /\ ~Heard("timeout")
  BY DEF PollInit, Heard
<1> QED BY <1>1, <1>2, <1>3 DEF SyncInv, ToldOnceAndTruly

(* What an attempt tells, of a poll that has told nothing so far.          *)
Tells(told) ==
  \/ loop' = "next" /\ events' = told /\ ~LastAttempt
  \/ loop' = "next" /\ events' = Append(told, "timeout") /\ LastAttempt
  \/ loop' = "over" /\ events' = told \o <<"timeout", "failure">> /\ LastAttempt /\ throws

LEMMA RetryTells ==
  ASSUME NEW told, Retry(told)
  PROVE  Tells(told)
BY DEF Retry, ReportTimeout, Tells

(* An attempt leaves a poll that has told what is true.                    *)
LEMMA AttemptStep ==
  ASSUME SyncInv, loop = "query", queries' = queries + 1,
         UNCHANGED <<throws, outcome, chain, target, attempt>>,
         \/ done' = done /\ Tells(<<>>)
         \/ done' = TRUE /\ target <= processed /\ loop' = "next" /\ events' = <<"synced">>
         \/ done' = TRUE /\ target <= processed /\ throws /\ Tells(<<"synced">>)
  PROVE  SyncInv'
<1>1. /\ queries = attempt /\ attempt < Attempts /\ attempt \in Nat /\ done = FALSE /\ queries' = attempt + 1
      /\ LastAttempt <=> queries' = Attempts
  BY PollBounds DEF SyncInv, PollTyping, PollInv, LastAttempt
<1>2. events' \in {<<>>, <<"synced">>, <<"timeout">>, <<"timeout", "failure">>,
                   <<"synced", "timeout">>, <<"synced", "timeout", "failure">>}
  BY DEF Tells
<1>3. PollTyping'
  <2>1. events' \in Seq(Tidings)
    <3>1. "synced" \in Tidings /\ "timeout" \in Tidings /\ "failure" \in Tidings
      BY DEF Tidings
    <3>2. \A x, y, z \in Tidings : {<<>>, <<x>>, <<x, y>>, <<x, y, z>>} \subseteq Seq(Tidings)
      OBVIOUS
    <3> QED BY <1>2, <3>1, <3>2
  <2>2. loop' \in {"next", "over"}
    BY DEF Tells
  <2>3. done' \in BOOLEAN
    BY <1>1, Zenon
  <2>4. queries' \in Nat
    BY <1>1
  <2> QED BY <2>1, <2>2, <2>3, <2>4 DEF SyncInv, PollTyping, chain
<1>4. PollInv'
  <2>1. loop' = "next" /\ done' = FALSE /\ attempt + 1 < Attempts => events' = <<>>
    BY <1>1 DEF Tells
  <2>2. loop' \in {"next", "over"} /\ queries' <= Attempts
    BY <1>1, PollBounds DEF Tells
  <2> QED BY <1>1, <2>1, <2>2 DEF PollInv
<1>5. TargetInv'
  BY DEF SyncInv, TargetInv, Tells, chain
<1>6. ToldOnceAndTruly'
  <2>1. ~throws => Len(events') <= 1
    BY DEF Tells
  <2>2. Heard("synced")' => target <= processed
    BY DEF Tells, Heard
  <2>3. Heard("timeout")' => LastAttempt
    BY DEF Tells, Heard
  <2>4. outcome = "succeeded" => TxBlock <= target
    BY DEF SyncInv, TargetInv
  <2>5. outcome' = "succeeded" /\ Heard("synced")' => TxBlock <= processed'
    BY <2>2, <2>4, PollBounds DEF SyncInv, PollTyping, chain
  <2> QED BY <1>1, <2>1, <2>3, <2>5 DEF ToldOnceAndTruly
<1> QED BY <1>3, <1>4, <1>5, <1>6 DEF SyncInv

LEMMA PollStepInv == SyncInv /\ [PollNext]_pollVars => SyncInv'
<1> SUFFICES ASSUME SyncInv, [PollNext]_pollVars PROVE SyncInv'
  OBVIOUS
<1>1. CASE FinalizeBlock \/ ProcessBlock
  <2>1. /\ UNCHANGED <<throws, outcome, loop, target, attempt, done, queries, events>>
        /\ finalized' \in 0 .. MaxBlock /\ processed' \in 0 .. MaxBlock
        /\ finalized <= finalized' /\ processed <= processed'
    BY <1>1, PollBounds DEF FinalizeBlock, ProcessBlock, SyncInv, PollTyping
  <2>2. PollTyping' /\ PollInv'
    BY <2>1 DEF SyncInv, PollTyping, PollInv
  <2>3. TargetInv'
    BY <2>1, PollBounds DEF SyncInv, PollTyping, TargetInv
  <2>4. Heard("synced")' = Heard("synced") /\ Heard("timeout")' = Heard("timeout")
    BY <2>1 DEF Heard
  <2>5. ToldOnceAndTruly'
    BY <2>1, <2>4, PollBounds DEF SyncInv, PollTyping, ToldOnceAndTruly
  <2> QED BY <2>2, <2>3, <2>5 DEF SyncInv
<1>2. CASE Settle
  <2>1. loop = "off" /\ events = <<>> /\ queries = 0 /\ done = FALSE
    BY <1>2 DEF Settle, SyncInv, PollInv, TargetInv
  <2>2. /\ UNCHANGED <<throws, chain, target, attempt, done, queries, events>>
        /\ loop' \in {"head", "over"}
        /\ outcome' = "failed" \/ (outcome' = "succeeded" /\ TxBlock <= finalized)
    BY <1>2, PollBounds DEF Settle, SyncInv, PollTyping
  <2>3. PollTyping' /\ PollInv' /\ TargetInv'
    BY <2>1, <2>2, PollBounds DEF SyncInv, PollTyping, PollInv, TargetInv, chain
  <2>4. ~Heard("synced")' /\ ~Heard("timeout")' /\ Len(events') = 0
    BY <2>1, <2>2 DEF Heard
  <2> QED BY <2>3, <2>4 DEF SyncInv, ToldOnceAndTruly
<1>3. CASE HeadArrives
  <2>1. events = <<>> /\ queries = 0 /\ done = FALSE
    BY <1>3 DEF HeadArrives, SyncInv, PollInv
  <2>2. /\ UNCHANGED <<throws, outcome, chain, done, queries, events>>
        /\ loop = "head" /\ loop' = "query" /\ target' = finalized /\ attempt' = 0
    BY <1>3 DEF HeadArrives, LatestBlock
  <2>3. PollTyping' /\ PollInv' /\ TargetInv'
    BY <2>1, <2>2, PollBounds DEF SyncInv, PollTyping, PollInv, TargetInv, chain
  <2>4. ~Heard("synced")' /\ ~Heard("timeout")' /\ Len(events') = 0
    BY <2>1, <2>2 DEF Heard
  <2> QED BY <2>3, <2>4 DEF SyncInv, ToldOnceAndTruly
<1>4. CASE HeadFails
  <2>1. events = <<>> /\ queries = 0 /\ done = FALSE
    BY <1>4 DEF HeadFails, SyncInv, PollInv
  <2>2. /\ UNCHANGED <<throws, outcome, chain, target, attempt, done, queries>>
        /\ loop = "head" /\ loop' = "over" /\ events' = <<"failure">>
    BY <1>4, <2>1 DEF HeadFails
  <2>3. PollTyping' /\ PollInv' /\ TargetInv'
    BY <2>1, <2>2, PollBounds DEF SyncInv, PollTyping, PollInv, TargetInv, chain, Tidings
  <2>4. ~Heard("synced")' /\ ~Heard("timeout")' /\ Len(events') = 1
    BY <2>2 DEF Heard
  <2> QED BY <2>3, <2>4 DEF SyncInv, ToldOnceAndTruly
<1>5. CASE Synced
  <2>1. loop = "query" /\ events = <<>>
    BY <1>5 DEF Synced, SyncInv, PollInv
  <2>2. (events' = <<"synced">> /\ loop' = "next") \/ (throws /\ Tells(<<"synced">>))
    BY <1>5, <2>1, RetryTells DEF Synced
  <2> QED BY <1>5, <2>1, <2>2, AttemptStep DEF Synced, CaughtUp
<1>6. CASE NotSynced \/ QueryFails
  <2>1. loop = "query" /\ events = <<>>
    BY <1>6 DEF NotSynced, QueryFails, SyncInv, PollInv
  <2>2. Tells(<<>>)
    BY <1>6, <2>1, RetryTells DEF NotSynced, QueryFails
  <2> QED BY <1>6, <2>1, <2>2, AttemptStep DEF NotSynced, QueryFails
<1>7. CASE Continue
  <2>1. /\ loop = "next" /\ queries = attempt + 1
        /\ UNCHANGED <<throws, outcome, chain, target, done, queries, events>>
    BY <1>7 DEF Continue, SyncInv, PollInv
  <2>2. \/ Stop /\ loop' = "over" /\ attempt' = attempt
        \/ ~Stop /\ loop' = "query" /\ attempt' = attempt + 1
    BY <1>7 DEF Continue
  <2>3. ~Stop => done = FALSE /\ attempt + 1 < Attempts /\ events = <<>>
    BY <2>1, PollBounds DEF Stop, SyncInv, PollTyping, PollInv
  <2>4. PollTyping' /\ PollInv'
    BY <2>1, <2>2, <2>3, PollBounds DEF SyncInv, PollTyping, PollInv, chain
  <2>5. TargetInv'
    BY <2>1, <2>2 DEF SyncInv, TargetInv, chain
  <2>6. Heard("synced")' = Heard("synced") /\ Heard("timeout")' = Heard("timeout")
    BY <2>1 DEF Heard
  <2>7. ToldOnceAndTruly'
    BY <2>1, <2>6 DEF SyncInv, ToldOnceAndTruly, chain
  <2> QED BY <2>4, <2>5, <2>7 DEF SyncInv
<1>8. CASE UNCHANGED pollVars
  BY <1>8 DEF pollVars, SyncInv, PollTyping, PollInv, TargetInv, ToldOnceAndTruly, Heard
<1> QED BY <1>1, <1>2, <1>3, <1>4, <1>5, <1>6, <1>7, <1>8 DEF PollNext

(* The variables of emitWhenMiddlewareIsSynced keep their types; no more   *)
(* queries are made than there are attempts.                               *)
THEOREM PollTypeCorrect == PollSpec => []PollTypeOK
<1>1. SyncInv => PollTypeOK
  BY PollBounds DEF SyncInv, PollTyping, PollInv, PollTypeOK, Tidings
<1> QED BY PollInitInv, PollStepInv, <1>1, PTL DEF PollSpec

(* A listener that does not throw is told once, and what any listener is   *)
(* told is true: that its block was processed, or that every attempt to    *)
(* see it processed was made (emitWhenMiddlewareIsSynced).                 *)
THEOREM ToldTheTruth == PollSpec => []ToldOnceAndTruly
<1>1. SyncInv => ToldOnceAndTruly
  BY DEF SyncInv
<1> QED BY PollInitInv, PollStepInv, <1>1, PTL DEF PollSpec
=============================================================================
