--------------------------- MODULE Procedure_proofs ---------------------------
(***************************************************************************)
(* Proofs about the signing context and the calls of procedure methods:    *)
(* for every set of managers, accounts, calls, options and requirements,   *)
(* and whatever the user does to the SDK's context meanwhile.              *)
(***************************************************************************)
EXTENDS Procedure, TLAPS

(* A manager is asked for accounts only if there is one, and what it lists *)
(* are accounts.                                                           *)
LEMMA ListedIsAccount ==
  ASSUME NEW m \in Managers, NEW a, Lists(m, a)
  PROVE  a \in Accounts
BY AccountsAssumption DEF Lists

LEMMA HeadIsListed ==
  ASSUME NEW m \in Managers, AccountsOf[m] # <<>>
  PROVE  Head(AccountsOf[m]) \in Accounts /\ Lists(m, Head(AccountsOf[m]))
<1>1. AccountsOf[m] \in Seq(Accounts)
  BY AccountsAssumption
<1> QED BY <1>1 DEF Lists

-----------------------------------------------------------------------------
(* The signing context *)

(* An operation that is pending was given a manager, the one it asked.     *)
Attached == \A u \in Ops : Pending(u) => op[u].manager \in Managers

ContextInv == ContextTypeOK /\ Attached

LEMMA ContextInitInv == ContextInit => ContextInv
BY HeadIsListed DEF ContextInit, ContextInv, ContextTypeOK, Attached, Pending, Connected, Signing,
                    Closure

LEMMA LookUpInv ==
  ASSUME ContextInv, NEW u \in Ops, NEW a \in Accounts, LookUp(u, a)
  PROVE  /\ op' \in [Ops -> Closure]
         /\ \A v \in Ops : op'[v].at \in {"first", "find"} => op'[v].manager \in Managers
BY DEF LookUp, Ends, Finding, ContextInv, ContextTypeOK, Attached, Pending, Signing, Closure

LEMMA ContextStepInv == ContextInv /\ ContextNext => ContextInv'
<1> SUFFICES ASSUME ContextInv, ContextNext PROVE ContextInv'
  OBVIOUS
<1> USE DEF ContextInv, ContextTypeOK, Attached, Pending
<1>1. PICK u \in Ops :
        \/ UnsetSigningManager(u)
        \/ \E m \in Managers : SetSigningManager(u, m)
        \/ \E a \in Accounts : SetSigningAddress(u, a)
        \/ FirstAccount(u) \/ FindAccount(u) \/ AccountsFail(u)
  BY DEF ContextNext
<1>2. CASE UnsetSigningManager(u) \/ AccountsFail(u) \/ FindAccount(u)
  BY <1>2 DEF UnsetSigningManager, AccountsFail, FindAccount, Ends, Signing, Closure
<1>3. ASSUME NEW m \in Managers, SetSigningManager(u, m) PROVE ContextInv'
  BY <1>3, ManagerAssumption DEF SetSigningManager, Signing, Closure
<1>4. ASSUME NEW a \in Accounts, SetSigningAddress(u, a) PROVE ContextInv'
  BY <1>4, LookUpInv DEF SetSigningAddress
<1>5. CASE FirstAccount(u)
  <2>1. op[u].manager \in Managers
    BY <1>5 DEF FirstAccount
  <2>2. CASE AccountsOf[op[u].manager] = <<>>
    BY <1>5, <2>2 DEF FirstAccount, Ends, Signing, Closure
  <2>3. CASE AccountsOf[op[u].manager] # <<>>
    BY <1>5, <2>1, <2>3, HeadIsListed, LookUpInv DEF FirstAccount
  <2> QED BY <2>2, <2>3
<1> QED BY <1>1, <1>2, <1>3, <1>4, <1>5

(* When operations do not overlap, the one that is pending asked the       *)
(* manager the SDK has.                                                    *)
OneAtATime ==
  /\ \A u, v \in Ops : Pending(u) /\ Pending(v) => u = v
  /\ \A u \in Ops : Pending(u) => op[u].manager = context.manager
  /\ AddressBelongs

LEMMA OneAtATimeInit == ContextInit => OneAtATime
BY HeadIsListed, ManagerAssumption
   DEF ContextInit, OneAtATime, AddressBelongs, Pending, Connected, Consistent

LEMMA OneAtATimeStep ==
  ASSUME Overlap = FALSE
  PROVE  ContextInv /\ OneAtATime /\ ContextNext => OneAtATime'
<1> SUFFICES ASSUME ContextInv, OneAtATime, ContextNext PROVE OneAtATime'
  OBVIOUS
<1> USE DEF ContextInv, ContextTypeOK, Pending
<1>1. PICK u \in Ops :
        \/ UnsetSigningManager(u)
        \/ \E m \in Managers : SetSigningManager(u, m)
        \/ \E a \in Accounts : SetSigningAddress(u, a)
        \/ FirstAccount(u) \/ FindAccount(u) \/ AccountsFail(u)
  BY DEF ContextNext
<1>2. /\ \A v \in Ops : v # u => ~Pending(v) /\ op'[v] = op[v]
      /\ op'[u].at \in {"first", "find", "done", "failed"}
  BY <1>1 DEF UnsetSigningManager, SetSigningManager, SetSigningAddress, FirstAccount, FindAccount,
              AccountsFail, Starts, LookUp, Finding, Ends, OneAtATime, Closure
<1>3. op'[u].at \in {"first", "find"} => op'[u].manager = context'.manager
  <2>1. CASE UnsetSigningManager(u) \/ FindAccount(u) \/ AccountsFail(u)
    BY <2>1 DEF UnsetSigningManager, FindAccount, AccountsFail, Ends, Closure
  <2>2. ASSUME NEW m \in Managers, SetSigningManager(u, m)
        PROVE  op'[u].manager = context'.manager
    BY <2>2 DEF SetSigningManager, Signing, Closure
  <2>3. ASSUME NEW a, LookUp(u, a), op'[u].at \in {"first", "find"}
        PROVE  op'[u].manager = context.manager
    BY <2>3 DEF LookUp, Finding, Ends, Closure
  <2>4. CASE \E a \in Accounts : SetSigningAddress(u, a)
    BY <2>3, <2>4 DEF SetSigningAddress
  <2>5. CASE FirstAccount(u)
    <3>1. CASE AccountsOf[op[u].manager] = <<>>
      BY <2>5, <3>1 DEF FirstAccount, Ends, Closure
    <3>2. CASE AccountsOf[op[u].manager] # <<>>
      BY <2>3, <2>5, <3>2 DEF FirstAccount
    <3> QED BY <3>1, <3>2
  <2> QED BY <1>1, <2>1, <2>2, <2>4, <2>5
<1>4. op'[u].at = "done" => Consistent(context')
  <2>1. CASE UnsetSigningManager(u)
    BY <2>1 DEF UnsetSigningManager, Consistent
  <2>2. CASE AccountsFail(u) \/ (\E m \in Managers : SetSigningManager(u, m))
               \/ (\E a \in Accounts : SetSigningAddress(u, a))
    BY <2>2 DEF AccountsFail, SetSigningManager, SetSigningAddress, LookUp, Finding, Ends, Closure
  <2>3. CASE FirstAccount(u)
    BY <2>3 DEF FirstAccount, LookUp, Finding, Ends, Consistent, Closure, Signing
  <2>4. CASE FindAccount(u)
    <3>1. op[u].manager = context.manager /\ op[u].manager \in Managers
      BY <2>4 DEF FindAccount, OneAtATime, Attached
    <3>2. CASE IsKnown(op[u].manager, op[u].address)
      <4>1. context' = [context EXCEPT !.address = op[u].address]
        BY <2>4, <3>2 DEF FindAccount
      <4>2. context'.manager = op[u].manager /\ context'.address = op[u].address
        BY <3>1, <4>1 DEF Signing
      <4> QED BY <3>1, <3>2, <4>2, ManagerAssumption DEF Consistent, IsKnown
    <3>3. CASE ~IsKnown(op[u].manager, op[u].address)
      BY <2>4, <3>3 DEF FindAccount, Ends, Closure
    <3> QED BY <3>2, <3>3
  <2> QED BY <1>1, <2>1, <2>2, <2>3, <2>4
<1> QED BY <1>2, <1>3, <1>4 DEF OneAtATime, AddressBelongs
-----------------------------------------------------------------------------
(* The calls *)

Call   == [at : Stages, kind : {"prepare", "check"}, account : Accounts \cup {NoAccount},
           need : Requirement]
Answer == [account : Accounts \cup {NoAccount}, noIdentity : BOOLEAN, roles : BOOLEAN,
           agent : BOOLEAN, signer : BOOLEAN, frozen : BOOLEAN]
Held   == [context : Signing, storage : BOOLEAN]

CallTypeOK ==
  /\ call \in [Calls -> Call]
  /\ start \in [Calls -> Signing] /\ own \in [Calls -> Signing]
  /\ instance \in [Calls -> Held]
  /\ told \in [Calls -> Answer]
  /\ work \in [Calls -> {"off", "running", "done", "failed", "fatal"}]
  /\ result \in [Calls -> [kind : {"pending", "tx", "status", "rejected"},
                           reason : {"none", "setup", "query", "identity", "frozen",
                                     "signer", "agent", "roles", "prepare", "fatal"},
                           signing : Signing]]

LEMMA TypeIsBoth == TypeOK <=> ContextTypeOK /\ CallTypeOK
BY DEF TypeOK, CallTypeOK, Call, Answer, Held

LEMMA CallTypeInit == Init => CallTypeOK
BY DEF Init, CallTypeOK, NotCalled, NoNeed, NoSigning, Untold, Clean, Open, Stages, Querying, Signing,
       Requirement, Call, Answer, Held

LEMMA SettleType ==
  ASSUME CallTypeOK, NEW c \in Calls, NEW kind \in {"tx", "status", "rejected"},
         NEW reason \in {"none", "setup", "query", "identity", "frozen",
                         "signer", "agent", "roles", "prepare", "fatal"},
         NEW signing \in Signing, Settle(c, kind, reason, signing), work' = work
  PROVE  CallTypeOK'
<1>1. /\ [NotCalled EXCEPT !.at = "over"] \in Call
      /\ NoSigning \in Signing /\ Untold \in Answer /\ Clean \in Held
  BY DEF NotCalled, NoNeed, NoSigning, Untold, Clean, Stages, Signing, Requirement, Call, Answer, Held
<1> QED BY <1>1 DEF Settle, CallTypeOK

LEMMA RejectType ==
  ASSUME CallTypeOK, NEW c \in Calls,
         NEW reason \in {"none", "setup", "query", "identity", "frozen",
                         "signer", "agent", "roles", "prepare", "fatal"},
         Reject(c, reason), work' = work
  PROVE  CallTypeOK'
BY SettleType DEF Reject, NoSigning, Signing

LEMMA GotoType ==
  ASSUME CallTypeOK, NEW c \in Calls, NEW stage \in Stages, Goto(c, stage)
  PROVE  call' \in [Calls -> Call]
<1>1. [call[c] EXCEPT !.at = stage] \in Call
  <2>1. call[c] \in Call
    BY DEF CallTypeOK
  <2> QED BY <2>1 DEF Call
<1> QED BY <1>1 DEF Goto, CallTypeOK

LEMMA TellType ==
  ASSUME CallTypeOK, NEW c \in Calls, NEW answer \in Answer, NEW stage \in Stages,
         Tell(c, answer, stage)
  PROVE  CallTypeOK'
BY GotoType DEF Tell, CallTypeOK

LEMMA ContinueType ==
  ASSUME CallTypeOK, NEW c \in Calls, NEW stage \in Stages, Continue(c, stage), work' = work
  PROVE  CallTypeOK'
BY GotoType DEF Continue, CallTypeOK

LEMMA SetContextType ==
  ASSUME CallTypeOK, NEW c \in Calls, NEW signing \in Signing, SetContext(c, signing), work' = work
  PROVE  CallTypeOK'
<1>1. [context |-> signing, storage |-> FALSE] \in Held /\ "storage" \in Stages
  BY DEF Held, Stages
<1> QED BY <1>1, GotoType DEF SetContext, CallTypeOK

LEMMA CallTypeStep == TypeOK /\ [Next]_vars => CallTypeOK'
<1> SUFFICES ASSUME TypeOK, [Next]_vars PROVE CallTypeOK'
  OBVIOUS
<1>0. CallTypeOK /\ context \in Signing
  BY TypeIsBoth DEF ContextTypeOK
<1>1. CASE UserOperation \/ UNCHANGED vars
  BY <1>0, <1>1 DEF UserOperation, vars, procVars, CallTypeOK
<1>2. ASSUME NEW c \in Calls, NEW kind \in {"prepare", "check"}, NEW account \in Options,
             Begin(c, kind, account)
      PROVE  CallTypeOK'
  <2>1. [at |-> "nonce", kind |-> kind, account |-> account, need |-> NoNeed] \in Call
    BY OptionsAssumption DEF Call, NoNeed, Stages, Requirement
  <2> QED BY <1>0, <1>2, <2>1 DEF Begin, CallTypeOK
<1>3. ASSUME NEW c \in Calls, NonceReady(c) PROVE CallTypeOK'
  <2>1. CASE call[c].account = NoAccount
    BY <1>0, <1>3, <2>1, SetContextType DEF NonceReady, Cloned, CallTypeOK
  <2>2. CASE call[c].account # NoAccount /\ own[c].manager = NoManager
    BY <1>0, <1>3, <2>2, RejectType DEF NonceReady
  <2>3. CASE call[c].account # NoAccount /\ own[c].manager # NoManager
    BY <1>0, <1>3, <2>3, ContinueType DEF NonceReady, Stages
  <2> QED BY <2>1, <2>2, <2>3
<1>4. ASSUME NEW c \in Calls, AccountFound(c) PROVE CallTypeOK'
  <2>1. CASE IsKnown(own[c].manager, call[c].account)
    <3>1. [own[c] EXCEPT !.address = call[c].account] \in Signing
      BY <1>0 DEF CallTypeOK, Signing, Call
    <3> QED BY <1>0, <1>4, <2>1, <3>1, SetContextType DEF AccountFound
  <2>2. CASE ~IsKnown(own[c].manager, call[c].account)
    BY <1>0, <1>4, <2>2, RejectType DEF AccountFound
  <2> QED BY <2>1, <2>2
<1>5. ASSUME NEW c \in Calls, SetupFails(c) \/ QueryFails(c) PROVE CallTypeOK'
  BY <1>0, <1>5, RejectType DEF SetupFails, QueryFails
<1>6. ASSUME NEW c \in Calls, StorageReady(c) PROVE CallTypeOK'
  <2>1. [instance[c] EXCEPT !.storage = TRUE] \in Held /\ instance[c].context \in Signing
    <3>1. instance[c] \in Held
      BY <1>0 DEF CallTypeOK
    <3> QED BY <3>1 DEF Held
  <2> QED BY <1>0, <1>6, <2>1, GotoType DEF StorageReady, CallTypeOK, Stages, Querying
<1>7. ASSUME NEW c \in Calls, Authorize(c) PROVE CallTypeOK'
  <2>1. PICK need \in Needs :
          IF own[c].address = NoAccount
            THEN Reject(c, "query")
            ELSE /\ told' = [told EXCEPT ![c] = [Untold EXCEPT !.account = own[c].address,
                                                 !.roles = need.roles # "unmet"]]
                 /\ call' = [call EXCEPT ![c].need = need,
                             ![c].at = IF need.roles = "ask" THEN "roles" ELSE "agent"]
                 /\ UNCHANGED <<start, own, instance, result>>
    BY <1>7 DEF Authorize
  <2>2. work' = work /\ need \in Requirement
    BY <1>7, NeedsAssumption DEF Authorize
  <2>3. CASE own[c].address = NoAccount
    BY <1>0, <2>1, <2>2, <2>3, RejectType
  <2>4. CASE own[c].address # NoAccount
    <3> DEFINE next == IF need.roles = "ask" THEN "roles" ELSE "agent"
    <3>1. [[call[c] EXCEPT !.need = need] EXCEPT !.at = next] \in Call
      <4>1. call[c] \in Call
        BY <1>0 DEF CallTypeOK
      <4>2. next \in Stages
        BY DEF Stages, Querying
      <4> HIDE DEF next
      <4> QED BY <2>2, <4>1, <4>2 DEF Call
    <3>2. call' = [call EXCEPT ![c] = [[call[c] EXCEPT !.need = need] EXCEPT !.at = next]]
      BY <1>0, <2>1, <2>4 DEF CallTypeOK
    <3>3. [Untold EXCEPT !.account = own[c].address, !.roles = need.roles # "unmet"] \in Answer
      <4>1. own[c].address \in Accounts \cup {NoAccount}
        BY <1>0 DEF CallTypeOK, Signing
      <4>2. Untold \in Answer
        BY DEF Untold, Answer
      <4> HIDE DEF Untold
      <4> QED BY <4>1, <4>2 DEF Answer
    <3> HIDE DEF next
    <3>4. call' \in [Calls -> Call]
      BY <1>0, <3>1, <3>2 DEF CallTypeOK
    <3>5. told' \in [Calls -> Answer]
      BY <1>0, <2>1, <2>4, <3>3 DEF CallTypeOK
    <3>6. UNCHANGED <<start, own, instance, result, work>>
      BY <2>1, <2>2, <2>4
    <3> QED BY <1>0, <3>4, <3>5, <3>6 DEF CallTypeOK
  <2> QED BY <2>3, <2>4
<1>8. ASSUME NEW c \in Calls, RolesAnswered(c) \/ SignerAnswered(c) \/ FrozenAnswered(c)
      PROVE  CallTypeOK'
  <2>0. told[c] \in Answer
    BY <1>0 DEF CallTypeOK
  <2>1. ASSUME NEW n \in BOOLEAN, NEW h \in BOOLEAN
        PROVE  /\ [told[c] EXCEPT !.noIdentity = n, !.roles = h] \in Answer
               /\ [told[c] EXCEPT !.signer = h] \in Answer
               /\ [told[c] EXCEPT !.frozen = h] \in Answer
    <3>1. [told[c] EXCEPT !.noIdentity = n, !.roles = h] \in Answer
      BY <2>0 DEF Answer
    <3>2. [told[c] EXCEPT !.signer = h] \in Answer
      BY <2>0 DEF Answer
    <3>3. [told[c] EXCEPT !.frozen = h] \in Answer
      BY <2>0 DEF Answer
    <3> QED BY <3>1, <3>2, <3>3
  <2>2. {"agent", "frozen", "decide"} \subseteq Stages
    BY DEF Stages, Querying
  <2> QED BY <1>0, <1>8, <2>1, <2>2, TellType DEF RolesAnswered, SignerAnswered, FrozenAnswered
<1>9. ASSUME NEW c \in Calls, AgentAnswered(c) PROVE CallTypeOK'
  <2>1. CASE Reject(c, "query") /\ UNCHANGED <<contextVars, work>>
    BY <1>0, <2>1, RejectType
  <2>2. ASSUME NEW n \in BOOLEAN, NEW g \in BOOLEAN
        PROVE  /\ [told[c] EXCEPT !.noIdentity = n, !.agent = g] \in Answer
               /\ [told[c] EXCEPT !.agent = g] \in Answer
    <3>1. told[c] \in Answer
      BY <1>0 DEF CallTypeOK
    <3>2. [told[c] EXCEPT !.noIdentity = n, !.agent = g] \in Answer
      BY <3>1 DEF Answer
    <3>3. [told[c] EXCEPT !.agent = g] \in Answer
      BY <3>1 DEF Answer
    <3> QED BY <3>2, <3>3
  <2>3. "signer" \in Stages
    BY DEF Stages, Querying
  <2> QED BY <1>0, <1>9, <2>1, <2>2, <2>3, TellType DEF AgentAnswered
<1>10. ASSUME NEW c \in Calls, Decide(c) PROVE CallTypeOK'
  <2>1. CASE call[c].kind = "check"
    BY <1>0, <1>10, <2>1, SettleType DEF Decide, NoSigning, Signing
  <2>2. CASE call[c].kind # "check" /\ Verdict(c) # "none"
    BY <1>0, <1>10, <2>2, RejectType DEF Decide, Verdict, Refusal
  <2>3. CASE call[c].kind # "check" /\ Verdict(c) = "none"
    BY <1>0, <1>10, <2>3, ContinueType DEF Decide, Checked, Continue, Stages
  <2> QED BY <2>1, <2>2, <2>3
<1>11. ASSUME NEW c \in Calls, WorkEnds(c) PROVE CallTypeOK'
  BY <1>0, <1>11 DEF WorkEnds, CallTypeOK
<1>12. ASSUME NEW c \in Calls, Build(c) PROVE CallTypeOK'
  BY <1>0, <1>12, RejectType, SettleType DEF Build, CallTypeOK
<1> QED
  BY <1>1, <1>2, <1>3, <1>4, <1>5, <1>6, <1>7, <1>8, <1>9, <1>10, <1>11, <1>12 DEF Next, Queries
(* Only the user's operations change the SDK's context.                    *)
LEMMA ContextSteps == [Next]_vars => ContextNext \/ UNCHANGED contextVars
BY DEF Next, UserOperation, vars, Begin, NonceReady, AccountFound, SetupFails, StorageReady, Queries,
       Authorize, RolesAnswered, AgentAnswered, SignerAnswered, FrozenAnswered, QueryFails, Tell, Decide,
       WorkEnds, Build

(* The whole state has its type, for every set of calls and operations.    *)
THEOREM TypeCorrect == Spec => []TypeOK
<1>1. Init => TypeOK /\ ContextInv
  BY ContextInitInv, CallTypeInit, TypeIsBoth DEF Init, ContextInv
<1>2. TypeOK /\ ContextInv /\ [Next]_vars => (TypeOK /\ ContextInv)'
  <2> SUFFICES ASSUME TypeOK, ContextInv, [Next]_vars PROVE ContextInv' /\ CallTypeOK'
    BY TypeIsBoth DEF ContextInv, TypeOK, CallTypeOK, Call, Answer, Held
  <2>1. ASSUME UNCHANGED contextVars PROVE ContextInv'
    BY <2>1 DEF ContextInv, ContextTypeOK, Attached, Pending, contextVars
  <2>2. ContextInv'
    BY <2>1, ContextSteps, ContextStepInv
  <2> QED BY <2>2, CallTypeStep
<1> QED BY <1>1, <1>2, PTL DEF Spec

-----------------------------------------------------------------------------
(* What a call holds on to *)

(* The call was set up with the account asked for, or the one of the SDK's *)
(* context when it was made, and the manager of that moment.               *)
SetUp(c) ==
  /\ own[c].manager = start[c].manager
  /\ own[c].address = (IF call[c].account = NoAccount THEN start[c].address ELSE call[c].account)
  /\ call[c].account # NoAccount => Lists(own[c].manager, own[c].address)

(* Stage by stage: until it is set up the clone is what was cloned; from   *)
(* then on it stays as set up, is what the authorization is asked about,   *)
(* and the instance keeps its storage, so that no work fails for want of   *)
(* it before the call settles.                                             *)
CallAt(c) ==
  /\ call[c].at \in {"nonce", "account"} => own[c] = start[c]
  /\ call[c].at = "account" => call[c].account # NoAccount
  /\ call[c].at \in {"storage", "decide", "work"} \cup Querying => SetUp(c)
  /\ call[c].at = "storage" => instance[c].context = own[c]
  /\ call[c].at \in {"decide", "work"} \cup Querying => instance[c].storage
  /\ call[c].at \in {"decide", "work"} \cup (Querying \ {"authorize"}) =>
       told[c].account = own[c].address
  /\ call[c].at = "work" => Refusal(told[c]) = "none"
  /\ call[c].at \in {"idle", "nonce", "account", "storage"} => work[c] = "off"
  /\ call[c].at # "over" => work[c] # "fatal"
  /\ result[c].reason # "fatal"

CallInv == \A c \in Calls : CallAt(c)

Same(d) ==
  /\ call'[d] = call[d] /\ start'[d] = start[d] /\ own'[d] = own[d]
  /\ instance'[d] = instance[d] /\ told'[d] = told[d] /\ work'[d] = work[d]
  /\ result'[d] = result[d]

StepOf(c) ==
  \/ \E kind \in {"prepare", "check"}, account \in Options : Begin(c, kind, account)
  \/ NonceReady(c) \/ AccountFound(c) \/ SetupFails(c) \/ StorageReady(c)
  \/ Queries(c) \/ Decide(c)
  \/ WorkEnds(c) \/ Build(c)

(* Calls share nothing but the SDK's context.                              *)
LEMMA CallsAreApart ==
  ASSUME CallTypeOK, NEW c \in Calls, StepOf(c), NEW d \in Calls, d # c
  PROVE  Same(d)
<1>1. ASSUME NEW kind, NEW reason, NEW signing, Settle(c, kind, reason, signing)
      PROVE  work' = work => Same(d)
  BY <1>1 DEF Settle, Same, CallTypeOK
<1>2. ASSUME NEW stage, Continue(c, stage)
      PROVE  work' = work => Same(d)
  BY <1>2 DEF Continue, Goto, Same, CallTypeOK
<1>3. ASSUME NEW signing, SetContext(c, signing)
      PROVE  work' = work => Same(d)
  BY <1>3 DEF SetContext, Goto, Same, CallTypeOK
<1>4. ASSUME NEW answer, NEW stage, Tell(c, answer, stage)
      PROVE  Same(d)
  BY <1>4 DEF Tell, Goto, Same, CallTypeOK
<1>5. ASSUME NEW kind \in {"prepare", "check"}, NEW account \in Options, Begin(c, kind, account)
      PROVE  Same(d)
  BY <1>5 DEF Begin, Same, CallTypeOK
<1>6. CASE NonceReady(c) \/ AccountFound(c) \/ SetupFails(c)
  BY <1>1, <1>2, <1>3, <1>6 DEF NonceReady, AccountFound, SetupFails, Reject
<1>7. CASE StorageReady(c) \/ WorkEnds(c)
  BY <1>7 DEF StorageReady, WorkEnds, Goto, Same, CallTypeOK
<1>8. CASE Authorize(c)
  BY <1>1, <1>8 DEF Authorize, Reject, Same, CallTypeOK
<1>9. CASE RolesAnswered(c) \/ AgentAnswered(c) \/ SignerAnswered(c) \/ FrozenAnswered(c)
             \/ QueryFails(c)
  BY <1>1, <1>4, <1>9 DEF RolesAnswered, AgentAnswered, SignerAnswered, FrozenAnswered, QueryFails,
                          Reject
<1>10. CASE Decide(c) \/ Build(c)
  BY <1>1, <1>2, <1>10 DEF Decide, Build, Reject, Continue, Checked
<1> QED
  BY <1>5, <1>6, <1>7, <1>8, <1>9, <1>10 DEF StepOf, Queries

LEMMA SettledAt ==
  ASSUME CallTypeOK, NEW c \in Calls, NEW kind, NEW reason, NEW signing,
         Settle(c, kind, reason, signing), work' = work, CallAt(c), reason # "fatal"
  PROVE  CallAt(c)'
<1>1. call'[c].at = "over" /\ result'[c].reason # "fatal"
  BY DEF Settle, CallTypeOK, NotCalled
<1> QED BY <1>1 DEF CallAt, Querying

LEMMA CallInit == Init => CallInv
BY DEF Init, CallInv, CallAt, NotCalled, Open, Querying

LEMMA CallStep == TypeOK /\ CallInv /\ [Next]_vars => CallInv'
<1> SUFFICES ASSUME TypeOK, CallInv, [Next]_vars, NEW d \in Calls PROVE CallAt(d)'
  BY DEF CallInv
<1>0. CallTypeOK /\ CallAt(d)
  BY TypeIsBoth DEF CallInv
<1>1. ASSUME Same(d) PROVE CallAt(d)'
  BY <1>0, <1>1 DEF Same, CallAt, SetUp
<1>2. CASE UserOperation \/ UNCHANGED vars
  BY <1>1, <1>2 DEF UserOperation, vars, procVars, Same
<1>3. ASSUME NEW c \in Calls, StepOf(c), c # d PROVE CallAt(d)'
  BY <1>0, <1>1, <1>3, CallsAreApart
<1>4. CASE StepOf(d)
  <2>1. ASSUME NEW kind \in {"prepare", "check"}, NEW account \in Options, Begin(d, kind, account)
        PROVE  CallAt(d)'
    BY <1>0, <2>1 DEF Begin, CallAt, CallTypeOK, Querying
  <2>2. ASSUME NEW reason, Reject(d, reason), reason # "fatal", work' = work PROVE CallAt(d)'
    BY <1>0, <2>2, SettledAt DEF Reject
  <2>3. CASE NonceReady(d)
    <3>1. CASE call[d].account = NoAccount
      BY <1>0, <2>3, <3>1 DEF NonceReady, SetContext, Goto, Cloned, CallAt, SetUp, CallTypeOK, Call,
                              Querying
    <3>2. CASE call[d].account # NoAccount /\ own[d].manager = NoManager
      BY <2>2, <2>3, <3>2 DEF NonceReady
    <3>3. CASE call[d].account # NoAccount /\ own[d].manager # NoManager
      BY <1>0, <2>3, <3>3 DEF NonceReady, Continue, Goto, CallAt, CallTypeOK, Call, Querying
    <3> QED BY <3>1, <3>2, <3>3
  <2>4. CASE AccountFound(d)
    <3>1. CASE IsKnown(own[d].manager, call[d].account)
      <4> DEFINE new == [own[d] EXCEPT !.address = call[d].account]
      <4>1. /\ new.manager = start[d].manager /\ new.address = call[d].account
            /\ call[d].account # NoAccount /\ Lists(new.manager, new.address)
        BY <1>0, <2>4, <3>1 DEF AccountFound, IsKnown, CallAt, CallTypeOK, Signing
      <4>2. SetContext(d, new)
        BY <2>4, <3>1 DEF AccountFound
      <4>3. call[d].at = "account" /\ work' = work
        BY <2>4 DEF AccountFound
      <4> HIDE DEF new
      <4> QED BY <1>0, <4>1, <4>2, <4>3 DEF SetContext, Goto, CallAt, SetUp, CallTypeOK, Call, Querying
    <3>2. CASE ~IsKnown(own[d].manager, call[d].account)
      BY <2>2, <2>4, <3>2 DEF AccountFound
    <3> QED BY <3>1, <3>2
  <2>5. CASE SetupFails(d) \/ QueryFails(d)
    BY <2>2, <2>5 DEF SetupFails, QueryFails
  <2>6. CASE StorageReady(d)
    BY <1>0, <2>6 DEF StorageReady, Goto, CallAt, SetUp, CallTypeOK, Call, Held, Querying
  <2>7. CASE Authorize(d)
    BY <1>0, <2>2, <2>7 DEF Authorize, CallAt, SetUp, CallTypeOK, Call, Untold, Querying
  <2>8. ASSUME NEW answer, NEW stage \in {"agent", "signer", "frozen", "decide"},
               Tell(d, answer, stage), answer.account = told[d].account,
               call[d].at \in {"roles", "agent", "signer", "frozen"}
        PROVE  CallAt(d)'
    BY <1>0, <2>8 DEF Tell, Goto, CallAt, SetUp, CallTypeOK, Call, Querying
  <2>9. CASE RolesAnswered(d) \/ SignerAnswered(d) \/ FrozenAnswered(d)
    <3>1. told[d] \in Answer
      BY <1>0 DEF CallTypeOK
    <3> QED BY <2>8, <2>9, <3>1 DEF RolesAnswered, SignerAnswered, FrozenAnswered, Answer
  <2>10. CASE AgentAnswered(d)
    <3>1. told[d] \in Answer
      BY <1>0 DEF CallTypeOK
    <3> QED BY <2>2, <2>8, <2>10, <3>1 DEF AgentAnswered, Answer
  <2>11. CASE Decide(d)
    <3>1. CASE call[d].kind = "check"
      BY <1>0, <2>11, <3>1, SettledAt DEF Decide
    <3>2. CASE call[d].kind # "check" /\ Verdict(d) # "none"
      BY <2>2, <2>11, <3>2 DEF Decide, Verdict, Refusal
    <3>3. CASE call[d].kind # "check" /\ Verdict(d) = "none"
      BY <1>0, <2>11, <3>3 DEF Decide, Goto, Checked, Verdict, CallAt, SetUp, CallTypeOK, Call, Querying
    <3> QED BY <3>1, <3>2, <3>3
  <2>12. CASE WorkEnds(d)
    BY <1>0, <2>12 DEF WorkEnds, CallAt, SetUp, CallTypeOK, Call, Stages, Querying
  <2>13. CASE Build(d)
    BY <1>0, <2>2, <2>13, SettledAt DEF Build, CallAt
  <2> QED
    BY <1>4, <2>1, <2>3, <2>4, <2>5, <2>6, <2>7, <2>9, <2>10, <2>11, <2>12, <2>13 DEF StepOf, Queries
<1> QED BY <1>2, <1>3, <1>4 DEF Next, StepOf
-----------------------------------------------------------------------------
(* What a step may tell the caller *)

LEMMA SettlesWith ==
  ASSUME CallTypeOK, NEW c \in Calls, NEW kind, NEW reason, NEW signing,
         Settle(c, kind, reason, signing)
  PROVE  /\ result'[c].kind = kind /\ result'[c].reason = reason
         /\ result'[c].signing = signing
BY DEF Settle, CallTypeOK

(* Only the last step of a call builds a transaction or tells of a failed  *)
(* preparation.                                                            *)
LEMMA OnlyBuild ==
  ASSUME CallTypeOK, [Next]_vars, NEW c \in Calls, result'[c] # result[c], ~Build(c)
  PROVE  result'[c].kind # "tx" /\ result'[c].reason # "prepare"
<1>1. ASSUME NEW reason, Reject(c, reason), reason # "prepare"
      PROVE  result'[c].kind # "tx" /\ result'[c].reason # "prepare"
  BY <1>1, SettlesWith DEF Reject
<1>2. StepOf(c)
  <2>1. CASE UserOperation \/ UNCHANGED vars
    BY <2>1 DEF UserOperation, vars, procVars
  <2>2. ASSUME NEW d \in Calls, StepOf(d), d # c PROVE FALSE
    BY <2>2, CallsAreApart DEF Same
  <2> QED BY <2>1, <2>2 DEF Next, StepOf
<1>3. CASE NonceReady(c) \/ AccountFound(c) \/ SetupFails(c)
  BY <1>1, <1>3 DEF NonceReady, AccountFound, SetupFails, Continue, SetContext
<1>4. CASE Queries(c)
  BY <1>1, <1>4 DEF Queries, Authorize, RolesAnswered, AgentAnswered, SignerAnswered, FrozenAnswered,
                    QueryFails, Tell
<1>5. CASE Decide(c)
  <2>1. CASE call[c].kind = "check"
    BY <1>5, <2>1, SettlesWith DEF Decide
  <2>2. CASE call[c].kind # "check"
    BY <1>1, <1>5, <2>2 DEF Decide, Verdict, Refusal
  <2> QED BY <2>1, <2>2
<1>6. ~(\E kind \in {"prepare", "check"}, account \in Options : Begin(c, kind, account))
      /\ ~StorageReady(c) /\ ~WorkEnds(c)
  BY DEF Begin, StorageReady, WorkEnds
<1> QED BY <1>2, <1>3, <1>4, <1>5, <1>6 DEF StepOf

LEMMA NothingRefused ==
  ASSUME NEW t \in Answer, Refusal(t) = "none"
  PROVE  t = [Untold EXCEPT !.account = t.account]
<1> DEFINE u == [Untold EXCEPT !.account = t.account]
<1>1. /\ t.noIdentity = FALSE /\ t.frozen = FALSE
      /\ t.signer = TRUE /\ t.agent = TRUE /\ t.roles = TRUE
  BY DEF Answer, Refusal
<1>2. /\ u.account = t.account /\ u.noIdentity = FALSE /\ u.frozen = FALSE
      /\ u.signer = TRUE /\ u.agent = TRUE /\ u.roles = TRUE
  BY DEF Untold
<1>3. u \in Answer
  BY DEF Answer, Untold
<1> HIDE DEF u
<1>4. t = u
  BY <1>1, <1>2, <1>3 DEF Answer
<1> QED BY <1>4 DEF u

(* What the last step does, to a transaction and to a failure.             *)
LEMMA BuiltBy ==
  ASSUME TypeOK, CallInv, NEW c \in Calls, Build(c)
  PROVE  /\ SetUp(c)
         /\ told[c] = [Untold EXCEPT !.account = own[c].address]
         /\ result'[c].kind = "tx" =>
              result'[c].signing = own[c] /\ own[c].manager # NoManager
<1>0. CallTypeOK /\ CallAt(c) /\ call[c].at = "work"
  BY TypeIsBoth DEF CallInv, Build
<1>1. told[c] = [Untold EXCEPT !.account = told[c].account]
  BY <1>0, NothingRefused DEF CallAt, CallTypeOK
<1>2. ASSUME NEW reason, Reject(c, reason) PROVE result'[c].kind # "tx"
  BY <1>0, <1>2, SettlesWith DEF Reject
<1>3. CASE Settle(c, "tx", "none", own[c]) /\ own[c].manager # NoManager
  BY <1>0, <1>1, <1>3, SettlesWith DEF CallAt
<1> QED BY <1>0, <1>1, <1>2, <1>3 DEF Build, CallAt

Inv == TypeOK /\ CallInv

LEMMA Invariance == Spec => []Inv
<1>1. Init => TypeOK /\ CallInv
  BY ContextInitInv, CallTypeInit, TypeIsBoth, CallInit DEF Init, ContextInv
<1> QED BY TypeCorrect, CallInit, CallStep, <1>1, PTL DEF Spec, Inv

(* A transaction is signed by the account asked for or the SDK's at the    *)
(* time of the call, and by that moment's manager: whatever the user or    *)
(* other calls do while it is prepared.  The manager lists that account,   *)
(* unless it was the SDK's own and already not its manager's.              *)
THEOREM SignerIsAsCalled == Spec => SignedAsCalled
<1>1. Inv /\ [Next]_vars =>
        [\A c \in Calls : Builds(c) =>
           /\ Signed(c).manager = start[c].manager
           /\ Signed(c).address = (IF call[c].account = NoAccount THEN start[c].address
                                                                 ELSE call[c].account)
           /\ call[c].account # NoAccount \/ Consistent(start[c]) => Consistent(Signed(c))]_vars
  <2> SUFFICES ASSUME Inv, [Next]_vars, NEW c \in Calls, Builds(c)
               PROVE  /\ Signed(c).manager = start[c].manager
                      /\ Signed(c).address = (IF call[c].account = NoAccount THEN start[c].address
                                                                            ELSE call[c].account)
                      /\ call[c].account # NoAccount \/ Consistent(start[c]) => Consistent(Signed(c))
    OBVIOUS
  <2>1. Build(c)
    BY OnlyBuild, TypeIsBoth DEF Inv, Builds
  <2>2. SetUp(c) /\ Signed(c) = own[c] /\ own[c].manager # NoManager
    BY <2>1, BuiltBy DEF Inv, Builds, Signed
  <2>3. ASSUME call[c].account # NoAccount \/ Consistent(start[c]) PROVE Consistent(Signed(c))
    BY <2>2, <2>3 DEF SetUp, Consistent
  <2> QED BY <2>2, <2>3 DEF SetUp
<1> QED BY <1>1, Invariance, PTL DEF Spec, SignedAsCalled

(* A transaction is only built once everything asked about its account was *)
(* answered in its favour.                                                 *)
THEOREM SignerIsAuthorized == Spec => AuthorizedSigner
<1>1. Inv /\ [Next]_vars =>
        [\A c \in Calls : Builds(c) =>
           told[c] = [Untold EXCEPT !.account = Signed(c).address]]_vars
  <2> SUFFICES ASSUME Inv, [Next]_vars, NEW c \in Calls, Builds(c)
               PROVE  told[c] = [Untold EXCEPT !.account = Signed(c).address]
    OBVIOUS
  <2>1. Build(c)
    BY OnlyBuild, TypeIsBoth DEF Inv, Builds
  <2> QED BY <2>1, BuiltBy DEF Inv, Builds, Signed
<1> QED BY <1>1, Invariance, PTL DEF Spec, AuthorizedSigner

(* Who is not authorized never hears of the preparation's error instead.   *)
THEOREM AuthorizationIsFirst == Spec => AuthorizationFirst
<1>1. Inv /\ [Next]_vars =>
        [\A c \in Calls : result[c].reason # "prepare" /\ result'[c].reason = "prepare" =>
           told[c] = [Untold EXCEPT !.account = own[c].address]]_vars
  <2> SUFFICES ASSUME Inv, [Next]_vars, NEW c \in Calls, result[c].reason # "prepare",
                      result'[c].reason = "prepare"
               PROVE  told[c] = [Untold EXCEPT !.account = own[c].address]
    OBVIOUS
  <2>1. Build(c)
    BY OnlyBuild, TypeIsBoth DEF Inv
  <2> QED BY <2>1, BuiltBy DEF Inv
<1> QED BY <1>1, Invariance, PTL DEF Spec, AuthorizationFirst

(* No caller sees an error of the cleaned up context or storage.           *)
THEOREM NothingIsMissing == Spec => []NothingMissing
<1>1. Inv => NothingMissing
  BY DEF Inv, CallInv, CallAt, NothingMissing
<1> QED BY <1>1, Invariance, PTL

(* Operations on the context one after another leave it consistent.        *)
THEOREM AccountBelongs ==
  ASSUME Overlap = FALSE
  PROVE  Spec => []AddressBelongs
<1>1. Init => ContextInv /\ OneAtATime
  BY ContextInitInv, OneAtATimeInit DEF Init
<1>2. ContextInv /\ OneAtATime /\ [Next]_vars => (ContextInv /\ OneAtATime)'
  <2>1. ASSUME ContextInv, OneAtATime, UNCHANGED contextVars PROVE ContextInv' /\ OneAtATime'
    BY <2>1 DEF ContextInv, ContextTypeOK, Attached, Pending, OneAtATime, AddressBelongs, Consistent,
                contextVars
  <2> QED BY <2>1, ContextSteps, ContextStepInv, OneAtATimeStep
<1>3. OneAtATime => AddressBelongs
  BY DEF OneAtATime
<1> QED BY <1>1, <1>2, <1>3, PTL DEF Spec
===============================================================================
