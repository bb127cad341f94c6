------------------------------- MODULE Procedure -------------------------------
(***************************************************************************)
(* Calls of a procedure method: prepare(), which builds a transaction once *)
(* the signer is known to be authorized, and checkAuthorization(), while   *)
(* the user changes the signing manager and account of the SDK.            *)
(*                                                                         *)
(* createProcedureMethod makes a Procedure instance for every call, so     *)
(* calls share nothing but the SDK's context.  A call is cut at its        *)
(* awaits.  The preparation of the transaction runs beside the             *)
(* authorization queries, and both read the context and storage of the     *)
(* instance, which cleanup() takes away.  The chain may answer every query *)
(* as it likes: it changes all the time.                                   *)
(***************************************************************************)
EXTENDS SigningContext

CONSTANTS
  Calls,     \* calls of prepare and checkAuthorization
  Options,   \* the values of opts.signingAccount used, NoAccount for none
  Needs      \* what getAuthorization may ask for

(* roles and signer: met or not met without a query, or to be asked; agent *)
(* also may name no asset or several, which is a programming error.        *)
Requirement == [roles : {"met", "unmet", "ask"}, signer : {"met", "unmet", "ask"},
                agent : {"met", "unmet", "ask", "none", "several"}]

ASSUME OptionsAssumption == Options \subseteq Accounts \cup {NoAccount}
ASSUME NeedsAssumption   == Needs \subseteq Requirement

VARIABLES
  call,      \* each call: where it stands, its kind, option and requirement
  start,     \* the SDK's context when the call was made (history)
  own,       \* ctx, the Context setup() returned
  instance,  \* _context and _storage of the Procedure instances
  told,      \* what the authorization queries answered, and for which account
  work,      \* the promise of prepareTransactions
  result     \* how the call settled

procVars == <<call, start, own, instance, told, work, result>>
vars     == <<contextVars, procVars>>

NoNeed   == [roles |-> "met", signer |-> "met", agent |-> "met"]
NoSigning == [manager |-> NoManager, address |-> NoAccount]
NotCalled == [at |-> "idle", kind |-> "prepare", account |-> NoAccount, need |-> NoNeed]
Untold   == [account |-> NoAccount, noIdentity |-> FALSE, roles |-> TRUE,
             agent |-> TRUE, signer |-> TRUE, frozen |-> FALSE]
Clean    == [context |-> NoSigning, storage |-> FALSE]
Open     == [kind |-> "pending", reason |-> "none", signing |-> NoSigning]

Querying == {"authorize", "roles", "agent", "signer", "frozen"}
Stages   == {"idle", "nonce", "account", "storage", "decide", "work", "over"} \cup Querying

TypeOK ==
  /\ ContextTypeOK
  /\ call \in [Calls -> [at : Stages, kind : {"prepare", "check"},
                         account : Accounts \cup {NoAccount}, need : Requirement]]
  /\ start \in [Calls -> Signing] /\ own \in [Calls -> Signing]
  /\ instance \in [Calls -> [context : Signing, storage : BOOLEAN]]
  /\ told \in [Calls -> [account : Accounts \cup {NoAccount}, noIdentity : BOOLEAN,
                         roles : BOOLEAN, agent : BOOLEAN, signer : BOOLEAN,
                         frozen : BOOLEAN]]
  /\ work \in [Calls -> {"off", "running", "done", "failed", "fatal"}]
  /\ result \in [Calls -> [kind : {"pending", "tx", "status", "rejected"},
                           reason : {"none", "setup", "query", "identity", "frozen",
                                     "signer", "agent", "roles", "prepare", "fatal"},
                           signing : Signing]]

Init ==
  /\ ContextInit
  /\ call = [c \in Calls |-> NotCalled]
  /\ start = [c \in Calls |-> NoSigning] /\ own = [c \in Calls |-> NoSigning]
  /\ instance = [c \in Calls |-> Clean]
  /\ told = [c \in Calls |-> Untold]
  /\ work = [c \in Calls |-> "off"]
  /\ result = [c \in Calls |-> Open]

-----------------------------------------------------------------------------
Goto(c, stage) == call' = [call EXCEPT ![c].at = stage]

Continue(c, stage) == Goto(c, stage) /\ UNCHANGED <<start, own, told, instance, result>>

(* The end of a call, with the cleanup() of the finally clause.  Its local *)
(* variables are gone; the work may go on.                                 *)
Settle(c, kind, reason, signing) ==
  /\ call' = [call EXCEPT ![c] = [NotCalled EXCEPT !.at = "over"]]
  /\ start' = [start EXCEPT ![c] = NoSigning]
  /\ own' = [own EXCEPT ![c] = NoSigning]
  /\ told' = [told EXCEPT ![c] = Untold]
  /\ result' = [result EXCEPT ![c] = [kind |-> kind, reason |-> reason, signing |-> signing]]
  /\ instance' = [instance EXCEPT ![c] = Clean]

Reject(c, reason) == Settle(c, "rejected", reason, NoSigning)

-----------------------------------------------------------------------------
(* setup() *)

(* The context is cloned as soon as the method is called, before the nonce *)
(* is awaited.                                                             *)
Begin(c, kind, account) ==
  /\ call[c].at = "idle"
  /\ start' = [start EXCEPT ![c] = context]
  /\ own' = [own EXCEPT ![c] = context]
  /\ call' = [call EXCEPT ![c] = [at |-> "nonce", kind |-> kind,
                                  account |-> account, need |-> NoNeed]]
  /\ UNCHANGED <<contextVars, instance, told, work, result>>

SetContext(c, signing) ==
  /\ own' = [own EXCEPT ![c] = signing]
  /\ instance' = [instance EXCEPT ![c] =
                    [context |-> signing, storage |-> FALSE]]
  /\ Goto(c, "storage") /\ UNCHANGED <<start, told, result>>

(* The nonce is there.  Another account is looked for among those of the   *)
(* clone's own manager, if it has one.  Mutant: the SDK's context is taken *)
(* only now.                                                               *)
Cloned_Late(c) == context
Cloned(c) == own[c]

NonceReady(c) ==
  /\ call[c].at = "nonce"
  /\ IF call[c].account = NoAccount THEN SetContext(c, Cloned(c))
     ELSE IF own[c].manager = NoManager THEN Reject(c, "setup")
     ELSE Continue(c, "account")
  /\ UNCHANGED <<contextVars, work>>

AccountFound(c) ==
  /\ call[c].at = "account"
  /\ IF IsKnown(own[c].manager, call[c].account)
       THEN SetContext(c, [own[c] EXCEPT !.address = call[c].account])
       ELSE Reject(c, "setup")
  /\ UNCHANGED <<contextVars, work>>

SetupFails(c) ==
  /\ call[c].at \in {"nonce", "account", "storage"}
  /\ Reject(c, "setup")
  /\ UNCHANGED <<contextVars, work>>

(* The storage is there: setup() returns the instance's context, and the   *)
(* transaction is prepared while the authorization is checked.             *)
StorageReady(c) ==
  /\ call[c].at = "storage"
  /\ own' = [own EXCEPT ![c] = instance[c].context]
  /\ instance' = [instance EXCEPT ![c].storage = TRUE]
  /\ work' = [work EXCEPT ![c] = IF call[c].kind = "prepare" THEN "running" ELSE "off"]
  /\ Goto(c, "authorize")
  /\ UNCHANGED <<contextVars, start, told, result>>

(* prepareTransactions ends; when it first reads the context or storage    *)
(* after they were cleaned up, it ends with a FatalError.                  *)
WorkEnds(c) ==
  /\ work[c] = "running"
  /\ \/ work' = [work EXCEPT ![c] = "done"]
     \/ work' = [work EXCEPT ![c] = "failed"]
     \/ ~instance[c].storage /\ work' = [work EXCEPT ![c] = "fatal"]
  /\ UNCHANGED <<contextVars, call, start, own, instance, told, result>>
-----------------------------------------------------------------------------
(* _checkAuthorization() *)

Tell(c, answer, next) ==
  /\ told' = [told EXCEPT ![c] = answer]
  /\ Goto(c, next)
  /\ UNCHANGED <<contextVars, start, own, instance, work, result>>

(* getAuthorization says what is needed, and the signing account is read.  *)
Authorize(c) ==
  /\ call[c].at = "authorize"
  /\ \E need \in Needs :
       IF own[c].address = NoAccount
         THEN Reject(c, "query")
         ELSE /\ told' = [told EXCEPT ![c] = [Untold EXCEPT !.account = own[c].address,
                                              !.roles = need.roles # "unmet"]]
              /\ call' = [call EXCEPT ![c].need = need,
                          ![c].at = IF need.roles = "ask" THEN "roles" ELSE "agent"]
              /\ UNCHANGED <<start, own, instance, result>>
  /\ UNCHANGED <<contextVars, work>>

RolesAnswered(c) ==
  /\ call[c].at = "roles"
  /\ \E identity \in BOOLEAN, has \in BOOLEAN :
       Tell(c, [told[c] EXCEPT !.noIdentity = ~identity, !.roles = identity /\ has], "agent")

(* The Identity is fetched unless the roles already gave it; without one   *)
(* there are no agent permissions.                                         *)
AgentAnswered(c) ==
  /\ call[c].at = "agent"
  /\ LET need  == call[c].need
         known == need.roles = "ask" /\ ~told[c].noIdentity
     IN  \/ /\ need.agent \in {"met", "unmet", "none"}
            /\ Tell(c, [told[c] EXCEPT !.agent = need.agent # "unmet"], "signer")
         \/ /\ need.agent = "ask"
            /\ \E identity \in BOOLEAN, has \in BOOLEAN :
                 /\ known => identity
                 /\ Tell(c, [told[c] EXCEPT !.noIdentity = ~identity,
                                            !.agent = identity /\ has], "signer")
         \/ /\ need.agent = "several"
            /\ Reject(c, "query")
            /\ UNCHANGED <<contextVars, work>>

SignerAnswered(c) ==
  /\ call[c].at = "signer"
  /\ \E has \in (IF call[c].need.signer = "ask" THEN BOOLEAN
                 ELSE {call[c].need.signer = "met"}) :
       Tell(c, [told[c] EXCEPT !.signer = has], "frozen")

FrozenAnswered(c) ==
  /\ call[c].at = "frozen"
  /\ \E frozen \in BOOLEAN : Tell(c, [told[c] EXCEPT !.frozen = frozen], "decide")

(* A query rejects, as the signer's permissions do without an Identity.    *)
QueryFails(c) ==
  /\ call[c].at \in Querying
  /\ Reject(c, "query")
  /\ UNCHANGED <<contextVars, work>>

-----------------------------------------------------------------------------
(* The order in which prepare() refuses.  Mutant: a frozen account is only *)
(* noticed when a permission is missing too.                               *)
Refusal_FrozenLast(t) ==
  IF t.noIdentity THEN "identity"
  ELSE IF ~t.signer THEN "signer"
  ELSE IF ~t.agent THEN "agent"
  ELSE IF ~t.roles THEN "roles"
  ELSE "none"
Refusal(t) ==
  IF t.noIdentity THEN "identity"
  ELSE IF t.frozen THEN "frozen"
  ELSE IF ~t.signer THEN "signer"
  ELSE IF ~t.agent THEN "agent"
  ELSE IF ~t.roles THEN "roles"
  ELSE "none"

(* Mutant: what became of the preparation is looked at first.              *)
Verdict_WorkFirst(c) == IF work[c] = "failed" THEN "prepare" ELSE Refusal(told[c])
Verdict(c) == Refusal(told[c])

(* The instance as prepare() leaves it after the check: only the public    *)
(* checkAuthorization() cleans up.                                         *)
Checked(c) == instance

(* checkAuthorization() gives the status; prepare() refuses, or goes on to *)
(* wait for the transaction.                                               *)
Decide(c) ==
  /\ call[c].at = "decide"
  /\ IF call[c].kind = "check" THEN Settle(c, "status", "none", NoSigning)
     ELSE IF Verdict(c) # "none" THEN Reject(c, Verdict(c))
     ELSE /\ Goto(c, "work") /\ instance' = Checked(c)
          /\ UNCHANGED <<start, own, told, result>>
  /\ UNCHANGED <<contextVars, work>>

(* The specification is signed by the clone's account and manager.         *)
(* Mutant: a rejected preparation is not noticed.                          *)
WorkSettled_Fulfilled(c) == work[c] = "done"
WorkSettled(c) == work[c] # "running"

Build(c) ==
  /\ call[c].at = "work" /\ WorkSettled(c)
  /\ IF work[c] = "failed" THEN Reject(c, "prepare")
     ELSE IF work[c] = "fatal" THEN Reject(c, "fatal")
     ELSE IF own[c].manager = NoManager THEN Reject(c, "setup")
     ELSE Settle(c, "tx", "none", own[c])
  /\ UNCHANGED <<contextVars, work>>

UserOperation == ContextNext /\ UNCHANGED procVars

Queries(c) ==
  \/ Authorize(c) \/ RolesAnswered(c) \/ AgentAnswered(c)
  \/ SignerAnswered(c) \/ FrozenAnswered(c) \/ QueryFails(c)

Next ==
  \/ UserOperation
  \/ \E c \in Calls :
       \/ \E kind \in {"prepare", "check"}, account \in Options : Begin(c, kind, account)
       \/ NonceReady(c) \/ AccountFound(c) \/ SetupFails(c) \/ StorageReady(c)
       \/ Queries(c) \/ Decide(c)
       \/ WorkEnds(c) \/ Build(c)

Spec == Init /\ [][Next]_vars

(* Promises of the signing manager, the node and the procedure settle.     *)
FairSpec ==
  /\ Spec
  /\ \A c \in Calls :
       /\ WF_vars(NonceReady(c) \/ AccountFound(c) \/ SetupFails(c) \/ StorageReady(c))
       /\ WF_vars(Queries(c) \/ Decide(c))
       /\ WF_vars(WorkEnds(c))
       /\ WF_vars(Build(c))

-----------------------------------------------------------------------------
(* Properties *)

Builds(c) == result[c].kind # "tx" /\ result'[c].kind = "tx"
Signed(c) == result'[c].signing

(* A transaction is signed by the account asked for, or by the one the SDK *)
(* had when the method was called, and by that moment's manager: whatever  *)
(* the user or other calls do while it is prepared (Context.clone).  That  *)
(* manager holds the account's key, unless the SDK's own account was taken *)
(* while it was not its manager's.                                         *)
SignedAsCalled ==
  [][\A c \in Calls : Builds(c) =>
       /\ Signed(c).manager = start[c].manager
       /\ Signed(c).address = (IF call[c].account = NoAccount THEN start[c].address
                                                             ELSE call[c].account)
       /\ call[c].account # NoAccount \/ Consistent(start[c]) => Consistent(Signed(c))]_vars

(* A transaction is only built once every requirement was met and the      *)
(* account not frozen, and it was the transaction's account that was asked *)
(* about.                                                                  *)
AuthorizedSigner ==
  [][\A c \in Calls : Builds(c) =>
       told[c] = [Untold EXCEPT !.account = Signed(c).address]]_vars

(* Who is not authorized is told so, whatever became of the preparation.   *)
AuthorizationFirst ==
  [][\A c \in Calls : result[c].reason # "prepare" /\ result'[c].reason = "prepare" =>
       told[c] = [Untold EXCEPT !.account = own[c].address]]_vars

(* No caller sees the error of a context or storage read before it was     *)
(* set: cleanup() only takes them away when the call has settled.          *)
NothingMissing == \A c \in Calls : result[c].reason # "fatal"

(* Every call settles.                                                     *)
CallsSettle == \A c \in Calls : call[c].at # "idle" ~> call[c].at = "over"
=============================================================================
