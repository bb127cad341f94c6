# Polymesh SDK: specifications, model checking and proofs

The Polymesh SDK is a TypeScript library that turns the operations of the Polymesh chain
(assets, settlements, offerings, authorizations, identities) into methods of objects. A method
first *prepares*: it reads the chain, decides whether the signer may do what is asked and whether
the chain would accept it, and returns a transaction object. Nothing happens on the chain until
`run()` is called on that object; it then has the transaction signed, submits it, follows it to a
finalized block and computes a result from the events found there.

The SDK runs in one JavaScript thread, but almost every function is `async`. At each `await` other
calls, the user, the node and the chain move on. This project models the SDK as what it then is:
a concurrent program whose atomic steps are the stretches of code between two `await`s.

Paths below are paths of the repository, and `base/`, `api/` and `utils/` are below `src/`.

## 1. Inventory

### 1.1 The parts and the way through them

    entity method -> createProcedureMethod -> Procedure.prepare -> PolymeshTransaction(Batch)
        |                                        |  clone of Context,       |
        |                                        |  authorization beside    | run()
      reads of chain and middleware              |  preparation             v
                                                                   sign -> submit -> subscription,
                                                                   getBlock -> resolver -> result
                                                                   (then) poll of the middleware

| Part | State it keeps | Operations | Hard behaviour |
|---|---|---|---|
| Transaction object (`base/PolymeshTransactionBase.ts`, `PolymeshTransaction.ts`, `PolymeshTransactionBatch.ts`) | `status`, `hasRun`, `error`, `receipt`, `blockHash` and number, listeners | `run`, `onStatusChange`, `onProcessedByMiddleware`, fees | notifications and `getBlock` answers in any order; forks; lost subscription; listeners and resolvers that throw; calls of `run()` that overlap |
| Middleware poll (`emitWhenMiddlewareIsSynced`) | the `done` flag, the block waited for | six attempts, one event | timers, failing queries, listeners that throw |
| Batches (`createTransactionBatch`, `splitTransactions`, receipts in `utils/internal.ts`) | `processedIndexes` and `receipts`, shared by the closures of the parts | run whole, run part, slice, merge | parts run out of order or twice; batches in batches |
| Signing context (`base/Context.ts`) | `_signingManager`, `signingAddress` | `setSigningManager`, `setSigningAddress`, `clone` | operations that overlap; a manager that lists no account |
| Procedure (`base/Procedure.ts`) | `_context`, `_storage` of the instance | `prepare`, `checkAuthorization`, cleanup | preparation and authorization run side by side, against a context that the user changes |
| Settlements (`api/entities/Instruction`, `Venue`, four procedures) | none: all state is on the chain | add, affirm, withdraw, reject, execute manually, reschedule; venues and the filter of an Asset | what was read is old when the transaction is dispatched |
| Authorization requests (`AuthorizationRequest`, `Authorizations`, twelve procedures) | none | issue, accept, remove | expiry, validity, who pays, key that has no Identity |
| Offerings (`api/entities/Offering`, five procedures) | none | launch, invest, freeze, unfreeze, close, reschedule | prices over tiers, time windows, limits, others buying meanwhile |
| Tickers | none | reserve, extend, create the Asset | reservation that expires between check and use; the fee that is quoted |
| Assets | none | issue, redeem, transfer by force, freeze, modify, documents, metadata | lists compared as sets; locks that end; amounts at a limit |
| Portfolios | none | create, rename, move funds, delete, set and quit custody | custody, balances and existence read one after the other |
| Distributions, checkpoints, corporate actions | the terms an entity was built with | configure, pay, claim, reclaim, remove; schedules; defaults and documents | every check compares with the clock; what was cached in the entity |
| Identities, secondary accounts, keys | none | invite, leave, remove, modify permissions, freeze, rotate | permissions that depend on each other |
| Permissions of Accounts and agents | none | write, read back, ask whether they suffice | including and excluding, exceptions, transactions anyone may send |
| External agents and groups | none | create and change groups, move, remove, waive, appoint | the last full agent |
| Compliance, trusted issuers | none | set, add, remove, change requirements, pause | equality of requirements, complexity limit |
| Transfer restrictions and statistics | none | add, set restrictions, enable and remove statistics | whole sets sent back; a restriction without its statistic; the limit |
| Claims | none | add, edit, revoke | a middleware that lags behind or is down |
| Subsidies and POLYX | none | set, increase, decrease, quit, transfer | allowance spent meanwhile |
| MultiSig | none | create, modify, signers' invitations | signers that have not accepted yet |
| Connection (`api/client/Polymesh.ts`, `Context.create`) | `isDisconnected`, the node's API, two middleware clients | connect, disconnect | one of several checks fails; connections left open |
| Lists and subscriptions | the offset or key of the next page; what a subscription read once | pages, notifications | entries that come and go between pages; notifications that overtake lookups |
| Other queries, GraphQL strings, generated code | caches and flags | reads | - |

### 1.2 What makes each part correct

* **Transaction object.** `run()` resolves only for an extrinsic that is in a finalized block and
  took effect; nothing is sent twice; "rejected" means never sent, and an ending status is never taken
  back, unless a listener throws; the data of the object agree with its status; what was submitted
  is reported on.
* **Middleware poll.** One event, the right one, and always one.
* **Batches.** Parts take effect in order, and what the object knows of them agrees with the chain but
  for a part whose `run()` rejected; the result of running split parts is that of the batch; the results
  of a list are those of its transactions, in order.
* **Signing context.** The signing account is one its manager lists.
* **Procedure.** The transaction is signed by the account and manager of the moment of the call,
  that account is the one that was authorized, and every call settles without internal errors.
* **Procedures of entities.** What is let through is reverted by the chain only when something
  changed after it was read; what is turned away would have been reverted; what happens on the
  chain is what was asked for.
* **Reads.** An answer put together from several reads was true at some moment of the call; what does
  not change is on exactly one page; a subscriber ends up knowing what is so.
* **Connection.** A client that is handed out works; one that is refused or disconnected leaves
  nothing open.

`PROJECT.json` lists the hazards, each at the line where it bites, with the properties about it.

## 2. The modules

| Module | Models |
|---|---|
| `TransactionLifecycle` | abstract specification: what a transaction object promises (status against the fate of the extrinsic) |
| `PolymeshTransaction` | one transaction object, several invocations of `run()`, the node and the chain |
| `PolymeshTransaction_proofs` | theorems about it, its refinement of the lifecycle, and theorems about `MiddlewareSync` |
| `MiddlewareSync` | the poll that follows `run()` |
| `TransactionBatch`, `TransactionBatch_proofs` | receipts, slices, merges and resolvers; a transaction run whole, or split and run part by part |
| `SigningContext` | signing manager and account, and the operations on them |
| `Procedure`, `Procedure_proofs` | `prepare` and `checkAuthorization` over `SigningContext` |
| `Settlement`, `Settlement_proofs` | the procedures on instructions |
| `Authorizations`, `Authorizations_proofs` | the procedures on authorization requests |
| `Offerings`, `Offerings_proofs` | the procedures on offerings |
| `FollowedCall` | the frame of the modules below: one call, the reads it has left, and the chain |
| `Tickers`, `Tokens`, `AssetDetails`, `Metadata` | reservations and creation of an Asset; its tokens and their freezing; its divisibility, name, funding round, identifiers and documents; its metadata entries |
| `Portfolios`, `Venues` | portfolios and quitting custody; modifying a venue, filtering venues |
| `Distributions`, `Checkpoints`, `CaDefaults` | a dividend distribution; schedules and checkpoints; the default configuration of corporate actions and the documents of one |
| `CheckpointBalances`, `Subscriptions` | balances at a checkpoint; subscriptions to an Asset, to secondary Accounts and to a ticker |
| `Accounts`, `Subsidies`, `MultiSigs` | the Accounts of an Identity; a Subsidy, and transfers of POLYX; a MultiSig and its signers |
| `Agents`, `Restrictions`, `Compliance`, `Claims` | external agents and their groups; statistics and transfer restrictions; requirements and trusted issuers; claims |
| `Permissions` | what permissions mean: conversions, groups of transactions, and what Account and agent may do |
| `Paging`, `Connection` | lists read page by page; connecting and disconnecting |
| `EntityCalls` | the modules from `Tickers` on together: a behaviour is about one of them; the inductive invariant of each |
| `AssetCalls_proofs`, `EntityCalls_proofs` | theorems about them: in the first the parts about an Asset, in the second all others and the parts together |
| `MC*` | the values of the constants for TLC |

`PROJECT.json` maps every definition to its lines.

### 2.1 PolymeshTransaction

`status`, `hasRun`, `error`, `receipt` and `block` are the fields of the object (`block` stands for
`blockHash`, `blockNumber` and `txIndex`, which are assigned together). `pc[r]` is where invocation
`r` is suspended, `sub[r]` the closure of its `signAndSend` callback, `fetches` the `getBlock`
requests not answered, `inbox[r]` the notifications not delivered.

`Call` is `run()` to its first await (the `hasRun` guard and `Unapproved`), `FeesCovered` and
`FeesNotCovered` the fee check, `SignerApproves`, `SignerCancels`, `NodeRefuses` and `AnswerLost`
the outcomes of `signAndSend`, `Callback` one notification, `Answer` one answered or failed
`getBlock`, `Succeed` the resolver and the end of `run()`. `updateStatus` sets a status before it calls the
listeners. When one of them throws, the status has been set and announced, and the error is on its way
(`Thrown`); `ListenerThrew` is the catch clause that it reaches, where its code decides the
status: it is the user's error, so that it can be any (at `Running` it first passes the handler that
looks for "Cancelled" in its message). `Include`, `Finalize`, `Retract`,
`LeavePool`, `FinalityTimeout` and `LoseConnection` are the chain and the node. The whole `finally`
clause (setting `hasRun`, the start of the poll) belongs to the action that settles
`run()`. `Overlap` says whether `run()` may be called while it is pending, `Faults` which faults
happen. The middleware poll starts where this module ends and shares with it only the block number,
so it is a module of its own.

### 2.2 MiddlewareSync

`Settle` is the start in the `finally` clause of `run()`. `HeadArrives` and `HeadFails` are
`getLatestBlock`, which waits for a finalized head; `Synced`, `NotSynced` and `QueryFails` the
answers of `getLatestBlockFromMiddleware`; `Continue` the delay between attempts. Errors of queries
are swallowed; an error thrown by a listener is caught by the same handler, which is why a listener
that throws may be told more than once (see section 7, transactions and poll).

### 2.3 TransactionBatch

A receipt is the sequence of its events with, for a batch, `BatchCompleted` and its counts. An
expression is a plain transaction, a procedure's batch with a resolver, one without, or a list
given to `createTransactionBatch`. `ResultOf` is the result of running it whole. `RunPart(i)` is
`run()` of part `i` up to its suspension, which includes the check of `processedIndexes`;
`PartResolves(i)` is its extrinsic's success and its resolver, which appends to `processedIndexes` or, for
the last part, calls the batch's own resolver on the merged receipts. `PartFails(i)` is a call that
rejects before that: it was not sent or failed on the chain, or its extrinsic is `adrift`, because the answer to
the submission was lost, a listener threw at `Running`, the block could not be read or its finality
timed out; then `AppliesUnheard(i)` may follow at any time, and no resolver hears of it. A listener that
throws on the success makes `run()` reject after its resolver has done its work, which is
`PartResolves` as well. `RunWhole` has the same outcomes. Between these steps the other parts may run. What the
code finds and cuts while it walks over events (`Found`, `Sliced`) is a recursive function of the
position. Transformers are the identity.

### 2.4 SigningContext and Procedure

`SetSigningManager`, `SetSigningAddress` and `UnsetSigningManager` begin an operation;
`FirstAccount`, `FindAccount` and `AccountsFail` continue it when `getAccounts()` answers, with the
manager that was read *before* the await.

A call of a procedure goes through `Begin` (the method: `clone()` and the start of the nonce),
`NonceReady`, `AccountFound` and `StorageReady` (`setup`), `Queries` (`getAuthorization` and the
questions of roles, permissions, agents and frozen accounts), `Decide`, `WorkEnds` (the promise of
`prepareTransactions`, which runs beside the queries) and `Build`. `start` records the context at
the moment of the call and is never read by the actions. Each call has its own `Procedure`
instance, as `createProcedureMethod` makes one.

### 2.5 Procedures of entities: the form they share

One call of the SDK is followed: its first action is the method, each further one (`Prepare`, or
the `Read...` actions) is what runs between two awaits; it reads the chain as it is at that step and
keeps what the code keeps. `Dispatch...` is the chain applying the transaction, or refusing
it. Around the call everyone else acts directly on the chain. A history variable (`call.stale`)
says whether anything has changed since the call began. The rules of
the chain's pallets are not part of the repository; they are definitions
of their own (`Accepts...`, `Accepted`, `Chain...`), modelled from how the SDK uses them and from the
comments in its generated interface (`polkadot/augment-api-tx.ts`), and marked external.
They are stated apart from the checks of the procedures, so that the two can disagree.

* *Settlement.* Queries made by one `Promise.all` are one read; the order of legs is immaterial to
  the chain, which keeps portfolios as a set.
* *Authorizations.* `getAuthorization` and `prepareTransactions` run side by side and are read in
  either order. `Granted` is what the authorization found, `Payer` the paying party of the
  transaction. Expired requests are filtered out by the getters.
* *Offerings.* The tiers are walked as `calculateTierStats` does, as functions of the number of tiers
  walked; prices and amounts are natural numbers, as the chain has them in fixed point.

What roles and permissions a procedure needs is checked by `Procedure`; these modules repeat it only
where the answer depends on the state they model.

### 2.6 FollowedCall and the modules built on it

`chain` is a record of what the component reads and changes on chain; `call` is the call: its
procedure, its arguments, what it has read, and the reads it has `left`. Reads that the code
starts together are outstanding together and are answered in any order; any of them may
refuse the call. Reads that follow an answer are added by it (`Keep`). A call with no read left is
`Built`; `Dispatches` ends it with the chain's verdict.

* *Tickers.* `ReadRole` is the role that `getAuthorization` asks for, `ReadStatus` and `ReadType` the
  status of the ticker and the id of the custom type, between which others may reserve, create or
  register. The fee is kept as the set of protocol operations it is quoted for, against those the
  chain charges for.
* *Tokens.* Balances in the default portfolio of the caller and of others, the supply and its limit,
  divisibility and freezing. An amount is *granular* when it is a whole number of tokens.
* *AssetDetails, CaDefaults.* Lists are compared as `hasSameElements` does, elements repeated or
  not, targets with their treatment; documents have ids that the chain gives out. `modifyAsset` reads the
  details, the funding round and the identifiers beside each other and judges when all are there.
* *Metadata.* A lock is a time or for ever; names are global or of the Asset.
* *Portfolios.* The caller's default portfolio, a numbered one, one in custody, one of another
  owner. Whether two entities of the same portfolio are the same object (`same`) decides what
  `moveFunds` finds equal.
* *Venues.* The filter is a batch of up to three extrinsics, of which each is left out when it has
  nothing to do.
* *Distributions.* Times are relative to payment and expiry; the entity's terms are those it was
  built with. `ReadClock` is the moment `new Date()` is evaluated in the code.
* *Checkpoints.* A period is a number of ticks; `ExpiryDate` is the arithmetic of the entity's
  constructor, compared with the dates the chain really makes.
* *Accounts.* The signer is one of the Identity's Accounts; its kind is asked when the call begins
  and again when the chain dispatches it.
* *Subsidies, MultiSigs, Agents.* Allowance and beneficiary; the delta of the signers; groups as
  named sets of permissions, the known ones and the custom ones. An agent's group and the list of all
  agents are read beside each other: the last full agent (`LastFull`) is one whose own group was read as full
  where the list has one full agent, whoever that is.
* *Restrictions.* The chain is told whole sets, which the code works out from what it read: a read
  is kept as it was until the transaction is built.
* *Compliance.* Conditions have a claim, a type, a target and issuers; two are compared by
  `conditionsAreEqual` in the code and by all of it in the properties. `Times` and `Complexity` are
  the code's running product and the chain's sum, each as it is. `ToChain` and `FromChain` are the
  conversions of a requirement, the latter with its merging of the two lists of conditions.
* *Permissions.* A permission for transactions names modules and tags, with exceptions: `ToExtrinsic` is what
  is written to the chain, `ToTransactions` what the SDK reads there, `Held` the groups of transactions
  found in it, `MissingOf` what `checkPermissions` answers, and `Allows` what the chain lets through.
* *CheckpointBalances.* The chain stores a balance with the first change after a checkpoint;
  `was` (history) is what the Identity held at each. `balance()` reads updates, then the stored or the
  current balance; `allBalances()` all of them together.
* *Subscriptions.* `inbox` holds the notifications on their way, `asked` what the callback looks up
  at each of them, which may be answered in another order. `LastToldIsTrue` is about the moment
  at which nothing is under way any more.
* *Paging.* `told` counts how often an entry was on a page. The six lists are the ways in which a
  next page is named: a key of the chain, offsets from the oldest or the newest entry, targets that
  were passed or found, and claims that are counted instead of Identities.
* *Connection.* `connect` opens a socket for the versions, then the API, makes a `Context` and asks the
  middlewares; `refused` (history) tells where it was turned away. An error as the answer for the node's
  version holds no version that is supported, and refuses (`NodeErrs`); the end of the socket, or an
  error for the version of the chain, settles nothing.
* *Claims.* The middleware is a copy of the chain that is brought up to date by `Sync`, and may go down
  (`Outage`) between two requests. Others change claims only once it is in step, so that it lags by
  one change at most.

## 3. The runs

| Run | Question | Constants | Distinct states |
|---|---|---|---|
| `tx_serial` | a batch object under every fault, calls of `run()` one after another | 2 calls, 2 blocks, 7 kinds of faults | 13 thousand |
| `tx_rerun` | two calls of `run()` that overlap (finding) | no faults | - |
| `sync_poll` | the poll against chain and middleware | 6 attempts, 4 blocks | 3.5 thousand |
| `batch` | batches of two and three, lists of two and three, whole or split | 4 extrinsics, 2 calls per part, calls that reject before, without or after their effects | 543 thousand |
| `procedure` | one call at every moment of two operations on the context | 3 managers with two, one and no account | 198 thousand |
| `context_overlap` | operations on the context that overlap (finding) | the same, but for overlapping | - |
| `settlement` | every procedure on an instruction while others act | 3 identities, 4 portfolios, 3 blocks, 1 instruction at a time, 1 change of custody | 845 thousand |
| `authorizations` | every request, issued, accepted, removed | 2 identities, 3 accounts, 8 worlds, 2 requests, 3 ticks | 2.6 million |
| `offerings` | every procedure on an offering while others act | 3 plans, amounts 1 to 3, 5 ticks | 2.2 million |
| `assets` | the eleven modules about an Asset | `EntityCalls`, 11 parts | 2.5 million |
| `parties` | the eight modules about Identities and what they may do, lists, and the connection | `EntityCalls`, 10 parts | 1.4 million |
| `restrictions_set` | setting the restrictions of one type (finding) | `EntityCalls`, 1 part | - |

What they show:

* `tx_serial`. `SuccessIsFinal` and `AtMostOneSubmission` hold under forks, finality timeouts, lost
  answers, failing `getBlock`, throwing listeners and resolvers. `ReportIsTrue`: the fields of the
  object agree with its status, and the block it names is the one the transaction is in as long as no
  block was retracted (section 7). `ImplementsLifecycle`: the object is a refinement of
  `TransactionLifecycle`,
  so that "rejected" means never sent and an ending status is never left, but by the error of a
  listener that was being told of it (section 7, transactions, 6 and 7).
  `SubmittedSettles`: a submitted extrinsic is reported on, unless its subscription is lost.
* `sync_poll`. A listener that does not throw is told once, and nothing untrue
  (`ToldOnceAndTruly`); it is never told nothing (`ToldEventually`).
* `batch`. Order of effects holds whatever is repeated or fails (`AppliedInOrder`). As long as no part
  is run twice (`NoRepeats`; section 7 tells what happens then), the parts that took effect are the
  first ones and those with a receipt are among them; at most one is without, the last of them, whose
  `run()` rejected, and no part behind it can ever be run (`ReceiptsMatchChain`). A result is only given when all parts
  took effect, and is that of the batch (`ResultsMatch`).
* `procedure`. The signer is the one of the moment of the call (`SignedAsCalled`) and is the one that
  was asked about (`AuthorizedSigner`);
  who is not authorized learns that, not of a failed preparation (`AuthorizationFirst`); every call
  settles (`CallsSettle`).
* `settlement`, `authorizations`, `offerings`, `assets`, `parties` ask the same of every procedure:
  - the checks are sufficient: what they let through is reverted only when something changed after
    the call began (`RevertedOnlyIfStale`);
  - they are necessary: who is turned away, nothing having changed, could not have been served or
    asked for what is so already (`TurnedAwayRightly`, `TakenWhenValid`);
  - the effects are those asked for (`DoneAsAsked`), for whole sets and computed differences
    even where others write the same things meanwhile. For reads it says that the answer is true,
    that pages are whole (`PagesAreWhole`, `PagesGoOn`) and that a subscriber knows in the end what is
    so (`LastToldIsTrue`); for a connection, that what is handed out works and what is
    given up is closed, but for the cases of section 7.

  All this from every state the others can bring about before. Of requests, only the
  parties use one, whoever has no Identity never has to pay (`OnlyParties`), and
  a second one is not made (`NoSecondRequest`). An offering is said to be available exactly if some
  amount of it could be bought that costs something and reaches the minimum (`AvailableIfBuyable`). The exceptions written into these properties are the places where the
  code really differs from the chain; section 7 lists them.

### 3.1 Why the bounds are enough

* `tx_serial`: what two calls can do to each other needs two; a third would meet the same `hasRun`.
  Two blocks are what a retraction needs. The theorems of section 5 lift most of this to any number.
* `sync_poll`: the code's own six attempts; four blocks are before, at and after the
  transaction's block.
* `batch`: three parts have a first, a middle and a last; two calls per part are an overlap. Lists of
  three have at most four extrinsics: the first or the second item may be longer than one. The
  extrinsics emit zero, two and three events, with one, two or none of interest, in every position.
* `procedure`: calls share nothing but the context (lemma `CallsAreApart` proves it), so one call is
  enough; two operations are one before and one after it, or both within. `MCNeeds` has a value
  for every way through `checkAuthorization`.
* `settlement`: one instruction of each type, one in a batch of two, a swap, legs out of, into and
  between portfolios of one party, a portfolio (of the sender as well) that can be deleted or change
  custodian; the blocks
  are before, at and after a due block. A second instruction would not share state with the first
  but for custody.
* `authorizations`: a *world* holds the requests that can meet; requests of different worlds
  touch different state. Two requests are a pending one and its duplicate, or a rotation and its
  attestation. Three ticks are before, at and after an expiry.
* `offerings`: two tiers in and out of the order of their prices, residues above and below the
  minimum investment, a tier that costs nothing, five ticks around a window that opens and closes.

* `assets`, `parties`: each module is small, so that its whole state space is visited from every
  initial state. Clocks run three or four ticks: before, at and after a date. Amounts lie
  below, at and above a limit or a balance. Lists are empty, of one element, of a repeated element, of
  two elements and in another order. Two holders, agents or groups are the caller's and
  another's, and three where one is a bystander. What others do is bounded in kind, not in number:
  any of it may happen between any two steps of the call. Lists have up to three entries on pages of one
  or two, so that there is a page before, within and after the list; two notifications may be on their
  way, so that one can overtake the other; a third checkpoint is made after the one that is asked for
  and the one its balance is stored at. Permissions are about one module that anyone may use, one
  with a transaction that anyone may send, and one without. Requirements demand of one side, of both,
and of one side a claim and its absence. The modules share no state, which is
  why each behaviour is about one of them (`part`).

What a stronger property of a run implies is not checked beside it: `DeclinedIsUnsent` and
`TerminalIsFinal` follow from `ImplementsLifecycle`. They are theorems (section 5), as is
`AddressBelongs` for operations on the context that do not overlap.

Every bound is a constant named in the configuration. None of the runs uses symmetry.
`CHECK_DEADLOCK FALSE` is set where the system really stops: the calls are used up and the
transaction is settled, or the bounded clock or chain has ended (of `assets` and `parties`, only
some modules have a clock).

## 4. Fairness

* `PolymeshTransaction`: weak fairness of the fee queries, the delivery of notifications, answers of
  `getBlock`, the continuation of an async function, finalization of a block, and inclusion *or*
  removal of an extrinsic from the pool (it is mortal by default, so that it is
  included or expires; the `immortal` option of `mortality` is not considered). None for the user calling `run()`, for the signer, for retraction
  or for any fault. A connection that is lost is not repaired: `SubmittedSettles` excludes it.
* `MiddlewareSync`: the node and the middleware answer or fail, timers fire. None for the chain
  or the middleware making progress: the poll ends in a timeout then.
* `Procedure`: promises of the signing manager, the node and the preparation settle.
* The other specifications state safety only and have no fairness.

## 5. The proofs

All checked by the TLA+ proof system; every theorem holds for all values of the constants.

| Theorem | States |
|---|---|
| `PolymeshTransaction_proofs!TypeCorrect` | `TypeOK` |
| `SuccessFinal` | `SuccessIsFinal`, whatever overlaps or fails, also of successes that are only announced |
| `SingleSubmission` | `AtMostOneSubmission`, if calls of `run()` do not overlap |
| `RejectedUnsent` | `DeclinedIsUnsent`, if they do not overlap and no listener throws |
| `StatusIsFinal` | `TerminalIsFinal`, if they do not overlap: an ending status is only left when a listener throws on the success |
| `ReportsTruly` | `ReportIsTrue`, if they do not overlap |
| `LifecycleImplemented` | `ImplementsLifecycle`, if they do not overlap |
| `PollTypeCorrect` | `PollTypeOK`, of the poll |
| `ToldTheTruth` | `ToldOnceAndTruly` |
| `TransactionBatch_proofs!TypeCorrect` | `TypeOK` |
| `PartsInOrder` | `AppliedInOrder`, overlaps and calls that reject after their effects included |
| `ReceiptsTrue` | `ReceiptsMatchChain` |
| `ResultsTrue` | `ResultsMatch`, of transactions and of lists of transactions that are not lists themselves and do not have exactly one extrinsic between them |
| `Procedure_proofs!TypeCorrect` | `TypeOK` |
| `SignerIsAsCalled` | `SignedAsCalled` |
| `SignerIsAuthorized`, `AuthorizationIsFirst` | `AuthorizedSigner`, `AuthorizationFirst` |
| `NothingIsMissing` | `NothingMissing` |
| `AccountBelongs` | `AddressBelongs`, if operations on the context do not overlap |
| `Settlement_proofs!TypeCorrect` | `TypeOK` |
| `ChecksSuffice` | `RevertedOnlyIfStale` |
| `DoneRightly` | `DoneAsAsked` |
| `RefusedOnlyRightly` | `TurnedAwayRightly` |
| `Authorizations_proofs!TypeCorrect` | `TypeOK` |
| `PartiesOnly` | `OnlyParties` |
| `SentIsTaken` | `RevertedOnlyIfStale` |
| `SecondIsRefused` | `NoSecondRequest` |
| `ValidIsTaken` | `TakenWhenValid` |
| `Offerings_proofs!TypeCorrect` | `TypeOK` |
| `TiersAgree` | that the code's walk over tiers finds the tokens and the price the chain would, for tiers of any number in the order of their prices, or without a price limit |
| `ChecksSuffice` | `RevertedOnlyIfStale` |
| `AvailableTruly` | `AvailableIfBuyable` |
| `RefusedOnlyRightly` | `TurnedAwayRightly` |
| `DoneRightly` | `DoneAsAsked` |
| `EntityCalls_proofs!TypeCorrect` | `TypeOK`, of all parts |
| `ChecksSuffice` | `RevertedOnlyIfStale`, of all parts, but while requirements are set, added or changed |
| `RefusedOnlyRightly` | `TurnedAwayRightly`, of all parts, if no requirements are set, added or changed |
| `DoneRightly` | `DoneAsAsked`, of all parts but compliance, if the list whose pages count claims is not read |

The assumptions are the named `ASSUME`s of the modules, and `Overlap = FALSE` where the table says
so: `tx_rerun` and `context_overlap` show that the statements are false without it. The restriction
of `ResultsTrue` is the code's: for lists inside lists and lists of exactly one extrinsic the resolvers
really fail (section 7, batches, 1 and 3). The expressions of the run `batch` contain neither.

*Transactions.* `SuccessIsFinal` is not inductive: a callback acts on notifications sent earlier.
`PhaseInv` ties each suspension point to the subscription, the inbox and the extrinsic (an
invocation that has not been answered has only "ready" in its inbox), and `FinalInv` says that a
"finalized" notification, and the receipt being waited for, tell the truth about the chain. Without
overlap `SerialInv` adds that only one invocation gets past the guard, and that once it has settled
nothing is left that could change the object. `ReportInv` follows the block from the chain through
the `getBlock` request to the field: as long as no block was retracted, all of them agree. The
refinement adds `StatusInv`, the status of each suspension point, and the lemma `Views`: every step
moves the chain, calls `run()`, or shows what `TransactionLifecycle` allows. A listener that throws is
part of that: the lifecycle has a variable for an error on its way (`thrown`), which may end the object in
any failure. `StatusIsFinal` says the same of the object itself, and that without such a listener
nothing is ever taken back.

*The poll.* `PollInv` says of each point of the poll what it has told already, and that a head it
was given is one the chain had.

*Batches.* `PartsInOrder` rests on `Guarded`: calls only pend in a split batch, `processedIndexes`
names only parts that were applied, and every part let through has its predecessor among them. The
check made at the call still holds when the part is applied, or when it is applied long after its call
rejected (`adrift`), because nothing leaves the chain.
`Orderly` adds that without a repeat the parts were applied one by one, each once (`NextPart`: the part that
is applied is the next one, and all those in front of it were heard of), so that the
merged receipts are those of the parts in their order. `ResultsTrue` is about sequences of any
length: the positions at which `Found` and `Sliced` stop are found by well-founded induction over the
natural numbers, and the lemmas around `Cut` and `Lies` show that slicing takes apart exactly what
the node, or the merge, put together, so that a resolver sees the events of its own extrinsics
only. `Resolved` is the invariant: a call that has ended has the result of the expression.

*Procedures.* `Procedure_proofs` says stage by stage (`CallAt`) what the clone, the instance and the
answers are; `CallsAreApart` shows that a step of one call leaves all others alone, and `BuiltBy`
that a transaction is built by two actions only. `AccountBelongs` needs `OneAtATime`: the operation
that is pending asked the manager the SDK still has.

*Settlements, authorization requests, offerings.* None of the properties is inductive, because a
call acts on what it read some steps before. Each module has an invariant of two halves. One is
the form of a call: which fields its suspension point has filled (`Form`). The other (`Known`) is what the
call has learnt, stated of the chain as it is: it holds as long as `call.stale` is false,
and any change of the chain makes it true. `RevertedOnlyIfStale` then is a fact about one state: what
a built transaction has learnt implies the chain's own condition. `TurnedAwayRightly` and
`TakenWhenValid` are about each read that can end a call, `DoneAsAsked` about the dispatch. Beside these
`Settlement` needs that portfolios and their places in the code's lists correspond
one to one (`Place`), and counts senders by cardinalities; `Authorizations` that
at most one pending request has a given type and target; `Offerings` compares recursive sums over
the tiers, by induction over their number, and cuts them into what is bought
(`Exact`), too expensive (`Dear`) and not to be had (`Failing`).

*The parts of `EntityCalls`.* Each part has an inductive invariant of its own, stated in `EntityCalls` in
a section named after it: what is on chain (`...Typed`), and for each stage of each call its
arguments, the reads it may have left, and, as long as the call is fresh, what those it has made
imply of the chain (`...Call`). `PartsInv` is their conjunction; TLC has checked it on the instances of
`assets` and `parties`. For every part there are lemmas that it holds initially, that a step
keeps it, and that it implies the type and the sufficiency of the checks; that nobody is turned
away wrongly, and that what is done is what was asked for, follow from it action by action.
`PartsNext` and the theorems put them together, as a step is one of the part that the behaviour is
about. What took more than that:

* `AssetDetails`, `CaDefaults`, `Distributions`, `MultiSigs`, `Agents`, `Restrictions` and `Claims` count
  sets or lists, and compare them by their cardinality, with the facts of `FiniteSetTheorems`.
* `CheckpointBalances` and `Subscriptions` need history: that what is stored for a checkpoint is what the
  Identity held then (`was`), and that every notification on its way is about a state there was,
  the last of them about the present one.
* `Permissions` proves that reading back what was written loses nothing (`ToTransactions` after
  `ToExtrinsic`), and that what is not missing is allowed.
* `Paging` puts the entries of a list in the order of their keys and gives each a place (`Rank`, the number
  of those before it). A page of as many entries as were asked for is filled without a gap
  (`PageIsFilled`), so that the places on successive pages are apart and reach every entry there
  was from beginning to end (`FrontReaches`).

The assumptions on the constants are in `EntityCalls`, each named after its part and with the reason
beside it: lists that are passed are sequences, times and amounts natural numbers, keys come after 0,
no page is empty, and what says "not passed" is none of the values that are.

*What stays with TLC.* The liveness properties (`SubmittedSettles`, `ToldEventually`,
`CallsSettle`), as the prover has no fairness. Induction theorems that take an operator as a parameter
cannot be used; where a recursive function had to be followed it was by the well-foundedness of
the natural numbers. That was not done for the folds of `Compliance`, that is for the complexity and the
conversion of the requirements that are set, added or changed, nor for the pages of
`getIdentityClaimsFromMiddleware`, which count the claims of the Identities on them; of these the table
leaves out what is said.

## 6. Plan

Done, in the order of importance: transaction object, poll, batches, signing context, procedure,
settlements, authorization requests, offerings, then assets, portfolios, venues, distributions,
checkpoints, accounts, subsidies, MultiSigs, agents, restrictions, compliance, claims, permissions,
balances at checkpoints, subscriptions, pages and the connection, and the proofs above. To come:

1. *Proofs*: the folds of `Compliance` (that the complexity the code counts is at least the chain's,
   and that a requirement is read as what it demands), and the pages that count claims.
2. *Compositions*: `run()` with the poll that follows it; `run()` with the context that changes
   between preparation and signing.

## 7. Where code and documentation, or code and chain, disagree

Three have a run that shows them (`findings` in `PROJECT.json`):

* `tx_rerun`: `hasRun` is set when `run()` settles, so a second call before that submits again
  (`base/PolymeshTransactionBase.ts:247`, against the comment at line 156).
* `context_overlap`: an account is looked up in a manager that has been replaced meanwhile
  (`base/Context.ts:281`, against `api/client/Polymesh.ts:281`).
* `restrictions_set`: the restrictions of the other types are lost when those of one type are set
  (`setTransferRestrictions.ts:227`, against the comment of `TransferRestrictionBase.set`).

Others were met while modelling. The models do what the code does, and a property that would
be false for one of these reasons names the exception. Procedures are in `api/procedures/`.

*Transactions and poll*

1. A late answer of `getBlock` after a retraction overwrites `blockHash`
   (`PolymeshTransactionBase.ts:297`; line 90 says where the transaction resides).
2. A finality timeout leads to `Aborted` although the transaction is in a block (line 343;
   `types/index.ts:85`).
3. A listener that throws on the sync event of the last attempt is told of a timeout as well
   (line 513; line 488).
4. `ExtrinsicFailed` in a block is final even if the block is retracted (line 315;
   `types/index.ts:81`).
5. A subscription that is lost leaves `run()` pending for ever.
6. A listener that throws when it is told of the success takes it back: `Succeeded` was set and
   announced, then the catch clause sets and announces `Failed`, or `Rejected` or `Aborted` if the error has
   that code, though the extrinsic took effect (lines 220, 240, 550 to 559).
7. A listener's error at `Running` with "Cancelled" in its message makes the transaction `Rejected` after it
   was submitted (line 361); so does, when it is told of the success, one with the code of a rejection
   (line 233; `types/index.ts:73` says the signer rejected it).

*Batches and procedures*

1. The slice a list inside a list gets has lost `BatchCompleted`, and its resolver
   throws after the effect (`utils/internal.ts:397`, against `api/client/Polymesh.ts:297`).
2. Calls of `run()` on one part of a split batch that overlap add its index twice and block the
   parts after it (`PolymeshTransactionBatch.ts:217`; line 132).
   So does one call that rejects before its resolver though its part takes effect (failed `getBlock`,
   lost answer, finality timeout, a listener that throws at `Running`): the part is not in
   `processedIndexes` and cannot be run again, so that the rest of the batch can never be run. A last
   part, or a whole batch, can be applied though its `run()` rejects and gives no result.
3. `createTransactionBatch` with a single extrinsic builds a plain transaction, whose resolver
   throws (`Procedure.ts:360`; `Polymesh.ts:298`).
4. `splitTransactions` does not keep `fee` and `feeMultiplier` (172 to 178).
5. A failing preparation of a call that is not authorized is a rejection nobody handles
   (`Procedure.ts:286`).
6. `createTransactionBatch` passes an item's transformer the resolver's value without awaiting it
   (`createTransactionBatch.ts:128`); no procedure has both an async resolver and a transformer.
7. An empty batch is sent, and succeeds, for `modifyAsset` with `makeDivisible: false` or an empty
   name, and for `setVenueFiltering` with nothing to do.

*Settlements and venues*

1. Naming a portfolio that is in two legs is refused as not involved
   (`modifyInstructionAffirmation.ts:71`, against `types.ts:510`).
2. `addInstructions` returns the instructions in the order of its batch, those to be affirmed
   first, not in the order they were asked for (`addInstruction.ts:413`).
3. "The Instruction has already been executed" cannot be reached in `executeManualInstruction`.
4. `modifyVenue` refuses a description and a type of which only one is the same.
5. A filter that is found set already is not set again, and stays reset when it was reset
   in between (`setVenueFiltering.ts:34`).
6. An affirmation for a portfolio of the signer's that is to send, and that was deleted before, is
   built and reverted: its custody is still the signer's (`modifyInstructionAffirmation.ts:258`).

*Authorization requests*

1. The target of a primary key request cannot remove it with `remove()`
   (`AuthorizationRequest.ts:168`, against line 195).
2. `rotatePrimaryKey` compares an address with its argument, so a pending request is not
   noticed when an `Account` is passed (`rotatePrimaryKey.ts:50`).
3. `includeExpired` of `getReceived` has no effect (`Authorizations.ts:118`), and `getOne` of an
   expired request returns nothing.
4. `accept()` and `remove()` of an expired request send an empty batch and succeed.
5. `accept()` of an `AttestPrimaryKeyRotation` request throws a `TypeError`.
6. `remove()` of `AddRelayerPayingKey` by a target without Identity fails on permissions.
7. The validity check of a primary key rotation does not look whether the target is linked already;
   that of a ticker or asset transfer not whether the issuer still owns it.
8. The duplicate check of `subsidizeAccount` ignores which account subsidizes.

*Offerings*

1. `modifyTimes` compares dates by identity, so "Nothing to modify" is not raised for equal
   dates (`modifyOfferingTimes.ts:34`), and it does not check that the start is before the end.
2. `modifyTimes` sends a time it was not passed back as it read it, over a change that was made
   meanwhile (line 106).
3. `freeze()` of a closed offering is sent and reverted (`toggleFreezeOffering.ts:50`).
4. `launch` does not check the type of a venue that is passed (`types.ts:783`).
5. `calculateTierStats` passes over a tier above the price limit and counts cheaper ones after it
   (`types.ts:798` says tiers are sold in order).
6. `SoldOut` is told by value, so tokens left in a free tier count as sold out.
7. At the very start and the very end of an offering SDK and chain differ.

*Assets, tickers and portfolios*

1. `hasSameElements` (`utils/internal.ts:1057`) takes lists with repeated elements for the same when
   they are not, so that `modifyAsset`, `setAssetDocuments` and `modifyCaDefaultConfig` refuse them.
2. `createAsset` with a new custom type on a reserved ticker is quoted without a fee, because the tag
   of its first transaction is not one that `txTagToProtocolOp` knows (`utils/conversion.ts:2709`).
3. `controllerTransfer` converts its amount as if the Asset were divisible; the chain reverts it.
4. `moveFunds` compares numbered portfolios as objects, so that a portfolio passed twice as two
   entities is not noticed.
5. `createPortfolios` does not look for a name that is passed twice; `renamePortfolio` not
   whether the portfolio exists.
6. `deletePortfolio`, `redeemTokens` and `configureDividendDistribution` send only the number of a
   portfolio, which the chain takes for one of the signing Identity's.
7. `Identity.hasRole` asks whether the signing Identity has custody, not the one it is asked of
   (`Identity/index.ts:162`).

*Distributions, corporate actions*

1. `getParticipants` and `getParticipant` compare the payment date with the current date the
   other way round from what their comments say.
2. Funds of a distribution without expiry pass the checks of `reclaimFunds`; so does, for
   `configureDividendDistribution`, an expiry that is the payment date.
3. Removing a corporate action by its id does not check that it has not started.
4. `payDividends` checks neither that nobody is passed twice nor that the funds suffice.
5. `claimDividends` is refused until the checkpoint is made, while the chain makes it.
6. `assertCaTaxWithholdingsValid` counts the taxes that are passed, while the chain counts those it
   has as well (`polkadot/augment-api-tx.ts:2518`), and none of these is ever removed.
7. `linkCaDocs` links one of several documents with the same contents.

*Identities, agents, MultiSigs, subsidies*

1. `removeSecondaryAccounts` and `toggleFreezeSecondaryAccounts` do not check that the signer is the
   primary Account.
2. `waivePermissions` does not check that the caller is not the last agent with full permissions.
3. `modifyMultiSig` counts signers that have not accepted; it and `createMultiSig` count one
   that is listed twice as two.
4. Transactions "allowed to any Account, independent of permissions" (`entities/Account/helpers.ts:120`)
   are found missing when their module is excluded or they are excepted.
5. No group of transactions is ever listed for permissions that exclude
   (`transactionPermissionsToTxGroups`), even if all of it is permitted.
6. A request for everything (`null`) is refused for anything but full permissions, also for
   permissions that exclude nothing.
7. `getPermissions` throws a `TypeError` if the Account is removed from its Identity between its reads.
8. `modifyAllowance` refuses to decrease by exactly the allowance (`modifyAllowance.ts:76`).

*Compliance, restrictions, claims*

1. `conditionsAreEqual` (`utils/internal.ts:1070`) compares only claims and issuers, not the
   target or the type of a condition. A claim that the sender must have and the receiver must not is
   read back as one that both must have (`utils/conversion.ts:2689`). Of two on the sender, one that
   wants the claim and one that does not, only the first is read.
2. `assertRequirementsNotTooComplex` (`utils.ts:304`) multiplies what it has added up so far; it
   counts nothing when there are no default issuers, and not what was not read for reason 1: the
   chain then finds too complex what the code let through.
3. `setTransferRestrictions` refuses the last free slot (line 212); it does not ask for the
   permission to change exemptions when they are only removed; `availableSlots` counts the
   restrictions of one type only.
4. Restrictions and statistics are sent as whole sets: what others add between the read and
   the dispatch is lost.
5. `editClaims` finds a CDD claim with another id the same, although its documentation says that only the
   expiry date can be modified; it checks nothing when the middleware is down.
6. A claim that was just added cannot be edited or revoked before the middleware has caught up.
7. `findInvalidCddClaims` compares with the first CDD claim that was issued only.
8. `addClaims` lets investor uniqueness claims through, which the chain refuses.

*Reads and connection*

1. `Checkpoint.balance` answers with the balance after a transfer that is made between its
   reads (`Checkpoint.ts:236`); `allBalances` does not.
2. Pages of `getIdentitiesWithClaims` and `getTargetingClaims` of the second middleware overlap where
   Identities have no claims, and a page without claims names itself as the next one (`Claims.ts:355`,
   632). Those of `getIdentityClaimsFromMiddleware` ask for Identities but go on by the number of claims,
   and skip some (`Context.ts:910`).
3. Lists with the newest entry first repeat entries when new ones come between two pages.
4. A subscription to `Asset.details` keeps agents, name and uniqueness flag of its beginning; lookups
   of custom types overtake one another, and call back after unsubscribing
   (`Asset/index.ts:271`).
5. A subscription to `getSecondaryAccounts` tells nothing of new Accounts, and reports one that
   has moved to another Identity (`Identity/index.ts:850`).
6. A subscription to a ticker's details or availability is not told that the reservation has run out.
7. `connect` leaves the socket open when versions are not supported or the node answers the first request
   with an error, and does not settle when it answers that for the chain's version with one or closes the
   connection (`utils/internal.ts:1427`); it leaves the API connected when the context or a middleware
   refuses (`Polymesh.ts:181`).
8. `disconnect` does not stop clones of the context that transactions hold (`Context.ts:1281`, against
   "unusable after this operation").
9. `IdentityAuthorizations.getSent` throws if a request is used up between its two reads.

## 8. Not modelled

`PROJECT.json` lists every part with its state. Left out for good: GraphQL query strings,
conversions without logic, formatting, generated chain types and middleware schema (more than half of
the lines of the repository's source, and no behaviour of its own), mocks and test utilities.
Left out of the modelled parts: wording of errors (kinds of errors are kept where a property tells
them apart), logging, historical queries (they ask the middleware and hold no state), amounts of fees
(only whether they are covered, and for which operations they are quoted) and the caches of the
context. Queries and subscriptions of one storage entry (of Instructions, Offerings, balances, blocks)
are single reads: there is nothing between their request and their answer. Permissions granted
by an invitation, and those of a group, are values that are compared as a whole; what they mean is in
`Permissions`. Roles are questions the chain answers as it likes, but where a module models what they
are about. Dates and periods are ticks: the calendar arithmetic of schedules is not modelled.
`createVenue`, `registerIdentity` and `addInvestorUniquenessClaim` read nothing of the chain but who
signs, and only check and convert their arguments.
