---------------------------- MODULE MiddlewareSync ----------------------------
(***************************************************************************)
(* emitWhenMiddlewareIsSynced(): once run() is settled, the transaction    *)
(* object polls the middleware in the background and tells the listeners   *)
(* of onProcessedByMiddleware that it has caught up, or that it has not.   *)
(* The chain finalizes blocks and the middleware processes them meanwhile. *)
(***************************************************************************)
EXTENDS Naturals, Sequences

CONSTANTS
  Enabled,         \* is a middleware (V1 or V2) configured?
  TxBlock,         \* number of the block the transaction is in
  MaxBlock,        \* bound on the chain's growth
  Attempts         \* iterations of the polling loop, range(6)

ASSUME BoundAssumption ==
  /\ MaxBlock \in Nat /\ TxBlock \in 0 .. MaxBlock
  /\ Attempts \in Nat \ {0}
ASSUME EnabledAssumption == Enabled \in BOOLEAN

VARIABLES
  throws,     \* may a ProcessedByMiddleware listener throw?
  outcome,    \* how run() reached its finally clause, or "pending"
  finalized,  \* number of the latest finalized block
  processed,  \* number of the latest block the middleware has processed
  loop,       \* where the poll stands; "next": an iteration has returned
  target,     \* blockNumber: the block the poll waits for
  attempt,    \* index of the iteration
  done,       \* the done flag
  queries,    \* queries sent to the middleware
  events      \* ProcessedByMiddleware events: "synced", "timeout" or "failure"

pollVars == <<throws, outcome, finalized, processed, loop, target, attempt, done, queries,
              events>>

PollTypeOK ==
  /\ outcome \in {"pending", "succeeded", "failed"}
  /\ throws \in BOOLEAN /\ done \in BOOLEAN
  /\ finalized \in 0 .. MaxBlock /\ processed \in 0 .. MaxBlock
  /\ target \in 0 .. MaxBlock
  /\ loop \in {"off", "head", "query", "next", "over"}
  /\ attempt \in 0 .. Attempts /\ queries \in 0 .. Attempts
  /\ events \in Seq({"synced", "timeout", "failure"})

PollInit ==
  /\ outcome = "pending" /\ throws \in BOOLEAN /\ done = FALSE
  /\ finalized \in 0 .. MaxBlock /\ processed \in 0 .. finalized
  /\ target = 0 /\ loop = "off" /\ attempt = 0 /\ queries = 0 /\ events = <<>>

-----------------------------------------------------------------------------
(* The chain and the middleware *)

FinalizeBlock ==
  /\ finalized < MaxBlock
  /\ finalized' = finalized + 1
  /\ UNCHANGED <<throws, outcome, processed, loop, target, attempt, done, queries, events>>

(* The middleware indexes finalized blocks, a block at a time.             *)
ProcessBlock ==
  /\ processed < finalized
  /\ processed' = processed + 1
  /\ UNCHANGED <<throws, outcome, finalized, loop, target, attempt, done, queries, events>>

-----------------------------------------------------------------------------
(* emitWhenMiddlewareIsSynced() *)

chain == <<finalized, processed>>

(* A run that succeeded has seen its block finalized, one that failed may  *)
(* not have.                                                               *)
Settle ==
  /\ outcome = "pending"
  /\ \/ outcome' = "succeeded" /\ finalized >= TxBlock
     \/ outcome' = "failed"
  /\ loop' = IF Enabled THEN "head" ELSE "over"
  /\ UNCHANGED <<throws, chain, target, attempt, done, queries, events>>

(* getLatestBlock: the block to wait for is the finalized head.  Mutant:   *)
(* the head is taken one block early.                                      *)
LatestBlock_Previous == IF finalized = 0 THEN 0 ELSE finalized - 1
LatestBlock == finalized

HeadArrives ==
  /\ loop = "head"
  /\ target' = LatestBlock /\ loop' = "query" /\ attempt' = 0
  /\ UNCHANGED <<throws, outcome, chain, done, queries, events>>

(* The outer catch.                                                        *)
HeadFails ==
  /\ loop = "head"
  /\ events' = Append(events, "failure") /\ loop' = "over"
  /\ UNCHANGED <<throws, outcome, chain, target, attempt, done, queries>>

(* The last iteration reports the timeout.  Mutants: every one does; the   *)
(* index is off by one, so that none does.                                 *)
LastAttempt_Every == TRUE
LastAttempt_None == attempt = Attempts
LastAttempt == attempt = Attempts - 1

(* A listener that throws while the timeout is reported makes the outer    *)
(* catch report a second time; what it throws there is lost.               *)
ReportTimeout(told) ==
  \/ events' = Append(told, "timeout") /\ loop' = "next"
  \/ /\ throws
     /\ events' = told \o <<"timeout", "failure">> /\ loop' = "over"

(* Not caught up, or the query failed, which is swallowed.                 *)
Retry(told) == IF LastAttempt THEN ReportTimeout(told) ELSE loop' = "next" /\ events' = told

CaughtUp == target <= processed

Synced ==
  /\ loop = "query" /\ CaughtUp
  /\ done' = TRUE /\ queries' = queries + 1
  /\ \/ events' = Append(events, "synced") /\ loop' = "next"
     \/ throws /\ Retry(Append(events, "synced")) \* its error is taken for a query's
  /\ UNCHANGED <<throws, outcome, chain, target, attempt>>

NotSynced ==
  /\ loop = "query" /\ ~CaughtUp
  /\ queries' = queries + 1 /\ Retry(events)
  /\ UNCHANGED <<throws, outcome, chain, target, attempt, done>>

QueryFails ==
  /\ loop = "query"
  /\ queries' = queries + 1 /\ Retry(events)
  /\ UNCHANGED <<throws, outcome, chain, target, attempt, done>>

(* P.each: the next iteration, which returns at once when done.  Mutants:  *)
(* one iteration too many; done is not looked at.                          *)
Stop_Late == done \/ attempt = Attempts
Stop_NotDone == attempt + 1 = Attempts
Stop == done \/ attempt + 1 = Attempts

Continue ==
  /\ loop = "next"
  /\ IF Stop THEN loop' = "over" /\ UNCHANGED attempt
             ELSE loop' = "query" /\ attempt' = attempt + 1
  /\ UNCHANGED <<throws, outcome, chain, target, done, queries, events>>

PollNext ==
  \/ FinalizeBlock \/ ProcessBlock \/ Settle
  \/ HeadArrives \/ HeadFails \/ Synced \/ NotSynced \/ QueryFails \/ Continue

PollSpec == PollInit /\ [][PollNext]_pollVars

(* The node and the middleware answer, a timer fires.                      *)
FairPollSpec ==
  /\ PollSpec
  /\ WF_pollVars(HeadArrives \/ HeadFails)
  /\ WF_pollVars(Synced \/ NotSynced \/ QueryFails)
  /\ WF_pollVars(Continue)

-----------------------------------------------------------------------------
(* Properties *)

Heard(what) == \E k \in DOMAIN events : events[k] = what

(* A listener that does not throw is told once, and not both things; and   *)
(* what is told is true (onProcessedByMiddleware): the block of a          *)
(* transaction that succeeded has been processed, or every attempt to see  *)
(* it processed was made.                                                  *)
ToldOnceAndTruly ==
  /\ ~throws => Len(events) <= 1
  /\ outcome = "succeeded" /\ Heard("synced") => TxBlock <= processed
  /\ Heard("timeout") => queries = Attempts

(* Once run() is settled the listener is told, if there is a middleware.   *)
ToldEventually == outcome # "pending" /\ Enabled ~> events # <<>>
===============================================================================
