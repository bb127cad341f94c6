--------------------------- MODULE TransactionBatch ---------------------------
(***************************************************************************)
(* One SDK transaction that is either run as a whole, or split with        *)
(* splitTransactions() into parts that are run one by one.  The parts      *)
(* share the closure variables processedIndexes and receipts; the guard    *)
(* on their order is checked when run() is called, and they are updated    *)
(* when a part's resolver runs, a whole finalization later.  A call of     *)
(* run() may also reject though its extrinsic takes effect, before or      *)
(* after that: then the chain knows of a part the closures do not.         *)
(*                                                                         *)
(* A receipt is its sequence of events.  A batch receipt holds the events  *)
(* of its extrinsics in order, then utility.BatchCompleted with the number *)
(* of events of each.  createTransactionBatch() joins the transactions of  *)
(* several SDK transactions in one batch and gives each resolver the slice *)
(* of the receipt that belongs to it; splitting a batch does the reverse   *)
(* and merges the receipts of its parts.                                   *)
(***************************************************************************)
EXTENDS Naturals, Sequences, SequencesExt

CONSTANTS
  Txs,       \* the extrinsics (calls with their arguments)
  Emits,     \* the kinds of events each one emits, in order
  Exprs,     \* the SDK transactions considered
  MaxCalls,  \* bound on the calls of run() on one part
  Faults     \* may dispatches, answers and listeners fail?

(* A "made" event is one a resolver looks for, say asset.AssetCreated.     *)
ASSUME EmitsAssumption  == Emits \in [Txs -> Seq({"made", "other"})]
ASSUME CallsAssumption  == MaxCalls \in Nat
ASSUME ExprsAssumption  == \A e \in Exprs : e.txs \in Seq(Txs) /\ e.txs # <<>>
ASSUME FaultsAssumption == Faults \in BOOLEAN

VARIABLES
  expr,       \* the transaction
  mode,       \* what was done with it: "prepared", "whole" or "split"
  calls,      \* calls of run() let through, by part
  pending,    \* ... and those of them not settled
  adrift,     \* ... and those that rejected, with an extrinsic that may still be applied
  hasRun,     \* the hasRun flag of each part
  processed,  \* processedIndexes: the parts whose resolver ran (from 1)
  receipts,   \* their receipts
  applied,    \* the parts, or all of them at once, in the order applied on chain
  outcomes    \* what the resolver of the whole, or of the last part, gave

vars == <<expr, mode, calls, pending, adrift, hasRun, processed, receipts, applied, outcomes>>

N     == Len(expr.txs)
Parts == 1 .. N

TypeOK ==
  /\ expr \in Exprs /\ mode \in {"prepared", "whole", "split"}
  /\ calls \in [Parts -> 0 .. MaxCalls] /\ pending \in [Parts -> 0 .. MaxCalls]
  /\ adrift \in [Parts -> 0 .. MaxCalls]
  /\ hasRun \in [Parts -> BOOLEAN]
  /\ processed \in Seq(Parts) /\ Len(receipts) = Len(processed)
  /\ applied \in Seq(Parts)

Init ==
  /\ expr \in Exprs /\ mode = "prepared"
  /\ calls = [i \in Parts |-> 0] /\ pending = [i \in Parts |-> 0]
  /\ adrift = [i \in Parts |-> 0] /\ hasRun = [i \in Parts |-> FALSE]
  /\ processed = <<>> /\ receipts = <<>> /\ applied = <<>> /\ outcomes = <<>>

-----------------------------------------------------------------------------
(* Receipts *)

Event(k, t)     == [kind |-> k, tx |-> {t}, counts |-> <<>>]
ExtrinsicSuccess == [kind |-> "other", tx |-> {}, counts |-> <<>>]
BatchCompleted(counts) == [kind |-> "completed", tx |-> {}, counts |-> counts]

(* The events of one extrinsic, and what the node reports of it run alone, *)
(* in a batch, or as procedures send it: a batch of one is no batch.       *)
Events(t)        == [k \in DOMAIN Emits[t] |-> Event(Emits[t][k], t)]
PlainReceipt(t)  == Append(Events(t), ExtrinsicSuccess)
BatchReceipt(ts) ==
  FlattenSeq([i \in DOMAIN ts |-> Events(ts[i])])
    \o <<BatchCompleted([i \in DOMAIN ts |-> Len(Emits[ts[i]])]), ExtrinsicSuccess>>
RunReceipt(ts)   == IF Len(ts) = 1 THEN PlainReceipt(ts[1]) ELSE BatchReceipt(ts)

(* filterEventRecords(): the events of one kind among the first i.         *)
Found(receipt, k) ==
  LET found[i \in 0 .. Len(receipt)] ==
        IF i = 0 THEN <<>>
        ELSE IF receipt[i].kind = k THEN Append(found[i - 1], receipt[i]) ELSE found[i - 1]
  IN  found
FilterRecords(receipt, k) == Found(receipt, k)[Len(receipt)]

(* The result of a resolver: a value, or an UnexpectedError.               *)
Ok(v) == [ok |-> TRUE, value |-> v]
Err   == [ok |-> FALSE, value |-> <<>>]

-----------------------------------------------------------------------------
(* mergeReceipts(): the events of all receipts and a simulated             *)
(* BatchCompleted event.                                                   *)
MergeReceipts(rs) ==
  Append(FlattenSeq(rs), BatchCompleted([i \in DOMAIN rs |-> Len(rs[i])]))

(* Is the i-th extrinsic (from 0) in the range?  Mutant: the end is taken  *)
(* as included.                                                            *)
InRange_EndIncluded(i, from, to) == i >= from /\ i <= to
InRange(i, from, to) == i >= from /\ i < to

(* sliceBatchReceipt(): as many events as the first BatchCompleted counts  *)
(* for each extrinsic are taken off the receipt in turn, and those of      *)
(* from .. to - 1 are kept.                                                *)
Sliced(receipt, counts, from, to) ==
  LET cut[i \in 0 .. Len(counts)] ==
        IF i = 0 THEN [left |-> receipt, kept |-> <<>>]
        ELSE [left |-> SubSeq(cut[i - 1].left, counts[i] + 1, Len(cut[i - 1].left)),
              kept |-> IF InRange(i - 1, from, to)
                         THEN cut[i - 1].kept \o SubSeq(cut[i - 1].left, 1, counts[i])
                         ELSE cut[i - 1].kept]
  IN  cut
SliceBatchReceipt(receipt, from, to) ==
  LET completed == FilterRecords(receipt, "completed")
      counts    == completed[1].counts
  IN  IF completed = <<>> \/ Len(counts) < to \/ from < 0
        THEN Err
        ELSE Ok(Sliced(receipt, counts, from, to)[Len(counts)].kept)

-----------------------------------------------------------------------------
(* SDK transactions.  "plain" resolves to what its one event made and      *)
(* "procedure", a batch of one procedure, to all that was made; the        *)
(* resolver of "void" is no function.  "list" is createTransactionBatch(). *)
Plain(t)      == [kind |-> "plain", txs |-> <<t>>, items |-> <<>>]
Procedure(ts) == [kind |-> "procedure", txs |-> ts, items |-> <<>>]
Void(ts)      == [kind |-> "void", txs |-> ts, items |-> <<>>]
List(items)   == [kind |-> "list", items |-> items,
                  txs |-> FlattenSeq([i \in DOMAIN items |-> items[i].txs])]

IsBatch(e) == Len(e.txs) # 1

(* startIndex of the i-th item: the transactions of those in front of it.  *)
StartIndex(items, i) == Len(FlattenSeq([j \in 1 .. i - 1 |-> items[j].txs]))

ResolveLeaf(e, receipt) ==
  LET made == FilterRecords(receipt, "made")
  IN  IF e.kind = "void" THEN Ok(<<>>)
      ELSE IF made = <<>> THEN Err
      ELSE Ok([i \in 1 .. (IF e.kind = "plain" THEN 1 ELSE Len(made)) |-> made[i].tx])

(* The events an item's resolver gets; a resolver that is no function gets *)
(* none, and asks for none.                                                *)
ItemSlice(e, i, receipt) ==
  LET start == StartIndex(e.items, i)
  IN  IF e.items[i].kind = "void" THEN Ok(<<>>)
      ELSE SliceBatchReceipt(receipt, start, start + Len(e.items[i].txs))

(* Promise.all: one failure rejects the whole.                             *)
AllOf(results) ==
  IF \A i \in DOMAIN results : results[i].ok
    THEN Ok([i \in DOMAIN results |-> results[i].value])
    ELSE Err

(* The resolver of a list: every item resolves the slice of its own        *)
(* transactions.  Lists are modelled up to lists of lists.                 *)
ResolveFlat(e, receipt) ==
  IF e.kind # "list" THEN ResolveLeaf(e, receipt)
  ELSE AllOf([i \in DOMAIN e.items |->
               LET slice == ItemSlice(e, i, receipt)
               IN  IF slice.ok THEN ResolveLeaf(e.items[i], slice.value) ELSE Err])

Resolve(e, receipt) ==
  IF e.kind # "list" THEN ResolveLeaf(e, receipt)
  ELSE AllOf([i \in DOMAIN e.items |->
               LET slice == ItemSlice(e, i, receipt)
               IN  IF slice.ok THEN ResolveFlat(e.items[i], slice.value) ELSE Err])

(* What a transaction gives when it is run as it is.                       *)
ResultOf(e) == Resolve(e, RunReceipt(e.txs))

-----------------------------------------------------------------------------
(* Running the transaction as a whole: batchAtomic applies all or nothing; *)
(* the resolver is called with the receipt of the finalized block.  When   *)
(* the block cannot be read, or the answer to the submission is lost,      *)
(* run() rejects before that, whether or not the batch is applied.  A      *)
(* listener that throws on the success makes it reject afterwards, with    *)
(* the result known to the object.                                         *)
RunWhole ==
  /\ mode = "prepared"
  /\ mode' = "whole"
  /\ LET all == [i \in Parts |-> i]
     IN  \/ applied' = all /\ outcomes' = <<ResultOf(expr)>>
         \/ Faults /\ applied' \in {applied, all} /\ UNCHANGED outcomes
  /\ UNCHANGED <<expr, calls, pending, adrift, hasRun, processed, receipts>>

(* Only a PolymeshTransactionBatch can be split.                           *)
SplitTransactions ==
  /\ mode = "prepared" /\ IsBatch(expr)
  /\ mode' = "split"
  /\ UNCHANGED <<expr, calls, pending, adrift, hasRun, processed, receipts, applied, outcomes>>

(* The order check of a part's run().  Mutant: it is only made for the     *)
(* last part, whose resolver needs the receipts of the others.             *)
InOrder_LastOnly(i) == (i > 1 /\ i = N) => i - 1 <= Len(processed) /\ processed[i - 1] = i - 1
InOrder(i) == i > 1 => i - 1 <= Len(processed) /\ processed[i - 1] = i - 1

(* A call of run() that is let through: in order, and no earlier call has  *)
(* settled.  Calls that throw change nothing.                              *)
RunPart(i) ==
  /\ mode = "split" /\ InOrder(i) /\ ~hasRun[i]
  /\ calls[i] < MaxCalls
  /\ calls' = [calls EXCEPT ![i] = @ + 1]
  /\ pending' = [pending EXCEPT ![i] = @ + 1]
  /\ UNCHANGED <<expr, mode, adrift, hasRun, processed, receipts, applied, outcomes>>

Settle(i) ==
  /\ pending[i] > 0
  /\ pending' = [pending EXCEPT ![i] = @ - 1]
  /\ hasRun' = [hasRun EXCEPT ![i] = TRUE]
  /\ UNCHANGED <<expr, mode, calls>>

(* The receipts the batch's resolver gets.  Mutant: the last part's own is *)
(* forgotten.                                                              *)
Collected_WithoutLast(receipt) == receipts
Collected(receipt) == Append(receipts, receipt)

(* What a part's resolver adds to processedIndexes.  Mutant: the index the *)
(* part expects to find there.                                             *)
Processed_Expected(i) == Append(processed, i - 1)
Processed(i) == Append(processed, i)

(* A part is applied and its resolver runs: the last one resolves the      *)
(* batch, the others leave their receipt to it.  (A listener that throws   *)
(* on the success makes run() reject after that, with the same effects.)   *)
PartResolves(i) ==
  /\ Settle(i)
  /\ applied' = Append(applied, i)
  /\ LET receipt == PlainReceipt(expr.txs[i])
     IN  IF i = N
           THEN /\ outcomes' = Append(outcomes, Resolve(expr, MergeReceipts(Collected(receipt))))
                /\ UNCHANGED <<processed, receipts>>
           ELSE /\ processed' = Processed(i)
                /\ receipts' = Append(receipts, receipt)
                /\ UNCHANGED outcomes
  /\ UNCHANGED adrift

(* A part's run() rejects before its resolver runs.  It was not sent or    *)
(* failed on the chain, or its extrinsic is left adrift: the answer to the *)
(* submission was lost, a listener threw on the running status, the block  *)
(* could not be read, its finalization timed out.                          *)
PartFails(i) ==
  /\ Faults
  /\ Settle(i)
  /\ adrift' \in {adrift, [adrift EXCEPT ![i] = @ + 1]}
  /\ UNCHANGED <<processed, receipts, applied, outcomes>>

(* ... and takes effect, with no resolver to hear of it.                   *)
AppliesUnheard(i) ==
  /\ adrift[i] > 0
  /\ adrift' = [adrift EXCEPT ![i] = @ - 1]
  /\ applied' = Append(applied, i)
  /\ UNCHANGED <<expr, mode, calls, pending, hasRun, processed, receipts, outcomes>>

Next ==
  \/ RunWhole
  \/ SplitTransactions
  \/ \E i \in Parts : RunPart(i) \/ PartResolves(i) \/ PartFails(i) \/ AppliesUnheard(i)

Spec == Init /\ [][Next]_vars

-----------------------------------------------------------------------------
(* Properties *)

(* No part of a split batch takes effect before the part in front of it    *)
(* has, whatever calls of run() overlap or fail.                           *)
AppliedInOrder ==
  \A k \in DOMAIN applied :
    applied[k] = 1 \/ \E j \in 1 .. k - 1 : applied[j] = applied[k] - 1

NoRepeats == \A i \in Parts : calls[i] <= 1

(* With one call per part the effects are those of a prefix of the batch,  *)
(* and the receipts kept for the resolver are those of the parts applied   *)
(* before the last.  One part may be missing: that whose run() rejected    *)
(* though it took effect.  Nothing follows it, then or later; it cannot be *)
(* run again, and the batch cannot be finished.                            *)
ReceiptsMatchChain ==
  mode = "split" /\ NoRepeats =>
    /\ applied = [k \in 1 .. Len(applied) |-> k]
    /\ receipts = [k \in 1 .. Len(processed) |-> PlainReceipt(expr.txs[k])]
    /\ processed = [k \in 1 .. Len(processed) |-> k]
    /\ ToSet(processed) \subseteq ToSet(applied) \ {N}
    /\ \A i \in ToSet(applied) \ (ToSet(processed) \cup {N}) :
         /\ hasRun[i] /\ ~InOrder(i + 1)
         /\ \A j \in i + 1 .. N : calls[j] = 0

(* splitTransactions(): "The result that would be obtained by running the  *)
(* batch is returned by running the last transaction in the array"; and of *)
(* createTransactionBatch(): "The result of running this transaction will  *)
(* be an array of the results of each transaction in the list, in the same *)
(* order", whichever way the list is run.  There is no result before all   *)
(* transactions took effect.                                               *)
ResultsMatch ==
  NoRepeats => \A k \in DOMAIN outcomes :
    /\ ToSet(applied) = Parts
    /\ mode = "split" => outcomes[k] = ResultOf(expr)
    /\ expr.kind = "list" /\ (\A i \in DOMAIN expr.items : ResultOf(expr.items[i]).ok) =>
         outcomes[k] = Ok([i \in DOMAIN expr.items |-> ResultOf(expr.items[i]).value])
===============================================================================
