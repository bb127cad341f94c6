----------------------- MODULE TransactionBatch_proofs -----------------------
(***************************************************************************)
(* The parts of a split batch are applied in order, and the receipts kept  *)
(* for the resolver are theirs, for every batch and every number of        *)
(* overlapping calls of run(), those included that reject for extrinsics   *)
(* that take effect.  The results of a batch, run as a whole or  *)
(* split, are those of its transactions: a lemma on receipts (what slicing *)
(* takes off is what merging or the node put together, and a resolver sees *)
(* no more of it than what was made) and an invariant that relates the     *)
(* outcomes to the receipts.                                               *)
(***************************************************************************)
EXTENDS TransactionBatch, TLAPS, WellFoundedInduction

(* What the steps need of the types.                                       *)
Typing ==
  /\ expr \in Exprs
  /\ pending \in [Parts -> Nat]
  /\ adrift \in [Parts -> Nat]
  /\ processed \in Seq(Nat)
  /\ applied \in Seq(Nat)

Reached(i) == i = 1 \/ \E j \in 1 .. Len(applied) : applied[j] = i - 1

InOrderSoFar ==
  \A k \in 1 .. Len(applied) :
    applied[k] = 1 \/ \E j \in 1 .. k - 1 : applied[j] = applied[k] - 1

(* Calls only pend in a split batch, where processedIndexes names parts    *)
(* that were applied and every part whose run() was let through has its    *)
(* predecessor on the chain: the check made at the call still holds when   *)
(* the part is applied, because nothing leaves the chain.                  *)
Guarded ==
  /\ mode # "split" => /\ \A i \in Parts : pending[i] = 0 /\ adrift[i] = 0
                       /\ processed = <<>>
  /\ mode = "prepared" => applied = <<>>
  /\ \A k \in 1 .. Len(processed) :
       \E j \in 1 .. Len(applied) : applied[j] = processed[k]
  /\ \A i \in Parts : pending[i] > 0 \/ adrift[i] > 0 => Reached(i)

Inv == Typing /\ InOrderSoFar /\ Guarded

-----------------------------------------------------------------------------
(* A batch has at least one transaction.                                   *)
LEMMA BatchSize ==
  ASSUME expr \in Exprs
  PROVE  N \in Nat \ {0}
  BY ExprsAssumption DEF N

(* Appending keeps the elements in front.                                  *)
LEMMA Appended ==
  ASSUME NEW s \in Seq(Nat), NEW x \in Nat
  PROVE  /\ Append(s, x) \in Seq(Nat)
         /\ Len(Append(s, x)) = Len(s) + 1 /\ Len(s) \in Nat
         /\ Append(s, x)[Len(s) + 1] = x
         /\ \A k \in 1 .. Len(s) : Append(s, x)[k] = s[k]
  OBVIOUS

LEMMA InitInv == Init => Inv
<1> SUFFICES ASSUME Init PROVE Inv
  OBVIOUS
<1>1. N \in Nat \ {0}
  BY BatchSize DEF Init
<1>2. applied = <<>> /\ processed = <<>> /\ Len(applied) = 0 /\ Len(processed) = 0
  BY DEF Init
<1>3. Typing
  BY <1>1, <1>2 DEF Init, Typing, Parts
<1>4. InOrderSoFar
  BY <1>2 DEF InOrderSoFar
<1>5. Guarded
  BY <1>1, <1>2 DEF Init, Guarded, Parts
<1> QED BY <1>3, <1>4, <1>5 DEF Inv

-----------------------------------------------------------------------------
(* Running the batch as a whole applies its parts in order at once.        *)
LEMMA WholeStep == Inv /\ RunWhole => Inv'
<1> SUFFICES ASSUME Inv, RunWhole PROVE Inv'
  OBVIOUS
<1>1. N \in Nat \ {0}
  BY BatchSize DEF Inv, Typing
<1>2. /\ expr' = expr /\ N' = N /\ Parts' = Parts
      /\ pending' = pending /\ adrift' = adrift /\ processed' = processed
      /\ mode' = "whole" /\ mode = "prepared" /\ applied = <<>>
  BY DEF RunWhole, N, Parts, Inv, Guarded
<1>3. processed = <<>> /\ \A i \in Parts : pending[i] = 0 /\ adrift[i] = 0
  BY <1>2 DEF Inv, Guarded
<1>4. CASE applied' = [i \in Parts |-> i]
  <2>1. applied' \in Seq(Nat) /\ Len(applied') = N /\ \A k \in 1 .. N : applied'[k] = k
    BY <1>1, <1>4 DEF Parts
  <2>2. Typing'
    BY <1>2, <2>1 DEF Inv, Typing
  <2>3. InOrderSoFar'
    <3> SUFFICES ASSUME NEW k \in 1 .. N, k # 1
                 PROVE  \E j \in 1 .. k - 1 : applied'[j] = applied'[k] - 1
      BY <2>1 DEF InOrderSoFar
    <3>1. k - 1 \in 1 .. k - 1 /\ k - 1 \in 1 .. N
      BY <1>1
    <3> QED BY <2>1, <3>1
  <2>4. Guarded'
    BY <1>2, <1>3 DEF Guarded
  <2> QED BY <2>2, <2>3, <2>4 DEF Inv
<1>5. CASE applied' = applied
  <2>1. Typing' /\ InOrderSoFar'
    BY <1>2, <1>5 DEF Inv, Typing, InOrderSoFar
  <2>2. Guarded'
    BY <1>2, <1>3 DEF Guarded
  <2> QED BY <2>1, <2>2 DEF Inv
<1> QED BY <1>4, <1>5 DEF RunWhole

LEMMA SplitStep == Inv /\ SplitTransactions => Inv'
<1> SUFFICES ASSUME Inv, SplitTransactions PROVE Inv'
  OBVIOUS
<1>1. /\ expr' = expr /\ N' = N /\ Parts' = Parts /\ pending' = pending /\ adrift' = adrift
      /\ processed' = processed /\ applied' = applied /\ mode' = "split"
  BY DEF SplitTransactions, N, Parts
<1>2. Typing' /\ InOrderSoFar'
  BY <1>1 DEF Inv, Typing, InOrderSoFar
<1>3. Guarded'
  BY <1>1 DEF Inv, Guarded, Reached
<1> QED BY <1>2, <1>3 DEF Inv

(* The order check of run() finds the predecessor in processedIndexes, and *)
(* so on the chain.                                                        *)
LEMMA RunStep ==
  ASSUME Inv, NEW i \in Parts, RunPart(i)
  PROVE  Inv'
<1>1. N \in Nat \ {0}
  BY BatchSize DEF Inv, Typing
<1>2. /\ expr' = expr /\ N' = N /\ Parts' = Parts
      /\ pending' = [pending EXCEPT ![i] = @ + 1] /\ adrift' = adrift
      /\ processed' = processed /\ applied' = applied
      /\ mode' = "split" /\ mode = "split" /\ InOrder(i)
  BY DEF RunPart, N, Parts
<1>3. Typing' /\ InOrderSoFar'
  BY <1>2 DEF Inv, Typing, InOrderSoFar
<1>4. Reached(i)
  <2>1. CASE i = 1
    BY <2>1 DEF Reached
  <2>2. CASE i # 1
    <3>1. i \in Nat /\ i > 1
      BY <1>1, <2>2 DEF Parts
    <3>2. i - 1 \in 1 .. Len(processed) /\ processed[i - 1] = i - 1
      BY <1>2, <3>1 DEF InOrder, Inv, Typing
    <3>3. \E j \in 1 .. Len(applied) : applied[j] = processed[i - 1]
      BY <3>2 DEF Inv, Guarded
    <3> QED BY <3>2, <3>3 DEF Reached
  <2> QED BY <2>1, <2>2
<1>5. \A q \in Parts : pending'[q] > 0 \/ adrift'[q] > 0 => Reached(q)'
  BY <1>2, <1>4 DEF Inv, Typing, Guarded, Reached
<1>6. Guarded'
  BY <1>2, <1>5 DEF Inv, Guarded
<1> QED BY <1>3, <1>6 DEF Inv

(* A part whose run() was let through is applied, whether or not its       *)
(* resolver hears of it.                                                   *)
LEMMA LandsStep ==
  ASSUME Inv, NEW i \in Parts, mode = "split", Reached(i),
         expr' = expr, mode' = mode, applied' = Append(applied, i),
         processed' = processed \/ processed' = Append(processed, i),
         pending' \in [Parts -> Nat], adrift' \in [Parts -> Nat],
         \A q \in Parts : pending'[q] <= pending[q] /\ adrift'[q] <= adrift[q]
  PROVE  Inv'
<1>1. N \in Nat \ {0} /\ i \in Nat
  BY BatchSize DEF Inv, Typing, Parts
<1>2. N' = N /\ Parts' = Parts
  BY DEF N, Parts
<1>4. /\ applied \in Seq(Nat) /\ processed \in Seq(Nat) /\ applied' \in Seq(Nat)
      /\ Len(applied) \in Nat /\ Len(applied') = Len(applied) + 1
      /\ applied'[Len(applied) + 1] = i
      /\ \A k \in 1 .. Len(applied) : applied'[k] = applied[k]
  BY <1>1, Appended DEF Inv, Typing
<1>5. Typing'
  <2>1. processed' \in Seq(Nat)
    <3>1. Append(processed, i) \in Seq(Nat)
      BY <1>1, <1>4, Appended
    <3> QED BY <1>4, <3>1
  <2> QED BY <1>2, <1>4, <2>1 DEF Inv, Typing
<1>6. InOrderSoFar'
  <2> SUFFICES ASSUME NEW k \in 1 .. Len(applied) + 1, applied'[k] # 1
               PROVE  \E j \in 1 .. k - 1 : applied'[j] = applied'[k] - 1
    BY <1>4 DEF InOrderSoFar
  <2>1. CASE k = Len(applied) + 1
    <3>1. \E j \in 1 .. Len(applied) : applied[j] = i - 1
      BY <1>4, <2>1 DEF Reached
    <3> QED BY <1>4, <2>1, <3>1
  <2>2. CASE k # Len(applied) + 1
    <3>1. k \in 1 .. Len(applied)
      BY <1>4, <2>2
    <3>2. \E j \in 1 .. k - 1 : applied[j] = applied[k] - 1
      BY <1>4, <3>1 DEF Inv, InOrderSoFar
    <3>3. \A j \in 1 .. k - 1 : j \in 1 .. Len(applied)
      BY <1>4, <3>1
    <3> QED BY <1>4, <3>1, <3>2, <3>3
  <2> QED BY <2>1, <2>2
<1>7. Guarded'
  <2>1. \A q : Reached(q) => Reached(q)'
    BY <1>4 DEF Reached
  <2>2. \A q \in Parts : pending'[q] > 0 \/ adrift'[q] > 0 => Reached(q)'
    <3> TAKE q \in Parts
    <3>1. /\ pending[q] \in Nat /\ adrift[q] \in Nat /\ pending'[q] \in Nat /\ adrift'[q] \in Nat
          /\ pending[q] > 0 \/ adrift[q] > 0 => Reached(q)
      BY DEF Inv, Guarded, Typing
    <3> QED BY <2>1, <3>1
  <2>3. \A k \in 1 .. Len(processed') :
          \E j \in 1 .. Len(applied') : applied'[j] = processed'[k]
    <3> TAKE k \in 1 .. Len(processed')
    <3>1. CASE k \in 1 .. Len(processed) /\ processed'[k] = processed[k]
      BY <1>4, <3>1 DEF Inv, Guarded
    <3>2. CASE processed'[k] = i
      <4>1. Len(applied) + 1 \in 1 .. Len(applied')
        BY <1>4
      <4> QED BY <1>4, <3>2, <4>1
    <3>3. (k \in 1 .. Len(processed) /\ processed'[k] = processed[k]) \/ processed'[k] = i
      BY <1>1, <1>4, Appended
    <3> QED BY <3>1, <3>2, <3>3
  <2> QED BY <1>2, <2>2, <2>3 DEF Guarded
<1> QED BY <1>5, <1>6, <1>7 DEF Inv

LEMMA ResolveStep ==
  ASSUME Inv, NEW i \in Parts, PartResolves(i)
  PROVE  Inv'
<1>1. /\ expr' = expr /\ mode' = mode /\ adrift' = adrift
      /\ pending' = [pending EXCEPT ![i] = @ - 1] /\ pending[i] > 0
      /\ applied' = Append(applied, i)
      /\ processed' = processed \/ processed' = Append(processed, i)
  BY DEF PartResolves, Settle, Processed
<1>2. mode = "split" /\ Reached(i)
  BY <1>1 DEF Inv, Guarded, Typing
<1>3. /\ pending' \in [Parts -> Nat] /\ adrift' \in [Parts -> Nat]
      /\ \A q \in Parts : pending'[q] <= pending[q] /\ adrift'[q] <= adrift[q]
  BY <1>1 DEF Inv, Typing
<1> QED BY <1>1, <1>2, <1>3, LandsStep

LEMMA UnheardStep ==
  ASSUME Inv, NEW i \in Parts, AppliesUnheard(i)
  PROVE  Inv'
<1>1. /\ expr' = expr /\ mode' = mode /\ pending' = pending /\ processed' = processed
      /\ adrift' = [adrift EXCEPT ![i] = @ - 1] /\ adrift[i] > 0
      /\ applied' = Append(applied, i)
  BY DEF AppliesUnheard
<1>2. mode = "split" /\ Reached(i)
  BY <1>1 DEF Inv, Guarded, Typing
<1>3. /\ pending' \in [Parts -> Nat] /\ adrift' \in [Parts -> Nat]
      /\ \A q \in Parts : pending'[q] <= pending[q] /\ adrift'[q] <= adrift[q]
  BY <1>1 DEF Inv, Typing
<1> QED BY <1>1, <1>2, <1>3, LandsStep

LEMMA FailureStep ==
  ASSUME Inv, NEW i \in Parts, PartFails(i)
  PROVE  Inv'
<1>1. /\ expr' = expr /\ N' = N /\ Parts' = Parts /\ mode' = mode
      /\ pending' = [pending EXCEPT ![i] = @ - 1] /\ pending[i] > 0
      /\ adrift' = adrift \/ adrift' = [adrift EXCEPT ![i] = @ + 1]
      /\ applied' = applied /\ processed' = processed
  BY DEF PartFails, Settle, N, Parts
<1>2. mode = "split" /\ Reached(i)
  BY <1>1 DEF Inv, Guarded, Typing
<1>3. Typing' /\ InOrderSoFar'
  <2>1. pending' \in [Parts -> Nat]
    BY <1>1 DEF Inv, Typing
  <2>2. adrift' \in [Parts -> Nat]
    BY <1>1 DEF Inv, Typing
  <2>3. InOrderSoFar'
    BY <1>1 DEF Inv, InOrderSoFar
  <2> QED BY <1>1, <2>1, <2>2, <2>3 DEF Inv, Typing
<1>4. \A q \in Parts : pending'[q] > 0 \/ adrift'[q] > 0 => Reached(q)'
  <2> TAKE q \in Parts
  <2>1. pending[q] > 0 \/ adrift[q] > 0 => Reached(q)
    BY DEF Inv, Guarded
  <2>2. Reached(q)' <=> Reached(q)
    BY <1>1 DEF Reached
  <2>3. CASE q = i
    BY <1>2, <2>2, <2>3
  <2>4. CASE q # i
    BY <1>1, <2>1, <2>2, <2>4 DEF Inv, Typing
  <2> QED BY <2>3, <2>4
<1>5. Guarded'
  BY <1>1, <1>2, <1>4 DEF Inv, Guarded
<1> QED BY <1>3, <1>5 DEF Inv

LEMMA StepInv == Inv /\ [Next]_vars => Inv'
<1> SUFFICES ASSUME Inv, [Next]_vars PROVE Inv'
  OBVIOUS
<1>1. CASE RunWhole
  BY <1>1, WholeStep
<1>2. CASE SplitTransactions
  BY <1>2, SplitStep
<1>3. ASSUME NEW i \in Parts, RunPart(i) PROVE Inv'
  BY <1>3, RunStep
<1>4. ASSUME NEW i \in Parts, PartResolves(i) PROVE Inv'
  BY <1>4, ResolveStep
<1>5. ASSUME NEW i \in Parts, PartFails(i) PROVE Inv'
  BY <1>5, FailureStep
<1>6. ASSUME NEW i \in Parts, AppliesUnheard(i) PROVE Inv'
  BY <1>6, UnheardStep
<1>7. CASE UNCHANGED vars
  BY <1>7 DEF vars, Inv, Typing, InOrderSoFar, Guarded, Reached, N, Parts
<1> QED BY <1>1, <1>2, <1>3, <1>4, <1>5, <1>6, <1>7 DEF Next

(* No part of a split batch takes effect before the part in front of it,   *)
(* for every batch and any number of overlapping calls, whether they fail  *)
(* before, after or without their effects.                                 *)
THEOREM PartsInOrder == Spec => []AppliedInOrder
<1>1. Inv => AppliedInOrder
  <2> SUFFICES ASSUME Inv PROVE AppliedInOrder
    OBVIOUS
  <2>1. DOMAIN applied = 1 .. Len(applied)
    BY DEF Inv, Typing
  <2> QED BY <2>1 DEF Inv, InOrderSoFar, AppliedInOrder
<1> QED BY InitInv, StepInv, <1>1, PTL DEF Spec
-----------------------------------------------------------------------------
(* Types, and the receipts kept for the resolver                           *)

(* The types, and what bounds the pending calls and types the receipts.    *)
Kept == {PlainReceipt(expr.txs[k]) : k \in Parts}

CallInv ==
  /\ TypeOK
  /\ receipts \in Seq(Kept)
  /\ mode = "prepared" => \A i \in Parts : calls[i] = 0
  /\ \A i \in Parts : pending[i] + adrift[i] <= calls[i]
  /\ \A i \in Parts : adrift[i] > 0 => hasRun[i]

(* Where no call is repeated the parts are applied once, one by one, and   *)
(* those that were have no call left that could apply them again.  The     *)
(* resolver of each but the last has left its index and its receipt,       *)
(* except where the call of the latest part rejected; and only parts whose *)
(* predecessor did were let through.                                       *)
OneByOne ==
  /\ Len(applied) <= N
  /\ \A k \in 1 .. Len(applied) : applied[k] = k
  /\ \A i \in Parts : i <= Len(applied) => pending[i] = 0 /\ adrift[i] = 0 /\ calls[i] = 1
  /\ \A i \in Parts : calls[i] > 0 => i - 1 <= Len(processed)
  /\ Len(processed) < N /\ Len(processed) <= Len(applied)
  /\ Len(applied) > 0 /\ Len(processed) < Len(applied) => hasRun[Len(applied)]
  /\ \A k \in 1 .. Len(processed) : processed[k] = k /\ receipts[k] = PlainReceipt(expr.txs[k])

Orderly == mode = "split" /\ NoRepeats => OneByOne

LEMMA AppendedTo ==
  ASSUME NEW S, NEW s \in Seq(S), NEW x \in S
  PROVE  /\ Append(s, x) \in Seq(S)
         /\ Len(Append(s, x)) = Len(s) + 1 /\ Len(s) \in Nat
         /\ Append(s, x)[Len(s) + 1] = x
         /\ \A k \in 1 .. Len(s) : Append(s, x)[k] = s[k]
  OBVIOUS

LEMMA CallInit == Init => CallInv /\ Orderly
<1> SUFFICES ASSUME Init PROVE CallInv /\ Orderly
  OBVIOUS
<1>1. receipts = <<>> /\ processed = <<>> /\ applied = <<>> /\ mode = "prepared"
  BY DEF Init
<1>2. processed \in Seq(Parts) /\ applied \in Seq(Parts) /\ receipts \in Seq(Kept)
  BY <1>1
<1>3. Len(receipts) = Len(processed)
  BY <1>1
<1>4. calls \in [Parts -> 0 .. MaxCalls] /\ pending \in [Parts -> 0 .. MaxCalls]
      /\ adrift \in [Parts -> 0 .. MaxCalls] /\ hasRun \in [Parts -> BOOLEAN]
      /\ \A i \in Parts : pending[i] + adrift[i] <= calls[i] /\ ~(adrift[i] > 0)
  BY CallsAssumption DEF Init
<1> QED BY <1>1, <1>2, <1>3, <1>4 DEF Init, CallInv, TypeOK, Orderly

LEMMA CallStep == Inv /\ CallInv /\ [Next]_vars => CallInv'
<1> SUFFICES ASSUME Inv, CallInv, [Next]_vars PROVE CallInv'
  OBVIOUS
<1>0. N \in Nat \ {0} /\ MaxCalls \in Nat /\ TypeOK
  BY BatchSize, CallsAssumption DEF CallInv, TypeOK
<1>1. CASE RunWhole
  <2>1. /\ UNCHANGED <<expr, calls, pending, adrift, hasRun, processed, receipts>> /\ mode' = "whole"
        /\ applied' = applied \/ applied' = [i \in Parts |-> i]
        /\ N' = N /\ Parts' = Parts /\ Kept' = Kept
    BY <1>1 DEF RunWhole, N, Parts, Kept
  <2>2. [i \in Parts |-> i] \in Seq(Parts)
    BY <1>0 DEF Parts
  <2>3. TypeOK'
    BY <1>0, <2>1, <2>2 DEF TypeOK
  <2> QED BY <2>1, <2>3 DEF CallInv
<1>2. CASE SplitTransactions
  BY <1>2 DEF SplitTransactions, CallInv, TypeOK, N, Parts, Kept
<1>3. ASSUME NEW i \in Parts, RunPart(i) PROVE CallInv'
  <2>1. /\ UNCHANGED <<expr, mode, adrift, hasRun, processed, receipts, applied>> /\ mode = "split"
        /\ N' = N /\ Parts' = Parts /\ Kept' = Kept
        /\ calls' = [calls EXCEPT ![i] = @ + 1] /\ pending' = [pending EXCEPT ![i] = @ + 1]
        /\ calls[i] < MaxCalls
    BY <1>3 DEF RunPart, N, Parts, Kept
  <2>2. calls' \in [Parts -> 0 .. MaxCalls]
    BY <1>0, <2>1 DEF TypeOK
  <2>3. pending' \in [Parts -> 0 .. MaxCalls]
    BY <1>0, <2>1 DEF CallInv, TypeOK
  <2>4. \A q \in Parts : pending'[q] + adrift'[q] <= calls'[q]
    BY <1>0, <2>1 DEF CallInv, TypeOK
  <2>5. TypeOK'
    BY <1>0, <2>1, <2>2, <2>3 DEF TypeOK
  <2> QED BY <2>1, <2>4, <2>5 DEF CallInv
<1>4. ASSUME NEW i \in Parts, PartResolves(i) \/ PartFails(i) PROVE CallInv'
  <2>1. /\ UNCHANGED <<expr, mode, calls>>
        /\ N' = N /\ Parts' = Parts /\ Kept' = Kept
        /\ pending' = [pending EXCEPT ![i] = @ - 1] /\ pending[i] > 0
        /\ hasRun' = [hasRun EXCEPT ![i] = TRUE]
        /\ adrift' = adrift \/ adrift' = [adrift EXCEPT ![i] = @ + 1]
    BY <1>4 DEF PartResolves, PartFails, Settle, N, Parts, Kept
  <2>2. pending' \in [Parts -> 0 .. MaxCalls] /\ hasRun' \in [Parts -> BOOLEAN]
    BY <1>0, <2>1 DEF TypeOK
  <2>3. /\ \A q \in Parts : pending'[q] + adrift'[q] <= calls'[q]
        /\ \A q \in Parts : adrift'[q] > 0 => hasRun'[q]
        /\ adrift' \in [Parts -> 0 .. MaxCalls]
    <3>1. ASSUME NEW q \in Parts
          PROVE  /\ pending'[q] + adrift'[q] <= calls'[q] /\ (adrift'[q] > 0 => hasRun'[q])
                 /\ adrift'[q] \in 0 .. MaxCalls
      <4>1. /\ pending[q] \in Nat /\ adrift[q] \in Nat /\ calls[q] \in 0 .. MaxCalls
            /\ pending[q] + adrift[q] <= calls[q] /\ (adrift[q] > 0 => hasRun[q])
            /\ pending' \in [Parts -> 0 .. MaxCalls]
        BY <1>0, <2>2 DEF CallInv, TypeOK
      <4>2. CASE q = i
        <5>1. pending'[q] = pending[q] - 1 /\ hasRun'[q] /\ pending[q] > 0
          BY <1>0, <2>1, <4>2 DEF TypeOK
        <5>2. adrift'[q] = adrift[q] \/ adrift'[q] = adrift[q] + 1
          BY <1>0, <2>1, <4>2 DEF TypeOK
        <5> QED BY <1>0, <2>1, <4>1, <5>1, <5>2
      <4>3. CASE q # i
        <5>1. pending'[q] = pending[q] /\ hasRun'[q] = hasRun[q] /\ adrift'[q] = adrift[q]
          BY <1>0, <2>1, <4>3 DEF TypeOK
        <5> QED BY <1>0, <2>1, <4>1, <5>1
      <4> QED BY <4>2, <4>3
    <3>2. adrift' = [q \in Parts |-> adrift'[q]]
      BY <1>0, <2>1 DEF TypeOK
    <3> QED BY <3>1, <3>2
  <2>4. applied' \in {applied, Append(applied, i)}
    BY <1>4 DEF PartResolves, PartFails
  <2>5. \/ processed' = processed /\ receipts' = receipts
        \/ processed' = Append(processed, i) /\ receipts' = Append(receipts, PlainReceipt(expr.txs[i]))
    BY <1>4 DEF PartResolves, PartFails, Processed
  <2>6. /\ Append(applied, i) \in Seq(Parts) /\ Append(processed, i) \in Seq(Parts)
        /\ Len(Append(processed, i)) = Len(processed) + 1
    BY <1>0, AppendedTo DEF TypeOK
  <2>7. PlainReceipt(expr.txs[i]) \in Kept
    BY DEF Kept
  <2>8. /\ Append(receipts, PlainReceipt(expr.txs[i])) \in Seq(Kept)
        /\ Len(Append(receipts, PlainReceipt(expr.txs[i]))) = Len(receipts) + 1
    BY <2>7, AppendedTo DEF CallInv
  <2>9. TypeOK'
    BY <1>0, <2>1, <2>2, <2>3, <2>4, <2>5, <2>6, <2>8 DEF TypeOK
  <2> QED BY <2>1, <2>3, <2>5, <2>8, <2>9 DEF CallInv
<1>5. ASSUME NEW i \in Parts, AppliesUnheard(i) PROVE CallInv'
  <2>1. /\ UNCHANGED <<expr, mode, calls, pending, hasRun, processed, receipts>>
        /\ N' = N /\ Parts' = Parts /\ Kept' = Kept
        /\ adrift' = [adrift EXCEPT ![i] = @ - 1] /\ adrift[i] > 0
        /\ applied' = Append(applied, i)
    BY <1>5 DEF AppliesUnheard, N, Parts, Kept
  <2>2. /\ \A q \in Parts : pending'[q] + adrift'[q] <= calls'[q]
        /\ \A q \in Parts : adrift'[q] > 0 => hasRun'[q]
        /\ adrift' \in [Parts -> 0 .. MaxCalls]
    BY <1>0, <2>1 DEF CallInv, TypeOK
  <2>3. applied' \in Seq(Parts)
    BY <1>0, <2>1, AppendedTo DEF TypeOK
  <2>4. TypeOK'
    BY <1>0, <2>1, <2>2, <2>3 DEF TypeOK
  <2> QED BY <2>1, <2>2, <2>4 DEF CallInv
<1>6. CASE UNCHANGED vars
  BY <1>6 DEF vars, CallInv, TypeOK, N, Parts, Kept
<1> QED BY <1>1, <1>2, <1>3, <1>4, <1>5, <1>6 DEF Next

(* Where no call is repeated, the part that is applied is the next one,    *)
(* and all those in front of it were heard of.                             *)
LEMMA NextPart ==
  ASSUME Inv, CallInv, OneByOne, NoRepeats, NEW i \in Parts, Reached(i),
         pending[i] > 0 \/ adrift[i] > 0
  PROVE  /\ i = Len(applied) + 1 /\ Len(processed) = i - 1
         /\ calls[i] = 1 /\ pending[i] + adrift[i] = 1
<1>0. N \in Nat \ {0} /\ TypeOK /\ i \in Nat
  BY BatchSize DEF CallInv, TypeOK, Parts
<1>1. Len(applied) \in Nat /\ Len(processed) \in Nat
  BY <1>0 DEF TypeOK
<1>2. pending[i] \in Nat /\ adrift[i] \in Nat /\ calls[i] \in Nat
  BY <1>0, CallsAssumption DEF TypeOK
<1>3. calls[i] = 1 /\ pending[i] + adrift[i] = 1
  BY <1>2 DEF CallInv, NoRepeats
<1>4. ~(i <= Len(applied))
  BY <1>2, <1>3 DEF OneByOne
<1>5. i = 1 \/ \E j \in 1 .. Len(applied) : j = i - 1
  BY DEF Reached, OneByOne
<1>6. i = Len(applied) + 1
  BY <1>0, <1>1, <1>4, <1>5
<1>7. i - 1 <= Len(processed) /\ Len(processed) <= Len(applied)
  BY <1>3 DEF OneByOne
<1> QED BY <1>0, <1>1, <1>3, <1>6, <1>7

(* ... after which it is the latest of those applied.                      *)
LEMMA OneMore ==
  ASSUME Inv, CallInv, OneByOne, NEW i \in Parts,
         i = Len(applied) + 1, calls[i] = 1, applied' = Append(applied, i)
  PROVE  /\ Len(applied') = i /\ applied'[i] = i /\ i <= N
         /\ \A k \in 1 .. i : applied'[k] = k
<1>0. N \in Nat \ {0} /\ TypeOK /\ i \in Nat /\ i <= N
  BY BatchSize DEF CallInv, TypeOK, Parts
<1>1. applied \in Seq(Parts) /\ Len(applied) \in Nat
  BY <1>0 DEF TypeOK
<1>2. /\ Len(applied') = i /\ applied'[i] = i
      /\ \A k \in 1 .. Len(applied) : applied'[k] = applied[k]
  BY <1>1, AppendedTo
<1>3. ASSUME NEW k \in 1 .. i PROVE applied'[k] = k
  <2>1. k = i \/ k \in 1 .. Len(applied)
    BY <1>1
  <2> QED BY <1>2, <2>1 DEF OneByOne
<1> QED BY <1>0, <1>2, <1>3

LEMMA OrderlyStep == Inv /\ CallInv /\ Orderly /\ [Next]_vars => Orderly'
<1> SUFFICES ASSUME Inv, CallInv, Orderly, [Next]_vars, mode' = "split", NoRepeats'
             PROVE  OneByOne'
  BY DEF Orderly
<1>0. N \in Nat \ {0} /\ TypeOK /\ Parts = 1 .. N
  BY BatchSize DEF CallInv, TypeOK, Parts
<1>1. CASE RunWhole
  BY <1>1 DEF RunWhole
<1>2. CASE SplitTransactions
  <2>1. UNCHANGED <<expr, calls, pending, processed, receipts, applied>> /\ mode = "prepared"
    BY <1>2 DEF SplitTransactions
  <2>2. applied = <<>> /\ processed = <<>> /\ \A i \in Parts : calls[i] = 0
    BY <2>1 DEF Inv, Guarded, CallInv
  <2>3. N' = N /\ Parts' = Parts
    BY <2>1 DEF N, Parts
  <2> QED BY <1>0, <2>1, <2>2, <2>3 DEF OneByOne
<1>3. ASSUME NEW i \in Parts, RunPart(i) PROVE OneByOne'
  <2>1. /\ UNCHANGED <<expr, mode, adrift, hasRun, processed, receipts, applied>>
        /\ N' = N /\ Parts' = Parts /\ InOrder(i)
        /\ calls' = [calls EXCEPT ![i] = @ + 1] /\ pending' = [pending EXCEPT ![i] = @ + 1]
    BY <1>3 DEF RunPart, N, Parts
  <2>2. \A q \in Parts : calls[q] <= 1 /\ calls[q] \in Nat
    BY <1>0, <2>1, CallsAssumption DEF NoRepeats, TypeOK
  <2>3. OneByOne
    BY <2>1, <2>2 DEF Orderly, NoRepeats
  <2>4. calls[i] = 0
    BY <1>0, <2>1, <2>2 DEF NoRepeats, TypeOK
  <2>5. ~(i <= Len(applied))
    BY <2>3, <2>4 DEF OneByOne
  <2>6. \A q \in Parts : q <= Len(applied) => pending'[q] = 0 /\ adrift'[q] = 0 /\ calls'[q] = 1
    BY <1>0, <2>1, <2>3, <2>5 DEF OneByOne, TypeOK
  <2>7. \A q \in Parts : calls'[q] > 0 => q - 1 <= Len(processed)
    <3> TAKE q \in Parts
    <3>1. CASE q = i
      <4>1. q \in Nat /\ q >= 1 /\ Len(processed) \in Nat
        BY <1>0 DEF TypeOK
      <4>2. q > 1 => q - 1 <= Len(processed)
        BY <2>1, <3>1 DEF InOrder
      <4> QED BY <4>1, <4>2
    <3>2. CASE q # i
      <4>1. calls'[q] = calls[q]
        BY <1>0, <2>1, <3>2 DEF TypeOK
      <4> QED BY <2>3, <4>1 DEF OneByOne
    <3> QED BY <3>1, <3>2
  <2> QED BY <2>1, <2>3, <2>6, <2>7 DEF OneByOne
<1>4. ASSUME NEW i \in Parts, PartResolves(i) PROVE OneByOne'
  <2>1. /\ UNCHANGED <<expr, mode, calls, adrift>> /\ N' = N /\ Parts' = Parts
        /\ pending' = [pending EXCEPT ![i] = @ - 1] /\ pending[i] > 0
        /\ hasRun' = [hasRun EXCEPT ![i] = TRUE]
        /\ applied' = Append(applied, i)
    BY <1>4 DEF PartResolves, Settle, N, Parts
  <2>2. OneByOne /\ NoRepeats
    BY <2>1 DEF Orderly, NoRepeats
  <2>3. processed \in Seq(Parts) /\ Len(applied) \in Nat /\ Len(processed) \in Nat
        /\ receipts \in Seq(Kept) /\ Len(receipts) = Len(processed)
    BY <1>0 DEF TypeOK, CallInv
  <2>4. i \in Nat /\ pending[i] \in Nat /\ adrift[i] \in Nat /\ Reached(i)
    BY <1>0, <2>1 DEF TypeOK, Inv, Guarded
  <2>5. i = Len(applied) + 1 /\ Len(processed) = i - 1 /\ calls[i] = 1 /\ pending[i] + adrift[i] = 1
    BY <2>1, <2>2, <2>4, NextPart
  <2>6. Len(applied') = i /\ i <= N /\ \A k \in 1 .. i : applied'[k] = k
    BY <2>1, <2>2, <2>5, OneMore
  <2>7. \A q \in Parts : q <= i => pending'[q] = 0 /\ adrift'[q] = 0 /\ calls'[q] = 1
    <3> SUFFICES ASSUME NEW q \in Parts, q <= i PROVE pending'[q] = 0 /\ adrift'[q] = 0 /\ calls'[q] = 1
      OBVIOUS
    <3>1. CASE q = i
      BY <1>0, <2>1, <2>4, <2>5, <3>1 DEF TypeOK
    <3>2. CASE q # i
      <4>1. q <= Len(applied)
        BY <1>0, <2>3, <2>5, <3>2
      <4> QED BY <1>0, <2>1, <2>2, <3>2, <4>1 DEF OneByOne, TypeOK
    <3> QED BY <3>1, <3>2
  <2>8. hasRun'[i]
    BY <1>0, <2>1 DEF TypeOK
  <2>9. CASE i = N
    <3>1. processed' = processed /\ receipts' = receipts
      BY <1>4, <2>9 DEF PartResolves
    <3> QED BY <2>1, <2>2, <2>5, <2>6, <2>7, <2>8, <2>9, <3>1 DEF OneByOne
  <2>10. CASE i # N
    <3>1. processed' = Append(processed, i) /\ receipts' = Append(receipts, PlainReceipt(expr.txs[i]))
      BY <1>4, <2>10 DEF PartResolves, Processed
    <3>2. /\ Len(processed') = i /\ processed'[i] = i
          /\ \A k \in 1 .. Len(processed) : processed'[k] = processed[k]
      BY <2>3, <2>4, <2>5, <3>1, AppendedTo
    <3>3. PlainReceipt(expr.txs[i]) \in Kept
      BY DEF Kept
    <3>4. /\ receipts'[i] = PlainReceipt(expr.txs[i])
          /\ \A k \in 1 .. Len(processed) : receipts'[k] = receipts[k]
      BY <2>3, <2>4, <2>5, <3>1, <3>3, AppendedTo
    <3>5. \A k \in 1 .. i : processed'[k] = k /\ receipts'[k] = PlainReceipt(expr.txs[k])
      <4> SUFFICES ASSUME NEW k \in 1 .. i
                   PROVE  processed'[k] = k /\ receipts'[k] = PlainReceipt(expr.txs[k])
        OBVIOUS
      <4>1. k = i \/ k \in 1 .. Len(processed)
        BY <2>4, <2>5
      <4> QED BY <2>2, <3>2, <3>4, <4>1 DEF OneByOne
    <3>6. i < N
      BY <1>0, <2>4, <2>6, <2>10
    <3>7. \A q \in Parts : calls'[q] > 0 => q - 1 <= i
      BY <1>0, <2>1, <2>2, <2>3, <2>4, <2>5 DEF OneByOne
    <3>8. Len(applied') = Len(processed') /\ Len(processed') = i
      BY <2>6, <3>2
    <3>9. \A k \in 1 .. Len(processed') : processed'[k] = k /\ receipts'[k] = PlainReceipt(expr'.txs[k])
      BY <2>1, <3>5, <3>8
    <3>10. \A q \in Parts' : calls'[q] > 0 => q - 1 <= Len(processed')
      BY <2>1, <3>7, <3>8
    <3>11. \A q \in Parts' : q <= Len(applied') => pending'[q] = 0 /\ adrift'[q] = 0 /\ calls'[q] = 1
      BY <2>1, <2>6, <2>7
    <3>12. /\ Len(applied') <= N' /\ Len(processed') < N' /\ Len(processed') <= Len(applied')
           /\ ~(Len(processed') < Len(applied'))
      BY <1>0, <2>1, <2>4, <2>6, <3>6, <3>8
    <3>13. \A k \in 1 .. Len(applied') : applied'[k] = k
      BY <2>6
    <3> QED BY <3>9, <3>10, <3>11, <3>12, <3>13 DEF OneByOne
  <2> QED BY <2>9, <2>10
<1>5. ASSUME NEW i \in Parts, PartFails(i) PROVE OneByOne'
  <2>1. /\ UNCHANGED <<expr, mode, calls, processed, receipts, applied>> /\ N' = N /\ Parts' = Parts
        /\ pending' = [pending EXCEPT ![i] = @ - 1] /\ pending[i] > 0
        /\ adrift' = adrift \/ adrift' = [adrift EXCEPT ![i] = @ + 1]
        /\ hasRun' = [hasRun EXCEPT ![i] = TRUE]
    BY <1>5 DEF PartFails, Settle, N, Parts
  <2>2. OneByOne
    BY <2>1 DEF Orderly, NoRepeats
  <2>3. ~(i <= Len(applied))
    BY <2>1, <2>2 DEF OneByOne
  <2>4. \A q \in Parts : q <= Len(applied) => pending'[q] = 0 /\ adrift'[q] = 0 /\ calls'[q] = 1
    BY <1>0, <2>1, <2>2, <2>3 DEF OneByOne, TypeOK
  <2>5. Len(applied) > 0 /\ Len(processed) < Len(applied) => hasRun'[Len(applied)]
    <3>1. Len(applied) > 0 => Len(applied) \in Parts
      BY <1>0, <2>2 DEF OneByOne, TypeOK
    <3> QED BY <1>0, <2>1, <2>2, <3>1 DEF OneByOne, TypeOK
  <2> QED BY <2>1, <2>2, <2>4, <2>5 DEF OneByOne
<1>6. ASSUME NEW i \in Parts, AppliesUnheard(i) PROVE OneByOne'
  <2>1. /\ UNCHANGED <<expr, mode, calls, pending, hasRun, processed, receipts>>
        /\ N' = N /\ Parts' = Parts
        /\ adrift' = [adrift EXCEPT ![i] = @ - 1] /\ adrift[i] > 0
        /\ applied' = Append(applied, i)
    BY <1>6 DEF AppliesUnheard, N, Parts
  <2>2. mode = "split" /\ Reached(i)
    BY <1>0, <2>1 DEF Inv, Guarded, Typing
  <2>3. OneByOne /\ NoRepeats
    BY <2>1, <2>2 DEF Orderly, NoRepeats
  <2>4. Len(applied) \in Nat /\ Len(processed) \in Nat /\ i \in Nat
        /\ pending[i] \in Nat /\ adrift[i] \in Nat
    BY <1>0 DEF TypeOK
  <2>5. i = Len(applied) + 1 /\ Len(processed) = i - 1 /\ calls[i] = 1 /\ pending[i] + adrift[i] = 1
    BY <2>1, <2>2, <2>3, NextPart
  <2>6. Len(applied') = i /\ i <= N /\ \A k \in 1 .. i : applied'[k] = k
    BY <2>1, <2>3, <2>5, OneMore
  <2>7. \A q \in Parts : q <= i => pending'[q] = 0 /\ adrift'[q] = 0 /\ calls'[q] = 1
    <3> SUFFICES ASSUME NEW q \in Parts, q <= i PROVE pending'[q] = 0 /\ adrift'[q] = 0 /\ calls'[q] = 1
      OBVIOUS
    <3>1. CASE q = i
      BY <1>0, <2>1, <2>4, <2>5, <3>1 DEF TypeOK
    <3>2. CASE q # i
      <4>1. q <= Len(applied)
        BY <1>0, <2>4, <2>5, <3>2
      <4> QED BY <1>0, <2>1, <2>3, <3>2, <4>1 DEF OneByOne, TypeOK
    <3> QED BY <3>1, <3>2
  <2>8. hasRun'[i]
    BY <2>1 DEF CallInv
  <2>9. Len(processed') = i - 1 /\ i - 1 < N /\ i - 1 <= i
    BY <1>0, <2>1, <2>4, <2>5, <2>6
  <2>10. \A q \in Parts : calls'[q] > 0 => q - 1 <= Len(processed')
    BY <2>1, <2>3 DEF OneByOne
  <2>11. \A k \in 1 .. Len(processed') : processed'[k] = k /\ receipts'[k] = PlainReceipt(expr'.txs[k])
    BY <2>1, <2>3 DEF OneByOne
  <2> QED BY <2>1, <2>6, <2>7, <2>8, <2>9, <2>10, <2>11 DEF OneByOne
<1>7. CASE UNCHANGED vars
  <2>1. OneByOne
    BY <1>7 DEF vars, Orderly, NoRepeats, N, Parts
  <2> QED BY <1>7, <2>1 DEF vars, OneByOne, N, Parts
<1> QED BY <1>1, <1>2, <1>3, <1>4, <1>5, <1>6, <1>7 DEF Next

(* The closure variables of splitTransactions() and the counts of calls    *)
(* keep their types.                                                       *)
THEOREM TypeCorrect == Spec => []TypeOK
<1>1. CallInv => TypeOK
  BY DEF CallInv
<1> QED BY InitInv, StepInv, CallInit, CallStep, <1>1, PTL DEF Spec

(* Where no call of a part is repeated, a split batch takes effect as a    *)
(* prefix of itself, and the receipts its last part resolves with are      *)
(* those of the parts in front of it, each once and in order.  A part that *)
(* takes effect though its run() rejected is the last that ever does.      *)
THEOREM ReceiptsTrue == Spec => []ReceiptsMatchChain
<1>1. CallInv /\ Inv /\ Orderly => ReceiptsMatchChain
  <2> SUFFICES ASSUME CallInv, Inv, OneByOne
               PROVE  /\ applied = [k \in 1 .. Len(applied) |-> k]
                      /\ receipts = [k \in 1 .. Len(processed) |-> PlainReceipt(expr.txs[k])]
                      /\ processed = [k \in 1 .. Len(processed) |-> k]
                      /\ ToSet(processed) \subseteq ToSet(applied) \ {N}
                      /\ \A i \in ToSet(applied) \ (ToSet(processed) \cup {N}) :
                           /\ hasRun[i] /\ ~InOrder(i + 1)
                           /\ \A j \in i + 1 .. N : calls[j] = 0
    BY DEF Orderly, ReceiptsMatchChain
  <2>1. applied \in Seq(Parts) /\ processed \in Seq(Parts) /\ receipts \in Seq(Kept)
        /\ Len(receipts) = Len(processed) /\ Len(applied) \in Nat /\ Len(processed) \in Nat
    BY DEF CallInv, TypeOK
  <2>2. N \in Nat \ {0} /\ Parts = 1 .. N /\ \A j \in Parts : calls[j] \in Nat
    <3>1. N \in Nat \ {0} /\ Parts = 1 .. N
      BY BatchSize DEF CallInv, TypeOK, Parts
    <3>2. \A j \in Parts : calls[j] \in Nat
      BY CallsAssumption DEF CallInv, TypeOK
    <3> QED BY <3>1, <3>2
  <2>3. applied = [k \in 1 .. Len(applied) |-> k] /\ processed = [k \in 1 .. Len(processed) |-> k]
    BY <2>1 DEF OneByOne
  <2>4. receipts = [k \in 1 .. Len(processed) |-> PlainReceipt(expr.txs[k])]
    BY <2>1 DEF OneByOne
  <2>5. ToSet(processed) = 1 .. Len(processed) /\ ToSet(applied) = 1 .. Len(applied)
    BY <2>1 DEF ToSet, OneByOne
  <2>6. ToSet(processed) \subseteq ToSet(applied) \ {N}
    BY <2>1, <2>2, <2>5 DEF OneByOne
  <2>7. ASSUME NEW i \in ToSet(applied) \ (ToSet(processed) \cup {N})
        PROVE  /\ hasRun[i] /\ ~InOrder(i + 1)
               /\ \A j \in i + 1 .. N : calls[j] = 0
    <3>1. i \in 1 .. Len(applied) /\ i \in Nat /\ Len(processed) < i /\ i < N
      BY <2>1, <2>2, <2>5 DEF OneByOne
    <3>2. ASSUME NEW j \in i + 1 .. N PROVE calls[j] = 0
      <4>1. j \in Parts /\ j \in Nat /\ ~(j - 1 <= Len(processed))
        BY <2>1, <2>2, <3>1
      <4> QED BY <2>2, <4>1 DEF OneByOne
    <3>3. i = Len(applied)
      <4>1. CASE i # Len(applied)
        <5>1. i + 1 \in i + 1 .. N /\ i + 1 \in Parts /\ i + 1 <= Len(applied)
          BY <2>1, <2>2, <3>1, <4>1
        <5>2. calls[i + 1] = 1
          BY <5>1 DEF OneByOne
        <5> QED BY <3>2, <5>1, <5>2
      <4> QED BY <4>1
    <3>4. hasRun[i]
      BY <2>1, <3>1, <3>3 DEF OneByOne
    <3>5. ~InOrder(i + 1)
      BY <2>1, <3>1 DEF InOrder
    <3> QED BY <3>2, <3>4, <3>5
  <2> QED BY <2>3, <2>4, <2>6, <2>7
<1> QED BY InitInv, StepInv, CallInit, CallStep, OrderlyStep, <1>1, PTL DEF Spec
-----------------------------------------------------------------------------
(* Receipts                                                                *)

(* Induction, from the fact that the natural numbers are well-founded.     *)
LEMMA Least ==
  ASSUME NEW T \in SUBSET Nat, T # {}
  PROVE  \E m \in T : \A k \in T : m <= k
  <1>1. IsWellFoundedOn(OpToRel(<, Nat), Nat)
    BY NatLessThanWellFounded
  <1>2. PICK m \in T : \A k \in T : ~(<<k, m>> \in OpToRel(<, Nat))
    BY <1>1, WFMin
  <1>3. \A k \in T : ~(k < m)
    BY <1>2 DEF OpToRel
  <1> QED BY <1>3

LEMMA Induction ==
  ASSUME NEW T, NEW n \in Nat, 0 \in T, \A i \in 1 .. n : i - 1 \in T => i \in T
  PROVE  0 .. n \subseteq T
  <1> SUFFICES ASSUME (0 .. n) \ T # {} PROVE FALSE
    OBVIOUS
  <1>1. PICK m \in (0 .. n) \ T : \A k \in (0 .. n) \ T : m <= k
    BY Least, (0 .. n) \ T \in SUBSET Nat
  <1>2. m \in 1 .. n
    BY <1>1
  <1>3. m - 1 \in T
    BY <1>1, <1>2
  <1> QED BY <1>1, <1>2, <1>3

(* What begins with c and goes on, at each i, by the function D[i].        *)
Iteration(f, S, c, n, D) ==
  f \in [0 .. n -> S] /\ f[0] = c /\ \A i \in 1 .. n : f[i] = D[i][f[i - 1]]

LEMMA Iterates ==
  ASSUME NEW S, NEW c \in S, NEW n \in Nat, NEW D \in [1 .. n -> [S -> S]]
  PROVE  \E f : Iteration(f, S, c, n, D)
  <1> DEFINE Good(m, f) == f \in [0 .. n -> S] /\ f[0] = c /\ \A i \in 1 .. m : f[i] = D[i][f[i - 1]]
             T == {m \in 0 .. n : \E f \in [0 .. n -> S] : Good(m, f)}
  <1>1. 0 \in T
    <2> DEFINE f == [i \in 0 .. n |-> c]
    <2>1. f \in [0 .. n -> S] /\ f[0] = c /\ \A i \in 1 .. 0 : f[i] = D[i][f[i - 1]]
      OBVIOUS
    <2> HIDE DEF f
    <2> QED BY <2>1
  <1>2. \A m \in 1 .. n : m - 1 \in T => m \in T
    <2> SUFFICES ASSUME NEW m \in 1 .. n, m - 1 \in T PROVE m \in T
      OBVIOUS
    <2> PICK f \in [0 .. n -> S] : Good(m - 1, f)
      OBVIOUS
    <2> DEFINE g == [f EXCEPT ![m] = D[m][f[m - 1]]]
    <2>1. f[m - 1] \in S /\ D[m] \in [S -> S]
      OBVIOUS
    <2>2. g \in [0 .. n -> S] /\ g[m] = D[m][f[m - 1]]
      BY <2>1
    <2>3. \A i \in 0 .. n : i # m => g[i] = f[i]
      OBVIOUS
    <2>4. ASSUME NEW i \in 1 .. m PROVE g[i] = D[i][g[i - 1]]
      <3>1. g[i - 1] = f[i - 1]
        BY <2>3
      <3>2. CASE i = m
        BY <3>1, <3>2, <2>2
      <3>3. CASE i # m
        BY <3>1, <3>3, <2>3
      <3> QED BY <3>2, <3>3
    <2>5. g[0] = c
      BY <2>3
    <2> HIDE DEF g
    <2>6. Good(m, g)
      BY <2>2, <2>4, <2>5
    <2> HIDE DEF Good
    <2> QED BY <2>2, <2>6
  <1> HIDE DEF T
  <1>3. 0 .. n \subseteq T
    BY <1>1, <1>2, Induction
  <1>4. n \in T
    BY <1>3
  <1> QED BY <1>4 DEF T, Iteration

(* The events found of a receipt, one more at a time.                      *)
Records == [kind : {"made", "other", "completed"}, tx : SUBSET Txs, counts : Seq(Nat)]

LEMMA FoundGive ==
  ASSUME NEW s \in Seq(Records), NEW k
  PROVE  /\ Found(s, k) \in [0 .. Len(s) -> Seq(Records)] /\ Found(s, k)[0] = <<>>
         /\ \A i \in 1 .. Len(s) :
              Found(s, k)[i] = IF s[i].kind = k THEN Append(Found(s, k)[i - 1], s[i]) ELSE Found(s, k)[i - 1]
  <1> DEFINE n == Len(s)
             S == Seq(Records)
             G(i, x) == IF s[i].kind = k THEN Append(x, s[i]) ELSE x
             F(f) == [i \in 0 .. n |-> IF i = 0 THEN <<>> ELSE G(i, f[i - 1])]
             D == [i \in 1 .. n |-> [x \in S |-> G(i, x)]]
  <1>1. n \in Nat /\ <<>> \in S
    OBVIOUS
  <1>2. ASSUME NEW i \in 1 .. n, NEW x \in S PROVE G(i, x) \in S
    <2>1. s[i] \in Records
      OBVIOUS
    <2>2. Append(x, s[i]) \in S
      BY <2>1
    <2> QED BY <2>2
  <1> HIDE DEF G, S, n
  <1>3. D \in [1 .. n -> [S -> S]]
    BY <1>2
  <1>4. PICK f \in [0 .. n -> S] : f[0] = <<>> /\ \A i \in 1 .. n : f[i] = D[i][f[i - 1]]
    <2> HIDE DEF D
    <2>1. \E f : Iteration(f, S, <<>>, n, D)
      BY <1>1, <1>3, Iterates
    <2> QED BY <2>1 DEF Iteration
  <1>5. ASSUME NEW i \in 1 .. n PROVE f[i] = G(i, f[i - 1])
    <2>1. i - 1 \in 0 .. n
      BY <1>1
    <2>2. f[i - 1] \in S
      BY <2>1
    <2>3. D[i][f[i - 1]] = G(i, f[i - 1])
      BY <2>2
    <2> QED BY <1>4, <2>3
  <1>6. f = F(f)
    BY <1>4, <1>5
  <1> DEFINE g == Found(s, k)
  <1>7. g = CHOOSE h : h = F(h)
    BY DEF Found, F, G, n
  <1>8. g = F(g)
    <2> HIDE DEF F, g
    <2> QED BY <1>6, <1>7
  <1> HIDE DEF g
  <1>9. g[0] = <<>> /\ \A i \in 1 .. n : g[i] = G(i, g[i - 1])
    <2>1. \A i \in 0 .. n : g[i] = IF i = 0 THEN <<>> ELSE G(i, g[i - 1])
      BY <1>8
    <2>2. 0 \in 0 .. n /\ \A i \in 1 .. n : i \in 0 .. n /\ i # 0
      BY <1>1
    <2> QED BY <2>1, <2>2
  <1>10. DOMAIN g = 0 .. n /\ g = [i \in 0 .. n |-> g[i]]
    BY <1>8
  <1> DEFINE T == {i \in 0 .. n : g[i] = f[i]}
  <1>11. 0 .. n \subseteq T
    <2>1. 0 \in T
      BY <1>1, <1>4, <1>9
    <2>2. ASSUME NEW i \in 1 .. n, i - 1 \in T PROVE i \in T
      BY <1>1, <1>5, <1>9, <2>2
    <2> HIDE DEF T
    <2> QED BY <1>1, <2>1, <2>2, Induction
  <1>12. g \in [0 .. n -> S]
    BY <1>10, <1>11
  <1> QED BY <1>9, <1>12 DEF g, G, S, n

LEMMA JoinMore ==
  \A a, b \in Seq(Records) : \A e \in Records : Append(a \o b, e) = a \o Append(b, e)
  <1> SUFFICES ASSUME NEW a \in Seq(Records), NEW b \in Seq(Records), NEW e \in Records
               PROVE  Append(a \o b, e) = a \o Append(b, e)
    OBVIOUS
  <1> QED OBVIOUS

LEMMA FoundIn ==
  ASSUME NEW s \in Seq(Records), NEW k, NEW i \in 0 .. Len(s)
  PROVE  Found(s, k)[i] \in Seq(Records)
  <1>1. Found(s, k) \in [0 .. Len(s) -> Seq(Records)]
    BY FoundGive
  <1> HIDE DEF Records
  <1> QED BY <1>1

LEMMA FilterTyped ==
  ASSUME NEW s \in Seq(Records), NEW k
  PROVE  FilterRecords(s, k) \in Seq(Records)
  <1>1. Len(s) \in 0 .. Len(s)
    OBVIOUS
  <1> QED BY <1>1, FoundIn DEF FilterRecords

(* What is found of two receipts in a row is what is found of each.        *)
LEMMA FoundOfRow ==
  ASSUME NEW s \in Seq(Records), NEW t \in Seq(Records), NEW r \in Seq(Records), NEW k,
         Len(r) = Len(s) + Len(t),
         \A i \in 1 .. Len(s) : r[i] = s[i],
         \A i \in 1 .. Len(t) : r[Len(s) + i] = t[i]
  PROVE  FilterRecords(r, k) = FilterRecords(s, k) \o FilterRecords(t, k)
  <1>1. Len(s) \in Nat /\ Len(t) \in Nat /\ Len(r) \in Nat
    OBVIOUS
  <1> DEFINE T == {i \in 0 .. Len(s) : Found(r, k)[i] = Found(s, k)[i]}
             U == {i \in 0 .. Len(t) : Found(r, k)[Len(s) + i] = FilterRecords(s, k) \o Found(t, k)[i]}
  <1>2. 0 .. Len(s) \subseteq T
    <2>1. 0 \in T
      BY <1>1, FoundGive
    <2>2. ASSUME NEW i \in 1 .. Len(s), i - 1 \in T PROVE i \in T
      <3>1. i \in 1 .. Len(r) /\ r[i] = s[i] /\ i \in 0 .. Len(s)
        BY <1>1
      <3>2. Found(r, k)[i] = IF s[i].kind = k THEN Append(Found(r, k)[i - 1], s[i]) ELSE Found(r, k)[i - 1]
        BY <3>1, FoundGive
      <3>3. Found(s, k)[i] = IF s[i].kind = k THEN Append(Found(s, k)[i - 1], s[i]) ELSE Found(s, k)[i - 1]
        BY FoundGive
      <3>4. Found(r, k)[i - 1] = Found(s, k)[i - 1]
        BY <2>2
      <3> QED BY <3>1, <3>2, <3>3, <3>4
    <2> HIDE DEF T
    <2> QED BY <1>1, <2>1, <2>2, Induction
  <1>3. 0 .. Len(t) \subseteq U
    <2>1. FilterRecords(s, k) \in Seq(Records)
      BY FilterTyped
    <2>2. 0 \in U
      <3>1. Len(s) \in T
        BY <1>1, <1>2
      <3>2. Found(r, k)[Len(s) + 0] = FilterRecords(s, k)
        BY <1>1, <3>1 DEF FilterRecords
      <3>3. FilterRecords(s, k) \o <<>> = FilterRecords(s, k)
        BY <2>1
      <3>4. Found(t, k)[0] = <<>>
        BY FoundGive
      <3>5. Found(r, k)[Len(s) + 0] = FilterRecords(s, k) \o Found(t, k)[0]
        BY <3>2, <3>3, <3>4
      <3>6. 0 \in 0 .. Len(t)
        BY <1>1
      <3> QED BY <3>5, <3>6
    <2>3. ASSUME NEW i \in 1 .. Len(t), i - 1 \in U PROVE i \in U
      <3>1. /\ Len(s) + i \in 1 .. Len(r) /\ (Len(s) + i) - 1 = Len(s) + (i - 1)
            /\ r[Len(s) + i] = t[i] /\ i - 1 \in 0 .. Len(t) /\ i \in 0 .. Len(t)
        BY <1>1
      <3>2. Found(r, k)[Len(s) + i] = IF t[i].kind = k THEN Append(Found(r, k)[Len(s) + (i - 1)], t[i])
                                      ELSE Found(r, k)[Len(s) + (i - 1)]
        <4>1. PICK j \in 1 .. Len(r) : j = Len(s) + i
          BY <3>1
        <4>2. Found(r, k)[j] = IF r[j].kind = k THEN Append(Found(r, k)[j - 1], r[j]) ELSE Found(r, k)[j - 1]
          BY FoundGive
        <4>3. r[j] = t[i] /\ j - 1 = Len(s) + (i - 1)
          BY <3>1, <4>1
        <4> QED BY <4>1, <4>2, <4>3
      <3>3. Found(r, k)[Len(s) + (i - 1)] = FilterRecords(s, k) \o Found(t, k)[i - 1]
        BY <2>3
      <3>4. Found(t, k)[i - 1] \in Seq(Records) /\ t[i] \in Records
        BY <3>1, FoundIn
      <3>5. Append(FilterRecords(s, k) \o Found(t, k)[i - 1], t[i]) =
              FilterRecords(s, k) \o Append(Found(t, k)[i - 1], t[i])
        <4> DEFINE a == FilterRecords(s, k)
                   b == Found(t, k)[i - 1]
                   e == t[i]
        <4>1. a \in Seq(Records) /\ b \in Seq(Records) /\ e \in Records
          BY <2>1, <3>4
        <4> HIDE DEF a, b, e, Records
        <4>2. Append(a \o b, e) = a \o Append(b, e)
          BY <4>1, JoinMore, Zenon
        <4> QED BY <4>2 DEF a, b, e
      <3>6. Found(t, k)[i] = IF t[i].kind = k THEN Append(Found(t, k)[i - 1], t[i]) ELSE Found(t, k)[i - 1]
        BY FoundGive
      <3> QED BY <3>1, <3>2, <3>3, <3>5, <3>6
    <2> HIDE DEF U
    <2> QED BY <1>1, <2>2, <2>3, Induction
  <1>4. Len(t) \in U
    <2>1. Len(t) \in 0 .. Len(t)
      BY <1>1
    <2> HIDE DEF U
    <2> QED BY <1>3, <2>1
  <1> QED BY <1>4 DEF FilterRecords

Parted(s, t, k) == FilterRecords(s \o t, k) = FilterRecords(s, k) \o FilterRecords(t, k)

LEMMA FoundOfBoth ==
  ASSUME NEW s \in Seq(Records), NEW t \in Seq(Records), NEW k
  PROVE  Parted(s, t, k)
  <1> DEFINE r == s \o t
  <1>1. /\ r \in Seq(Records) /\ Len(r) = Len(s) + Len(t)
        /\ \A i \in 1 .. Len(s) : r[i] = s[i]
        /\ \A i \in 1 .. Len(t) : r[Len(s) + i] = t[i]
    <2> HIDE DEF Records
    <2> QED OBVIOUS
  <1> HIDE DEF r
  <1>2. FilterRecords(r, k) = FilterRecords(s, k) \o FilterRecords(t, k)
    BY <1>1, FoundOfRow
  <1> QED BY <1>2 DEF r, Parted
-----------------------------------------------------------------------------
(* What is joined of a sequence of sequences, one more at a time.          *)
Joins(J, ss, S) ==
  /\ J \in [0 .. Len(ss) -> Seq(S)] /\ J[0] = <<>>
  /\ \A i \in 1 .. Len(ss) : J[i] = J[i - 1] \o ss[i]

LEMMA Both ==
  ASSUME NEW S, NEW a \in Seq(S), NEW b \in Seq(S)
  PROVE  /\ a \o b \in Seq(S) /\ Len(a \o b) = Len(a) + Len(b) /\ Len(a) \in Nat /\ Len(b) \in Nat
         /\ \A p \in 1 .. Len(a) : (a \o b)[p] = a[p]
         /\ \A p \in 1 .. Len(b) : (a \o b)[Len(a) + p] = b[p]
  OBVIOUS

LEMMA JoinsExist ==
  ASSUME NEW S, NEW ss \in Seq(Seq(S))
  PROVE  \E J : Joins(J, ss, S)
  <1> DEFINE n == Len(ss)
             D == [i \in 1 .. n |-> [x \in Seq(S) |-> x \o ss[i]]]
  <1>1. n \in Nat /\ <<>> \in Seq(S) /\ \A i \in 1 .. n : ss[i] \in Seq(S)
    OBVIOUS
  <1>2. D \in [1 .. n -> [Seq(S) -> Seq(S)]]
    BY <1>1, Both
  <1>3. PICK J : Iteration(J, Seq(S), <<>>, n, D)
    <2> HIDE DEF D, n
    <2> QED BY <1>1, <1>2, Iterates
  <1>4. ASSUME NEW i \in 1 .. n PROVE J[i] = J[i - 1] \o ss[i]
    <2>0. i - 1 \in 0 .. n
      BY <1>1
    <2>1. J[i - 1] \in Seq(S)
      BY <2>0, <1>3 DEF Iteration
    <2>2. J[i] = D[i][J[i - 1]]
      <3> HIDE DEF D
      <3> QED BY <1>3 DEF Iteration
    <2> QED BY <2>1, <2>2
  <1> HIDE DEF D
  <1> QED BY <1>3, <1>4 DEF Iteration, Joins

LEMMA JoinsFlat ==
  ASSUME NEW S, NEW ss \in Seq(Seq(S)), NEW J, Joins(J, ss, S)
  PROVE  FlattenSeq(ss) = J[Len(ss)]
  <1> DEFINE n == Len(ss)
             F(f) == [i \in 1 .. n |-> IF i = 1 THEN ss[i] ELSE f[i - 1] \o ss[i]]
             g == CHOOSE f : f = F(f)
             f == [i \in 1 .. n |-> J[i]]
  <1>1. n \in Nat /\ \A i \in 1 .. n : ss[i] \in Seq(S)
    OBVIOUS
  <1>2. CASE n = 0
    <2>1. FlattenSeq(ss) = ss /\ ss = <<>>
      BY <1>2 DEF FlattenSeq
    <2> QED BY <1>2, <2>1 DEF Joins
  <1>3. CASE n # 0
    <2>1. FlattenSeq(ss) = g[n]
      BY <1>3 DEF FlattenSeq
    <2>2. ASSUME NEW i \in 1 .. n PROVE J[i] = IF i = 1 THEN ss[i] ELSE f[i - 1] \o ss[i]
      <3>1. J[i] = J[i - 1] \o ss[i] /\ J[0] = <<>>
        BY DEF Joins
      <3>2. <<>> \o ss[i] = ss[i]
        BY <1>1
      <3>3. CASE i = 1
        <4>0. J[i - 1] = <<>>
          BY <3>1, <3>3
        <4>1. J[i] = <<>> \o ss[i]
          BY <3>1, <4>0, Zenon
        <4> QED BY <3>2, <3>3, <4>1
      <3>4. CASE i # 1
        <4>1. i - 1 \in 1 .. n
          BY <1>1, <3>4
        <4> QED BY <3>1, <3>4, <4>1
      <3> QED BY <3>3, <3>4
    <2>3. f = F(f)
      BY <2>2
    <2>4. g = F(g)
      <3> HIDE DEF F, f
      <3> QED BY <2>3
    <2> HIDE DEF g, f
    <2>5. \A i \in 1 .. n : g[i] = IF i = 1 THEN ss[i] ELSE g[i - 1] \o ss[i]
      BY <2>4
    <2> DEFINE T == {i \in 0 .. n : i # 0 => g[i] = J[i]}
    <2>6. ASSUME NEW i \in 1 .. n, i - 1 \in T PROVE i \in T
      <3>1. J[i] = J[i - 1] \o ss[i] /\ J[0] = <<>>
        BY DEF Joins
      <3>2. <<>> \o ss[i] = ss[i]
        BY <1>1
      <3>3. CASE i = 1
        <4>0. J[i - 1] = <<>>
          BY <3>1, <3>3
        <4>1. J[i] = <<>> \o ss[i]
          BY <3>1, <4>0, Zenon
        <4>2. g[i] = J[i]
          BY <2>5, <3>2, <3>3, <4>1
        <4> QED BY <1>1, <4>2
      <3>4. CASE i # 1
        <4>1. i - 1 # 0 /\ i - 1 \in 0 .. n
          BY <1>1, <3>4
        <4>2. g[i - 1] = J[i - 1]
          BY <2>6, <4>1
        <4>3. g[i] = g[i - 1] \o ss[i]
          BY <2>5, <3>4
        <4>4. g[i] = J[i]
          BY <3>1, <4>2, <4>3
        <4> QED BY <1>1, <4>4
      <3> QED BY <3>3, <3>4
    <2>7. 0 \in T
      BY <1>1
    <2> HIDE DEF T, n
    <2>8. n \in T
      <3>1. 0 .. n \subseteq T
        BY <1>1, <2>6, <2>7, Induction
      <3> QED BY <1>1, <3>1
    <2> QED BY <1>3, <2>1, <2>8 DEF T, n
  <1> QED BY <1>2, <1>3

LEMMA JoinsPart ==
  ASSUME NEW S, NEW ss \in Seq(Seq(S)), NEW J, Joins(J, ss, S), NEW m \in 0 .. Len(ss)
  PROVE  FlattenSeq([k \in 1 .. m |-> ss[k]]) = J[m] /\ J[m] \in Seq(S)
  <1> DEFINE tt == [k \in 1 .. m |-> ss[k]]
             K == [i \in 0 .. m |-> J[i]]
  <1>1. tt \in Seq(Seq(S)) /\ Len(tt) = m /\ m \in Nat
    OBVIOUS
  <1>2. Joins(K, tt, S)
    <2>1. K \in [0 .. m -> Seq(S)] /\ K[0] = <<>>
      BY <1>1 DEF Joins
    <2>2. ASSUME NEW i \in 1 .. m PROVE K[i] = K[i - 1] \o tt[i]
      <3>1. i \in 1 .. Len(ss) /\ i \in 0 .. m /\ i - 1 \in 0 .. m
        BY <1>1
      <3>2. J[i] = J[i - 1] \o ss[i]
        BY <3>1 DEF Joins
      <3> QED BY <3>1, <3>2
    <2> HIDE DEF tt, K
    <2> QED BY <1>1, <2>1, <2>2 DEF Joins
  <1>3. K[m] = J[m] /\ J[m] \in Seq(S)
    BY <1>1 DEF Joins
  <1> HIDE DEF tt, K
  <1>4. FlattenSeq(tt) = K[Len(tt)]
    BY <1>1, <1>2, JoinsFlat
  <1> QED BY <1>1, <1>3, <1>4 DEF tt

LEMMA JoinsKeep ==
  ASSUME NEW S, NEW ss \in Seq(Seq(S)), NEW J, Joins(J, ss, S),
         NEW i \in 0 .. Len(ss), NEW m \in i .. Len(ss)
  PROVE  Len(J[i]) <= Len(J[m]) /\ \A p \in 1 .. Len(J[i]) : J[m][p] = J[i][p]
  <1> DEFINE n == Len(ss)
             Kept1(q) == Len(J[i]) <= Len(J[q]) /\ \A p \in 1 .. Len(J[i]) : J[q][p] = J[i][p]
             T == {q \in 0 .. n : i <= q => Kept1(q)}
  <1>1. n \in Nat /\ \A q \in 0 .. n : J[q] \in Seq(S) /\ Len(J[q]) \in Nat
    BY DEF Joins
  <1>2. 0 \in T
    BY <1>1
  <1>3. ASSUME NEW q \in 1 .. n, q - 1 \in T PROVE q \in T
    <2>1. CASE q <= i
      BY <1>1, <2>1
    <2>2. CASE ~(q <= i)
      <3>1. Kept1(q - 1) /\ q - 1 \in 0 .. n
        BY <1>1, <1>3, <2>2
      <3> DEFINE a == J[q - 1]
                 b == ss[q]
      <3>2. J[q] = a \o b
        BY DEF Joins
      <3>3. a \in Seq(S) /\ b \in Seq(S)
        BY <1>1, <3>1
      <3>4. Len(J[i]) <= Len(a) /\ Len(J[i]) \in Nat /\ \A p \in 1 .. Len(J[i]) : a[p] = J[i][p]
        BY <1>1, <3>1
      <3> HIDE DEF a, b
      <3>5. /\ Len(J[q]) = Len(a) + Len(b) /\ Len(a) \in Nat /\ Len(b) \in Nat
            /\ \A p \in 1 .. Len(a) : J[q][p] = a[p]
        BY <3>2, <3>3, Both
      <3>6. Len(J[i]) <= Len(J[q])
        BY <3>4, <3>5
      <3>7. \A p \in 1 .. Len(J[i]) : p \in 1 .. Len(a)
        BY <3>4, <3>5
      <3>8. Kept1(q)
        BY <3>4, <3>5, <3>6, <3>7
      <3> QED BY <1>1, <3>8
    <2> QED BY <1>1, <2>1, <2>2
  <1> HIDE DEF T, n
  <1>4. m \in T
    <2>1. m \in 0 .. n
      BY <1>1 DEF n
    <2> QED BY <1>1, <1>2, <1>3, <2>1, Induction
  <1> QED BY <1>4 DEF T

(* s is in r behind its first a elements.                                  *)
Lies(s, r, a) == a + Len(s) <= Len(r) /\ \A p \in 1 .. Len(s) : r[a + p] = s[p]

LEMMA JoinsAt ==
  ASSUME NEW S, NEW ss \in Seq(Seq(S)), NEW J, Joins(J, ss, S), NEW i \in 1 .. Len(ss)
  PROVE  /\ Len(J[i]) = Len(J[i - 1]) + Len(ss[i]) /\ Len(J[i - 1]) \in Nat /\ Len(ss[i]) \in Nat
         /\ Lies(ss[i], J[Len(ss)], Len(J[i - 1]))
  <1> DEFINE a == J[i - 1]
             b == ss[i]
             w == J[Len(ss)]
  <1>0. Len(ss) \in Nat /\ i - 1 \in 0 .. Len(ss) /\ Len(ss) \in 0 .. Len(ss)
    OBVIOUS
  <1>1. a \in Seq(S) /\ b \in Seq(S) /\ w \in Seq(S)
    <2>1. J \in [0 .. Len(ss) -> Seq(S)]
      BY DEF Joins
    <2>2. b \in Seq(S)
      OBVIOUS
    <2> QED BY <1>0, <2>1, <2>2
  <1>2. J[i] = a \o b
    BY DEF Joins
  <1>3. i \in 0 .. Len(ss) /\ Len(ss) \in i .. Len(ss)
    OBVIOUS
  <1>4. Len(J[i]) <= Len(w) /\ \A p \in 1 .. Len(J[i]) : w[p] = J[i][p]
    BY <1>3, JoinsKeep
  <1> HIDE DEF a, b, w
  <1>5. /\ Len(J[i]) = Len(a) + Len(b) /\ Len(a) \in Nat /\ Len(b) \in Nat
        /\ \A p \in 1 .. Len(b) : J[i][Len(a) + p] = b[p]
    BY <1>1, <1>2, Both
  <1>6. Len(w) \in Nat
    BY <1>1
  <1>7. \A p \in 1 .. Len(b) : Len(a) + p \in 1 .. Len(J[i])
    BY <1>5
  <1>8. \A p \in 1 .. Len(b) : w[Len(a) + p] = b[p]
    BY <1>4, <1>5, <1>7
  <1>9. Lies(b, w, Len(a))
    BY <1>4, <1>5, <1>6, <1>8 DEF Lies
  <1> QED BY <1>5, <1>9 DEF a, b, w
LEMMA FilterSingle ==
  ASSUME NEW e \in Records, NEW k
  PROVE  FilterRecords(<<e>>, k) = IF e.kind = k THEN <<e>> ELSE <<>>
  <1> DEFINE s == <<e>>
  <1>1. s \in Seq(Records) /\ Len(s) = 1 /\ s[1] = e
    OBVIOUS
  <1> HIDE DEF s
  <1>2. Found(s, k)[0] = <<>> /\ Found(s, k)[1] = IF s[1].kind = k THEN Append(Found(s, k)[1 - 1], s[1])
                                                  ELSE Found(s, k)[1 - 1]
    BY <1>1, FoundGive
  <1>3. 1 - 1 = 0
    OBVIOUS
  <1>4. Append(<<>>, e) = <<e>>
    OBVIOUS
  <1>5. FilterRecords(s, k) = IF e.kind = k THEN <<e>> ELSE <<>>
    BY <1>1, <1>2, <1>3, <1>4 DEF FilterRecords
  <1> QED BY <1>5 DEF s

LEMMA FilterAbsent ==
  ASSUME NEW s \in Seq(Records), NEW k, \A i \in 1 .. Len(s) : s[i].kind # k
  PROVE  FilterRecords(s, k) = <<>>
  <1> DEFINE n == Len(s)
             T == {i \in 0 .. n : Found(s, k)[i] = <<>>}
  <1>1. n \in Nat /\ 0 \in T
    BY FoundGive
  <1>2. ASSUME NEW i \in 1 .. n, i - 1 \in T PROVE i \in T
    <2>1. Found(s, k)[i] = Found(s, k)[i - 1]
      BY FoundGive
    <2> QED BY <1>1, <1>2, <2>1
  <1> HIDE DEF T, n
  <1>3. n \in T
    <2>1. 0 .. n \subseteq T
      BY <1>1, <1>2, Induction
    <2> QED BY <1>1, <2>1
  <1> QED BY <1>3 DEF T, n, FilterRecords

(* The records of a kind found in what is joined are told by those found   *)
(* in each.                                                                *)
Alike(ss, tt, k) ==
  Len(ss) = Len(tt) /\ \A i \in 1 .. Len(ss) : FilterRecords(ss[i], k) = FilterRecords(tt[i], k)

LEMMA FilterOfJoins ==
  ASSUME NEW ss \in Seq(Seq(Records)), NEW tt \in Seq(Seq(Records)),
         NEW J, NEW K, Joins(J, ss, Records), Joins(K, tt, Records), NEW k, Alike(ss, tt, k)
  PROVE  FilterRecords(J[Len(ss)], k) = FilterRecords(K[Len(ss)], k)
  <1> DEFINE n == Len(ss)
             T == {i \in 0 .. n : FilterRecords(J[i], k) = FilterRecords(K[i], k)}
  <1>1. /\ n \in Nat /\ J \in [0 .. n -> Seq(Records)] /\ K \in [0 .. n -> Seq(Records)]
        /\ J[0] = <<>> /\ K[0] = <<>>
        /\ \A i \in 1 .. n : ss[i] \in Seq(Records) /\ tt[i] \in Seq(Records)
    <2> HIDE DEF Records
    <2> QED BY DEF Joins, Alike
  <1>2. 0 \in T
    BY <1>1
  <1>3. ASSUME NEW i \in 1 .. n, i - 1 \in T PROVE i \in T
    <2>1. i - 1 \in 0 .. n /\ i \in 0 .. n
      BY <1>1
    <2>2. J[i] = J[i - 1] \o ss[i] /\ K[i] = K[i - 1] \o tt[i]
      BY DEF Joins, Alike
    <2> DEFINE a == J[i - 1]
               b == ss[i]
               c == K[i - 1]
               d == tt[i]
    <2>3. a \in Seq(Records) /\ b \in Seq(Records) /\ c \in Seq(Records) /\ d \in Seq(Records)
      <3> HIDE DEF Records
      <3> QED BY <1>1, <2>1
    <2>4. FilterRecords(a, k) = FilterRecords(c, k) /\ FilterRecords(b, k) = FilterRecords(d, k)
      BY <1>3 DEF Alike
    <2> HIDE DEF a, b, c, d
    <2>5. FilterRecords(a \o b, k) = FilterRecords(c \o d, k)
      <3>1. FilterRecords(a \o b, k) = FilterRecords(a, k) \o FilterRecords(b, k)
        <4>1. Parted(a, b, k)
          BY <2>3, FoundOfBoth
        <4> QED BY <4>1 DEF Parted
      <3>2. FilterRecords(c \o d, k) = FilterRecords(c, k) \o FilterRecords(d, k)
        <4>1. Parted(c, d, k)
          BY <2>3, FoundOfBoth
        <4> QED BY <4>1 DEF Parted
      <3> QED BY <2>4, <3>1, <3>2, Zenon
    <2> QED BY <2>1, <2>2, <2>5 DEF a, b, c, d
  <1> HIDE DEF T, n
  <1>4. n \in T
    <2>1. 0 .. n \subseteq T
      BY <1>1, <1>2, <1>3, Induction
    <2> QED BY <1>1, <2>1
  <1> QED BY <1>4 DEF T, n

LEMMA NoneOfJoins ==
  ASSUME NEW ss \in Seq(Seq(Records)), NEW J, Joins(J, ss, Records), NEW k,
         \A i \in 1 .. Len(ss) : FilterRecords(ss[i], k) = <<>>
  PROVE  FilterRecords(J[Len(ss)], k) = <<>>
  <1> DEFINE n == Len(ss)
             T == {i \in 0 .. n : FilterRecords(J[i], k) = <<>>}
  <1>1. /\ n \in Nat /\ J \in [0 .. n -> Seq(Records)] /\ J[0] = <<>>
        /\ \A i \in 1 .. n : ss[i] \in Seq(Records)
    <2> HIDE DEF Records
    <2> QED BY DEF Joins
  <1>2. 0 \in T
    <2> DEFINE s == J[0]
    <2>1. s \in Seq(Records) /\ \A i \in 1 .. Len(s) : s[i].kind # k
      BY <1>1
    <2> HIDE DEF s
    <2>2. FilterRecords(s, k) = <<>>
      BY <2>1, FilterAbsent
    <2> QED BY <1>1, <2>2 DEF s
  <1>3. ASSUME NEW i \in 1 .. n, i - 1 \in T PROVE i \in T
    <2>1. i - 1 \in 0 .. n /\ i \in 0 .. n
      BY <1>1
    <2>2. J[i] = J[i - 1] \o ss[i]
      BY DEF Joins
    <2> DEFINE a == J[i - 1]
               b == ss[i]
    <2>3. a \in Seq(Records) /\ b \in Seq(Records)
      <3> HIDE DEF Records
      <3> QED BY <1>1, <2>1
    <2>4. FilterRecords(a, k) = <<>> /\ FilterRecords(b, k) = <<>>
      BY <1>3
    <2> HIDE DEF a, b
    <2>5. FilterRecords(a \o b, k) = <<>> \o <<>>
      <3>1. Parted(a, b, k)
        BY <2>3, FoundOfBoth
      <3> QED BY <2>4, <3>1 DEF Parted
    <2>6. <<>> \o <<>> = <<>>
      OBVIOUS
    <2>7. FilterRecords(J[i], k) = <<>>
      BY <2>2, <2>5, <2>6, Zenon DEF a, b
    <2> QED BY <2>1, <2>7
  <1> HIDE DEF T, n
  <1>4. n \in T
    <2>1. 0 .. n \subseteq T
      BY <1>1, <1>2, <1>3, Induction
    <2> QED BY <1>1, <2>1
  <1> QED BY <1>4 DEF T, n

-----------------------------------------------------------------------------
(* Taking a sequence apart again                                           *)

(* What is behind the first a elements.                                    *)
Rest(r, a) == SubSeq(r, a + 1, Len(r))

(* Of what is behind the first a elements, those of s come first.          *)
Cut(r, a, s) ==
  /\ SubSeq(Rest(r, a), 1, Len(s)) = s
  /\ SubSeq(Rest(r, a), Len(s) + 1, Len(Rest(r, a))) = Rest(r, a + Len(s))

LEMMA Taken ==
  ASSUME NEW S, NEW r \in Seq(S), NEW a \in Nat, NEW s \in Seq(S), Lies(s, r, a)
  PROVE  Cut(r, a, s)
  <1>1. Len(s) \in Nat /\ Len(r) \in Nat /\ a + Len(s) <= Len(r)
    BY DEF Lies
  <1> DEFINE l == Rest(r, a)
  <1>2. l \in Seq(S) /\ Len(l) = Len(r) - a /\ \A p \in 1 .. Len(r) - a : l[p] = r[a + p]
    BY <1>1 DEF Rest
  <1>3. \A p \in 1 .. Len(s) : l[p] = s[p]
    <2>1. \A p \in 1 .. Len(s) : p \in 1 .. Len(r) - a
      BY <1>1
    <2> QED BY <1>2, <2>1 DEF Lies
  <1>4. SubSeq(l, Len(s) + 1, Len(r) - a) = Rest(r, a + Len(s))
    BY <1>1 DEF Rest
  <1> HIDE DEF l
  <1>5. Len(s) <= Len(l)
    BY <1>1, <1>2
  <1>6. SubSeq(l, 1, Len(s)) = [p \in 1 .. Len(s) |-> l[p]]
    BY <1>1, <1>2, <1>5
  <1>7. s = [p \in 1 .. Len(s) |-> s[p]]
    OBVIOUS
  <1>8. [p \in 1 .. Len(s) |-> l[p]] = [p \in 1 .. Len(s) |-> s[p]]
    BY <1>3
  <1>9. SubSeq(l, 1, Len(s)) = s
    BY <1>6, <1>7, <1>8
  <1>10. SubSeq(l, Len(s) + 1, Len(l)) = Rest(r, a + Len(s))
    BY <1>2, <1>4
  <1> QED BY <1>9, <1>10 DEF Cut, l
(* How many of from .. to are among the first i.                           *)
Span(i, from, to) == IF i <= from THEN 0 ELSE IF i <= to THEN i - from ELSE to - from

(* m of ss, behind the first from.                                         *)
Piece(ss, from, m) == [k \in 1 .. m |-> ss[from + k]]

(* One step of the slicing, where the receipt begins with what is joined   *)
(* of ss.                                                                  *)
LEMMA SliceStep ==
  ASSUME NEW ss \in Seq(Seq(Records)), NEW J, Joins(J, ss, Records), NEW r \in Seq(Records),
         Lies(J[Len(ss)], r, 0), NEW i \in 1 .. Len(ss)
  PROVE  Cut(r, Len(J[i - 1]), ss[i]) /\ Len(J[i]) = Len(J[i - 1]) + Len(ss[i])
  <1> DEFINE a == Len(J[i - 1])
             b == ss[i]
             w == J[Len(ss)]
  <1>1. /\ Len(J[i]) = a + Len(b) /\ a \in Nat /\ Len(b) \in Nat
        /\ Lies(b, w, a)
    BY JoinsAt, Zenon
  <1>2. b \in Seq(Records) /\ Len(r) \in Nat /\ Len(w) \in Nat
    BY DEF Joins
  <1>3. Lies(w, r, 0)
    OBVIOUS
  <1> HIDE DEF a, b, w, Records
  <1>4. Lies(b, r, a)
    <2>1. a + Len(b) <= Len(w) /\ Len(w) <= Len(r)
      BY <1>1, <1>2, <1>3 DEF Lies
    <2>2. \A p \in 1 .. Len(b) : a + p \in 1 .. Len(w) /\ 0 + (a + p) = a + p
      BY <1>1, <1>2, <2>1
    <2>3. \A p \in 1 .. Len(w) : r[0 + p] = w[p]
      BY <1>3 DEF Lies
    <2>4. \A p \in 1 .. Len(b) : r[a + p] = w[a + p]
      BY <2>2, <2>3
    <2>5. \A p \in 1 .. Len(b) : w[a + p] = b[p]
      BY <1>1 DEF Lies
    <2> QED BY <1>1, <1>2, <2>1, <2>4, <2>5 DEF Lies
  <1>5. Cut(r, a, b)
    BY <1>1, <1>2, <1>4, Taken
  <1> QED BY <1>1, <1>5 DEF a, b

Counted(counts, ss) == Len(counts) = Len(ss) /\ \A i \in 1 .. Len(ss) : counts[i] = Len(ss[i])
KeptOf(r, counts, from, to) == Sliced(r, counts, from, to)[Len(counts)].kept

LEMMA SlicedGives ==
  ASSUME NEW ss \in Seq(Seq(Records)), NEW J, Joins(J, ss, Records), NEW r \in Seq(Records),
         Lies(J[Len(ss)], r, 0),
         NEW counts, Counted(counts, ss),
         NEW from \in 0 .. Len(ss), NEW to \in from .. Len(ss),
         NEW K, Joins(K, Piece(ss, from, to - from), Records)
  PROVE  KeptOf(r, counts, from, to) = K[to - from]
  <1> DEFINE n == Len(ss)
             C(i) == [left |-> Rest(r, Len(J[i])), kept |-> K[Span(i, from, to)]]
             G(i, x) == [left |-> SubSeq(x.left, counts[i] + 1, Len(x.left)),
                         kept |-> IF InRange(i - 1, from, to) THEN x.kept \o SubSeq(x.left, 1, counts[i])
                                  ELSE x.kept]
             F(f) == [i \in 0 .. Len(counts) |->
                       IF i = 0 THEN [left |-> r, kept |-> <<>>] ELSE G(i, f[i - 1])]
             c == [i \in 0 .. n |-> C(i)]
             g == Sliced(r, counts, from, to)
  <1>0. /\ n \in Nat /\ from \in Nat /\ to \in Nat /\ from <= to /\ to <= n
        /\ Len(counts) = n /\ \A i \in 1 .. n : counts[i] = Len(ss[i])
    BY DEF Counted
  <1>1. ASSUME NEW i \in 1 .. n PROVE C(i) = G(i, C(i - 1))
    <2> DEFINE l == Rest(r, Len(J[i - 1]))
               x == C(i - 1)
    <2>1. SubSeq(l, Len(ss[i]) + 1, Len(l)) = Rest(r, Len(J[i])) /\ SubSeq(l, 1, Len(ss[i])) = ss[i]
      <3>1. Cut(r, Len(J[i - 1]), ss[i]) /\ Len(J[i]) = Len(J[i - 1]) + Len(ss[i])
        BY SliceStep, Zenon
      <3> QED BY <3>1, Zenon DEF Cut
    <2>2. x.left = l /\ x.kept = K[Span(i - 1, from, to)] /\ counts[i] = Len(ss[i])
      BY <1>0
    <2>3. K[Span(i, from, to)] = IF InRange(i - 1, from, to) THEN x.kept \o ss[i] ELSE x.kept
      <3>1. CASE InRange(i - 1, from, to)
        <4>1. /\ Span(i, from, to) = i - from /\ Span(i - 1, from, to) = (i - from) - 1
              /\ i - from \in 1 .. to - from /\ from + (i - from) = i
          BY <1>0, <3>1 DEF Span, InRange
        <4>2. Len(Piece(ss, from, to - from)) = to - from
          BY <1>0 DEF Piece
        <4>3. K[i - from] = K[(i - from) - 1] \o ss[from + (i - from)]
          BY <4>1, <4>2 DEF Joins, Piece
        <4> HIDE DEF x
        <4> QED BY <2>2, <3>1, <4>1, <4>3
      <3>2. CASE ~InRange(i - 1, from, to)
        <4>1. Span(i, from, to) = Span(i - 1, from, to)
          BY <1>0, <3>2 DEF Span, InRange
        <4> QED BY <2>2, <3>2, <4>1
      <3> QED BY <3>1, <3>2
    <2>4. G(i, x) = [left |-> SubSeq(l, Len(ss[i]) + 1, Len(l)),
                     kept |-> IF InRange(i - 1, from, to) THEN x.kept \o SubSeq(l, 1, Len(ss[i])) ELSE x.kept]
      <3> HIDE DEF l, x
      <3> QED BY <2>2
    <2> HIDE DEF l, x, G
    <2> QED BY <2>1, <2>3, <2>4 DEF x
  <1>2. C(0) = [left |-> r, kept |-> <<>>]
    <2>1. J[0] = <<>> /\ K[0] = <<>> /\ Span(0, from, to) = 0
      BY <1>0 DEF Joins, Span
    <2>2. SubSeq(r, 0 + 1, Len(r)) = r
      OBVIOUS
    <2> QED BY <2>1, <2>2 DEF Rest
  <1>3. g = CHOOSE h : h = F(h)
    BY DEF Sliced
  <1> HIDE DEF G, C, g
  <1>4. c = F(c)
    <2>1. ASSUME NEW i \in 0 .. n PROVE c[i] = IF i = 0 THEN [left |-> r, kept |-> <<>>] ELSE G(i, c[i - 1])
      <3>1. CASE i = 0
        BY <1>2, <3>1
      <3>2. CASE i # 0
        <4>1. i \in 1 .. n /\ i - 1 \in 0 .. n
          BY <1>0, <3>2
        <4> QED BY <1>1, <3>2, <4>1
      <3> QED BY <3>1, <3>2
    <2> QED BY <1>0, <2>1
  <1>5. g = F(g)
    <2> HIDE DEF F, c
    <2> QED BY <1>3, <1>4
  <1>6. \A i \in 0 .. n : g[i] = IF i = 0 THEN [left |-> r, kept |-> <<>>] ELSE G(i, g[i - 1])
    BY <1>0, <1>5
  <1> DEFINE T == {i \in 0 .. n : g[i] = C(i)}
  <1>7. 0 \in T
    BY <1>0, <1>2, <1>6
  <1>8. ASSUME NEW i \in 1 .. n, i - 1 \in T PROVE i \in T
    <2>1. i \in 0 .. n /\ i # 0
      BY <1>0
    <2>2. g[i] = G(i, g[i - 1])
      BY <1>6, <2>1
    <2> QED BY <1>1, <1>8, <2>1, <2>2
  <1> HIDE DEF T, n
  <1>9. n \in T
    <2>1. 0 .. n \subseteq T
      BY <1>0, <1>7, <1>8, Induction
    <2> QED BY <1>0, <2>1
  <1>10. g[n] = C(n)
    BY <1>9 DEF T
  <1>11. Span(n, from, to) = to - from
    BY <1>0 DEF Span
  <1> QED BY <1>0, <1>10, <1>11 DEF C, g, KeptOf
-----------------------------------------------------------------------------
(* The receipts of transactions                                            *)

EventsOf(ts) == [k \in 1 .. Len(ts) |-> Events(ts[k])]
PlainsOf(ts) == [k \in 1 .. Len(ts) |-> PlainReceipt(ts[k])]

(* r reports of a batch the events of which are ss.                        *)
Reports(r, ss) ==
  \E c \in Records, tail \in Seq(Records) :
    /\ c.kind = "completed" /\ c.counts = [i \in 1 .. Len(ss) |-> Len(ss[i])]
    /\ FilterRecords(tail, "made") = <<>>
    /\ r = FlattenSeq(ss) \o (<<c>> \o tail)

LEMMA RecordsTyped ==
  /\ ExtrinsicSuccess \in Records /\ ExtrinsicSuccess.kind = "other"
  /\ \A counts \in Seq(Nat) : /\ BatchCompleted(counts) \in Records
                              /\ BatchCompleted(counts).kind = "completed"
                              /\ BatchCompleted(counts).counts = counts
  BY DEF Records, ExtrinsicSuccess, BatchCompleted

LEMMA EventsTyped ==
  ASSUME NEW t \in Txs
  PROVE  /\ Events(t) \in Seq(Records) /\ Len(Events(t)) = Len(Emits[t]) /\ Len(Emits[t]) \in Nat
         /\ FilterRecords(Events(t), "completed") = <<>>
  <1>1. Emits[t] \in Seq({"made", "other"})
    BY EmitsAssumption
  <1>2. Events(t) = [k \in 1 .. Len(Emits[t]) |-> Event(Emits[t][k], t)] /\ Len(Emits[t]) \in Nat
    BY <1>1 DEF Events
  <1>3. \A k \in 1 .. Len(Emits[t]) :
          Event(Emits[t][k], t) \in Records /\ Event(Emits[t][k], t).kind # "completed"
    <2> TAKE k \in 1 .. Len(Emits[t])
    <2>1. Emits[t][k] \in {"made", "other"}
      BY <1>1
    <2>2. <<>> \in Seq(Nat)
      OBVIOUS
    <2> QED BY <2>1, <2>2 DEF Event, Records
  <1>4. Events(t) \in Seq(Records) /\ Len(Events(t)) = Len(Emits[t])
    BY <1>2, <1>3
  <1>5. \A k \in 1 .. Len(Events(t)) : Events(t)[k].kind # "completed"
    BY <1>2, <1>3, <1>4
  <1>6. FilterRecords(Events(t), "completed") = <<>>
    BY <1>4, <1>5, FilterAbsent
  <1> QED BY <1>2, <1>4, <1>6

LEMMA NothingMore ==
  ASSUME NEW s \in Seq(Records)
  PROVE  s \o <<>> = s /\ <<>> \o s = s
  OBVIOUS

(* The node's report of a transaction run alone is its events and one that *)
(* no resolver looks for.                                                  *)
LEMMA PlainTyped ==
  ASSUME NEW t \in Txs
  PROVE  /\ PlainReceipt(t) \in Seq(Records)
         /\ FilterRecords(PlainReceipt(t), "made") = FilterRecords(Events(t), "made")
         /\ FilterRecords(PlainReceipt(t), "completed") = FilterRecords(Events(t), "completed")
  <1> DEFINE s == Events(t)
             e == ExtrinsicSuccess
  <1>1. s \in Seq(Records) /\ e \in Records /\ e.kind = "other"
    BY EventsTyped, RecordsTyped
  <1> HIDE DEF s, e
  <1>2. Append(s, e) = s \o <<e>> /\ <<e>> \in Seq(Records) /\ Append(s, e) \in Seq(Records)
    BY <1>1
  <1>3. ASSUME NEW k, k # "other" PROVE FilterRecords(Append(s, e), k) = FilterRecords(s, k)
    <2>1. FilterRecords(s \o <<e>>, k) = FilterRecords(s, k) \o FilterRecords(<<e>>, k)
      <3>1. Parted(s, <<e>>, k)
        BY <1>1, <1>2, FoundOfBoth
      <3> QED BY <3>1 DEF Parted
    <2>2. FilterRecords(<<e>>, k) = <<>>
      BY <1>1, <1>3, FilterSingle
    <2>3. FilterRecords(s, k) \o <<>> = FilterRecords(s, k)
      BY <1>1, FilterTyped, NothingMore
    <2> QED BY <1>2, <2>1, <2>2, <2>3, Zenon
  <1>4. PlainReceipt(t) = Append(s, e)
    BY DEF PlainReceipt, s, e
  <1>5. "made" # "other" /\ "completed" # "other"
    OBVIOUS
  <1>6. FilterRecords(PlainReceipt(t), "made") = FilterRecords(s, "made")
    BY <1>3, <1>4, <1>5, Zenon
  <1>7. FilterRecords(PlainReceipt(t), "completed") = FilterRecords(s, "completed")
    BY <1>3, <1>4, <1>5, Zenon
  <1>8. PlainReceipt(t) \in Seq(Records)
    BY <1>2, <1>4, Zenon
  <1> QED BY <1>6, <1>7, <1>8 DEF s

(* The slice of a batch's receipt is what its transactions reported.       *)
LEMMA SliceGives ==
  ASSUME NEW ss \in Seq(Seq(Records)), NEW r, Reports(r, ss),
         \A i \in 1 .. Len(ss) : FilterRecords(ss[i], "completed") = <<>>,
         NEW from \in 0 .. Len(ss), NEW to \in from .. Len(ss)
  PROVE  SliceBatchReceipt(r, from, to) = Ok(FlattenSeq(Piece(ss, from, to - from)))
  <1>1. PICK c \in Records, tail \in Seq(Records) :
          /\ c.kind = "completed" /\ c.counts = [i \in 1 .. Len(ss) |-> Len(ss[i])]
          /\ r = FlattenSeq(ss) \o (<<c>> \o tail)
    BY DEF Reports
  <1>2. PICK J : Joins(J, ss, Records)
    BY JoinsExist
  <1> DEFINE w == J[Len(ss)]
             v == <<c>> \o tail
             x == Piece(ss, from, to - from)
  <1>3. w \in Seq(Records) /\ w = FlattenSeq(ss) /\ r = w \o v
    <2>1. J \in [0 .. Len(ss) -> Seq(Records)] /\ Len(ss) \in 0 .. Len(ss)
      BY <1>2 DEF Joins
    <2>2. w \in Seq(Records)
      BY <2>1
    <2>3. w = FlattenSeq(ss)
      BY <1>2, JoinsFlat
    <2> QED BY <1>1, <2>2, <2>3
  <1>4. <<c>> \in Seq(Records) /\ v \in Seq(Records)
    OBVIOUS
  <1>5. FilterRecords(w, "completed") = <<>>
    BY <1>2, NoneOfJoins
  <1>6. FilterRecords(<<c>>, "completed") = <<c>>
    BY <1>1, FilterSingle
  <1> DEFINE q == FilterRecords(tail, "completed")
             f == FilterRecords(r, "completed")
  <1>7. q \in Seq(Records)
    BY FilterTyped
  <1>8. f = <<>> \o (<<c>> \o q)
    <2>1. FilterRecords(v, "completed") = <<c>> \o q
      <3>1. FilterRecords(v, "completed") = FilterRecords(<<c>>, "completed") \o FilterRecords(tail, "completed")
        <4>1. Parted(<<c>>, tail, "completed")
          BY <1>4, FoundOfBoth
        <4> QED BY <4>1 DEF Parted
      <3> QED BY <1>6, <3>1
    <2> HIDE DEF w, v
    <2>2. FilterRecords(w \o v, "completed") = FilterRecords(w, "completed") \o FilterRecords(v, "completed")
      <3>1. Parted(w, v, "completed")
        BY <1>3, <1>4, FoundOfBoth
      <3> QED BY <3>1 DEF Parted
    <2> HIDE DEF q
    <2> QED BY <1>3, <1>5, <2>1, <2>2, Zenon
  <1> HIDE DEF w, v, q, f, x
  <1>9. f # <<>> /\ f[1] = c
    BY <1>7, <1>8
  <1>10. Lies(w, r, 0) /\ r \in Seq(Records)
    <2>1. /\ w \o v \in Seq(Records) /\ Len(w \o v) = Len(w) + Len(v) /\ Len(w) \in Nat /\ Len(v) \in Nat
          /\ \A p \in 1 .. Len(w) : (w \o v)[p] = w[p]
      BY <1>3, <1>4, Both
    <2>2. \A p \in 1 .. Len(w) : 0 + p = p
      OBVIOUS
    <2> QED BY <1>3, <2>1, <2>2 DEF Lies
  <1>11. x \in Seq(Seq(Records)) /\ Len(x) = to - from
    <2>1. to - from \in Nat /\ \A k \in 1 .. to - from : from + k \in 1 .. Len(ss)
      OBVIOUS
    <2>2. \A k \in 1 .. to - from : ss[from + k] \in Seq(Records)
      BY <2>1
    <2> QED BY <2>1, <2>2 DEF x, Piece
  <1>12. PICK K : Joins(K, x, Records)
    BY <1>11, JoinsExist
  <1>13. FlattenSeq(x) = K[to - from]
    BY <1>11, <1>12, JoinsFlat
  <1> DEFINE counts == c.counts
  <1>14. Len(counts) = Len(ss) /\ \A i \in 1 .. Len(ss) : counts[i] = Len(ss[i])
    BY <1>1
  <1> HIDE DEF counts
  <1>15. Counted(counts, ss)
    BY <1>14 DEF Counted
  <1>16. KeptOf(r, counts, from, to) = K[to - from]
    <2>1. Joins(K, Piece(ss, from, to - from), Records)
      BY <1>12 DEF x
    <2>2. Lies(J[Len(ss)], r, 0)
      BY <1>10 DEF w
    <2> QED BY <1>2, <1>10, <1>15, <2>1, <2>2, SlicedGives, SMT
  <1>17. ~(f = <<>> \/ Len(f[1].counts) < to \/ from < 0)
    BY <1>9, <1>14 DEF counts
  <1>18. SliceBatchReceipt(r, from, to) = Ok(KeptOf(r, f[1].counts, from, to))
    BY <1>17 DEF SliceBatchReceipt, KeptOf, f
  <1> QED BY <1>9, <1>13, <1>16, <1>18 DEF counts, x
(* What transactions made, in the order in which they were sent.           *)
Made(ts) == FilterRecords(FlattenSeq(EventsOf(ts)), "made")

LEMMA Joined ==
  ASSUME NEW ss \in Seq(Seq(Records))
  PROVE  FlattenSeq(ss) \in Seq(Records)
  <1>1. PICK J : Joins(J, ss, Records)
    BY JoinsExist
  <1>2. J \in [0 .. Len(ss) -> Seq(Records)] /\ Len(ss) \in 0 .. Len(ss)
    BY <1>1 DEF Joins
  <1>3. FlattenSeq(ss) = J[Len(ss)]
    BY <1>1, JoinsFlat
  <1> QED BY <1>2, <1>3

LEMMA OfTyped ==
  ASSUME NEW ts \in Seq(Txs)
  PROVE  /\ EventsOf(ts) \in Seq(Seq(Records)) /\ Len(EventsOf(ts)) = Len(ts)
         /\ PlainsOf(ts) \in Seq(Seq(Records)) /\ Len(PlainsOf(ts)) = Len(ts)
         /\ \A k \in 1 .. Len(ts) : FilterRecords(EventsOf(ts)[k], "completed") = <<>>
         /\ \A k \in 1 .. Len(ts) : FilterRecords(PlainsOf(ts)[k], "completed") = <<>>
         /\ \A k \in 1 .. Len(ts) :
              FilterRecords(PlainsOf(ts)[k], "made") = FilterRecords(EventsOf(ts)[k], "made")
  <1>1. Len(ts) \in Nat /\ \A k \in 1 .. Len(ts) : ts[k] \in Txs
    OBVIOUS
  <1>2. ASSUME NEW t \in Txs
        PROVE  /\ Events(t) \in Seq(Records) /\ PlainReceipt(t) \in Seq(Records)
               /\ FilterRecords(Events(t), "completed") = <<>>
               /\ FilterRecords(PlainReceipt(t), "completed") = <<>>
               /\ FilterRecords(PlainReceipt(t), "made") = FilterRecords(Events(t), "made")
    BY EventsTyped, PlainTyped
  <1>3. EventsOf(ts) \in Seq(Seq(Records)) /\ Len(EventsOf(ts)) = Len(ts)
    BY <1>1, <1>2 DEF EventsOf
  <1>4. PlainsOf(ts) \in Seq(Seq(Records)) /\ Len(PlainsOf(ts)) = Len(ts)
    BY <1>1, <1>2 DEF PlainsOf
  <1>5. \A k \in 1 .. Len(ts) : EventsOf(ts)[k] = Events(ts[k]) /\ PlainsOf(ts)[k] = PlainReceipt(ts[k])
    BY DEF EventsOf, PlainsOf
  <1> QED BY <1>1, <1>2, <1>3, <1>4, <1>5

LEMMA MadeOfPlains ==
  ASSUME NEW ts \in Seq(Txs)
  PROVE  FilterRecords(FlattenSeq(PlainsOf(ts)), "made") = Made(ts)
  <1> DEFINE ss == EventsOf(ts)
             tt == PlainsOf(ts)
  <1>1. /\ ss \in Seq(Seq(Records)) /\ tt \in Seq(Seq(Records)) /\ Len(tt) = Len(ss)
        /\ Alike(tt, ss, "made")
    BY OfTyped DEF Alike
  <1> HIDE DEF ss, tt
  <1>2. PICK J : Joins(J, ss, Records)
    BY <1>1, JoinsExist
  <1>3. PICK K : Joins(K, tt, Records)
    BY <1>1, JoinsExist
  <1>4. FlattenSeq(ss) = J[Len(ss)] /\ FlattenSeq(tt) = K[Len(tt)]
    BY <1>1, <1>2, <1>3, JoinsFlat
  <1>5. FilterRecords(K[Len(tt)], "made") = FilterRecords(J[Len(tt)], "made")
    BY <1>1, <1>2, <1>3, FilterOfJoins
  <1> QED BY <1>1, <1>4, <1>5 DEF Made, ss, tt

LEMMA MadeOfReport ==
  ASSUME NEW ss \in Seq(Seq(Records)), NEW r, Reports(r, ss)
  PROVE  FilterRecords(r, "made") = FilterRecords(FlattenSeq(ss), "made")
  <1>1. PICK c \in Records, tail \in Seq(Records) :
          /\ c.kind = "completed" /\ FilterRecords(tail, "made") = <<>>
          /\ r = FlattenSeq(ss) \o (<<c>> \o tail)
    BY DEF Reports
  <1> DEFINE w == FlattenSeq(ss)
             u == <<c>>
             v == u \o tail
  <1>2. w \in Seq(Records) /\ u \in Seq(Records) /\ v \in Seq(Records)
    BY Joined
  <1>3. FilterRecords(u, "made") = <<>>
    BY <1>1, FilterSingle
  <1>4. r = w \o v
    BY <1>1
  <1> HIDE DEF w, u
  <1>5. FilterRecords(v, "made") = FilterRecords(u, "made") \o FilterRecords(tail, "made")
    <2>1. Parted(u, tail, "made")
      BY <1>2, FoundOfBoth
    <2> QED BY <2>1 DEF Parted
  <1>6. FilterRecords(v, "made") = <<>>
    <2>1. <<>> \o <<>> = <<>>
      OBVIOUS
    <2> HIDE DEF v
    <2> QED BY <1>1, <1>3, <1>5, <2>1, Zenon
  <1> HIDE DEF v
  <1>7. FilterRecords(w \o v, "made") = FilterRecords(w, "made") \o FilterRecords(v, "made")
    <2>1. Parted(w, v, "made")
      BY <1>2, FoundOfBoth
    <2> QED BY <2>1 DEF Parted
  <1>8. FilterRecords(w, "made") \o <<>> = FilterRecords(w, "made")
    BY <1>2, FilterTyped, NothingMore
  <1>9. FilterRecords(r, "made") = FilterRecords(w, "made")
    BY <1>4, <1>6, <1>7, <1>8, Zenon
  <1> QED BY <1>9 DEF w

(* The node's receipt of a batch and the one simulated for a split batch   *)
(* both report of a batch.                                                 *)
LEMMA RunReports ==
  ASSUME NEW ts \in Seq(Txs)
  PROVE  Reports(BatchReceipt(ts), EventsOf(ts))
  <1> DEFINE ss == EventsOf(ts)
             counts == [i \in 1 .. Len(ss) |-> Len(ss[i])]
             c == BatchCompleted(counts)
             tail == <<ExtrinsicSuccess>>
  <1>1. ss \in Seq(Seq(Records)) /\ Len(ss) = Len(ts) /\ DOMAIN ts = 1 .. Len(ts)
    BY OfTyped
  <1>2. ss = [i \in DOMAIN ts |-> Events(ts[i])]
    BY <1>1 DEF EventsOf
  <1>3. \A i \in 1 .. Len(ts) : Len(ss[i]) = Len(Emits[ts[i]])
    <2> TAKE i \in 1 .. Len(ts)
    <2>1. ts[i] \in Txs /\ ss[i] = Events(ts[i])
      BY DEF EventsOf
    <2> QED BY <2>1, EventsTyped
  <1>4. counts = [i \in DOMAIN ts |-> Len(Emits[ts[i]])]
    BY <1>1, <1>3
  <1>5. counts \in Seq(Nat)
    <2>1. Len(ss) \in Nat /\ \A i \in 1 .. Len(ss) : Len(ss[i]) \in Nat
      BY <1>1
    <2> HIDE DEF ss
    <2> QED BY <2>1
  <1>6. BatchReceipt(ts) = FlattenSeq(ss) \o <<c, ExtrinsicSuccess>>
    BY <1>2, <1>4 DEF BatchReceipt
  <1> HIDE DEF ss, counts
  <1>7. c \in Records /\ c.kind = "completed" /\ c.counts = counts /\ ExtrinsicSuccess \in Records
        /\ ExtrinsicSuccess.kind = "other"
    BY <1>5, RecordsTyped
  <1>8. tail \in Seq(Records) /\ FilterRecords(tail, "made") = <<>>
    BY <1>7, FilterSingle
  <1> HIDE DEF c
  <1>9. <<c, ExtrinsicSuccess>> = <<c>> \o tail
    BY <1>7
  <1> HIDE DEF tail
  <1>10. BatchReceipt(ts) = FlattenSeq(ss) \o (<<c>> \o tail)
    BY <1>6, <1>9
  <1> QED BY <1>7, <1>8, <1>10 DEF Reports, ss, counts

LEMMA MergeReports ==
  ASSUME NEW ss \in Seq(Seq(Records))
  PROVE  Reports(MergeReceipts(ss), ss)
  <1> DEFINE counts == [i \in 1 .. Len(ss) |-> Len(ss[i])]
             c == BatchCompleted(counts)
             w == FlattenSeq(ss)
  <1>1. counts \in Seq(Nat)
    <2>1. Len(ss) \in Nat /\ \A i \in 1 .. Len(ss) : Len(ss[i]) \in Nat
      OBVIOUS
    <2> QED BY <2>1
  <1>2. MergeReceipts(ss) = Append(w, c)
    <2>1. DOMAIN ss = 1 .. Len(ss)
      OBVIOUS
    <2> QED BY <2>1 DEF MergeReceipts
  <1> HIDE DEF counts
  <1>3. c \in Records /\ c.kind = "completed" /\ c.counts = counts
    BY <1>1, RecordsTyped
  <1>4. w \in Seq(Records)
    BY Joined
  <1> HIDE DEF c, w
  <1> DEFINE none == <<>>
  <1>5. none \in Seq(Records) /\ FilterRecords(none, "made") = <<>>
    <2>1. none \in Seq(Records) /\ \A i \in 1 .. Len(none) : none[i].kind # "made"
      OBVIOUS
    <2> HIDE DEF none
    <2> QED BY <2>1, FilterAbsent
  <1>6. Append(w, c) = w \o (<<c>> \o none)
    BY <1>3, <1>4
  <1> HIDE DEF none
  <1> QED BY <1>2, <1>3, <1>5, <1>6 DEF Reports, w, counts

LEMMA MadeOfRun ==
  ASSUME NEW ts \in Seq(Txs)
  PROVE  FilterRecords(RunReceipt(ts), "made") = Made(ts)
  <1> DEFINE ss == EventsOf(ts)
  <1>1. ss \in Seq(Seq(Records)) /\ Len(ss) = Len(ts) /\ Len(ts) \in Nat
    BY OfTyped
  <1>2. CASE Len(ts) = 1
    <2>1. ts[1] \in Txs
      BY <1>2
    <2>2. FilterRecords(RunReceipt(ts), "made") = FilterRecords(Events(ts[1]), "made")
      BY <1>2, <2>1, PlainTyped DEF RunReceipt
    <2>3. ss[1] = Events(ts[1])
      BY <1>2 DEF EventsOf
    <2> HIDE DEF ss
    <2>4. PICK J : Joins(J, ss, Records)
      BY <1>1, JoinsExist
    <2>5. FlattenSeq(ss) = J[Len(ss)]
      BY <1>1, <2>4, JoinsFlat
    <2>6. J[1] = J[0] \o ss[1] /\ J[0] = <<>> /\ ss[1] \in Seq(Records)
      <3>1. J[1] = J[1 - 1] \o ss[1] /\ J[0] = <<>>
        BY <1>1, <1>2, <2>4 DEF Joins
      <3>2. 1 - 1 = 0 /\ ss[1] \in Seq(Records)
        BY <1>1, <1>2
      <3> QED BY <3>1, <3>2
    <2>7. <<>> \o ss[1] = ss[1]
      BY <2>6, NothingMore
    <2>8. FlattenSeq(ss) = Events(ts[1])
      BY <1>1, <1>2, <2>3, <2>5, <2>6, <2>7
    <2> QED BY <2>2, <2>8 DEF Made, ss
  <1>3. CASE Len(ts) # 1
    <2>1. Reports(RunReceipt(ts), ss)
      BY <1>3, RunReports DEF RunReceipt
    <2>2. FilterRecords(RunReceipt(ts), "made") = FilterRecords(FlattenSeq(ss), "made")
      BY <1>1, <2>1, MadeOfReport
    <2> QED BY <2>2 DEF Made
  <1> QED BY <1>2, <1>3
-----------------------------------------------------------------------------
(* The results of lists                                                    *)

Leaves == [kind : {"plain", "procedure", "void"}, txs : Seq(Txs), items : {<<>>}]

(* createTransactionBatch() of transactions that are no lists themselves,  *)
(* with more than one extrinsic (or none) between them.                    *)
FlatLists ==
  {e \in [kind : {"list"}, txs : Seq(Txs), items : Seq(Leaves)] :
     IsBatch(e) /\ e.txs = FlattenSeq([i \in DOMAIN e.items |-> e.items[i].txs])}

LEMMA ItemLies ==
  ASSUME NEW e \in FlatLists, NEW i \in DOMAIN e.items
  PROVE  /\ StartIndex(e.items, i) \in Nat /\ e.items[i] \in Leaves
         /\ Lies(e.items[i].txs, e.txs, StartIndex(e.items, i))
  <1> DEFINE n == Len(e.items)
             ts == [j \in 1 .. n |-> e.items[j].txs]
  <1>1. /\ n \in Nat /\ DOMAIN e.items = 1 .. n /\ i \in 1 .. n
        /\ \A j \in 1 .. n : e.items[j] \in Leaves
        /\ e.txs = FlattenSeq([j \in DOMAIN e.items |-> e.items[j].txs])
    BY DEF FlatLists
  <1>2. \A j \in 1 .. n : e.items[j].txs \in Seq(Txs)
    BY <1>1 DEF Leaves
  <1>3. ts \in Seq(Seq(Txs)) /\ Len(ts) = n /\ e.txs = FlattenSeq(ts)
    BY <1>1, <1>2
  <1>4. ts[i] = e.items[i].txs
    BY <1>1
  <1>5. [k \in 1 .. i - 1 |-> ts[k]] = [j \in 1 .. i - 1 |-> e.items[j].txs]
    BY <1>1
  <1> HIDE DEF ts, n
  <1>6. PICK J : Joins(J, ts, Txs)
    BY <1>3, JoinsExist
  <1>7. e.txs = J[Len(ts)]
    BY <1>3, <1>6, JoinsFlat
  <1>8. i - 1 \in 0 .. Len(ts) /\ i \in 1 .. Len(ts)
    BY <1>1, <1>3
  <1>9. FlattenSeq([k \in 1 .. i - 1 |-> ts[k]]) = J[i - 1]
    BY <1>3, <1>6, <1>8, JoinsPart
  <1>10. StartIndex(e.items, i) = Len(J[i - 1])
    BY <1>5, <1>9 DEF StartIndex
  <1>11. Len(J[i - 1]) \in Nat /\ Lies(ts[i], J[Len(ts)], Len(J[i - 1]))
    BY <1>3, <1>6, <1>8, JoinsAt, Zenon
  <1> QED BY <1>1, <1>4, <1>7, <1>10, <1>11

LEMMA ItemSliced ==
  ASSUME NEW e \in FlatLists, NEW i \in DOMAIN e.items, NEW r
  PROVE  LET start == StartIndex(e.items, i)
             ts    == e.items[i].txs
         IN  /\ Reports(r, EventsOf(e.txs)) =>
                  SliceBatchReceipt(r, start, start + Len(ts)) = Ok(FlattenSeq(EventsOf(ts)))
             /\ Reports(r, PlainsOf(e.txs)) =>
                  SliceBatchReceipt(r, start, start + Len(ts)) = Ok(FlattenSeq(PlainsOf(ts)))
  <1> DEFINE start == StartIndex(e.items, i)
             ts == e.items[i].txs
             all == e.txs
             to == start + Len(ts)
  <1>1. start \in Nat /\ Lies(ts, all, start) /\ ts \in Seq(Txs) /\ all \in Seq(Txs)
    <2>1. start \in Nat /\ Lies(ts, all, start) /\ e.items[i] \in Leaves
      BY ItemLies
    <2>2. ts \in Seq(Txs) /\ all \in Seq(Txs)
      BY <2>1 DEF Leaves, FlatLists
    <2> QED BY <2>1, <2>2
  <1> HIDE DEF start, ts, all
  <1>2. /\ Len(ts) \in Nat /\ Len(all) \in Nat /\ start + Len(ts) <= Len(all)
        /\ start \in 0 .. Len(all) /\ to \in start .. Len(all) /\ to - start = Len(ts)
    BY <1>1 DEF Lies
  <1>3. \A k \in 1 .. Len(ts) : start + k \in 1 .. Len(all) /\ all[start + k] = ts[k]
    BY <1>1, <1>2 DEF Lies
  <1>4. Piece(EventsOf(all), start, Len(ts)) = EventsOf(ts)
    BY <1>3 DEF Piece, EventsOf
  <1>5. Piece(PlainsOf(all), start, Len(ts)) = PlainsOf(ts)
    BY <1>3 DEF Piece, PlainsOf
  <1> HIDE DEF to
  <1>6. ASSUME Reports(r, EventsOf(all))
        PROVE  SliceBatchReceipt(r, start, to) = Ok(FlattenSeq(EventsOf(ts)))
    <2> DEFINE ss == EventsOf(all)
    <2>1. /\ ss \in Seq(Seq(Records)) /\ Len(ss) = Len(all)
          /\ \A k \in 1 .. Len(ss) : FilterRecords(ss[k], "completed") = <<>>
      BY <1>1, OfTyped
    <2>2. Reports(r, ss)
      BY <1>6
    <2> HIDE DEF ss
    <2>3. SliceBatchReceipt(r, start, to) = Ok(FlattenSeq(Piece(ss, start, to - start)))
      BY <1>2, <2>1, <2>2, SliceGives
    <2> QED BY <1>2, <1>4, <2>3 DEF ss
  <1>7. ASSUME Reports(r, PlainsOf(all))
        PROVE  SliceBatchReceipt(r, start, to) = Ok(FlattenSeq(PlainsOf(ts)))
    <2> DEFINE ss == PlainsOf(all)
    <2>1. /\ ss \in Seq(Seq(Records)) /\ Len(ss) = Len(all)
          /\ \A k \in 1 .. Len(ss) : FilterRecords(ss[k], "completed") = <<>>
      BY <1>1, OfTyped
    <2>2. Reports(r, ss)
      BY <1>7
    <2> HIDE DEF ss
    <2>3. SliceBatchReceipt(r, start, to) = Ok(FlattenSeq(Piece(ss, start, to - start)))
      BY <1>2, <2>1, <2>2, SliceGives
    <2> QED BY <1>2, <1>5, <2>3 DEF ss
  <1> QED BY <1>6, <1>7 DEF start, ts, all, to

(* A resolver looks at nothing but what was made.                          *)
LEMMA LeafAlike ==
  ASSUME NEW e, NEW r, NEW s, FilterRecords(r, "made") = FilterRecords(s, "made")
  PROVE  ResolveLeaf(e, r) = ResolveLeaf(e, s)
  BY DEF ResolveLeaf

(* Each item of a list gets what it would have got alone.                  *)
LEMMA ItemResult ==
  ASSUME NEW e \in FlatLists, NEW i \in DOMAIN e.items, NEW r,
         Reports(r, EventsOf(e.txs)) \/ Reports(r, PlainsOf(e.txs))
  PROVE  /\ ItemSlice(e, i, r).ok
         /\ ResolveFlat(e.items[i], ItemSlice(e, i, r).value) = ResultOf(e.items[i])
  <1> DEFINE x == e.items[i]
             ts == x.txs
             start == StartIndex(e.items, i)
             slice == ItemSlice(e, i, r)
  <1>1. x \in Leaves
    BY ItemLies
  <1>2. ts \in Seq(Txs) /\ x.kind \in {"plain", "procedure", "void"}
    BY <1>1 DEF Leaves
  <1>3. x.kind # "list"
    BY <1>2
  <1>4. ResultOf(x) = ResolveLeaf(x, RunReceipt(ts)) /\ ResolveFlat(x, slice.value) = ResolveLeaf(x, slice.value)
    BY <1>3 DEF ResultOf, Resolve, ResolveFlat
  <1>5. FilterRecords(RunReceipt(ts), "made") = Made(ts)
    BY <1>2, MadeOfRun
  <1>6. CASE x.kind = "void"
    <2>1. slice = Ok(<<>>)
      BY <1>6 DEF ItemSlice
    <2>2. ResolveLeaf(x, slice.value) = Ok(<<>>) /\ ResolveLeaf(x, RunReceipt(ts)) = Ok(<<>>)
      BY <1>6 DEF ResolveLeaf
    <2>3. Ok(<<>>).ok
      BY DEF Ok
    <2> QED BY <1>4, <2>1, <2>2, <2>3
  <1>7. CASE x.kind # "void"
    <2>1. slice = SliceBatchReceipt(r, start, start + Len(ts))
      BY <1>7 DEF ItemSlice
    <2>2. slice = Ok(FlattenSeq(EventsOf(ts))) \/ slice = Ok(FlattenSeq(PlainsOf(ts)))
      BY <2>1, ItemSliced
    <2>3. slice.ok /\ (slice.value = FlattenSeq(EventsOf(ts)) \/ slice.value = FlattenSeq(PlainsOf(ts)))
      BY <2>2 DEF Ok
    <2> HIDE DEF slice, ts, x
    <2>4. FilterRecords(FlattenSeq(PlainsOf(ts)), "made") = Made(ts)
      BY <1>2, MadeOfPlains
    <2>5. FilterRecords(slice.value, "made") = Made(ts)
      BY <2>3, <2>4 DEF Made
    <2>6. ResolveLeaf(x, slice.value) = ResolveLeaf(x, RunReceipt(ts))
      BY <1>5, <2>5, LeafAlike
    <2> QED BY <1>4, <2>3, <2>6 DEF x, slice
  <1> QED BY <1>6, <1>7

LEMMA ListResult ==
  ASSUME NEW e \in FlatLists, NEW r, Reports(r, EventsOf(e.txs)) \/ Reports(r, PlainsOf(e.txs))
  PROVE  Resolve(e, r) = AllOf([i \in DOMAIN e.items |-> ResultOf(e.items[i])])
  <1> DEFINE R(i) == LET slice == ItemSlice(e, i, r)
                     IN  IF slice.ok THEN ResolveFlat(e.items[i], slice.value) ELSE Err
  <1>1. e.kind = "list"
    BY DEF FlatLists
  <1>2. Resolve(e, r) = AllOf([i \in DOMAIN e.items |-> R(i)])
    BY <1>1 DEF Resolve
  <1>3. \A i \in DOMAIN e.items : R(i) = ResultOf(e.items[i])
    BY ItemResult
  <1> HIDE DEF R
  <1> QED BY <1>2, <1>3

(* A split transaction gives what it gives when it is run as it is, and a  *)
(* list what its items give alone.                                         *)
LEMMA Results ==
  ASSUME NEW e \in Leaves \cup FlatLists
  PROVE  /\ Resolve(e, MergeReceipts(PlainsOf(e.txs))) = ResultOf(e)
         /\ e.kind = "list" => ResultOf(e) = AllOf([i \in DOMAIN e.items |-> ResultOf(e.items[i])])
  <1> DEFINE ts == e.txs
             m == MergeReceipts(PlainsOf(ts))
  <1>1. ts \in Seq(Txs)
    BY DEF Leaves, FlatLists
  <1> HIDE DEF ts
  <1>2. PlainsOf(ts) \in Seq(Seq(Records))
    BY <1>1, OfTyped
  <1>3. Reports(m, PlainsOf(ts))
    BY <1>2, MergeReports
  <1>4. CASE e \in Leaves
    <2>1. e.kind # "list"
      BY <1>4 DEF Leaves
    <2>2. FilterRecords(m, "made") = Made(ts)
      BY <1>1, <1>2, <1>3, MadeOfReport, MadeOfPlains
    <2>3. FilterRecords(RunReceipt(ts), "made") = Made(ts)
      BY <1>1, MadeOfRun
    <2> HIDE DEF m
    <2>4. ResolveLeaf(e, m) = ResolveLeaf(e, RunReceipt(ts))
      BY <2>2, <2>3, LeafAlike
    <2> QED BY <2>1, <2>4 DEF Resolve, ResultOf, ts, m
  <1>5. CASE e \in FlatLists
    <2>1. Len(ts) # 1
      BY <1>5 DEF FlatLists, IsBatch, ts
    <2>2. Reports(RunReceipt(ts), EventsOf(ts))
      BY <1>1, <2>1, RunReports DEF RunReceipt
    <2> HIDE DEF m
    <2>3. Resolve(e, m) = AllOf([i \in DOMAIN e.items |-> ResultOf(e.items[i])])
      BY <1>3, <1>5, ListResult DEF ts
    <2>4. Resolve(e, RunReceipt(ts)) = AllOf([i \in DOMAIN e.items |-> ResultOf(e.items[i])])
      BY <1>5, <2>2, ListResult DEF ts
    <2> QED BY <2>3, <2>4 DEF ResultOf, ts, m
  <1> QED BY <1>4, <1>5
-----------------------------------------------------------------------------
(* There is no result before all transactions took effect, and no second   *)
(* one: that of the whole is that of the transaction, and that of the last *)
(* part is what all of the parts' receipts give, each once and in order.   *)
Whole == [i \in Parts |-> i]
Resolved ==
  /\ mode = "prepared" => outcomes = <<>>
  /\ mode = "whole" => outcomes = <<>> \/ (outcomes = <<ResultOf(expr)>> /\ applied = Whole)
  /\ mode = "split" /\ NoRepeats =>
       \/ outcomes = <<>>
       \/ outcomes = <<Resolve(expr, MergeReceipts(PlainsOf(expr.txs)))>> /\ Len(applied) = N

LEMMA LastStep ==
  ASSUME Inv, CallInv, Orderly, Resolved, PartResolves(N), mode = "split", NoRepeats
  PROVE  /\ outcomes' = <<Resolve(expr, MergeReceipts(PlainsOf(expr.txs)))>>
         /\ Len(applied') = N
  <1>0. N \in Nat \ {0} /\ N = Len(expr.txs) /\ expr.txs \in Seq(Txs) /\ N \in Parts
    BY BatchSize, ExprsAssumption DEF N, CallInv, TypeOK, Parts
  <1>1. /\ applied \in Seq(Parts) /\ Len(applied) \in Nat /\ receipts \in Seq(Kept)
        /\ Len(receipts) = Len(processed)
    BY DEF CallInv, TypeOK
  <1>2. OneByOne /\ pending[N] > 0 /\ applied' = Append(applied, N) /\ Reached(N)
    BY <1>0 DEF Orderly, PartResolves, Settle, Inv, Guarded
  <1>3. N = Len(applied) + 1 /\ Len(processed) = N - 1
    BY <1>0, <1>2, NextPart
  <1>4. Len(applied') = N
    BY <1>1, <1>2, <1>3, <1>0, AppendedTo
  <1>5. outcomes = <<>>
    BY <1>1, <1>3 DEF Resolved
  <1>6. Len(receipts) = N - 1 /\ \A k \in 1 .. N - 1 : receipts[k] = PlainReceipt(expr.txs[k])
    BY <1>0, <1>1, <1>2, <1>3 DEF OneByOne
  <1> DEFINE last == PlainReceipt(expr.txs[N])
             all == PlainsOf(expr.txs)
  <1>7. last \in Kept
    BY <1>0 DEF Kept
  <1>8. Append(receipts, last) = all
    <2>1. /\ Append(receipts, last) \in Seq(Kept) /\ Len(Append(receipts, last)) = N
          /\ Append(receipts, last)[N] = last
          /\ \A k \in 1 .. N - 1 : Append(receipts, last)[k] = receipts[k]
      <3> HIDE DEF last
      <3>1. /\ Append(receipts, last) \in Seq(Kept)
            /\ Len(Append(receipts, last)) = Len(receipts) + 1
            /\ Append(receipts, last)[Len(receipts) + 1] = last
            /\ \A k \in 1 .. Len(receipts) : Append(receipts, last)[k] = receipts[k]
        BY <1>1, <1>7, AppendedTo
      <3>2. Len(receipts) = N - 1 /\ Len(receipts) + 1 = N
        BY <1>0, <1>6
      <3> QED BY <3>1, <3>2
    <2> DEFINE s == Append(receipts, last)
    <2>2. \A k \in 1 .. N : s[k] = PlainReceipt(expr.txs[k])
      <3> HIDE DEF s
      <3> TAKE k \in 1 .. N
      <3>1. CASE k = N
        BY <2>1, <3>1 DEF s
      <3>2. CASE k # N
        <4>1. k \in 1 .. N - 1
          BY <1>0, <3>2
        <4> QED BY <1>6, <2>1, <4>1 DEF s
      <3> QED BY <3>1, <3>2
    <2>3. s \in Seq(Kept) /\ Len(s) = N
      BY <2>1
    <2> HIDE DEF s
    <2>4. s = [k \in 1 .. N |-> s[k]]
      BY <2>3
    <2>5. s = [k \in 1 .. N |-> PlainReceipt(expr.txs[k])]
      BY <2>2, <2>4
    <2> QED BY <1>0, <2>5 DEF s, PlainsOf
  <1> HIDE DEF all
  <1>9. outcomes' = Append(outcomes, Resolve(expr, MergeReceipts(all)))
    BY <1>8 DEF PartResolves, Collected
  <1> DEFINE res == Resolve(expr, MergeReceipts(all))
  <1> HIDE DEF res
  <1>10. Append(<<>>, res) = <<res>>
    OBVIOUS
  <1> QED BY <1>4, <1>5, <1>9, <1>10 DEF res, all

LEMMA ResolvedStep == Inv /\ CallInv /\ Orderly /\ Resolved /\ [Next]_vars => Resolved'
<1> SUFFICES ASSUME Inv, CallInv, Orderly, Resolved, [Next]_vars PROVE Resolved'
  OBVIOUS
<1>0. N \in Nat \ {0} /\ TypeOK /\ Parts = 1 .. N
  BY BatchSize DEF CallInv, TypeOK, Parts
<1>1. CASE RunWhole
  <2>1. mode' = "whole" /\ expr' = expr /\ outcomes = <<>> /\ Whole' = Whole
    BY <1>1 DEF RunWhole, Resolved, Whole, Parts, N
  <2>2. outcomes' = outcomes \/ (outcomes' = <<ResultOf(expr)>> /\ applied' = Whole)
    BY <1>1 DEF RunWhole, Whole
  <2> QED BY <2>1, <2>2 DEF Resolved
<1>2. CASE SplitTransactions
  BY <1>2 DEF SplitTransactions, Resolved
<1>3. ASSUME NEW i \in Parts, RunPart(i) PROVE Resolved'
  <2>1. /\ mode = "split" /\ UNCHANGED <<expr, mode, applied, outcomes>> /\ N' = N /\ Parts' = Parts
        /\ calls' = [calls EXCEPT ![i] = @ + 1]
    BY <1>3 DEF RunPart, N, Parts
  <2>2. NoRepeats' => NoRepeats
    BY <1>0, <2>1, CallsAssumption DEF NoRepeats, TypeOK
  <2> QED BY <2>1, <2>2 DEF Resolved
<1>4. ASSUME NEW i \in Parts, PartResolves(i) PROVE Resolved'
  <2>1. /\ UNCHANGED <<expr, mode, calls>> /\ N' = N /\ Parts' = Parts
        /\ pending[i] > 0
    BY <1>4 DEF PartResolves, Settle, N, Parts
  <2>2. mode = "split" /\ Reached(i)
    BY <2>1 DEF Inv, Guarded, Typing
  <2>3. NoRepeats' = NoRepeats
    BY <2>1 DEF NoRepeats
  <2>4. CASE i = N
    BY <1>4, <2>1, <2>2, <2>3, <2>4, LastStep DEF Resolved
  <2>5. CASE i # N
    <3>1. outcomes' = outcomes
      BY <1>4, <2>5 DEF PartResolves
    <3>2. ASSUME NoRepeats PROVE outcomes = <<>>
      <4>1. OneByOne
        BY <2>2, <3>2 DEF Orderly
      <4>2. i = Len(applied) + 1 /\ i \in Nat /\ i <= N /\ Len(applied) \in Nat
        BY <1>0, <2>1, <2>2, <3>2, <4>1, NextPart DEF TypeOK
      <4>3. Len(applied) # N
        BY <1>0, <4>2
      <4> QED BY <2>2, <3>2, <4>3 DEF Resolved
    <3> QED BY <2>1, <2>2, <2>3, <3>1, <3>2 DEF Resolved
  <2> QED BY <2>4, <2>5
<1>5. ASSUME NEW i \in Parts, PartFails(i) PROVE Resolved'
  <2>1. /\ UNCHANGED <<expr, mode, calls, applied, outcomes>> /\ N' = N /\ Parts' = Parts
        /\ NoRepeats' = NoRepeats /\ pending[i] > 0
    BY <1>5 DEF PartFails, Settle, N, Parts, NoRepeats
  <2>2. mode = "split"
    BY <2>1 DEF Inv, Guarded, Typing
  <2> QED BY <2>1, <2>2 DEF Resolved
<1>6. ASSUME NEW i \in Parts, AppliesUnheard(i) PROVE Resolved'
  <2>1. /\ UNCHANGED <<expr, mode, calls, outcomes>> /\ N' = N /\ Parts' = Parts
        /\ NoRepeats' = NoRepeats /\ adrift[i] > 0
    BY <1>6 DEF AppliesUnheard, N, Parts, NoRepeats
  <2>2. mode = "split" /\ Reached(i)
    BY <2>1 DEF Inv, Guarded, Typing
  <2>3. ASSUME NoRepeats PROVE outcomes = <<>>
    <3>1. OneByOne
      BY <2>2, <2>3 DEF Orderly
    <3>2. i = Len(applied) + 1 /\ i \in Nat /\ i <= N /\ Len(applied) \in Nat
      BY <1>0, <2>1, <2>2, <2>3, <3>1, NextPart DEF TypeOK
    <3>3. Len(applied) # N
      BY <1>0, <3>2
    <3> QED BY <2>2, <2>3, <3>3 DEF Resolved
  <2> QED BY <2>1, <2>2, <2>3 DEF Resolved
<1>7. CASE UNCHANGED vars
  BY <1>7 DEF vars, Resolved, Whole, NoRepeats, N, Parts
<1> QED BY <1>1, <1>2, <1>3, <1>4, <1>5, <1>6, <1>7 DEF Next

(* "The result that would be obtained by running the batch is returned by  *)
(* running the last transaction in the array", and a list gives "an array  *)
(* of the results of each transaction in the list": for every list of      *)
(* transactions that are no lists themselves, with more than one extrinsic *)
(* between them, whatever their number and whatever events they emit, run  *)
(* as a whole or split, where no part is run twice.  And a resolver is     *)
(* only called for a batch all of which took effect, whatever fails.       *)
THEOREM ResultsTrue ==
  ASSUME Exprs \subseteq Leaves \cup FlatLists
  PROVE  Spec => []ResultsMatch
<1>1. CallInv /\ Inv /\ Orderly /\ Resolved => ResultsMatch
  <2> SUFFICES ASSUME CallInv, Inv, Orderly, Resolved, NoRepeats, NEW k \in DOMAIN outcomes
               PROVE  /\ ToSet(applied) = Parts
                      /\ mode = "split" => outcomes[k] = ResultOf(expr)
                      /\ expr.kind = "list" /\ (\A i \in DOMAIN expr.items : ResultOf(expr.items[i]).ok) =>
                           outcomes[k] = Ok([i \in DOMAIN expr.items |-> ResultOf(expr.items[i]).value])
    BY DEF ResultsMatch
  <2>1. /\ expr \in Leaves \cup FlatLists /\ mode \in {"prepared", "whole", "split"}
        /\ applied \in Seq(Parts) /\ N \in Nat \ {0} /\ Parts = 1 .. N
    BY BatchSize DEF CallInv, TypeOK, Parts
  <2>2. outcomes # <<>>
    OBVIOUS
  <2>3. outcomes[k] = ResultOf(expr) /\ ToSet(applied) = Parts
    <3>1. CASE mode = "whole"
      <4> DEFINE res == ResultOf(expr)
      <4>1. outcomes = <<res>> /\ applied = Whole
        BY <2>2, <3>1 DEF Resolved
      <4> HIDE DEF res
      <4>2. outcomes[k] = res
        BY <4>1
      <4>3. ToSet(applied) = Parts
        BY <4>1 DEF ToSet, Whole
      <4> QED BY <4>2, <4>3 DEF res
    <3>2. CASE mode = "split"
      <4> DEFINE res == Resolve(expr, MergeReceipts(PlainsOf(expr.txs)))
      <4>1. outcomes = <<res>> /\ Len(applied) = N
        BY <2>2, <3>2 DEF Resolved
      <4> HIDE DEF res
      <4>2. outcomes[k] = res
        BY <4>1
      <4>3. OneByOne
        BY <3>2 DEF Orderly
      <4>4. ToSet(applied) = Parts
        BY <2>1, <4>1, <4>3 DEF ToSet, OneByOne
      <4> QED BY <2>1, <4>2, <4>4, Results DEF res
    <3> QED BY <2>1, <2>2, <3>1, <3>2 DEF Resolved
  <2>4. ASSUME expr.kind = "list", \A i \in DOMAIN expr.items : ResultOf(expr.items[i]).ok
        PROVE  outcomes[k] = Ok([i \in DOMAIN expr.items |-> ResultOf(expr.items[i]).value])
    <3> DEFINE all == [i \in DOMAIN expr.items |-> ResultOf(expr.items[i])]
    <3>1. outcomes[k] = AllOf(all)
      BY <2>1, <2>3, <2>4, Results
    <3>2. DOMAIN all = DOMAIN expr.items /\ \A i \in DOMAIN expr.items : all[i] = ResultOf(expr.items[i])
      OBVIOUS
    <3> HIDE DEF all
    <3>3. AllOf(all) = Ok([i \in DOMAIN all |-> all[i].value])
      BY <2>4, <3>2 DEF AllOf
    <3>4. [i \in DOMAIN all |-> all[i].value] = [i \in DOMAIN expr.items |-> ResultOf(expr.items[i]).value]
      BY <3>2
    <3> QED BY <3>1, <3>3, <3>4
  <2> QED BY <2>3, <2>4
<1>2. Init => Resolved
  BY DEF Init, Resolved
<1> QED BY InitInv, StepInv, CallInit, CallStep, OrderlyStep, ResolvedStep, <1>1, <1>2, PTL DEF Spec
=============================================================================
