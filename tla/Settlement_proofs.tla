--------------------------- MODULE Settlement_proofs ---------------------------
(***************************************************************************)
(* Proofs about the procedures on settlement instructions: what a call has *)
(* learnt of instructions, custody and portfolios stays true until these   *)
(* change, and is, when its transaction is built, what the chain asks for. *)
(***************************************************************************)
EXTENDS Settlement, TLAPS, SequenceTheorems, FiniteSetTheorems, FunctionTheorems

(* A portfolio that was deleted was in the custody of its owner.           *)
ChainTyped ==
  /\ block \in 1 .. MaxBlock /\ changes \in 0 .. MaxChanges
  /\ instructions \in Seq(Instruction)
  /\ custodian \in [Portfolios -> Dids] /\ existing \subseteq Portfolios
  /\ \A p \in Portfolios \ existing : custodian[p] = OwnerOf[p]

CallTyped ==
  /\ call \in Call /\ call.id <= Len(instructions)
  /\ call.senders <= call.k /\ call.k <= Len(call.legs)
  /\ call.kept \subseteq DOMAIN call.found

Typed == ChainTyped /\ CallTyped

(* The form of a call, at each of its stages.                              *)
OnLegs == call.op \in Affirmations \cup Executions

Adding ==
  /\ call.at \in {"custody", "details", "ready"} /\ call.choice = {}
  /\ call.at # "custody" => DOMAIN call.toAffirm = DOMAIN call.want

Looking ==
  /\ call.at \in {"open", "legs"} => call.k = 0 /\ call.found = <<>>
  /\ call.at = "custody" => call.k < Len(call.legs)
  /\ call.at \in {"details", "affirmations", "ready"} => call.k = Len(call.legs)
  /\ call.at = "affirmations" => call.op # "skip"

(* A manual execution that was let through is due, and remains so.         *)
Due == call.at \in {"affirmations", "ready"} => Subject.type = "manual" /\ block > Subject.end

Form ==
  call.at # "idle" =>
    /\ call.op = "add" => Adding
    /\ call.op # "add" => call.id \in DOMAIN instructions
    /\ OnLegs => Looking
    /\ call.op \in Executions => Due
    /\ call.op = "reschedule" => call.at \in {"details", "ready"}

(* What a call knows, if nothing it depends on has changed since it began. *)
Items(s) == {s[n] : n \in DOMAIN s}

KnownNew ==
  call.op = "add" =>
    /\ call.at \in {"details", "ready"} =>
         \A n \in DOMAIN call.want :
           /\ Involved(call.want[n].legs) \subseteq existing
           /\ call.toAffirm[n] = {p \in Involved(call.want[n].legs) : custodian[p] = call.by}
    /\ call.at = "ready" => \A n \in DOMAIN call.want : Valid(call.want[n])

KnownOpen == OnLegs /\ call.at # "open" => OnChain(call.id)
KnownLegs == OnLegs /\ call.at \notin {"open", "legs"} => call.legs = Subject.legs

(* found and senders: the signer's portfolios of the legs looked at, and   *)
(* in how many of these legs one of them sends.                            *)
Seen(p) == \E n \in 1 .. call.k : p \in Sides(call.legs[n])
Sending == {n \in 1 .. call.k : Mine(call.legs[n].from) /\ call.legs[n].from \in existing}
KnownMine ==
  OnLegs => /\ Items(call.found) = {p \in Portfolios : Mine(p) /\ Seen(p)}
            /\ call.senders = Cardinality(Sending)

KnownThere == call.op \in Executions => \A n \in 1 .. call.k : Sides(call.legs[n]) \subseteq existing

KnownModifiable ==
  call.op \in Affirmations /\ call.at \in {"affirmations", "ready"} =>
    ~ReachedEnd(Subject) /\ call.found # <<>>
KnownKept ==
  call.op \in Affirmations /\ call.at = "ready" => call.kept = ValidPortfolios /\ call.kept # {}

KnownExecutable ==
  call.op \in Executions /\ call.at \in {"affirmations", "ready"} =>
    (call.found = <<>> => call.by = VenueOwner)
KnownAffirmed ==
  call.op = "execute" /\ call.at = "ready" => Involved(Subject.legs) \subseteq Subject.affirmed
KnownFailed == call.op = "reschedule" /\ call.at = "ready" => Subject.status = "failed"

Knowledge ==
  /\ KnownNew /\ KnownOpen /\ KnownLegs /\ KnownMine /\ KnownThere
  /\ KnownModifiable /\ KnownKept /\ KnownExecutable /\ KnownAffirmed /\ KnownFailed

Known == call.at # "idle" /\ Fresh => Knowledge

Inv == Typed /\ Form /\ Known

-----------------------------------------------------------------------------
(* Types *)

LEMMA TypedEnough == Typed => TypeOK
  BY DEF Typed, ChainTyped, CallTyped, TypeOK

LEMMA IdleTyped ==
  /\ Idle \in Call
  /\ Idle.at = "idle" /\ Idle.id = 0 /\ Idle.k = 0 /\ Idle.senders = 0
  /\ Idle.legs = <<>> /\ Idle.found = <<>> /\ Idle.kept = {} /\ Idle.stale = FALSE
  /\ Len(Idle.legs) = 0 /\ Idle.toAffirm = <<>>
  <1>1. <<>> \in Seq(Leg) /\ <<>> \in Seq(Portfolios) /\ <<>> \in Seq(SUBSET Portfolios)
    OBVIOUS
  <1> QED BY <1>1, PartiesAssumption, InputAssumption DEF Idle, Call, Stages, Operations

LEMMA InitTyped == Init => Typed
  <1> SUFFICES ASSUME Init PROVE Typed
    OBVIOUS
  <1>1. ChainTyped
    BY PartiesAssumption, BoundsAssumption DEF Init, ChainTyped
  <1>2. CallTyped
    BY IdleTyped DEF Init, CallTyped
  <1> QED BY <1>1, <1>2 DEF Typed

LEMMA IdleCall == ASSUME ChainTyped', call' = Idle PROVE CallTyped'
  <1>1. Len(instructions') \in Nat
    BY DEF ChainTyped
  <1>2. call'.id = 0 /\ call'.senders = 0 /\ call'.k = 0 /\ Len(call'.legs) = 0 /\ call'.kept = {}
    BY IdleTyped
  <1> QED BY <1>1, <1>2, IdleTyped DEF CallTyped

LEMMA SameChain == ASSUME ChainTyped, UNCHANGED chain PROVE ChainTyped'
  BY DEF ChainTyped, chain

(* What happens to an instruction leaves its legs, its type and its end.   *)
SameTerms(i, j) == j \in Instruction /\ j.legs = i.legs /\ j.type = i.type /\ j.end = i.end

LEMMA InstructionTyped ==
  ASSUME ChainTyped, NEW id \in DOMAIN instructions
  PROVE  /\ instructions[id] \in Instruction
         /\ instructions[id].legs \in Seq(Leg) /\ instructions[id].type \in Types
         /\ instructions[id].end \in Nat /\ instructions[id].affirmed \subseteq Portfolios
         /\ instructions[id].due \in BOOLEAN
         /\ instructions[id].status \in {"pending", "failed", "executed", "rejected"}
  <1>1. instructions[id] \in Instruction
    BY DEF ChainTyped
  <1> QED BY <1>1 DEF Instruction

LEMMA InvolvedTyped ==
  ASSUME NEW legs \in Seq(Leg)
  PROVE  /\ Involved(legs) \subseteq Portfolios /\ Senders(legs) \subseteq Involved(legs)
         /\ \A n \in DOMAIN legs : legs[n].from \in Portfolios /\ legs[n].to \in Portfolios
  <1>1. ASSUME NEW n \in DOMAIN legs PROVE legs[n] \in Leg
    OBVIOUS
  <1> QED BY <1>1 DEF Involved, Senders, Sides, Leg

LEMMA ModifiedTerms ==
  ASSUME ChainTyped, NEW id \in DOMAIN instructions, NEW op, NEW P,
         P \subseteq Involved(instructions[id].legs)
  PROVE  SameTerms(instructions[id], Modified(op, instructions[id], P))
  <1> DEFINE i == instructions[id]
  <1>1. i \in Instruction /\ i.affirmed \subseteq Portfolios /\ i.due \in BOOLEAN /\ P \subseteq Portfolios
    BY InstructionTyped, InvolvedTyped
  <1>2. /\ i.affirmed \cup P \in SUBSET Portfolios /\ i.affirmed \ P \in SUBSET Portfolios
        /\ (i.due \/ (i.type = "affirmation" /\ i.affirmed \cup P = Involved(i.legs))) \in BOOLEAN
        /\ (i.due /\ i.type # "affirmation") \in BOOLEAN
    BY <1>1
  <1> HIDE DEF i
  <1>3. SameTerms(i, Modified(op, i, P))
    BY <1>1, <1>2 DEF SameTerms, Modified, Instruction
  <1> QED BY <1>3 DEF i

LEMMA SettledTerms ==
  ASSUME ChainTyped, NEW id \in DOMAIN instructions, NEW s \in {"executed", "failed", "pending"},
         NEW due \in BOOLEAN
  PROVE  SameTerms(instructions[id], [instructions[id] EXCEPT !.status = s, !.due = due])
  BY InstructionTyped DEF SameTerms, Instruction

(* What every step keeps of the instructions there are.                    *)
Keeps ==
  /\ Len(instructions) <= Len(instructions') /\ block <= block'
  /\ \A id \in DOMAIN instructions :
       id \in DOMAIN instructions' /\ SameTerms(instructions[id], instructions'[id])

LEMMA ReplaceTyped ==
  ASSUME ChainTyped, NEW id \in DOMAIN instructions, NEW i, SameTerms(instructions[id], i),
         Replace(id, i)
  PROVE  ChainTyped' /\ Keeps
  <1>1. instructions' \in Seq(Instruction) /\ Len(instructions') = Len(instructions)
        /\ DOMAIN instructions' = DOMAIN instructions
    BY DEF Replace, ChainTyped, SameTerms
  <1>2. ASSUME NEW j \in DOMAIN instructions PROVE SameTerms(instructions[j], instructions'[j])
    BY InstructionTyped DEF Replace, SameTerms, ChainTyped
  <1>3. block' = block /\ block \in Nat /\ Len(instructions) \in Nat
    BY DEF Replace, ChainTyped
  <1> QED BY <1>1, <1>2, <1>3 DEF Replace, ChainTyped, Keeps

LEMMA SameKeeps ==
  ASSUME ChainTyped, instructions' = instructions, block' \in Nat, block <= block'
  PROVE  Keeps
  <1>1. Len(instructions) \in Nat
    BY DEF ChainTyped
  <1> QED BY <1>1, InstructionTyped DEF Keeps, SameTerms

-----------------------------------------------------------------------------
(* The order of a batch *)

Upto(t, n) == {m \in DOMAIN t : NotAfter(t, m, n)}

LEMMA PlaceIsCount ==
  ASSUME NEW t, NEW len \in Nat, DOMAIN t = 1 .. len, NEW n \in 1 .. len
  PROVE  /\ IsFiniteSet(Upto(t, n)) /\ n \in Upto(t, n)
         /\ Place(t, n) = Cardinality(Upto(t, n)) /\ Place(t, n) \in 1 .. len
  <1>1. IsFiniteSet(1 .. len) /\ Cardinality(1 .. len) = len
    BY FS_Interval
  <1>2. Upto(t, n) \in SUBSET (1 .. len) /\ n \in Upto(t, n)
    BY DEF Upto, NotAfter
  <1>3. IsFiniteSet(Upto(t, n)) /\ Cardinality(Upto(t, n)) <= len
    BY <1>1, <1>2, FS_Subset
  <1>4. Cardinality(Upto(t, n)) # 0 /\ Cardinality(Upto(t, n)) \in Nat
    BY <1>2, <1>3, FS_EmptySet, FS_CardinalityType
  <1>5. Place(t, n) = Cardinality(Upto(t, n))
    BY DEF Place, Upto
  <1> QED BY <1>2, <1>3, <1>4, <1>5

(* No two instructions of a batch have the same place.                     *)
LEMMA PlacesDiffer ==
  ASSUME NEW t, NEW len \in Nat, DOMAIN t = 1 .. len,
         NEW m \in 1 .. len, NEW n \in 1 .. len, NotAfter(t, m, n), m # n
  PROVE  Place(t, m) # Place(t, n)
  <1>1. Upto(t, m) \in SUBSET Upto(t, n)
    BY DEF Upto, NotAfter
  <1>2. n \notin Upto(t, m)
    BY DEF Upto, NotAfter
  <1>3. /\ IsFiniteSet(Upto(t, n)) /\ n \in Upto(t, n) /\ Place(t, n) = Cardinality(Upto(t, n))
        /\ Place(t, m) = Cardinality(Upto(t, m))
    BY PlaceIsCount
  <1>4. Cardinality(Upto(t, n)) = Cardinality(Upto(t, m)) => Upto(t, n) = Upto(t, m)
    BY <1>1, <1>3, FS_Subset
  <1> QED BY <1>2, <1>3, <1>4

(* Every place is taken, by the instruction that Order names.              *)
LEMMA OrderIsComplete ==
  ASSUME NEW t, NEW len \in Nat, DOMAIN t = 1 .. len
  PROVE  /\ DOMAIN Order(t) = 1 .. len
         /\ \A place \in 1 .. len : Order(t)[place] \in 1 .. len
         /\ \A n \in 1 .. len : Place(t, n) \in 1 .. len /\ Order(t)[Place(t, n)] = n
  <1> DEFINE f == [n \in 1 .. len |-> Place(t, n)]
  <1>1. IsFiniteSet(1 .. len)
    BY FS_Interval
  <1>2. \A n \in 1 .. len : Place(t, n) \in 1 .. len
    BY PlaceIsCount
  <1>3. ASSUME NEW m \in 1 .. len, NEW n \in 1 .. len, Place(t, m) = Place(t, n) PROVE m = n
    <2>1. NotAfter(t, m, n) \/ NotAfter(t, n, m)
      BY DEF NotAfter
    <2> QED BY <1>3, <2>1, PlacesDiffer
  <1>4. f \in Injection(1 .. len, 1 .. len)
    BY <1>2, <1>3, Fun_IsInj
  <1>5. f \in Surjection(1 .. len, 1 .. len)
    BY <1>1, <1>4, FS_Injection
  <1>6. ASSUME NEW place \in 1 .. len
        PROVE  \E n \in 1 .. len : Place(t, n) = place
    <2>1. PICK n \in 1 .. len : f[n] = place
      BY <1>5 DEF Surjection
    <2> QED BY <2>1
  <1>7. ASSUME NEW place \in 1 .. len
        PROVE  Order(t)[place] \in 1 .. len /\ Place(t, Order(t)[place]) = place
    <2>1. Order(t)[place] = CHOOSE n \in 1 .. len : Place(t, n) = place
      BY DEF Order
    <2> QED BY <1>6, <2>1
  <1>8. DOMAIN Order(t) = 1 .. len
    BY DEF Order
  <1> QED BY <1>2, <1>3, <1>7, <1>8

(* The transactions of a batch: one for each instruction asked for, with   *)
(* its own portfolios.                                                     *)
LEMMA BatchIsComplete ==
  ASSUME NEW want \in Seq(Input), NEW t, DOMAIN t = DOMAIN want
  PROVE  /\ DOMAIN Transactions(want, t) = DOMAIN want
         /\ \A place \in DOMAIN want : \E n \in DOMAIN want :
              Transactions(want, t)[place] = New(want[n], t[n])
         /\ \A n \in DOMAIN want : \E place \in DOMAIN want :
              Transactions(want, t)[place] = New(want[n], t[n])
  <1>1. Len(want) \in Nat /\ DOMAIN want = 1 .. Len(want)
    OBVIOUS
  <1>2. /\ \A place \in DOMAIN want : Order(t)[place] \in DOMAIN want
        /\ \A n \in DOMAIN want : Place(t, n) \in DOMAIN want /\ Order(t)[Place(t, n)] = n
    BY <1>1, OrderIsComplete
  <1>3. \A place \in DOMAIN want :
          Transactions(want, t)[place] = New(want[Order(t)[place]], t[Order(t)[place]])
    BY DEF Transactions
  <1> QED BY <1>2, <1>3 DEF Transactions

-----------------------------------------------------------------------------
(* Every step keeps the types *)

LEMMA CallFields ==
  ASSUME CallTyped
  PROVE  /\ call.at \in Stages /\ call.by \in Dids /\ call.op \in Operations /\ call.id \in Nat
         /\ call.want \in Seq(Input) /\ call.choice \subseteq Portfolios
         /\ call.legs \in Seq(Leg) /\ call.k \in Nat /\ call.found \in Seq(Portfolios)
         /\ call.senders \in Nat /\ call.toAffirm \in Seq(SUBSET Portfolios) /\ call.stale \in BOOLEAN
         /\ Len(call.legs) \in Nat
  <1>1. call \in Call
    BY DEF CallTyped
  <1>2. call.want \in Requests \cup {<<>>} /\ <<>> \in Seq(Input) /\ call.choice \in Selections
        /\ call.legs \in Seq(Leg)
    BY <1>1 DEF Call
  <1>3. call.want \in Seq(Input) /\ call.choice \subseteq Portfolios
    BY <1>2, InputAssumption
  <1> QED BY <1>1, <1>2, <1>3 DEF Call

LEMMA GotoTyped ==
  ASSUME Typed, NEW stage \in Stages, call' = [call EXCEPT !.at = stage], UNCHANGED chain
  PROVE  Typed'
  <1>1. call' \in Call
    BY DEF Typed, CallTyped, Call
  <1>2. /\ call'.id = call.id /\ call'.senders = call.senders /\ call'.k = call.k
        /\ call'.legs = call.legs /\ call'.kept = call.kept /\ call'.found = call.found
    BY DEF Typed, CallTyped, Call
  <1>3. CallTyped'
    BY <1>1, <1>2 DEF Typed, CallTyped, chain
  <1> QED BY <1>3, SameChain DEF Typed

LEMMA RefuseTyped == ASSUME Typed, Refuse PROVE Typed'
  BY SameChain, IdleCall DEF Typed, Refuse

LEMMA CheckTyped ==
  ASSUME Typed, NEW test, NEW stage \in Stages, Check(test, stage)
  PROVE  Typed'
  BY GotoTyped, RefuseTyped DEF Check, Goto

LEMMA StartTyped ==
  ASSUME Typed, NEW d \in Dids, NEW op \in Operations, NEW id \in 0 .. Len(instructions),
         NEW stage \in Stages, Start(d, op, id, stage)
  PROVE  Typed'
  <1>1. PICK choice \in Selections, want \in Requests \cup {<<>>} :
          call' = [Idle EXCEPT !.at = stage, !.by = d, !.op = op, !.id = id,
                               !.choice = choice, !.want = want]
    BY DEF Start
  <1>2. UNCHANGED chain /\ Len(instructions) \in Nat
    BY DEF Start, Typed, ChainTyped
  <1>3. call' \in Call
    <2>1. id \in Nat /\ Idle \in Call
      BY <1>2, IdleTyped
    <2> QED BY <1>1, <2>1 DEF Call
  <1>4. /\ call'.id = id /\ call'.senders = 0 /\ call'.k = 0 /\ call'.kept = {}
        /\ Len(call'.legs) = 0
    BY <1>1 DEF Idle
  <1>5. CallTyped'
    BY <1>2, <1>3, <1>4 DEF CallTyped, chain
  <1> QED BY <1>2, <1>5, SameChain DEF Typed
(* A call that reads the chain keeps its type.                             *)
LEMMA ReadLegsTyped == ASSUME Typed, Form, ReadLegs PROVE Typed'
  <1>1. call.k = 0 /\ call.senders = 0 /\ call.kept \subseteq DOMAIN call.found
    <2>1. call.op \in Affirmations \cup Executions
      BY CallFields DEF Form, Adding, ReadLegs, Typed, Operations, Affirmations, Executions
    <2>2. call.k = 0
      BY <2>1 DEF Form, OnLegs, Looking, ReadLegs
    <2> QED BY <2>2, CallFields DEF Typed, CallTyped
  <1>2. PICK legs \in Seq(Leg), stage \in Stages :
          call' = [call EXCEPT !.at = stage, !.legs = legs]
    <2> DEFINE legs == IF OnChain(call.id) THEN Subject.legs ELSE <<>>
    <2>1. legs \in Seq(Leg)
      <3>1. CASE OnChain(call.id)
        <4>1. call.id \in DOMAIN instructions
          BY CallFields DEF Form, Adding, ReadLegs, Typed
        <4> QED BY <3>1, <4>1, InstructionTyped DEF Subject, Typed
      <3>2. CASE ~OnChain(call.id)
        BY <3>2
      <3> QED BY <3>1, <3>2
    <2>2. call' = [call EXCEPT !.at = IF legs = <<>> THEN "details" ELSE "custody", !.legs = legs]
      BY DEF ReadLegs
    <2>3. (IF legs = <<>> THEN "details" ELSE "custody") \in Stages
      BY DEF Stages
    <2> HIDE DEF legs
    <2> QED BY <2>1, <2>2, <2>3
  <1>3. call' \in Call
    BY <1>2 DEF Typed, CallTyped, Call
  <1>4. /\ call'.id = call.id /\ call'.senders = call.senders /\ call'.k = call.k
        /\ call'.legs = legs /\ call'.kept = call.kept /\ call'.found = call.found
    BY <1>2 DEF Typed, CallTyped, Call
  <1>5. Len(legs) \in Nat
    OBVIOUS
  <1>6. UNCHANGED chain
    BY DEF ReadLegs
  <1>7. CallTyped'
    BY <1>1, <1>3, <1>4, <1>5, <1>6 DEF Typed, CallTyped, chain
  <1> QED BY <1>6, <1>7, SameChain DEF Typed

LEMMA ItemsOfBoth ==
  ASSUME NEW s \in Seq(Portfolios), NEW t \in Seq(Portfolios)
  PROVE  Items(s \o t) = Items(s) \cup Items(t)
  <1>1. /\ \A n \in DOMAIN s : n \in DOMAIN (s \o t) /\ (s \o t)[n] = s[n]
        /\ \A n \in DOMAIN t : Len(s) + n \in DOMAIN (s \o t) /\ (s \o t)[Len(s) + n] = t[n]
    OBVIOUS
  <1>2. ASSUME NEW n \in DOMAIN (s \o t)
        PROVE  (s \o t)[n] \in Items(s) \cup Items(t)
    <2>1. CASE n <= Len(s)
      BY <2>1 DEF Items
    <2>2. CASE n > Len(s)
      <3>1. n - Len(s) \in DOMAIN t /\ (s \o t)[n] = t[n - Len(s)]
        BY <2>2
      <3> QED BY <3>1 DEF Items
    <2> QED BY <2>1, <2>2
  <1>3. \A x \in Items(s \o t) : x \in Items(s) \cup Items(t)
    BY <1>2 DEF Items
  <1>4. \A x \in Items(s) : x \in Items(s \o t)
    BY <1>1 DEF Items
  <1>5. \A x \in Items(t) : x \in Items(s \o t)
    BY <1>1 DEF Items
  <1> QED BY <1>3, <1>4, <1>5

LEMMA FoundTyped ==
  ASSUME NEW leg \in Leg
  PROVE  /\ Found(leg) \in Seq(Portfolios)
         /\ Items(Found(leg)) = {p \in Sides(leg) : Mine(p)}
         /\ Counted(leg) \in {0, 1}
  <1>1. /\ leg.from \in Portfolios /\ leg.to \in Portfolios
    BY DEF Leg
  <1>2. ASSUME NEW p \in Portfolios
        PROVE  IfMine(p) \in Seq(Portfolios) /\ Items(IfMine(p)) = {q \in {p} : Mine(q)}
    <2>1. CASE Mine(p)
      BY <2>1 DEF IfMine, Items
    <2>2. CASE ~Mine(p)
      BY <2>2 DEF IfMine, Items
    <2> QED BY <2>1, <2>2
  <1>3. \A s, t \in Seq(Portfolios) : Items(s \o t) = Items(s) \cup Items(t)
    BY ItemsOfBoth
  <1>4. Items(Found(leg)) = Items(IfMine(leg.from)) \cup Items(IfMine(leg.to))
    BY <1>1, <1>2, <1>3 DEF Found
  <1>5. Found(leg) \in Seq(Portfolios)
    BY <1>1, <1>2 DEF Found
  <1>6. Items(Found(leg)) = {p \in Sides(leg) : Mine(p)}
    BY <1>1, <1>2, <1>4 DEF Sides
  <1> QED BY <1>5, <1>6 DEF Counted
(* What one leg adds to a call.                                            *)
LegChecked(leg) ==
  /\ UNCHANGED chain /\ call' \in Call /\ OnLegs /\ call.at = "custody"
  /\ call.k + 1 \in DOMAIN call.legs /\ leg = call.legs[call.k + 1] /\ leg \in Leg /\ ~Throws(leg)
  /\ call'.at = (IF call.k + 1 = Len(call.legs) THEN "details" ELSE "custody")
  /\ call'.k = call.k + 1 /\ call'.found = call.found \o Found(leg)
  /\ call'.senders = call.senders + Counted(leg)
  /\ \A f \in {"by", "op", "id", "want", "choice", "legs", "kept", "toAffirm", "stale"} :
       call'[f] = call[f]

LEMMA CheckLegGives ==
  ASSUME Typed, Form, CheckLeg
  PROVE  Refuse \/ \E leg : LegChecked(leg)
  <1> DEFINE leg == call.legs[call.k + 1]
  <1>1. CASE Throws(leg)
    BY <1>1 DEF CheckLeg
  <1>2. CASE ~Throws(leg)
    <2>1. OnLegs /\ call.at = "custody" /\ call.k < Len(call.legs)
      BY DEF CheckLeg, At, OnLegs, Form, Looking
    <2>2. call.k + 1 \in DOMAIN call.legs /\ leg \in Leg
      BY <2>1, CallFields DEF Typed
    <2>3. /\ call' = [call EXCEPT
                !.at = IF call.k + 1 = Len(call.legs) THEN "details" ELSE "custody",
                !.k = @ + 1, !.found = @ \o Found(leg), !.senders = @ + Counted(leg)]
          /\ UNCHANGED chain
      BY <1>2 DEF CheckLeg
    <2>4. /\ (IF call.k + 1 = Len(call.legs) THEN "details" ELSE "custody") \in Stages
          /\ call.k + 1 \in Nat /\ call.found \o Found(leg) \in Seq(Portfolios)
          /\ call.senders + Counted(leg) \in Nat
      <3>1. call.k \in Nat /\ call.found \in Seq(Portfolios) /\ call.senders \in Nat
        BY CallFields DEF Typed
      <3>2. Found(leg) \in Seq(Portfolios) /\ Counted(leg) \in {0, 1}
        BY <2>2, FoundTyped
      <3> HIDE DEF leg
      <3> QED BY <3>1, <3>2 DEF Stages
    <2>5. call \in Call
      BY DEF Typed, CallTyped
    <2>6. call' \in Call
      BY <2>3, <2>4, <2>5 DEF Call
    <2>7. LegChecked(leg)
      <3> HIDE DEF leg
      <3>1. /\ call'.at = (IF call.k + 1 = Len(call.legs) THEN "details" ELSE "custody")
            /\ call'.k = call.k + 1 /\ call'.found = call.found \o Found(leg)
            /\ call'.senders = call.senders + Counted(leg)
        BY <2>3, <2>5 DEF Call
      <3>2. \A f \in {"by", "op", "id", "want", "choice", "legs", "kept", "toAffirm", "stale"} :
              call'[f] = call[f]
        BY <2>3, <2>5 DEF Call
      <3> QED BY <1>2, <2>1, <2>2, <2>3, <2>6, <3>1, <3>2 DEF LegChecked, leg
    <2> QED BY <2>7
  <1> QED BY <1>1, <1>2

LEMMA CheckLegTyped == ASSUME Typed, Form, CheckLeg PROVE Typed'
  <1>1. CASE Refuse
    BY <1>1, RefuseTyped
  <1>2. ASSUME NEW leg, LegChecked(leg) PROVE Typed'
    <2>1. call' \in Call /\ UNCHANGED chain
      BY <1>2 DEF LegChecked
    <2>2. Counted(leg) \in {0, 1} /\ Found(leg) \in Seq(Portfolios)
      BY <1>2, FoundTyped DEF LegChecked
    <2>3. /\ call.senders \in Nat /\ call.k \in Nat /\ call.found \in Seq(Portfolios)
          /\ call.legs \in Seq(Leg) /\ Len(call.legs) \in Nat
      BY CallFields DEF Typed
    <2>4. call'.senders <= call'.k /\ call'.k <= Len(call'.legs)
      <3>1. call.k + 1 <= Len(call.legs) /\ call'.legs = call.legs
        BY <1>2, <2>3 DEF LegChecked
      <3>2. call.senders + Counted(leg) <= call.k + 1
        BY <2>2, <2>3 DEF Typed, CallTyped
      <3> QED BY <1>2, <3>1, <3>2 DEF LegChecked
    <2>5. call'.kept \subseteq DOMAIN call'.found
      <3>1. DOMAIN call.found \subseteq DOMAIN (call.found \o Found(leg))
        BY <2>2, <2>3
      <3> QED BY <1>2, <3>1 DEF LegChecked, Typed, CallTyped
    <2>6. call'.id <= Len(instructions')
      BY <1>2 DEF LegChecked, Typed, CallTyped, chain
    <2> QED BY <2>1, <2>4, <2>5, <2>6, SameChain DEF Typed, CallTyped
  <1> QED BY <1>1, <1>2, CheckLegGives

LEMMA ReadAffirmationsTyped == ASSUME Typed, ReadAffirmations PROVE Typed'
  <1>1. CASE ValidPortfolios = {}
    BY <1>1, RefuseTyped DEF ReadAffirmations
  <1>2. CASE ValidPortfolios # {}
    <2>1. call' = [call EXCEPT !.at = "ready", !.kept = ValidPortfolios] /\ UNCHANGED chain
      BY <1>2 DEF ReadAffirmations
    <2>2. ValidPortfolios \subseteq DOMAIN call.found /\ DOMAIN call.found \subseteq Nat
      BY CallFields DEF ValidPortfolios, Typed
    <2>3. call \in Call /\ "ready" \in Stages
      BY DEF Typed, CallTyped, Stages
    <2>4. call' \in Call
      BY <2>1, <2>2, <2>3 DEF Call
    <2>5. /\ call'.id = call.id /\ call'.senders = call.senders /\ call'.k = call.k
          /\ call'.legs = call.legs /\ call'.kept = ValidPortfolios /\ call'.found = call.found
      BY <2>1, <2>3 DEF Call
    <2>6. CallTyped'
      BY <2>1, <2>2, <2>4, <2>5 DEF Typed, CallTyped, chain
    <2> QED BY <2>1, <2>6, SameChain DEF Typed
  <1> QED BY <1>1, <1>2

ToAffirm == [n \in DOMAIN call.want |->
               {p \in Involved(call.want[n].legs) : custodian[p] = call.by}]

LEMMA WantTyped ==
  ASSUME CallTyped, NEW n \in DOMAIN call.want
  PROVE  /\ call.want[n] \in Input /\ call.want[n].legs \in Seq(Leg) /\ call.want[n].type \in Types
         /\ call.want[n].end \in Nat
         /\ Involved(call.want[n].legs) \subseteq Portfolios
  <1>1. call.want[n] \in Input
    BY CallFields
  <1>2. call.want[n].legs \in Seq(Leg) /\ call.want[n].type \in Types /\ call.want[n].end \in Nat
    BY <1>1 DEF Input
  <1> QED BY <1>1, <1>2, InvolvedTyped

LEMMA ReadCustodyTyped ==
  ASSUME Typed, ReadCustody
  PROVE  /\ Typed'
         /\ ~Refuse => call' = [call EXCEPT !.at = "details", !.toAffirm = ToAffirm]
  <1>1. CASE Refuse
    BY <1>1, RefuseTyped
  <1>2. CASE ~Refuse
    <2>1. call' = [call EXCEPT !.at = "details", !.toAffirm = ToAffirm] /\ UNCHANGED chain
      BY <1>2 DEF ReadCustody, ToAffirm
    <2>2. ToAffirm \in Seq(SUBSET Portfolios)
      <3>1. \A n \in DOMAIN call.want :
              {p \in Involved(call.want[n].legs) : custodian[p] = call.by} \in SUBSET Portfolios
        BY WantTyped DEF Typed
      <3>2. Len(call.want) \in Nat /\ DOMAIN call.want = 1 .. Len(call.want)
        BY CallFields DEF Typed
      <3> QED BY <3>1, <3>2 DEF ToAffirm
    <2>3. call \in Call /\ "details" \in Stages
      BY DEF Typed, CallTyped, Stages
    <2>4. call' \in Call
      BY <2>1, <2>2, <2>3 DEF Call
    <2>5. /\ call'.id = call.id /\ call'.senders = call.senders /\ call'.k = call.k
          /\ call'.legs = call.legs /\ call'.kept = call.kept /\ call'.found = call.found
      BY <2>1, <2>3 DEF Call
    <2>6. CallTyped'
      BY <2>1, <2>4, <2>5 DEF Typed, CallTyped, chain
    <2> QED BY <2>1, <2>6, SameChain DEF Typed
  <1> QED BY <1>1, <1>2
(* The chain, whoever moves it.                                            *)
LEMMA NewTyped ==
  ASSUME NEW w \in Input, NEW P \in SUBSET Portfolios
  PROVE  New(w, P) \in Instruction
  <1>1. w.legs \in Seq(Leg) /\ w.type \in Types /\ w.end \in Nat
    BY DEF Input
  <1>2. (w.type = "affirmation" /\ P = Involved(w.legs)) \in BOOLEAN
    OBVIOUS
  <1> QED BY <1>1, <1>2 DEF New, Instruction

LEMMA AddTyped == ASSUME Typed, Form, DispatchAdd PROVE ChainTyped' /\ Keeps
  <1>1. /\ call.op = "add" /\ call.at = "ready" /\ instructions' = instructions \o Requested
        /\ UNCHANGED <<block, custodian, existing, changes>>
    BY DEF DispatchAdd, Dispatch, At
  <1>2. call.want \in Seq(Input) /\ call.toAffirm \in Seq(SUBSET Portfolios)
        /\ DOMAIN call.toAffirm = DOMAIN call.want /\ Len(call.want) \in Nat
    BY <1>1, CallFields DEF Form, Adding, Typed
  <1>3. Requested \in Seq(Instruction)
    <2>1. ASSUME NEW place \in DOMAIN call.want PROVE Requested[place] \in Instruction
      <3>1. PICK n \in DOMAIN call.want : Requested[place] = New(call.want[n], call.toAffirm[n])
        BY <1>2, BatchIsComplete DEF Requested
      <3>2. call.want[n] \in Input /\ call.toAffirm[n] \in SUBSET Portfolios
        BY <1>2
      <3> QED BY <3>1, <3>2, NewTyped
    <2>2. Requested = [place \in DOMAIN call.want |-> Requested[place]]
      BY DEF Requested, Transactions
    <2>3. DOMAIN call.want = 1 .. Len(call.want)
      BY <1>2
    <2> HIDE DEF Requested
    <2>4. Requested = [place \in 1 .. Len(call.want) |-> Requested[place]]
      BY <2>2, <2>3
    <2>5. Requested \in [1 .. Len(call.want) -> Instruction]
      BY <2>1, <2>3, <2>4
    <2> QED BY <1>2, <2>5, SeqDef
  <1>4. instructions \in Seq(Instruction) /\ block \in Nat
    BY DEF Typed, ChainTyped
  <1> HIDE DEF Requested
  <1>5. /\ instructions' \in Seq(Instruction) /\ Len(instructions) <= Len(instructions')
        /\ \A id \in DOMAIN instructions :
             id \in DOMAIN instructions' /\ instructions'[id] = instructions[id]
    BY <1>1, <1>3, <1>4
  <1>6. ChainTyped'
    BY <1>1, <1>5 DEF Typed, ChainTyped
  <1>7. Keeps
    <2>1. \A id \in DOMAIN instructions : instructions[id] \in Instruction
      BY <1>4
    <2> QED BY <1>1, <1>4, <1>5, <2>1 DEF Keeps, SameTerms
  <1> QED BY <1>6, <1>7

LEMMA SettleTyped ==
  ASSUME ChainTyped, NEW id \in DOMAIN instructions, Settle(id)
  PROVE  ChainTyped' /\ Keeps
  <1>1. PICK result \in {"executed", "failed"} :
          Replace(id, [instructions[id] EXCEPT !.status = result, !.due = FALSE])
    BY DEF Settle
  <1> QED BY <1>1, SettledTerms, ReplaceTyped

LEMMA RescheduledTyped ==
  ASSUME ChainTyped, NEW id \in DOMAIN instructions, Rescheduled(id)
  PROVE  ChainTyped' /\ Keeps
  BY SettledTerms, ReplaceTyped DEF Rescheduled

(* The transactions of the call.                                           *)
Dispatches == DispatchAdd \/ DispatchModify \/ DispatchExecute \/ DispatchReschedule

LEMMA NamedInvolved ==
  ASSUME Typed, Form, DispatchModify
  PROVE  Named \subseteq Involved(Subject.legs) /\ call.id \in DOMAIN instructions
  <1>1. call.op \in Affirmations /\ call.at = "ready" /\ Accepted
    BY DEF DispatchModify, Dispatch, At
  <1>2. AcceptsModify(call.by, call.op, Subject, Named, call.senders)
    BY <1>1 DEF Accepted, Affirmations, Executions
  <1> QED BY <1>1, <1>2 DEF AcceptsModify, Form, Affirmations

LEMMA DispatchTyped == ASSUME Typed, Form, Dispatches PROVE ChainTyped' /\ Keeps /\ call' = Idle
  <1>1. CASE DispatchAdd
    BY <1>1, AddTyped DEF DispatchAdd, Dispatch
  <1>2. CASE DispatchModify
    BY <1>2, NamedInvolved, ModifiedTerms, ReplaceTyped DEF DispatchModify, Dispatch, Subject, Typed
  <1>3. CASE DispatchExecute
    <2>1. call.id \in DOMAIN instructions
      BY <1>3 DEF DispatchExecute, Dispatch, At, Form, Executions
    <2> QED BY <1>3, <2>1, SettleTyped DEF DispatchExecute, Dispatch, Typed
  <1>4. CASE DispatchReschedule
    <2>1. call.id \in DOMAIN instructions
      BY <1>4 DEF DispatchReschedule, Dispatch, At, Form
    <2> QED BY <1>4, <2>1, RescheduledTyped DEF DispatchReschedule, Dispatch, Typed
  <1> QED BY <1>1, <1>2, <1>3, <1>4 DEF Dispatches

(* Everyone else, and time.                                                *)
Others ==
  \/ \E id \in DOMAIN instructions :
       \/ ChainSettles(id) \/ OthersReschedule(id)
       \/ \E d \in Dids : OthersExecute(d, id) \/ \E op \in Affirmations : OthersModify(d, op, id)
  \/ NewBlock
  \/ \E p \in Portfolios : DeletePortfolio(p) \/ \E d \in Dids : SetCustodian(p, d)

LEMMA OthersTyped == ASSUME ChainTyped, Others PROVE ChainTyped' /\ Keeps /\ Aging
  <1>1. ASSUME NEW id \in DOMAIN instructions, ChainSettles(id) PROVE ChainTyped' /\ Keeps /\ Aging
    <2>1. CASE Settle(id)
      BY <1>1, <2>1, SettleTyped DEF ChainSettles
    <2>2. CASE Replace(id, [instructions[id] EXCEPT !.status = "failed", !.due = FALSE])
      BY <1>1, <2>2, SettledTerms, ReplaceTyped DEF ChainSettles
    <2> QED BY <1>1, <2>1, <2>2 DEF ChainSettles
  <1>2. ASSUME NEW id \in DOMAIN instructions, OthersReschedule(id)
        PROVE  ChainTyped' /\ Keeps /\ Aging
    BY <1>2, RescheduledTyped DEF OthersReschedule
  <1>3. ASSUME NEW id \in DOMAIN instructions, NEW d \in Dids, OthersExecute(d, id)
        PROVE  ChainTyped' /\ Keeps /\ Aging
    BY <1>3, SettleTyped DEF OthersExecute
  <1>4. ASSUME NEW id \in DOMAIN instructions, NEW d \in Dids, NEW op \in Affirmations,
               OthersModify(d, op, id)
        PROVE  ChainTyped' /\ Keeps /\ Aging
    BY <1>4, ModifiedTerms, ReplaceTyped DEF OthersModify
  <1>5. ASSUME NewBlock PROVE ChainTyped' /\ Keeps /\ Aging
    <2>1. block \in 1 .. MaxBlock /\ block < MaxBlock /\ block' = block + 1
      BY <1>5 DEF NewBlock, ChainTyped
    <2>2. block' \in 1 .. MaxBlock /\ block <= block' /\ block' \in Nat
      BY <2>1, BoundsAssumption
    <2> QED BY <1>5, <2>2, SameKeeps DEF NewBlock, ChainTyped
  <1>6. ASSUME NEW p \in Portfolios, DeletePortfolio(p) PROVE ChainTyped' /\ Keeps /\ Aging
    <2>1. changes' \in 0 .. MaxChanges /\ block \in Nat /\ block <= block
      BY <1>6, BoundsAssumption DEF DeletePortfolio, ChainTyped
    <2> QED BY <1>6, <2>1, SameKeeps DEF DeletePortfolio, ChainTyped
  <1>7. ASSUME NEW p \in Portfolios, NEW d \in Dids, SetCustodian(p, d)
        PROVE  ChainTyped' /\ Keeps /\ Aging
    <2>1. changes' \in 0 .. MaxChanges /\ block \in Nat /\ block <= block
      BY <1>7, BoundsAssumption DEF SetCustodian, ChainTyped
    <2>2. custodian' \in [Portfolios -> Dids]
          /\ \A q \in Portfolios \ existing : custodian'[q] = custodian[q]
      BY <1>7 DEF SetCustodian, ChainTyped
    <2> QED BY <1>7, <2>1, <2>2, SameKeeps DEF SetCustodian, ChainTyped
  <1> QED BY <1>1, <1>2, <1>3, <1>4, <1>5, <1>6, <1>7 DEF Others

LEMMA AgingTyped ==
  ASSUME Typed, ChainTyped', Keeps, Aging
  PROVE  CallTyped' /\ call'.at = call.at
  <1>1. CASE call.at = "idle"
    <2>1. call' = call /\ Len(instructions) <= Len(instructions') /\ call.id <= Len(instructions)
      BY <1>1 DEF Aging, Keeps, Typed, CallTyped
    <2>2. Len(instructions) \in Nat /\ Len(instructions') \in Nat /\ call.id \in Nat
      BY CallFields DEF Typed, ChainTyped
    <2> QED BY <2>1, <2>2 DEF Typed, CallTyped
  <1>2. CASE call.at # "idle"
    <2>1. PICK b \in BOOLEAN : call' = [call EXCEPT !.stale = b]
      BY <1>2, CallFields DEF Aging, Typed
    <2>2. call \in Call
      BY DEF Typed, CallTyped
    <2>3. /\ call' \in Call /\ call'.id = call.id /\ call'.senders = call.senders
          /\ call'.k = call.k /\ call'.legs = call.legs /\ call'.kept = call.kept
          /\ call'.found = call.found /\ call'.at = call.at
      BY <2>1, <2>2 DEF Call
    <2>4. Len(instructions) \in Nat /\ Len(instructions') \in Nat /\ call.id \in Nat
      BY CallFields DEF Typed, ChainTyped
    <2>5. call'.id <= Len(instructions')
      BY <2>3, <2>4 DEF Keeps, Typed, CallTyped
    <2> QED BY <2>3, <2>5 DEF Typed, CallTyped
  <1> QED BY <1>1, <1>2
(* The calls, and the steps of a call before it is sent.                   *)
Starts ==
  \/ AddInstructions
  \/ \E id \in DOMAIN instructions, d \in Dids :
       \/ Reschedule(d, id)
       \/ \E op \in Operations : Modify(d, op, id) \/ ExecuteManually(d, op, id)

LEMMA NextCases ==
  Next => Starts \/ Prepare \/ Revert \/ Dispatches \/ Others
  BY DEF Next, Starts, Dispatches, Others

LEMMA StartsTyped == ASSUME Typed, Starts PROVE Typed' /\ UNCHANGED chain
  <1>1. Len(instructions) \in Nat /\ DOMAIN instructions = 1 .. Len(instructions)
    BY DEF Typed, ChainTyped
  <1>2. CASE AddInstructions
    <2>1. Start(VenueOwner, "add", 0, "custody") /\ 0 \in 0 .. Len(instructions)
      BY <1>1, <1>2 DEF AddInstructions
    <2>2. VenueOwner \in Dids /\ "add" \in Operations /\ "custody" \in Stages
      BY PartiesAssumption DEF Operations, Stages
    <2>3. Typed'
      BY <2>1, <2>2, StartTyped
    <2> QED BY <2>1, <2>3 DEF Start
  <1>3. ASSUME NEW id \in DOMAIN instructions, NEW d \in Dids, Reschedule(d, id)
        PROVE  Typed' /\ UNCHANGED chain
    <2>1. Start(d, "reschedule", id, "details") /\ id \in 0 .. Len(instructions)
      BY <1>1, <1>3 DEF Reschedule
    <2>2. "reschedule" \in Operations /\ "details" \in Stages
      BY DEF Operations, Stages
    <2>3. Typed'
      BY <2>1, <2>2, StartTyped
    <2> QED BY <2>1, <2>3 DEF Start
  <1>4. ASSUME NEW id \in DOMAIN instructions, NEW d \in Dids, NEW op \in Operations,
               Modify(d, op, id) \/ ExecuteManually(d, op, id)
        PROVE  Typed' /\ UNCHANGED chain
    <2>1. Start(d, op, id, "open") /\ id \in 0 .. Len(instructions) /\ "open" \in Stages
      BY <1>1, <1>4 DEF Modify, ExecuteManually, Stages
    <2>2. Typed'
      BY <2>1, StartTyped
    <2> QED BY <2>1, <2>2 DEF Start
  <1> QED BY <1>2, <1>3, <1>4 DEF Starts

LEMMA PrepareTyped == ASSUME Typed, Form, Prepare PROVE Typed' /\ UNCHANGED chain
  <1>1. UNCHANGED chain
    <2>1. \A test, stage : Check(test, stage) => UNCHANGED chain
      BY DEF Check, Goto, Refuse
    <2> QED BY <2>1 DEF Prepare, OpenLegs, ReadLegs, CheckLeg, CheckModifiable, ReadAffirmations,
                        CheckExecutable, CheckAffirmed, CheckFailed, ReadCustody, CheckRequest, Refuse
  <1>2. CASE OpenLegs \/ CheckModifiable \/ CheckExecutable \/ CheckAffirmed \/ CheckFailed \/ CheckRequest
    <2>1. {"legs", "affirmations", "ready"} \subseteq Stages
      BY DEF Stages
    <2>2. \E test, stage : Check(test, stage) /\ stage \in {"legs", "affirmations", "ready"}
      BY <1>2 DEF OpenLegs, CheckModifiable, CheckExecutable, CheckAffirmed, CheckFailed, CheckRequest
    <2> QED BY <1>1, <2>1, <2>2, CheckTyped
  <1>3. CASE ReadLegs
    BY <1>1, <1>3, ReadLegsTyped
  <1>4. CASE CheckLeg
    BY <1>1, <1>4, CheckLegTyped
  <1>5. CASE ReadAffirmations
    BY <1>1, <1>5, ReadAffirmationsTyped
  <1>6. CASE ReadCustody
    BY <1>1, <1>6, ReadCustodyTyped
  <1> QED BY <1>2, <1>3, <1>4, <1>5, <1>6 DEF Prepare

LEMMA StepTyped == ASSUME Typed, Form, [Next]_vars PROVE Typed'
  <1>1. CASE Starts
    BY <1>1, StartsTyped
  <1>2. CASE Prepare
    BY <1>2, PrepareTyped
  <1>3. CASE Revert
    BY <1>3, RefuseTyped DEF Revert
  <1>4. CASE Dispatches
    BY <1>4, DispatchTyped, IdleCall DEF Typed
  <1>5. CASE Others
    BY <1>5, OthersTyped, AgingTyped DEF Typed
  <1>6. CASE UNCHANGED vars
    BY <1>6 DEF vars, chain, Typed, ChainTyped, CallTyped
  <1> QED BY <1>1, <1>2, <1>3, <1>4, <1>5, <1>6, NextCases

-----------------------------------------------------------------------------
(* Every step keeps the form of the call *)

LEMMA IdleForm == ASSUME call' = Idle PROVE Form' /\ Known'
  BY IdleTyped DEF Form, Known

LEMMA StartGives ==
  ASSUME NEW d, NEW op, NEW id, NEW stage, Start(d, op, id, stage)
  PROVE  /\ call'.at = stage /\ call'.op = op /\ call'.id = id /\ call'.by = d
         /\ call'.k = 0 /\ call'.found = <<>> /\ call'.senders = 0 /\ call'.stale = FALSE
         /\ op = "add" => call'.choice = {}
         /\ UNCHANGED chain /\ call.at = "idle"
  <1>1. PICK choice \in Selections, want \in (IF op = "add" THEN Requests ELSE {<<>>}) :
          /\ choice # {} => op \in Affirmations
          /\ call' = [Idle EXCEPT !.at = stage, !.by = d, !.op = op, !.id = id,
                               !.choice = choice, !.want = want]
    BY DEF Start
  <1>2. op = "add" => choice = {}
    BY <1>1 DEF Affirmations
  <1> QED BY <1>1, <1>2 DEF Idle, Start

LEMMA StartsForm == ASSUME Typed, Starts PROVE Form'
  <1>1. CASE AddInstructions
    <2>1. call'.at = "custody" /\ call'.op = "add" /\ call'.choice = {}
      <3>1. Start(VenueOwner, "add", 0, "custody")
        BY <1>1 DEF AddInstructions
      <3>2. \A d, op, id, stage :
              Start(d, op, id, stage) =>
                call'.at = stage /\ call'.op = op /\ (op = "add" => call'.choice = {})
        BY StartGives
      <3> QED BY <3>1, <3>2
    <2> QED BY <2>1 DEF Form, Adding, OnLegs, Affirmations, Executions
  <1>2. ASSUME NEW id \in DOMAIN instructions, NEW d \in Dids, Reschedule(d, id) PROVE Form'
    <2>1. call'.at = "details" /\ call'.op = "reschedule" /\ call'.id = id /\ UNCHANGED chain
      BY <1>2, StartGives DEF Reschedule
    <2> QED BY <2>1 DEF Form, OnLegs, Affirmations, Executions, chain
  <1>3. ASSUME NEW id \in DOMAIN instructions, NEW d \in Dids, NEW op \in Operations,
               Modify(d, op, id) \/ ExecuteManually(d, op, id)
        PROVE  Form'
    <2>1. /\ call'.at = "open" /\ call'.op = op /\ op \in Affirmations \cup Executions /\ call'.id = id
          /\ call'.k = 0 /\ call'.found = <<>> /\ UNCHANGED chain
      BY <1>3, StartGives DEF Modify, ExecuteManually
    <2>2. Looking' /\ Due'
      BY <2>1 DEF Looking, Due
    <2> QED BY <2>1, <2>2 DEF Form, OnLegs, Affirmations, Executions, chain
  <1> QED BY <1>1, <1>2, <1>3 DEF Starts

(* A check that is passed: the call goes on, everything else stays.        *)
Passed(stage) ==
  /\ UNCHANGED chain /\ call'.at = stage
  /\ \A f \in {"by", "op", "id", "want", "choice", "legs", "k", "found", "kept", "senders",
               "toAffirm", "stale"} : call'[f] = call[f]

LEMMA CheckGives ==
  ASSUME Typed, NEW test, NEW stage, Check(test, stage)
  PROVE  (test /\ Passed(stage)) \/ call' = Idle
  <1>1. CASE test
    <2>1. call' = [call EXCEPT !.at = stage] /\ UNCHANGED chain /\ call \in Call
      BY <1>1 DEF Check, Goto, Typed, CallTyped
    <2>2. Passed(stage)
      BY <2>1 DEF Passed, Call
    <2> QED BY <1>1, <2>2
  <1>2. CASE ~test
    BY <1>2 DEF Check, Refuse
  <1> QED BY <1>1, <1>2
LEMMA PassedForm ==
  ASSUME Typed, Form, NEW stage, Passed(stage), call.at # "idle",
         call.op = "add" => call.at # "custody" /\ stage = "ready",
         call.op = "reschedule" => stage = "ready",
         OnLegs => \/ call.at = "open" /\ stage = "legs"
                   \/ call.at \in {"details", "affirmations"} /\ stage \in {"affirmations", "ready"},
         stage = "affirmations" => call.op # "skip",
         call.op \in Executions /\ stage \in {"affirmations", "ready"} =>
           Subject.type = "manual" /\ block > Subject.end
  PROVE  Form'
  <1>1. /\ call'.at = stage /\ call'.op = call.op /\ call'.id = call.id /\ call'.k = call.k
        /\ call'.found = call.found /\ call'.legs = call.legs /\ call'.choice = call.choice
        /\ call'.toAffirm = call.toAffirm /\ call'.want = call.want
        /\ instructions' = instructions /\ block' = block
    BY DEF Passed, chain
  <1>2. call.op = "add" => Adding'
    BY <1>1 DEF Form, Adding
  <1>3. call.op # "add" => call'.id \in DOMAIN instructions'
    BY <1>1 DEF Form
  <1>4. OnLegs => Looking'
    BY <1>1 DEF Form, Looking
  <1>5. call.op \in Executions => Due'
    BY <1>1 DEF Due, Subject
  <1> QED BY <1>1, <1>2, <1>3, <1>4, <1>5 DEF Form, OnLegs

LEMMA Kinds ==
  /\ "add" \notin Affirmations \cup Executions /\ "reschedule" \notin Affirmations \cup Executions
  /\ Affirmations \cap Executions = {} /\ "skip" \notin Affirmations
  /\ Operations = {"add", "reschedule"} \cup Affirmations \cup Executions
  BY DEF Affirmations, Executions, Operations

LEMMA ChecksForm ==
  ASSUME Typed, Form,
         OpenLegs \/ CheckModifiable \/ CheckExecutable \/ CheckAffirmed \/ CheckFailed \/ CheckRequest
  PROVE  Form'
  <1>1. CASE OpenLegs
    <2>1. call.at = "open" /\ (Passed("legs") \/ call' = Idle)
      BY <1>1, CheckGives DEF OpenLegs
    <2>2. call.op # "add" /\ call.op # "reschedule"
      BY <2>1 DEF Form, Adding
    <2>3. CASE Passed("legs")
      BY <2>1, <2>2, <2>3, PassedForm
    <2> QED BY <2>1, <2>3, IdleForm
  <1>2. CASE CheckModifiable
    <2>1. call.at = "details" /\ call.op \in Affirmations /\ (Passed("affirmations") \/ call' = Idle)
      BY <1>2, CheckGives DEF CheckModifiable, At
    <2>2. CASE Passed("affirmations")
      BY <2>1, <2>2, PassedForm, Kinds
    <2> QED BY <2>1, <2>2, IdleForm
  <1>3. CASE CheckExecutable
    <2> DEFINE stage == IF call.op = "skip" THEN "ready" ELSE "affirmations"
    <2>1. /\ call.at = "details" /\ call.op \in Executions
          /\ (Subject.type = "manual" /\ ~BeforeEnd(Subject) /\ Passed(stage)) \/ call' = Idle
      BY <1>3, CheckGives DEF CheckExecutable, At
    <2>2. CASE Subject.type = "manual" /\ ~BeforeEnd(Subject) /\ Passed(stage)
      <3>1. call.id \in DOMAIN instructions
        BY <2>1, Kinds DEF Form
      <3>2. Subject.end \in Nat /\ block \in Nat
        BY <3>1, InstructionTyped DEF Typed, ChainTyped, Subject
      <3>3. block > Subject.end
        BY <2>2, <3>2 DEF BeforeEnd
      <3>4. stage \in {"affirmations", "ready"} /\ (stage = "affirmations" => call.op # "skip")
        OBVIOUS
      <3> HIDE DEF stage
      <3> QED BY <2>1, <2>2, <3>3, <3>4, PassedForm, Kinds
    <2> QED BY <2>1, <2>2, IdleForm
  <1>4. CASE CheckAffirmed
    <2>1. call.at = "affirmations" /\ call.op \in Executions /\ (Passed("ready") \/ call' = Idle)
      BY <1>4, CheckGives DEF CheckAffirmed, At
    <2>2. CASE Passed("ready")
      <3>1. Subject.type = "manual" /\ block > Subject.end
        BY <2>1 DEF Form, Due
      <3> QED BY <2>1, <2>2, <3>1, PassedForm, Kinds
    <2> QED BY <2>1, <2>2, IdleForm
  <1>5. CASE CheckFailed
    <2>1. call.at = "details" /\ call.op = "reschedule" /\ (Passed("ready") \/ call' = Idle)
      BY <1>5, CheckGives DEF CheckFailed, At
    <2>2. CASE Passed("ready")
      BY <2>1, <2>2, PassedForm, Kinds DEF OnLegs
    <2> QED BY <2>1, <2>2, IdleForm
  <1>6. CASE CheckRequest
    <2>1. call.at = "details" /\ call.op = "add" /\ (Passed("ready") \/ call' = Idle)
      BY <1>6, CheckGives DEF CheckRequest, At
    <2>2. CASE Passed("ready")
      BY <2>1, <2>2, PassedForm, Kinds DEF OnLegs
    <2> QED BY <2>1, <2>2, IdleForm
  <1> QED BY <1>1, <1>2, <1>3, <1>4, <1>5, <1>6

(* The legs are read: those of the instruction, if it is still there.      *)
LEMMA ReadLegsGives ==
  ASSUME Typed, Form, ReadLegs
  PROVE  /\ OnLegs /\ call.at = "legs" /\ call.k = 0 /\ call.found = <<>> /\ UNCHANGED chain
         /\ call'.legs = (IF OnChain(call.id) THEN Subject.legs ELSE <<>>)
         /\ call'.legs \in Seq(Leg)
         /\ call'.at = (IF call'.legs = <<>> THEN "details" ELSE "custody")
         /\ \A f \in {"by", "op", "id", "want", "choice", "k", "found", "kept", "senders",
                      "toAffirm", "stale"} : call'[f] = call[f]
  <1> DEFINE legs == IF OnChain(call.id) THEN Subject.legs ELSE <<>>
  <1>1. call.at = "legs" /\ UNCHANGED chain /\ call \in Call
        /\ call' = [call EXCEPT !.at = IF legs = <<>> THEN "details" ELSE "custody", !.legs = legs]
    BY DEF ReadLegs, Typed, CallTyped
  <1>2. call.op # "add" /\ call.op # "reschedule"
    BY <1>1 DEF Form, Adding
  <1>3. OnLegs
    BY <1>2, CallFields, Kinds DEF OnLegs, Typed
  <1>4. call.k = 0 /\ call.found = <<>>
    BY <1>1, <1>3 DEF Form, Looking
  <1>5. Typed'
    BY ReadLegsTyped
  <1> HIDE DEF legs
  <1>6. call'.legs = legs /\ call'.at = (IF legs = <<>> THEN "details" ELSE "custody")
    BY <1>1 DEF Call
  <1>7. \A f \in {"by", "op", "id", "want", "choice", "k", "found", "kept", "senders",
                  "toAffirm", "stale"} : call'[f] = call[f]
    BY <1>1 DEF Call
  <1>8. call'.legs \in Seq(Leg)
    BY <1>5 DEF Typed, CallTyped, Call
  <1> QED BY <1>1, <1>3, <1>4, <1>6, <1>7, <1>8 DEF legs

LEMMA ReadLegsForm == ASSUME Typed, Form, ReadLegs PROVE Form'
  <1>1. /\ OnLegs /\ call'.op = call.op /\ call'.id = call.id /\ call'.k = 0 /\ call'.found = <<>>
        /\ instructions' = instructions /\ call'.legs \in Seq(Leg)
        /\ call'.at = (IF call'.legs = <<>> THEN "details" ELSE "custody")
    BY ReadLegsGives DEF chain
  <1>2. call.at # "idle" /\ call.op # "add" /\ call.op # "reschedule"
    BY <1>1, ReadLegsGives, Kinds DEF OnLegs
  <1>3. Len(call'.legs) \in Nat /\ (Len(call'.legs) = 0 <=> call'.legs = <<>>)
    BY <1>1
  <1>4. Looking' /\ Due'
    BY <1>1, <1>3 DEF Looking, Due
  <1> QED BY <1>1, <1>2, <1>4 DEF Form, OnLegs

LEMMA CheckLegForm == ASSUME Typed, Form, CheckLeg PROVE Form'
  <1>1. CASE Refuse
    BY <1>1, IdleForm DEF Refuse
  <1>2. ASSUME NEW leg, LegChecked(leg) PROVE Form'
    <2>1. /\ OnLegs /\ call.at = "custody" /\ call'.op = call.op /\ call'.id = call.id
          /\ call'.k = call.k + 1 /\ call'.legs = call.legs /\ instructions' = instructions
          /\ call'.at = (IF call.k + 1 = Len(call.legs) THEN "details" ELSE "custody")
      BY <1>2 DEF LegChecked, chain
    <2>2. call.k < Len(call.legs) /\ call.k \in Nat /\ Len(call.legs) \in Nat
      BY <2>1, CallFields DEF Form, Looking, Typed
    <2>3. call.op # "add" /\ call.op # "reschedule"
      BY <2>1, Kinds DEF OnLegs
    <2>4. Looking' /\ Due'
      BY <2>1, <2>2 DEF Looking, Due
    <2> QED BY <2>1, <2>3, <2>4 DEF Form, OnLegs
  <1> QED BY <1>1, <1>2, CheckLegGives

LEMMA ReadAffirmationsGives ==
  ASSUME Typed, ReadAffirmations
  PROVE  /\ call.at = "affirmations" /\ call.op \in Affirmations
         /\ \/ call' = Idle /\ ValidPortfolios = {}
            \/ /\ ValidPortfolios # {} /\ call'.kept = ValidPortfolios /\ call'.at = "ready"
               /\ UNCHANGED chain
               /\ \A f \in {"by", "op", "id", "want", "choice", "legs", "k", "found", "senders",
                            "toAffirm", "stale"} : call'[f] = call[f]
  <1>1. CASE ValidPortfolios = {}
    BY <1>1 DEF ReadAffirmations, At, Refuse
  <1>2. CASE ValidPortfolios # {}
    <2>1. /\ call' = [call EXCEPT !.at = "ready", !.kept = ValidPortfolios] /\ call \in Call
          /\ call.at = "affirmations" /\ call.op \in Affirmations /\ UNCHANGED chain
      BY <1>2 DEF ReadAffirmations, At, Typed, CallTyped
    <2> QED BY <1>2, <2>1 DEF Call
  <1> QED BY <1>1, <1>2

LEMMA ReadAffirmationsForm == ASSUME Typed, Form, ReadAffirmations PROVE Form'
  <1>1. CASE call' = Idle
    BY <1>1, IdleForm
  <1>2. CASE call' # Idle
    <2>1. /\ call.at = "affirmations" /\ call.op \in Affirmations /\ call'.at = "ready"
          /\ call'.op = call.op /\ call'.id = call.id /\ call'.k = call.k /\ call'.legs = call.legs
          /\ instructions' = instructions
      BY <1>2, ReadAffirmationsGives DEF chain
    <2>2. OnLegs /\ call.op # "add" /\ call.op # "reschedule" /\ call.op \notin Executions
      BY <2>1, Kinds DEF OnLegs
    <2>3. Looking'
      BY <2>1, <2>2 DEF Looking, Form
    <2> QED BY <2>1, <2>2, <2>3 DEF Form, OnLegs
  <1> QED BY <1>1, <1>2

LEMMA ReadCustodyGives ==
  ASSUME Typed, ReadCustody
  PROVE  /\ call.at = "custody" /\ call.op = "add"
         /\ \/ call' = Idle
            \/ /\ \A n \in DOMAIN call.want : Involved(call.want[n].legs) \subseteq existing
               /\ call'.at = "details" /\ call'.toAffirm = ToAffirm /\ UNCHANGED chain
               /\ \A f \in {"by", "op", "id", "want", "choice", "legs", "k", "found", "kept",
                            "senders", "stale"} : call'[f] = call[f]
  <1>1. CASE \A n \in DOMAIN call.want : Involved(call.want[n].legs) \subseteq existing
    <2>1. /\ call' = [call EXCEPT !.at = "details", !.toAffirm = ToAffirm] /\ call \in Call
          /\ call.at = "custody" /\ call.op = "add" /\ UNCHANGED chain
      BY <1>1 DEF ReadCustody, At, ToAffirm, Typed, CallTyped
    <2> QED BY <1>1, <2>1 DEF Call
  <1>2. CASE ~(\A n \in DOMAIN call.want : Involved(call.want[n].legs) \subseteq existing)
    BY <1>2 DEF ReadCustody, At, Refuse
  <1> QED BY <1>1, <1>2

LEMMA ReadCustodyForm == ASSUME Typed, Form, ReadCustody PROVE Form'
  <1>1. CASE call' = Idle
    BY <1>1, IdleForm
  <1>2. CASE call' # Idle
    <2>1. /\ call.at = "custody" /\ call.op = "add" /\ call'.at = "details" /\ call'.op = "add"
          /\ call'.choice = call.choice /\ call'.want = call.want /\ call'.toAffirm = ToAffirm
      BY <1>2, ReadCustodyGives
    <2>2. Adding'
      BY <2>1 DEF Form, Adding, ToAffirm
    <2> QED BY <2>1, <2>2, Kinds DEF Form, OnLegs
  <1> QED BY <1>1, <1>2

LEMMA PrepareForm == ASSUME Typed, Form, Prepare PROVE Form'
  BY ChecksForm, ReadLegsForm, CheckLegForm, ReadAffirmationsForm, ReadCustodyForm DEF Prepare
(* A call under way is left alone by the others, but for growing stale.    *)
Unmoved == \A f \in {"at", "by", "op", "id", "want", "choice", "legs", "k", "found", "kept",
                     "senders", "toAffirm"} : call'[f] = call[f]

LEMMA AgingGives ==
  ASSUME Typed, Aging
  PROVE  /\ Unmoved
         /\ call.at # "idle" /\ ~call'.stale =>
              /\ ~call.stale /\ custodian' = custodian /\ existing' = existing
              /\ View(instructions', block') = View(instructions, block)
  <1>1. CASE call.at = "idle"
    BY <1>1 DEF Aging, Unmoved
  <1>2. CASE call.at # "idle"
    <2> DEFINE b == \/ call.stale \/ custodian' # custodian \/ existing' # existing
                    \/ View(instructions', block') # View(instructions, block)
    <2>1. call' = [call EXCEPT !.stale = b] /\ call \in Call
      BY <1>2 DEF Aging, Typed, CallTyped
    <2>2. call'.stale = b /\ Unmoved
      <3> HIDE DEF b
      <3> QED BY <2>1 DEF Call, Unmoved
    <2> QED BY <1>2, <2>2
  <1> QED BY <1>1, <1>2

LEMMA OthersForm == ASSUME Typed, Form, Others PROVE Form'
  <1>1. Keeps /\ Unmoved
    BY OthersTyped, AgingGives DEF Typed
  <1>2. /\ call'.at = call.at /\ call'.op = call.op /\ call'.id = call.id /\ call'.k = call.k
        /\ call'.found = call.found /\ call'.legs = call.legs /\ call'.choice = call.choice
        /\ call'.toAffirm = call.toAffirm /\ call'.want = call.want
    BY <1>1 DEF Unmoved
  <1>3. CASE call.at = "idle"
    BY <1>2, <1>3 DEF Form
  <1>4. CASE call.at # "idle"
    <2>1. call.op = "add" => Adding'
      BY <1>2, <1>4 DEF Form, Adding
    <2>2. call.op # "add" => call'.id \in DOMAIN instructions'
      BY <1>1, <1>2, <1>4 DEF Form, Keeps
    <2>3. OnLegs => Looking'
      BY <1>2, <1>4 DEF Form, Looking
    <2>4. call.op \in Executions => Due'
      <3>1. SUFFICES ASSUME call.op \in Executions, call.at \in {"affirmations", "ready"}
                     PROVE  Subject'.type = "manual" /\ block' > Subject'.end
        BY <1>2 DEF Due
      <3>2. call.id \in DOMAIN instructions /\ Subject.type = "manual" /\ block > Subject.end
        BY <1>4, <3>1, Kinds DEF Form, Due
      <3>3. Subject'.type = Subject.type /\ Subject'.end = Subject.end /\ block <= block'
        BY <1>1, <1>2, <3>2 DEF Keeps, SameTerms, Subject
      <3>4. block \in Nat /\ block' \in Nat /\ Subject.end \in Nat
        BY <3>2, OthersTyped, InstructionTyped DEF Typed, ChainTyped, Subject
      <3> QED BY <3>2, <3>3, <3>4
    <2> QED BY <1>2, <1>4, <2>1, <2>2, <2>3, <2>4 DEF Form, OnLegs
  <1> QED BY <1>3, <1>4

LEMMA StepForm == ASSUME Typed, Form, [Next]_vars PROVE Form'
  <1>1. CASE Starts
    BY <1>1, StartsForm
  <1>2. CASE Prepare
    BY <1>2, PrepareForm
  <1>3. CASE Revert
    BY <1>3, IdleForm DEF Revert, Refuse
  <1>4. CASE Dispatches
    BY <1>4, DispatchTyped, IdleForm
  <1>5. CASE Others
    BY <1>5, OthersForm
  <1>6. CASE UNCHANGED vars
    BY <1>6 DEF vars, chain, Form, Adding, OnLegs, Looking, Due, Subject
  <1> QED BY <1>1, <1>2, <1>3, <1>4, <1>5, <1>6, NextCases

-----------------------------------------------------------------------------
(* Every step keeps what a call knows *)

(* Custody, portfolios and the subject of the call are as they were.       *)
Settled ==
  /\ custodian' = custodian /\ existing' = existing
  /\ call.op # "add" =>
       /\ Subject' = Subject /\ (OnChain(call.id))' = OnChain(call.id)
       /\ (ReachedEnd(Subject))' = ReachedEnd(Subject)

LEMMA AsBefore ==
  ASSUME Unmoved, custodian' = custodian, existing' = existing
  PROVE  /\ \A p : (Mine(p))' = Mine(p) /\ (Seen(p))' = Seen(p)
         /\ Sending' = Sending /\ Items(call'.found) = Items(call.found)
         /\ OnLegs' = OnLegs
  <1>1. /\ call'.by = call.by /\ call'.choice = call.choice /\ call'.k = call.k
        /\ call'.legs = call.legs /\ call'.found = call.found /\ call'.op = call.op
    BY DEF Unmoved
  <1> QED BY <1>1 DEF Mine, IsParam, Controls, Seen, Sending, OnLegs

LEMMA SameSubject ==
  ASSUME Typed, Form, Others, call.at # "idle", ~call'.stale
  PROVE  Settled /\ ~call.stale /\ Unmoved
         /\ (call.op = "add" => \A n \in DOMAIN call.want :
               (call.want[n].end > block) = (call.want[n].end > block'))
  <1>1. Unmoved /\ ~call.stale /\ custodian' = custodian /\ existing' = existing
        /\ View(instructions', block') = View(instructions, block)
    BY OthersTyped, AgingGives DEF Typed
  <1>2. CASE call.op = "add"
    <2>1. View(instructions, block) = {n \in DOMAIN call.want : call.want[n].end > block}
          /\ View(instructions', block') = {n \in DOMAIN call.want : call.want[n].end > block'}
      BY <1>2 DEF View
    <2> QED BY <1>1, <1>2, <2>1 DEF Settled
  <1>3. CASE call.op # "add"
    <2>1. /\ View(instructions, block) =
               <<Subject, Subject.type = "block" /\ block >= Subject.end>>
          /\ View(instructions', block') =
               <<instructions'[call.id],
                 instructions'[call.id].type = "block" /\ block' >= instructions'[call.id].end>>
      BY <1>3 DEF View, Subject
    <2>2. instructions'[call.id] = Subject
      BY <1>1, <2>1
    <2>3. (Subject.type = "block" /\ block >= Subject.end) =
            (Subject.type = "block" /\ block' >= Subject.end)
      BY <1>1, <2>1, <2>2
    <2>4. call'.id = call.id
      BY <1>1 DEF Unmoved
    <2>5. Subject' = Subject /\ (OnChain(call.id))' = OnChain(call.id)
      BY <2>2, <2>4 DEF Subject, OnChain
    <2>6. (ReachedEnd(Subject))' = ReachedEnd(Subject)
      BY <2>3, <2>5 DEF ReachedEnd
    <2> QED BY <1>1, <1>3, <2>5, <2>6 DEF Settled
  <1> QED BY <1>2, <1>3
LEMMA OthersKnown == ASSUME Typed, Form, Known, Others PROVE Known'
  <1>1. SUFFICES ASSUME call'.at # "idle", Fresh' PROVE Knowledge'
    BY DEF Known
  <1>2. /\ call'.at = call.at /\ call'.op = call.op /\ call'.id = call.id /\ call'.k = call.k
        /\ call'.found = call.found /\ call'.legs = call.legs /\ call'.choice = call.choice
        /\ call'.toAffirm = call.toAffirm /\ call'.want = call.want /\ call'.by = call.by
        /\ call'.senders = call.senders /\ call'.kept = call.kept
    BY OthersTyped, AgingGives DEF Typed, Unmoved
  <1>3. /\ Settled /\ Unmoved /\ ~call.stale /\ call.at # "idle"
        /\ call.op = "add" => \A n \in DOMAIN call.want :
             (call.want[n].end > block) = (call.want[n].end > block')
    BY <1>1, <1>2, SameSubject DEF Fresh
  <1>4. Knowledge
    BY <1>3 DEF Known, Fresh
  <1>5. /\ \A p : (Mine(p))' = Mine(p) /\ (Seen(p))' = Seen(p)
        /\ Sending' = Sending /\ Items(call'.found) = Items(call.found)
        /\ OnLegs' = OnLegs
    BY <1>3, AsBefore DEF Settled
  <1>6. custodian' = custodian /\ existing' = existing
    BY <1>3 DEF Settled
  <1>7. call.op # "add" => /\ Subject' = Subject /\ (OnChain(call.id))' = OnChain(call.id)
                           /\ (ReachedEnd(Subject))' = ReachedEnd(Subject)
    BY <1>3 DEF Settled
  <1>8. KnownNew'
    <2>1. ASSUME call.op = "add", call.at = "ready", NEW n \in DOMAIN call.want
          PROVE  (Valid(call.want[n]))' = Valid(call.want[n])
      BY <1>2, <1>3, <1>6, <2>1 DEF Valid
    <2>2. KnownNew
      BY <1>4 DEF Knowledge
    <2> QED BY <1>2, <1>6, <2>1, <2>2 DEF KnownNew, Valid
  <1>9. KnownOpen'
    BY <1>2, <1>4, <1>5, <1>7, Kinds DEF Knowledge, KnownOpen, OnLegs
  <1>10. KnownLegs'
    BY <1>2, <1>4, <1>5, <1>7, Kinds DEF Knowledge, KnownLegs, OnLegs
  <1>11. KnownMine'
    BY <1>2, <1>4, <1>5 DEF Knowledge, KnownMine
  <1>12. KnownThere'
    BY <1>2, <1>4, <1>6 DEF Knowledge, KnownThere
  <1>13. KnownModifiable'
    BY <1>2, <1>4, <1>7, Kinds DEF Knowledge, KnownModifiable
  <1>14. KnownKept'
    <2>1. ASSUME call.op # "add", NEW p PROVE (Eligible(p))' = Eligible(p)
      BY <1>2, <1>7, <2>1 DEF Eligible, AffirmationStatus
    <2>2. call.op # "add" => ValidPortfolios' = ValidPortfolios
      BY <1>2, <2>1 DEF ValidPortfolios
    <2> QED BY <1>2, <1>4, <2>2, Kinds DEF Knowledge, KnownKept
  <1>15. KnownExecutable'
    BY <1>2, <1>4 DEF Knowledge, KnownExecutable
  <1>16. KnownAffirmed'
    BY <1>2, <1>4, <1>7 DEF Knowledge, KnownAffirmed
  <1>17. KnownFailed'
    BY <1>2, <1>4, <1>7 DEF Knowledge, KnownFailed
  <1> QED BY <1>8, <1>9, <1>10, <1>11, <1>12, <1>13, <1>14, <1>15, <1>16, <1>17 DEF Knowledge

(* A call begins knowing nothing.                                          *)
LEMMA NothingFound ==
  ASSUME call'.k = 0, call'.found = <<>>, call'.senders = 0 PROVE KnownMine' /\ KnownThere'
  <1>1. Items(<<>>) = {}
    BY DEF Items
  <1>2. Sending' = {}
    BY DEF Sending
  <1>3. Cardinality({}) = 0
    BY FS_EmptySet
  <1>4. \A p : ~(Seen(p))'
    BY DEF Seen
  <1>5. KnownThere'
    BY DEF KnownThere
  <1> QED BY <1>1, <1>2, <1>3, <1>4, <1>5 DEF KnownMine

LEMMA StartsKnown == ASSUME Typed, Starts PROVE Known'
  <1>1. CASE AddInstructions
    <2>1. call'.at = "custody" /\ call'.op = "add"
      <3>1. Start(VenueOwner, "add", 0, "custody")
        BY <1>1 DEF AddInstructions
      <3>2. \A d, op, id, stage :
              Start(d, op, id, stage) => call'.at = stage /\ call'.op = op
        BY StartGives
      <3> QED BY <3>1, <3>2
    <2> QED BY <2>1, Kinds DEF Known, Knowledge, KnownNew, KnownOpen, KnownLegs, KnownMine, KnownThere,
               KnownModifiable, KnownKept, KnownExecutable, KnownAffirmed, KnownFailed, OnLegs
  <1>2. ASSUME NEW id \in DOMAIN instructions, NEW d \in Dids, Reschedule(d, id) PROVE Known'
    <2>1. call'.at = "details" /\ call'.op = "reschedule"
      BY <1>2, StartGives DEF Reschedule
    <2> QED BY <2>1, Kinds DEF Known, Knowledge, KnownNew, KnownOpen, KnownLegs, KnownMine, KnownThere,
               KnownModifiable, KnownKept, KnownExecutable, KnownAffirmed, KnownFailed, OnLegs
  <1>3. ASSUME NEW id \in DOMAIN instructions, NEW d \in Dids, NEW op \in Operations,
               Modify(d, op, id) \/ ExecuteManually(d, op, id)
        PROVE  Known'
    <2>1. /\ call'.at = "open" /\ call'.op = op /\ op \in Affirmations \cup Executions
          /\ call'.k = 0 /\ call'.found = <<>> /\ call'.senders = 0
      BY <1>3, StartGives DEF Modify, ExecuteManually
    <2>2. KnownMine' /\ KnownThere'
      BY <2>1, NothingFound
    <2> QED BY <2>1, <2>2, Kinds DEF Known, Knowledge, KnownNew, KnownOpen, KnownLegs,
               KnownModifiable, KnownKept, KnownExecutable, KnownAffirmed, KnownFailed
  <1> QED BY <1>1, <1>2, <1>3 DEF Starts
LEMMA PassedKnown ==
  ASSUME Typed, Form, Known, NEW stage, Passed(stage), call.at # "idle",
         call.op = "add" => /\ call.at = "details" /\ stage = "ready"
                            /\ \A n \in DOMAIN call.want : Valid(call.want[n]),
         OnLegs => \/ call.at = "open" /\ stage = "legs" /\ OnChain(call.id)
                   \/ call.at \in {"details", "affirmations"} /\ stage \in {"affirmations", "ready"},
         call.op \in Affirmations /\ stage # "legs" =>
           stage = "affirmations" /\ ~ReachedEnd(Subject) /\ call.found # <<>>,
         call.op \in Executions /\ stage # "legs" /\ ~call.stale =>
           (call.found = <<>> => call.by = VenueOwner),
         call.op = "execute" /\ stage = "ready" /\ ~call.stale =>
           Involved(Subject.legs) \subseteq Subject.affirmed,
         call.op = "reschedule" => Subject.status = "failed"
  PROVE  Known'
  <1>1. SUFFICES ASSUME Fresh' PROVE Knowledge'
    BY DEF Known
  <1>2. /\ call'.at = stage /\ call'.op = call.op /\ call'.id = call.id /\ call'.k = call.k
        /\ call'.found = call.found /\ call'.legs = call.legs /\ call'.choice = call.choice
        /\ call'.toAffirm = call.toAffirm /\ call'.want = call.want /\ call'.by = call.by
        /\ call'.senders = call.senders /\ call'.kept = call.kept /\ call'.stale = call.stale
        /\ instructions' = instructions /\ block' = block /\ custodian' = custodian
        /\ existing' = existing
    BY DEF Passed, chain
  <1>3. Knowledge /\ ~call.stale
    BY <1>1, <1>2 DEF Known, Fresh
  <1>4. /\ \A p : (Mine(p))' = Mine(p) /\ (Seen(p))' = Seen(p)
        /\ Sending' = Sending /\ Items(call'.found) = Items(call.found)
        /\ OnLegs' = OnLegs
    BY <1>2 DEF Mine, IsParam, Controls, Seen, Sending, OnLegs
  <1>5. /\ Subject' = Subject /\ (OnChain(call.id))' = OnChain(call.id)
        /\ (ReachedEnd(Subject))' = ReachedEnd(Subject)
    BY <1>2 DEF Subject, OnChain, ReachedEnd
  <1>6. KnownNew'
    <2>1. \A i : (Valid(i))' = Valid(i)
      BY <1>2 DEF Valid
    <2> QED BY <1>2, <1>3, <2>1 DEF Knowledge, KnownNew
  <1>7. KnownOpen' /\ KnownLegs'
    BY <1>2, <1>3, <1>4, <1>5 DEF Knowledge, KnownOpen, KnownLegs
  <1>8. KnownMine'
    BY <1>2, <1>3, <1>4 DEF Knowledge, KnownMine
  <1>9. KnownThere'
    BY <1>2, <1>3 DEF Knowledge, KnownThere
  <1>10. KnownModifiable'
    BY <1>2, <1>3, <1>5 DEF Knowledge, KnownModifiable
  <1>11. KnownKept'
    BY <1>2 DEF KnownKept
  <1>12. KnownExecutable'
    BY <1>2, <1>3 DEF KnownExecutable
  <1>13. KnownAffirmed'
    BY <1>2, <1>3, <1>5 DEF KnownAffirmed
  <1>14. KnownFailed'
    BY <1>2, <1>5 DEF KnownFailed
  <1> QED BY <1>6, <1>7, <1>8, <1>9, <1>10, <1>11, <1>12, <1>13, <1>14 DEF Knowledge

LEMMA InvolvedFinite == ASSUME NEW legs \in Seq(Leg) PROVE IsFiniteSet(Involved(legs))
  <1> DEFINE f == [n \in DOMAIN legs |-> Sides(legs[n])]
             T == {Sides(legs[n]) : n \in DOMAIN legs}
  <1>1. IsFiniteSet(DOMAIN legs)
    <2>1. DOMAIN legs = 1 .. Len(legs) /\ Len(legs) \in Int
      OBVIOUS
    <2> QED BY <2>1, FS_Interval
  <1>2. f \in Surjection(DOMAIN legs, T)
    BY Fun_IsSurj
  <1>3. IsFiniteSet(T)
    BY <1>1, <1>2, FS_Surjection
  <1>4. ASSUME NEW leg PROVE IsFiniteSet(Sides(leg))
    <2>1. Sides(leg) = {leg.from} \cup {leg.to}
      BY DEF Sides
    <2>2. IsFiniteSet({leg.from}) /\ IsFiniteSet({leg.to})
      BY FS_Singleton
    <2>3. IsFiniteSet({leg.from} \cup {leg.to})
      BY <2>2, FS_Union
    <2> QED BY <2>1, <2>3
  <1>5. \A S \in T : IsFiniteSet(S)
    BY <1>4
  <1>6. IsFiniteSet(UNION T)
    BY <1>3, <1>5, FS_UNION
  <1> QED BY <1>6 DEF Involved

LEMMA AllAffirmed ==
  ASSUME Typed, NEW id \in DOMAIN instructions, AffirmsPending(instructions[id]) = 0, OnChain(id)
  PROVE  Involved(instructions[id].legs) \subseteq instructions[id].affirmed
  <1> DEFINE S == Involved(instructions[id].legs)
             D == S \ instructions[id].affirmed
  <1>1. IsFiniteSet(S)
    BY InstructionTyped, InvolvedFinite DEF Typed
  <1>2. IsFiniteSet(D)
    BY <1>1, FS_Difference
  <1>3. Cardinality(D) = 0
    BY DEF AffirmsPending, OnChain
  <1>4. D = {}
    BY <1>2, <1>3, FS_EmptySet
  <1> QED BY <1>4

LEMMA ChecksKnown ==
  ASSUME Typed, Form, Known,
         OpenLegs \/ CheckModifiable \/ CheckExecutable \/ CheckAffirmed \/ CheckFailed \/ CheckRequest
  PROVE  Known'
  <1>1. CASE OpenLegs
    <2>1. call.at = "open" /\ ((OnChain(call.id) /\ Passed("legs")) \/ call' = Idle)
      BY <1>1, CheckGives DEF OpenLegs
    <2>2. call.op # "add" /\ call.op # "reschedule"
      BY <2>1 DEF Form, Adding
    <2>3. CASE OnChain(call.id) /\ Passed("legs")
      BY <2>1, <2>2, <2>3, PassedKnown
    <2> QED BY <2>1, <2>3, IdleForm
  <1>2. CASE CheckModifiable
    <2>1. /\ call.at = "details" /\ call.op \in Affirmations
          /\ (~ReachedEnd(Subject) /\ call.found # <<>> /\ Passed("affirmations")) \/ call' = Idle
      BY <1>2, CheckGives DEF CheckModifiable, At
    <2>2. CASE ~ReachedEnd(Subject) /\ call.found # <<>> /\ Passed("affirmations")
      BY <2>1, <2>2, PassedKnown, Kinds
    <2> QED BY <2>1, <2>2, IdleForm
  <1>3. CASE CheckExecutable
    <2> DEFINE stage == IF call.op = "skip" THEN "ready" ELSE "affirmations"
    <2>1. /\ call.at = "details" /\ call.op \in Executions
          /\ ((call.found = <<>> => call.by = VenueOwner) /\ Passed(stage)) \/ call' = Idle
      BY <1>3, CheckGives DEF CheckExecutable, At
    <2>2. CASE (call.found = <<>> => call.by = VenueOwner) /\ Passed(stage)
      <3>1. /\ stage \in {"affirmations", "ready"} /\ (call.op = "execute" => stage # "ready")
            /\ stage # "legs"
        OBVIOUS
      <3> HIDE DEF stage
      <3> QED BY <2>1, <2>2, <3>1, PassedKnown, Kinds
    <2> QED BY <2>1, <2>2, IdleForm
  <1>4. CASE CheckAffirmed
    <2>1. /\ call.at = "affirmations" /\ call.op \in Executions
          /\ (AffirmsPending(Subject) = 0 /\ Passed("ready")) \/ call' = Idle
      BY <1>4, CheckGives DEF CheckAffirmed, At
    <2>2. CASE AffirmsPending(Subject) = 0 /\ Passed("ready")
      <3>1. ~call.stale => Knowledge
        BY <2>1 DEF Known, Fresh
      <3>2. ~call.stale => (call.found = <<>> => call.by = VenueOwner)
        BY <2>1, <3>1 DEF Knowledge, KnownExecutable
      <3>3. ~call.stale => OnChain(call.id)
        BY <2>1, <3>1 DEF Knowledge, KnownOpen, OnLegs
      <3>4. call.id \in DOMAIN instructions
        BY <2>1, Kinds DEF Form
      <3>5. ~call.stale => Involved(Subject.legs) \subseteq Subject.affirmed
        BY <2>2, <3>3, <3>4, AllAffirmed DEF Subject
      <3> QED BY <2>1, <2>2, <3>2, <3>5, PassedKnown, Kinds
    <2> QED BY <2>1, <2>2, IdleForm
  <1>5. CASE CheckFailed
    <2>1. /\ call.at = "details" /\ call.op = "reschedule"
          /\ (Subject.status = "failed" /\ Passed("ready")) \/ call' = Idle
      BY <1>5, CheckGives DEF CheckFailed, At
    <2>2. CASE Subject.status = "failed" /\ Passed("ready")
      BY <2>1, <2>2, PassedKnown, Kinds DEF OnLegs
    <2> QED BY <2>1, <2>2, IdleForm
  <1>6. CASE CheckRequest
    <2>1. /\ call.at = "details" /\ call.op = "add"
          /\ ((\A n \in DOMAIN call.want : Valid(call.want[n])) /\ Passed("ready")) \/ call' = Idle
      BY <1>6, CheckGives DEF CheckRequest, At
    <2>2. CASE (\A n \in DOMAIN call.want : Valid(call.want[n])) /\ Passed("ready")
      BY <2>1, <2>2, PassedKnown, Kinds DEF OnLegs
    <2> QED BY <2>1, <2>2, IdleForm
  <1> QED BY <1>1, <1>2, <1>3, <1>4, <1>5, <1>6
LEMMA ReadLegsKnown == ASSUME Typed, Form, Known, ReadLegs PROVE Known'
  <1>1. SUFFICES ASSUME Fresh' PROVE Knowledge'
    BY DEF Known
  <1>2. /\ OnLegs /\ call.at = "legs" /\ call.k = 0 /\ call.found = <<>>
        /\ call'.legs = (IF OnChain(call.id) THEN Subject.legs ELSE <<>>)
        /\ call'.at \in {"details", "custody"} /\ call'.op = call.op /\ call'.id = call.id
        /\ call'.k = call.k /\ call'.found = call.found /\ call'.senders = call.senders
        /\ call'.stale = call.stale /\ instructions' = instructions
    BY ReadLegsGives DEF chain
  <1>3. Knowledge
    BY <1>1, <1>2 DEF Known, Fresh
  <1>4. OnChain(call.id)
    BY <1>2, <1>3 DEF Knowledge, KnownOpen
  <1>5. call.senders = 0
    BY <1>2, CallFields DEF Typed, CallTyped
  <1>6. KnownMine' /\ KnownThere'
    BY <1>2, <1>5, NothingFound
  <1>7. KnownOpen' /\ KnownLegs'
    BY <1>2, <1>4 DEF KnownOpen, KnownLegs, OnChain, Subject
  <1>8. call.op # "add" /\ call.op # "reschedule"
    BY <1>2, Kinds DEF OnLegs
  <1> QED BY <1>2, <1>6, <1>7, <1>8 DEF Knowledge, KnownNew,
             KnownModifiable, KnownKept, KnownExecutable, KnownAffirmed, KnownFailed

(* One more leg was looked at.                                             *)
LEMMA OneMore ==
  ASSUME Typed, NEW leg, LegChecked(leg)
  PROVE  /\ \A p : (Mine(p))' = Mine(p)
         /\ \A p : (Seen(p))' = (Seen(p) \/ p \in Sides(leg))
         /\ Sending' = Sending \cup (IF Counted(leg) = 1 THEN {call.k + 1} ELSE {})
  <1>1. /\ call'.k = call.k + 1 /\ call'.legs = call.legs /\ call'.by = call.by
        /\ call'.choice = call.choice /\ leg = call.legs[call.k + 1]
        /\ custodian' = custodian /\ existing' = existing
    BY DEF LegChecked, chain
  <1>2. call.k \in Nat /\ 1 .. call.k + 1 = (1 .. call.k) \cup {call.k + 1}
    BY CallFields DEF Typed
  <1>3. ASSUME NEW p PROVE (Mine(p))' = Mine(p)
    BY <1>1 DEF Mine, IsParam, Controls
  <1>4. ASSUME NEW p PROVE (Seen(p))' = (Seen(p) \/ p \in Sides(leg))
    BY <1>1, <1>2 DEF Seen
  <1>5. Counted(leg) = 1 <=> Mine(leg.from) /\ leg.from \in existing
    BY DEF Counted
  <1>6. Sending' = {n \in 1 .. call.k + 1 : Mine(call.legs[n].from) /\ call.legs[n].from \in existing}
    BY <1>1, <1>3 DEF Sending
  <1>7. Sending' = Sending \cup (IF Counted(leg) = 1 THEN {call.k + 1} ELSE {})
    BY <1>1, <1>2, <1>5, <1>6 DEF Sending
  <1> QED BY <1>3, <1>4, <1>7

LEMMA SendingFinite ==
  ASSUME Typed
  PROVE  IsFiniteSet(Sending) /\ call.k + 1 \notin Sending /\ Cardinality(Sending) \in Nat
  <1>1. call.k \in Nat
    BY CallFields DEF Typed
  <1>2. IsFiniteSet(1 .. call.k) /\ Sending \in SUBSET (1 .. call.k)
    BY <1>1, FS_Interval DEF Sending
  <1>3. IsFiniteSet(Sending)
    BY <1>2, FS_Subset
  <1> QED BY <1>1, <1>2, <1>3, FS_CardinalityType

LEMMA CheckLegKnown == ASSUME Typed, Form, Known, CheckLeg PROVE Known'
  <1>1. CASE Refuse
    BY <1>1, IdleForm DEF Refuse
  <1>2. ASSUME NEW leg, LegChecked(leg), Fresh' PROVE Knowledge'
    <2>1. /\ OnLegs /\ call.at = "custody" /\ ~Throws(leg) /\ leg \in Leg
          /\ leg = call.legs[call.k + 1] /\ call.k \in Nat
          /\ call'.at \in {"details", "custody"} /\ call'.op = call.op /\ call'.id = call.id
          /\ call'.k = call.k + 1 /\ call'.found = call.found \o Found(leg)
          /\ call'.senders = call.senders + Counted(leg) /\ call'.legs = call.legs
          /\ call'.stale = call.stale /\ instructions' = instructions /\ existing' = existing
      BY <1>2, CallFields DEF LegChecked, chain, Typed
    <2>2. Knowledge
      BY <1>2, <2>1 DEF Known, Fresh
    <2>3. KnownOpen' /\ KnownLegs'
      BY <2>1, <2>2 DEF Knowledge, KnownOpen, KnownLegs, OnChain, Subject, OnLegs
    <2>4. KnownMine'
      <3>1. /\ \A p : (Mine(p))' = Mine(p)
            /\ \A p : (Seen(p))' = (Seen(p) \/ p \in Sides(leg))
            /\ Sending' = Sending \cup (IF Counted(leg) = 1 THEN {call.k + 1} ELSE {})
        BY <1>2, OneMore
      <3>2. /\ Items(call.found) = {p \in Portfolios : Mine(p) /\ Seen(p)}
            /\ call.senders = Cardinality(Sending)
        BY <2>1, <2>2 DEF Knowledge, KnownMine
      <3>3. /\ Found(leg) \in Seq(Portfolios) /\ call.found \in Seq(Portfolios)
            /\ Items(Found(leg)) = {p \in Sides(leg) : Mine(p)} /\ Counted(leg) \in {0, 1}
        BY <2>1, FoundTyped, CallFields DEF Typed
      <3>4. Sides(leg) \subseteq Portfolios
        BY <2>1 DEF Sides, Leg
      <3>5. Items(call'.found) = Items(call.found) \cup Items(Found(leg))
        BY <2>1, <3>3, ItemsOfBoth
      <3>6. Items(call'.found) = {p \in Portfolios : (Mine(p) /\ Seen(p))'}
        BY <3>1, <3>2, <3>3, <3>4, <3>5
      <3>7. Cardinality(Sending') = Cardinality(Sending) + Counted(leg)
        <4>1. CASE Counted(leg) = 1
          <5>1. Sending' = Sending \cup {call.k + 1}
            BY <3>1, <4>1
          <5> QED BY <4>1, <5>1, SendingFinite, FS_AddElement
        <4>2. CASE Counted(leg) = 0
          <5>1. Sending' = Sending
            BY <3>1, <4>2
          <5> QED BY <4>2, <5>1, SendingFinite
        <4> QED BY <3>3, <4>1, <4>2
      <3> QED BY <2>1, <3>2, <3>6, <3>7 DEF KnownMine
    <2>5. KnownThere'
      <3>1. call.op \in Executions => Sides(leg) \subseteq existing
        BY <2>1 DEF Throws
      <3>2. 1 .. call.k + 1 = (1 .. call.k) \cup {call.k + 1}
        BY <2>1
      <3> QED BY <2>1, <2>2, <3>1, <3>2 DEF Knowledge, KnownThere
    <2>6. call.op # "add" /\ call.op # "reschedule"
      BY <2>1, Kinds DEF OnLegs
    <2> QED BY <2>1, <2>3, <2>4, <2>5, <2>6 DEF Knowledge, KnownNew,
               KnownModifiable, KnownKept, KnownExecutable, KnownAffirmed, KnownFailed
  <1> QED BY <1>1, <1>2, CheckLegGives DEF Known

LEMMA ReadAffirmationsKnown == ASSUME Typed, Form, Known, ReadAffirmations PROVE Known'
  <1>1. CASE call' = Idle
    BY <1>1, IdleForm
  <1>2. ASSUME call' # Idle, Fresh' PROVE Knowledge'
    <2>1. /\ call.at = "affirmations" /\ call.op \in Affirmations
          /\ ValidPortfolios # {} /\ call'.kept = ValidPortfolios /\ call'.at = "ready"
          /\ call'.by = call.by /\ call'.op = call.op /\ call'.id = call.id
          /\ call'.want = call.want /\ call'.choice = call.choice /\ call'.legs = call.legs
          /\ call'.k = call.k /\ call'.found = call.found /\ call'.senders = call.senders
          /\ call'.stale = call.stale /\ instructions' = instructions /\ block' = block
          /\ custodian' = custodian /\ existing' = existing
      BY <1>2, ReadAffirmationsGives DEF chain
    <2>2. Knowledge
      BY <1>2, <2>1 DEF Known, Fresh
    <2>3. OnLegs /\ call.op # "add" /\ call.op # "reschedule" /\ call.op \notin Executions
          /\ call.op # "execute"
      BY <2>1, Kinds DEF OnLegs, Executions
    <2>4. KnownOpen' /\ KnownLegs' /\ KnownModifiable'
      BY <2>1, <2>2 DEF Knowledge, KnownOpen, KnownLegs, KnownModifiable, OnChain, Subject,
                        ReachedEnd, OnLegs
    <2>5. KnownMine'
      <3>1. /\ \A p : (Mine(p))' = Mine(p) /\ (Seen(p))' = Seen(p)
            /\ Sending' = Sending /\ OnLegs' = OnLegs
        BY <2>1 DEF Mine, IsParam, Controls, Seen, Sending, OnLegs
      <3> QED BY <2>1, <2>2, <3>1 DEF Knowledge, KnownMine
    <2>6. KnownKept'
      <3>1. \A p : (Eligible(p))' = Eligible(p)
        BY <2>1 DEF Eligible, AffirmationStatus, OnChain, Subject
      <3>2. ValidPortfolios' = ValidPortfolios
        BY <2>1, <3>1 DEF ValidPortfolios
      <3> QED BY <2>1, <3>2 DEF KnownKept
    <2> QED BY <2>1, <2>3, <2>4, <2>5, <2>6 DEF Knowledge, KnownNew, KnownThere,
               KnownExecutable, KnownAffirmed, KnownFailed
  <1> QED BY <1>1, <1>2 DEF Known

LEMMA ReadCustodyKnown == ASSUME Typed, Form, Known, ReadCustody PROVE Known'
  <1>1. CASE call' = Idle
    BY <1>1, IdleForm
  <1>2. ASSUME call' # Idle PROVE Known'
    <2>1. /\ \A n \in DOMAIN call.want : Involved(call.want[n].legs) \subseteq existing
          /\ call'.at = "details" /\ call'.op = "add" /\ call'.toAffirm = ToAffirm
          /\ call'.want = call.want /\ call'.by = call.by
          /\ custodian' = custodian /\ existing' = existing
      BY <1>2, ReadCustodyGives DEF chain
    <2>2. KnownNew'
      BY <2>1 DEF KnownNew, ToAffirm
    <2> QED BY <2>1, <2>2, Kinds DEF Known, Knowledge, KnownOpen, KnownLegs, KnownMine, KnownThere,
               KnownModifiable, KnownKept, KnownExecutable, KnownAffirmed, KnownFailed, OnLegs
  <1> QED BY <1>1, <1>2

LEMMA StepKnown == ASSUME Typed, Form, Known, [Next]_vars PROVE Known'
  <1>1. CASE Starts
    BY <1>1, StartsKnown
  <1>2. CASE Prepare
    BY <1>2, ChecksKnown, ReadLegsKnown, CheckLegKnown, ReadAffirmationsKnown, ReadCustodyKnown
       DEF Prepare
  <1>3. CASE Revert
    BY <1>3, IdleForm DEF Revert, Refuse
  <1>4. CASE Dispatches
    BY <1>4, DispatchTyped, IdleForm
  <1>5. CASE Others
    BY <1>5, OthersKnown
  <1>6. CASE UNCHANGED vars
    <2>1. Knowledge' = Knowledge
      BY <1>6 DEF vars, chain, Knowledge, KnownNew, KnownOpen, KnownLegs, KnownMine, KnownThere,
         KnownModifiable, KnownKept, KnownExecutable, KnownAffirmed, KnownFailed, OnLegs, OnChain,
         Subject, Mine, IsParam, Controls, Seen, Sending, ReachedEnd, ValidPortfolios, Eligible,
         AffirmationStatus, Valid
    <2> QED BY <1>6, <2>1 DEF vars, Known, Fresh
  <1> QED BY <1>1, <1>2, <1>3, <1>4, <1>5, <1>6, NextCases

LEMMA Invariance == Spec => []Inv
  <1>1. Init => Inv
    <2>1. Init => call.at = "idle"
      BY IdleTyped DEF Init
    <2> QED BY <2>1, InitTyped DEF Inv, Form, Known
  <1>2. Inv /\ [Next]_vars => Inv'
    BY StepTyped, StepForm, StepKnown DEF Inv
  <1> QED BY <1>1, <1>2, PTL DEF Spec
(* TypeOK: a call of an instruction is one of a known instruction, has     *)
(* looked at no more legs than there are and counted no more than it has   *)
(* looked at; what it sends are portfolios it found.                       *)
THEOREM TypeCorrect == Spec => []TypeOK
  <1>1. Inv => TypeOK
    BY TypedEnough DEF Inv
  <1> QED BY <1>1, Invariance, PTL

-----------------------------------------------------------------------------
(* What a call knows is enough *)

LEMMA FirstFound ==
  ASSUME Typed
  PROVE  First(DOMAIN call.found) = IF call.found = <<>> THEN {} ELSE {call.found[1]}
  <1>1. call.found \in Seq(Portfolios)
    BY CallFields DEF Typed
  <1>2. CASE call.found = <<>>
    BY <1>2 DEF First
  <1>3. CASE call.found # <<>>
    <2>1. 1 \in DOMAIN call.found /\ \A n \in DOMAIN call.found : n \in Nat /\ 1 <= n
      BY <1>1, <1>3
    <2>2. {n \in DOMAIN call.found : \A m \in DOMAIN call.found : n <= m} = {1}
      BY <2>1
    <2> QED BY <1>3, <2>2 DEF First
  <1> QED BY <1>2, <1>3

(* The portfolios that are found are the signer's, and of the instruction. *)
LEMMA FoundIsMine ==
  ASSUME Inv, call.at = "ready", OnLegs, ~call.stale, NEW n \in DOMAIN call.found
  PROVE  /\ call.found[n] \in Portfolios /\ Mine(call.found[n])
         /\ call.found[n] \in Involved(Subject.legs) /\ custodian[call.found[n]] = call.by
  <1> DEFINE p == call.found[n]
  <1>1. Knowledge /\ Typed /\ Form
    BY DEF Inv, Known, Fresh
  <1>2. p \in {q \in Portfolios : Mine(q) /\ Seen(q)}
    BY <1>1 DEF Knowledge, KnownMine, Items
  <1>3. PICK m \in 1 .. call.k : p \in Sides(call.legs[m])
    BY <1>2 DEF Seen
  <1>4. call.legs = Subject.legs /\ call.k = Len(call.legs) /\ call.legs \in Seq(Leg)
    BY <1>1, CallFields DEF Knowledge, KnownLegs, Form, Looking, Typed
  <1>5. m \in DOMAIN Subject.legs /\ p \in Sides(Subject.legs[m])
    BY <1>3, <1>4
  <1>6. p \in Involved(Subject.legs)
    BY <1>5 DEF Involved
  <1>7. custodian[p] = call.by
    BY <1>1, <1>2 DEF Mine, Controls, Typed, ChainTyped
  <1> QED BY <1>2, <1>6, <1>7

LEMMA StillOpen ==
  ASSUME Inv, call.at = "ready", call.op \in Affirmations, ~call.stale
  PROVE  Open(Subject) /\ OnChain(call.id)
  <1>1. Knowledge /\ call.id \in DOMAIN instructions
    BY Kinds DEF Inv, Known, Fresh, Form
  <1>2. OnChain(call.id) /\ ~ReachedEnd(Subject)
    BY <1>1 DEF Knowledge, KnownOpen, KnownModifiable, OnLegs
  <1>3. Subject.end \in Nat /\ block \in Nat
    BY <1>1, InstructionTyped DEF Inv, Typed, ChainTyped, Subject
  <1>4. Subject.type = "block" => block < Subject.end
    BY <1>2, <1>3 DEF ReachedEnd
  <1> QED BY <1>2, <1>4 DEF Open, OnChain, Subject

LEMMA ModifyAccepted ==
  ASSUME Inv, call.at = "ready", call.op \in Affirmations, ~call.stale, ~SenderGone
  PROVE  AcceptsModify(call.by, call.op, Subject, Named, call.senders)
  <1>1. /\ Knowledge /\ Typed /\ Form /\ OnLegs /\ call.id \in DOMAIN instructions
    BY Kinds DEF Inv, Known, Fresh, Form, OnLegs
  <1>2. call.kept = ValidPortfolios /\ call.kept # {} /\ call.kept \subseteq DOMAIN call.found
        /\ call.found # <<>>
    BY <1>1 DEF Knowledge, KnownKept, KnownModifiable, Typed, CallTyped
  <1>3. Named # {} /\ \A p \in Named : \E n \in call.kept : p = call.found[n]
    <2>1. CASE call.op = "reject"
      <3>1. call.kept = DOMAIN call.found
        BY <1>2, <2>1 DEF ValidPortfolios, Eligible
      <3>2. Named = {call.found[1]} /\ 1 \in DOMAIN call.found
        BY <1>1, <1>2, <2>1, <3>1, FirstFound, CallFields DEF Named, Typed
      <3> QED BY <3>1, <3>2
    <2>2. CASE call.op # "reject"
      BY <1>2, <2>2 DEF Named
    <2> QED BY <2>1, <2>2
  <1>4. ASSUME NEW p \in Named
        PROVE  /\ p \in Portfolios /\ Mine(p) /\ p \in Involved(Subject.legs)
               /\ custodian[p] = call.by /\ Eligible(p)
    <2>1. PICK n \in call.kept : p = call.found[n]
      BY <1>3
    <2>2. n \in DOMAIN call.found /\ Eligible(call.found[n])
      BY <1>2, <2>1 DEF ValidPortfolios
    <2> QED BY <1>1, <2>1, <2>2, FoundIsMine
  <1>5. Open(Subject) /\ OnChain(call.id)
    BY StillOpen
  <1>6. call.op = "affirm" =>
          /\ Named \cap Subject.affirmed = {} /\ Named \cap Senders(Subject.legs) \subseteq existing
          /\ Cardinality({n \in DOMAIN Subject.legs : Subject.legs[n].from \in Named}) <= call.senders
    <2>1. SUFFICES ASSUME call.op = "affirm"
                   PROVE  /\ Named \cap Subject.affirmed = {}
                          /\ Named \cap Senders(Subject.legs) \subseteq existing
                          /\ Cardinality({n \in DOMAIN Subject.legs : Subject.legs[n].from \in Named})
                               <= call.senders
      OBVIOUS
    <2>2. Named \cap Subject.affirmed = {}
      BY <1>4, <1>5, <2>1 DEF Eligible, AffirmationStatus
    <2>3. Named \cap Senders(Subject.legs) \subseteq existing
      BY <2>1 DEF SenderGone
    <2>4. call.legs = Subject.legs /\ call.k = Len(call.legs) /\ call.legs \in Seq(Leg)
          /\ call.senders = Cardinality(Sending)
      BY <1>1, CallFields DEF Knowledge, KnownLegs, KnownMine, Form, Looking, Typed
    <2> DEFINE S == {n \in DOMAIN Subject.legs : Subject.legs[n].from \in Named}
    <2>5. S \in SUBSET Sending
      <3>1. ASSUME NEW n \in DOMAIN Subject.legs, Subject.legs[n].from \in Named
            PROVE  n \in Sending
        <4>1. Subject.legs[n].from \in Senders(Subject.legs)
          BY DEF Senders
        <4>2. Subject.legs[n].from \in existing /\ Mine(Subject.legs[n].from)
          BY <1>4, <2>3, <3>1, <4>1
        <4> QED BY <2>4, <4>2 DEF Sending
      <3> QED BY <3>1
    <2>6. Cardinality(S) <= Cardinality(Sending)
      BY <1>1, <2>5, SendingFinite, FS_Subset
    <2> QED BY <2>2, <2>3, <2>4, <2>6
  <1>7. call.op = "withdraw" => Named \subseteq Subject.affirmed
    BY <1>4, <1>5 DEF Eligible, AffirmationStatus
  <1> QED BY <1>3, <1>4, <1>5, <1>6, <1>7 DEF AcceptsModify

LEMMA ExecuteAccepted ==
  ASSUME Inv, call.at = "ready", call.op = "execute", ~call.stale
  PROVE  AcceptsExecute(call.by, Subject, First(DOMAIN call.found))
  <1>1. /\ Knowledge /\ Typed /\ Form /\ OnLegs /\ call.op \in Executions
        /\ call.id \in DOMAIN instructions
    BY Kinds DEF Inv, Known, Fresh, Form, OnLegs, Executions
  <1>2. Subject.status \in {"pending", "failed"}
    BY <1>1 DEF Knowledge, KnownOpen, OnChain, Subject
  <1>3. Subject.type = "manual" /\ block > Subject.end
    BY <1>1 DEF Form, Due
  <1>4. Involved(Subject.legs) \subseteq Subject.affirmed
    BY <1>1 DEF Knowledge, KnownAffirmed
  <1>5. CASE call.found = <<>>
    <2>1. First(DOMAIN call.found) = {} /\ call.by = VenueOwner
      BY <1>1, <1>5, FirstFound DEF Knowledge, KnownExecutable
    <2> QED BY <1>2, <1>3, <1>4, <2>1 DEF AcceptsExecute
  <1>6. CASE call.found # <<>>
    <2>1. First(DOMAIN call.found) = {call.found[1]} /\ 1 \in DOMAIN call.found
      BY <1>1, <1>6, FirstFound, CallFields DEF Typed
    <2>2. custodian[call.found[1]] = call.by
      BY <1>1, <2>1, FoundIsMine
    <2> QED BY <1>2, <1>3, <1>4, <2>1, <2>2 DEF AcceptsExecute
  <1> QED BY <1>5, <1>6

LEMMA BatchOf ==
  ASSUME Typed, Form, call.op = "add", call.at = "ready"
  PROVE  /\ DOMAIN Requested = DOMAIN call.want
         /\ \A place \in DOMAIN call.want : \E n \in DOMAIN call.want :
              Requested[place] = New(call.want[n], call.toAffirm[n])
         /\ \A n \in DOMAIN call.want : \E place \in DOMAIN call.want :
              Requested[place] = New(call.want[n], call.toAffirm[n])
  <1>1. call.want \in Seq(Input) /\ DOMAIN call.toAffirm = DOMAIN call.want
    BY CallFields DEF Typed, Form, Adding
  <1> QED BY <1>1, BatchIsComplete DEF Requested

LEMMA AddAccepted ==
  ASSUME Inv, call.at = "ready", call.op = "add", ~call.stale, NEW place \in DOMAIN Requested
  PROVE  AcceptsNew(call.by, Requested[place])
  <1>1. Knowledge /\ Typed /\ Form
    BY DEF Inv, Known, Fresh
  <1>2. PICK n \in DOMAIN call.want : Requested[place] = New(call.want[n], call.toAffirm[n])
    BY <1>1, BatchOf
  <1>3. /\ Valid(call.want[n]) /\ Involved(call.want[n].legs) \subseteq existing
        /\ call.toAffirm[n] = {p \in Involved(call.want[n].legs) : custodian[p] = call.by}
    BY <1>1 DEF Knowledge, KnownNew
  <1>4. call.want[n].type # "affirmation" => call.want[n].end > block
    BY <1>3 DEF Valid
  <1>5. /\ Requested[place].type = call.want[n].type /\ Requested[place].end = call.want[n].end
        /\ Requested[place].affirmed = call.toAffirm[n]
    BY <1>2 DEF New
  <1> QED BY <1>3, <1>4, <1>5 DEF AcceptsNew

LEMMA Enough == Inv => RevertedOnlyIfStale
  <1> SUFFICES ASSUME Inv, call.at = "ready", ~call.stale, call.op # "skip", ~SenderGone
               PROVE  Accepted
    BY DEF RevertedOnlyIfStale, Fresh
  <1>1. call.op \in Operations
    BY CallFields DEF Inv, Typed
  <1>2. CASE call.op = "add"
    <2>1. \A place \in DOMAIN Requested : AcceptsNew(call.by, Requested[place])
      BY <1>2, AddAccepted
    <2> QED BY <1>2, <2>1, Kinds DEF Accepted
  <1>3. CASE call.op \in Affirmations
    BY <1>3, ModifyAccepted, Kinds DEF Accepted
  <1>4. CASE call.op = "execute"
    BY <1>4, ExecuteAccepted DEF Accepted, Affirmations, Executions
  <1>5. CASE call.op = "reschedule"
    <2>1. Subject.status = "failed"
      BY <1>5 DEF Inv, Known, Fresh, Knowledge, KnownFailed
    <2> QED BY <1>5, <2>1, Kinds DEF Accepted
  <1> QED BY <1>1, <1>2, <1>3, <1>4, <1>5 DEF Operations, Affirmations

(* RevertedOnlyIfStale: the checks that the procedures of an instruction   *)
(* make, on legs, custody, end and affirmations that they read one after   *)
(* the other, are all that the settlement pallet asks for, as long as none *)
(* of it changes until the transaction is dispatched.                      *)
THEOREM ChecksSuffice == Spec => []RevertedOnlyIfStale
  BY Enough, Invariance, PTL
-----------------------------------------------------------------------------
(* What is done, and who is turned away *)

(* All of the signer's portfolios are found.                               *)
LEMMA CustodiedFound ==
  ASSUME Typed, Form, Knowledge, OnLegs, call.at \in {"details", "affirmations", "ready"},
         NEW p \in Custodied, IsParam(p)
  PROVE  \E n \in DOMAIN call.found : call.found[n] = p
  <1>1. call.legs = Subject.legs /\ call.k = Len(call.legs) /\ call.legs \in Seq(Leg)
    BY CallFields DEF Knowledge, KnownLegs, Form, Looking, Typed
  <1>2. p \in Involved(Subject.legs) /\ custodian[p] = call.by
    BY DEF Custodied
  <1>3. PICK n \in DOMAIN call.legs : p \in Sides(call.legs[n])
    BY <1>1, <1>2 DEF Involved
  <1>4. p \in Portfolios /\ n \in 1 .. call.k
    BY <1>1, <1>2, <1>3, InvolvedTyped
  <1>5. Seen(p)
    BY <1>3, <1>4 DEF Seen
  <1>6. Mine(p)
    BY <1>2, <1>4 DEF Mine, Controls, Typed, ChainTyped
  <1>7. p \in Items(call.found)
    BY <1>4, <1>5, <1>6 DEF Knowledge, KnownMine
  <1> QED BY <1>7 DEF Items

LEMMA PrepareIsNotReady ==
  ASSUME Prepare PROVE call.at # "ready" /\ call.at # "idle"
  BY DEF Prepare, OpenLegs, ReadLegs, CheckLeg, CheckModifiable, ReadAffirmations,
         CheckExecutable, CheckAffirmed, CheckFailed, ReadCustody, CheckRequest, At

LEMMA StartsAtIdle == ASSUME Starts PROVE call.at = "idle"
  BY DEF Starts, AddInstructions, Reschedule, Modify, ExecuteManually, Start

LEMMA DispatchesAtReady == ASSUME Dispatches PROVE call.at = "ready" /\ Accepted
  BY DEF Dispatches, DispatchAdd, DispatchModify, DispatchExecute, DispatchReschedule, Dispatch, At

LEMMA OthersGoOn == ASSUME Typed, Others PROVE call'.at = call.at
  BY OthersTyped, AgingTyped DEF Typed

LEMMA DispatchedBy == ASSUME Typed, [Next]_vars, Dispatched PROVE Dispatches
  BY NextCases, StartsAtIdle, PrepareIsNotReady, OthersGoOn DEF Dispatched, Revert, vars

LEMMA AddedAsAsked ==
  ASSUME Inv, DispatchAdd, ~call.stale
  PROVE  Added
  <1>1. /\ call.at = "ready" /\ call.op = "add" /\ instructions' = instructions \o Requested
        /\ Typed /\ Form /\ Knowledge
    BY DEF DispatchAdd, Dispatch, At, Inv, Known, Fresh
  <1>2. /\ DOMAIN Requested = DOMAIN call.want /\ call.want \in Seq(Input)
        /\ \A n \in DOMAIN call.want : \E place \in DOMAIN call.want :
             Requested[place] = New(call.want[n], call.toAffirm[n])
    BY <1>1, BatchOf, CallFields DEF Typed
  <1>3. instructions \in Seq(Instruction) /\ instructions' \in Seq(Instruction)
    BY AddTyped DEF Inv, Typed, ChainTyped
  <1>4. Requested = [place \in 1 .. Len(call.want) |-> Requested[place]]
    BY <1>2 DEF Requested, Transactions
  <1>5. Requested \in Seq({Requested[place] : place \in 1 .. Len(call.want)})
        /\ Len(Requested) = Len(call.want) /\ Len(call.want) \in Nat
    <2> HIDE DEF Requested
    <2>1. Requested \in [1 .. Len(call.want) -> {Requested[place] : place \in 1 .. Len(call.want)}]
      BY <1>4
    <2>2. Len(call.want) \in Nat
      BY <1>2
    <2>3. Requested \in Seq({Requested[place] : place \in 1 .. Len(call.want)})
      BY <2>1, <2>2, SeqDef
    <2> QED BY <1>2, <2>2, <2>3
  <1> DEFINE new == Len(instructions) + 1 .. Len(instructions')
             R == {Requested[place] : place \in 1 .. Len(call.want)}
  <1>6. /\ Len(instructions') = Len(instructions) + Len(call.want)
        /\ \A place \in DOMAIN call.want :
             /\ Len(instructions) + place \in new
             /\ instructions'[Len(instructions) + place] = Requested[place]
    <2>1. instructions \in Seq(Instruction \cup R) /\ Requested \in Seq(Instruction \cup R)
      BY <1>3, <1>5
    <2> HIDE DEF Requested, R
    <2>2. Len(instructions') = Len(instructions) + Len(Requested)
      BY <1>1, <2>1
    <2>3. \A place \in 1 .. Len(Requested) :
            (instructions \o Requested)[Len(instructions) + place] = Requested[place]
      BY <2>1
    <2>4. DOMAIN call.want = 1 .. Len(call.want) /\ Len(instructions) \in Nat
      BY <1>2, <1>3
    <2>5. Len(instructions') = Len(instructions) + Len(call.want) /\ Len(call.want) \in Nat
      BY <1>5, <2>2
    <2>6. ASSUME NEW place \in DOMAIN call.want
          PROVE  /\ Len(instructions) + place \in new
                 /\ instructions'[Len(instructions) + place] = Requested[place]
      <3>1. place \in 1 .. Len(call.want) /\ place \in 1 .. Len(Requested)
        BY <1>5, <2>4
      <3>2. Len(instructions) + place \in new
        BY <2>4, <2>5, <3>1
      <3> QED BY <1>1, <2>3, <3>1, <3>2
    <2> QED BY <2>5, <2>6
  <1>7. Cardinality(new) = Len(call.want)
    <2>1. Len(instructions) \in Nat /\ Len(instructions') \in Nat /\ Len(call.want) \in Nat
      BY <1>3, <1>5
    <2>2. \A a, b \in Int : Cardinality(a .. b) = IF a > b THEN 0 ELSE b - a + 1
      BY FS_Interval
    <2>3. Len(instructions) + 1 \in Int /\ Len(instructions') \in Int
      BY <2>1
    <2>4. Cardinality(new) = IF Len(instructions) + 1 > Len(instructions') THEN 0
                             ELSE Len(instructions') - (Len(instructions) + 1) + 1
      BY <2>2, <2>3
    <2> QED BY <1>6, <2>1, <2>4
  <1>8. ASSUME NEW n \in DOMAIN call.want
        PROVE  \E id \in new :
                 LET i == instructions'[id]
                     w == call.want[n]
                 IN  /\ i.legs = w.legs /\ i.type = w.type /\ i.end = w.end
                     /\ i.affirmed = {p \in Involved(w.legs) : custodian[p] = call.by}
    <2>1. PICK place \in DOMAIN call.want : Requested[place] = New(call.want[n], call.toAffirm[n])
      BY <1>2
    <2>2. call.toAffirm[n] = {p \in Involved(call.want[n].legs) : custodian[p] = call.by}
      BY <1>1 DEF Knowledge, KnownNew
    <2>3. instructions'[Len(instructions) + place] = New(call.want[n], call.toAffirm[n])
      BY <1>6, <2>1
    <2>4. Len(instructions) + place \in new
      BY <1>6
    <2> DEFINE i == instructions'[Len(instructions) + place]
    <2>5. /\ i.legs = call.want[n].legs /\ i.type = call.want[n].type /\ i.end = call.want[n].end
          /\ i.affirmed = {p \in Involved(call.want[n].legs) : custodian[p] = call.by}
      <3> HIDE DEF i
      <3> QED BY <2>2, <2>3 DEF New, i
    <2> QED BY <2>4, <2>5
  <1> QED BY <1>7, <1>8 DEF Added

LEMMA ModifiedAsAsked ==
  ASSUME Inv, DispatchModify, ~call.stale, call.choice = {}
  PROVE  /\ call.op = "affirm" => Custodied \subseteq instructions'[call.id].affirmed
         /\ call.op = "withdraw" => Custodied \cap instructions'[call.id].affirmed = {}
  <1>1. /\ call.at = "ready" /\ call.op \in Affirmations /\ OnLegs /\ Typed /\ Form /\ Knowledge
        /\ Replace(call.id, Modified(call.op, Subject, Named))
    BY DEF DispatchModify, Dispatch, At, OnLegs, Inv, Known, Fresh
  <1>2. call.id \in DOMAIN instructions /\ Subject \in Instruction
    BY <1>1, NamedInvolved, InstructionTyped DEF Typed, Subject
  <1>3. instructions'[call.id] = Modified(call.op, Subject, Named)
    BY <1>1, <1>2 DEF Replace, Typed, ChainTyped
  <1>4. /\ call.op = "affirm" => instructions'[call.id].affirmed = Subject.affirmed \cup Named
        /\ call.op = "withdraw" => instructions'[call.id].affirmed = Subject.affirmed \ Named
    BY <1>2, <1>3 DEF Modified, Instruction
  <1>5. ASSUME NEW p \in Custodied, call.op # "reject", Eligible(p) PROVE p \in Named
    <2>1. PICK n \in DOMAIN call.found : call.found[n] = p
      BY <1>1, CustodiedFound DEF IsParam
    <2>2. n \in call.kept
      BY <1>1, <1>5, <2>1 DEF Knowledge, KnownKept, ValidPortfolios
    <2> QED BY <1>5, <2>1, <2>2 DEF Named
  <1>6. ASSUME NEW p \in Custodied, call.op = "affirm", p \notin Subject.affirmed PROVE Eligible(p)
    BY <1>6 DEF Eligible, AffirmationStatus
  <1>7. ASSUME NEW p \in Custodied, call.op = "withdraw", p \in Subject.affirmed PROVE Eligible(p)
    BY <1>7 DEF Eligible, AffirmationStatus
  <1> QED BY <1>4, <1>5, <1>6, <1>7

LEMMA StepAsAsked ==
  ASSUME Inv, Inv', [Next]_vars
  PROVE  /\ Dispatched /\ Fresh /\ call.op = "add" => Added
         /\ Dispatched /\ Fresh /\ call.choice = {} =>
              /\ call.op = "affirm" => Custodied \subseteq instructions'[call.id].affirmed
              /\ call.op = "withdraw" => Custodied \cap instructions'[call.id].affirmed = {}
         /\ At("ready", Executions)' => (block > Subject.end)'
  <1>1. ASSUME Dispatched, Fresh, call.op = "add" PROVE Added
    <2>1. Dispatches
      BY <1>1, DispatchedBy DEF Inv
    <2>2. DispatchAdd
      BY <1>1, <2>1, Kinds DEF Dispatches, DispatchModify, DispatchExecute, DispatchReschedule,
                               Dispatch, At
    <2> QED BY <1>1, <2>2, AddedAsAsked DEF Fresh
  <1>2. ASSUME Dispatched, Fresh, call.choice = {}, call.op \in {"affirm", "withdraw"}
        PROVE  /\ call.op = "affirm" => Custodied \subseteq instructions'[call.id].affirmed
               /\ call.op = "withdraw" => Custodied \cap instructions'[call.id].affirmed = {}
    <2>1. Dispatches
      BY <1>2, DispatchedBy DEF Inv
    <2>2. DispatchModify
      BY <1>2, <2>1 DEF Dispatches, DispatchAdd, DispatchExecute, DispatchReschedule,
                        Dispatch, At, Executions
    <2> QED BY <1>2, <2>2, ModifiedAsAsked DEF Fresh
  <1>3. At("ready", Executions)' => (block > Subject.end)'
    BY DEF Inv, Form, Due, At
  <1> QED BY <1>1, <1>2, <1>3

(* DoneAsAsked: the instructions of a batch are created with the legs and  *)
(* affirmations that were asked for each, although the batch puts them in  *)
(* another order; an affirmation without portfolios leaves out none of the *)
(* signer's; no manual execution is sent before its block.                 *)
THEOREM DoneRightly == Spec => DoneAsAsked
  <1>1. Inv /\ Inv' /\ [Next]_vars =>
          [/\ Dispatched /\ Fresh /\ call.op = "add" => Added
           /\ Dispatched /\ Fresh /\ call.choice = {} =>
                /\ call.op = "affirm" => Custodied \subseteq instructions'[call.id].affirmed
                /\ call.op = "withdraw" => Custodied \cap instructions'[call.id].affirmed = {}
           /\ At("ready", Executions)' => (block > Subject.end)']_vars
    BY StepAsAsked
  <1> QED BY <1>1, Invariance, PTL DEF Spec, DoneAsAsked
(* The two ways in which the choice of portfolios is refused are right.    *)
LEMMA ChoiceRefused ==
  ASSUME Typed, Form, Knowledge, call.op \in Affirmations, call.at = "details", OnceEach,
         NamesUninvolved \/ call.found = <<>>
  PROVE  ~Possible
  <1> SUFFICES ASSUME Possible PROVE FALSE
    OBVIOUS
  <1> DEFINE scope == IF call.choice = {} THEN Custodied ELSE call.choice
  <1>1. OnLegs /\ call.found \in Seq(Portfolios) /\ scope \subseteq Custodied /\ scope # {}
    BY CallFields DEF OnLegs, Typed, Possible
  <1>2. ASSUME NEW p \in scope PROVE \E n \in DOMAIN call.found : call.found[n] = p
    BY <1>1, CustodiedFound DEF IsParam
  <1>3. CASE call.found = <<>>
    <2>1. PICK p \in scope : TRUE
      BY <1>1
    <2>2. DOMAIN call.found = {}
      BY <1>3
    <2> QED BY <1>2, <2>1, <2>2
  <1>4. CASE NamesUninvolved
    <2> DEFINE C == call.choice
    <2>1. C # {} /\ scope = C /\ Cardinality(C) # Len(call.found)
      BY <1>4 DEF NamesUninvolved
    <2>2. ASSUME NEW n \in DOMAIN call.found PROVE call.found[n] \in C
      BY <2>1 DEF Knowledge, KnownMine, Items, Mine, IsParam, OnLegs
    <2>3. call.found \in [DOMAIN call.found -> C]
      BY <1>1, <2>2
    <2>4. \A m, n \in DOMAIN call.found : call.found[m] = call.found[n] => m = n
      BY <2>2 DEF OnceEach
    <2>5. \A p \in C : \E n \in DOMAIN call.found : call.found[n] = p
      BY <1>2, <2>1
    <2>6. call.found \in Bijection(DOMAIN call.found, C)
      BY <2>3, <2>4, <2>5, Fun_IsBij
    <2>7. DOMAIN call.found = 1 .. Len(call.found) /\ Len(call.found) \in Nat
      BY <1>1
    <2>8. IsFiniteSet(DOMAIN call.found) /\ Cardinality(DOMAIN call.found) = Len(call.found)
      BY <2>7, FS_Interval
    <2>9. Cardinality(C) = Cardinality(DOMAIN call.found)
      BY <2>6, <2>8, FS_Bijection DEF ExistsBijection
    <2> QED BY <2>1, <2>8, <2>9
  <1> QED BY <1>3, <1>4

LEMMA ClosedRefused ==
  ASSUME Typed, call.id \in DOMAIN instructions, ~OnChain(call.id) \/ ReachedEnd(Subject)
  PROVE  ~Possible
  <1>1. Subject.end \in Nat /\ block \in Nat
    BY InstructionTyped DEF Typed, ChainTyped, Subject
  <1>2. ~Open(Subject)
    BY <1>1 DEF Open, OnChain, ReachedEnd, Subject
  <1> QED BY <1>2 DEF Possible, AcceptsModify

LEMMA NothingEligible ==
  ASSUME Typed, Form, Knowledge, call.op \in Affirmations, call.at = "affirmations",
         ValidPortfolios = {}
  PROVE  ~Possible
  <1> SUFFICES ASSUME Possible PROVE FALSE
    OBVIOUS
  <1> DEFINE scope == IF call.choice = {} THEN Custodied ELSE call.choice
  <1>1. PICK p \in scope : AcceptsModify(call.by, call.op, Subject, {p}, Len(Subject.legs))
    BY DEF Possible
  <1>2. scope \subseteq Custodied
    BY DEF Possible
  <1>3. PICK n \in DOMAIN call.found : call.found[n] = p
    BY <1>1, <1>2, CustodiedFound DEF IsParam, OnLegs
  <1>4. ~Eligible(p)
    BY <1>3 DEF ValidPortfolios
  <1>5. OnChain(call.id)
    BY DEF Knowledge, KnownOpen, OnLegs
  <1>6. CASE call.op = "affirm"
    BY <1>1, <1>4, <1>5, <1>6 DEF Eligible, AffirmationStatus, AcceptsModify
  <1>7. CASE call.op = "withdraw"
    BY <1>1, <1>4, <1>5, <1>7 DEF Eligible, AffirmationStatus, AcceptsModify
  <1>8. CASE call.op = "reject"
    BY <1>4, <1>8 DEF Eligible
  <1> QED BY <1>6, <1>7, <1>8 DEF Affirmations

LEMMA RefusedRightly ==
  ASSUME Inv, [Next]_vars, TurnedAway, Fresh, call.op \in Affirmations, OnceEach
  PROVE  ~Possible
  <1>1. Typed /\ Form /\ Knowledge /\ call.at \notin {"idle", "ready"} /\ call'.at = "idle"
        /\ call.id \in DOMAIN instructions /\ OnLegs
    BY Kinds DEF Inv, Known, TurnedAway, Form, OnLegs
  <1>2. Prepare
    <2>1. ~Starts /\ ~Dispatches /\ ~Revert
      BY <1>1, StartsAtIdle, DispatchesAtReady DEF Revert
    <2>2. ~Others
      BY <1>1, OthersGoOn
    <2> QED BY <1>1, <2>1, <2>2, NextCases DEF vars
  <1>3. CASE OpenLegs
    <2>1. ~OnChain(call.id)
      BY <1>1, <1>3 DEF OpenLegs, Check, Goto, CallTyped, Typed, Call
    <2> QED BY <1>1, <2>1, ClosedRefused
  <1>4. CASE ReadLegs
    BY <1>1, <1>4, ReadLegsGives
  <1>5. CASE CheckLeg
    <2>1. ~Throws(call.legs[call.k + 1])
      BY Kinds DEF Throws
    <2>2. call' = [call EXCEPT
                !.at = IF call.k + 1 = Len(call.legs) THEN "details" ELSE "custody",
                !.k = @ + 1, !.found = @ \o Found(call.legs[call.k + 1]),
                !.senders = @ + Counted(call.legs[call.k + 1])]
      BY <1>5, <2>1 DEF CheckLeg
    <2>3. call'.at # "idle"
      BY <1>1, <2>2 DEF Typed, CallTyped, Call
    <2> QED BY <1>1, <2>3
  <1>6. CASE CheckModifiable
    <2>1. ~(OnChain(call.id) /\ ~ReachedEnd(Subject) /\ ~NamesUninvolved /\ call.found # <<>>)
          /\ call.at = "details"
      BY <1>1, <1>6 DEF CheckModifiable, At, Check, Goto, CallTyped, Typed, Call
    <2> QED BY <1>1, <2>1, ClosedRefused, ChoiceRefused
  <1>7. CASE ReadAffirmations
    <2>1. call.at = "affirmations" /\ ValidPortfolios = {}
      BY <1>1, <1>7, ReadAffirmationsGives
    <2> QED BY <1>1, <2>1, NothingEligible
  <1>8. CASE CheckExecutable \/ CheckAffirmed \/ CheckFailed \/ ReadCustody \/ CheckRequest
    BY <1>8, Kinds DEF CheckExecutable, CheckAffirmed, CheckFailed, ReadCustody, CheckRequest, At
  <1> QED BY <1>2, <1>3, <1>4, <1>5, <1>6, <1>7, <1>8 DEF Prepare

(* TurnedAwayRightly: who is turned away from an affirmation, a withdrawal *)
(* or a rejection, nothing having changed and no portfolio being named     *)
(* that is in two legs, had chosen none the chain would have taken.        *)
THEOREM RefusedOnlyRightly == Spec => TurnedAwayRightly
  <1>1. Inv /\ [Next]_vars =>
          [(TurnedAway /\ Fresh /\ call.op \in Affirmations /\ OnceEach) => ~Possible]_vars
    BY RefusedRightly
  <1> QED BY <1>1, Invariance, PTL DEF Spec, TurnedAwayRightly
===============================================================================
