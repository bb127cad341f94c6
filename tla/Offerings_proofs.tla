---------------------------- MODULE Offerings_proofs ---------------------------
(***************************************************************************)
(* Proofs about Offerings: what an investment takes from the tiers and     *)
(* costs, by induction over them; that what calculateTierStats works out   *)
(* is what the chain charges; and that what a call has learnt of an        *)
(* Offering stays true until it changes.                                   *)
(***************************************************************************)
EXTENDS Offerings, TLAPS, WellFoundedInduction

(* Induction, from the fact that the natural numbers are well-founded.     *)
LEMMA Least ==
  ASSUME NEW T \in SUBSET Nat, T # {}
  PROVE  \E m \in T : \A k \in T : m <= k
  <1>1. IsWellFoundedOn(OpToRel(<, Nat), Nat)
    BY NatLessThanWellFounded
  <1>2. PICK m \in T : \A k \in T : ~(<<k, m>> \in OpToRel(<, Nat))
    BY <1>1, WFMin
  <1>3. \A k \in T : ~(k < m)
    BY <1>2 DEF OpToRel
  <1> QED BY <1>3

LEMMA Induction ==
  ASSUME NEW T, NEW n \in Nat, 0 \in T, \A i \in 1 .. n : i - 1 \in T => i \in T
  PROVE  0 .. n \subseteq T
  <1> SUFFICES ASSUME (0 .. n) \ T # {} PROVE FALSE
    OBVIOUS
  <1>1. PICK m \in (0 .. n) \ T : \A k \in (0 .. n) \ T : m <= k
    BY Least, (0 .. n) \ T \in SUBSET Nat
  <1>2. m \in 1 .. n
    BY <1>1
  <1>3. m - 1 \in T
    BY <1>1, <1>2
  <1> QED BY <1>1, <1>2, <1>3

(* What begins with c and goes on, at each i, by the function D[i].        *)
Iteration(f, S, c, n, D) ==
  f \in [0 .. n -> S] /\ f[0] = c /\ \A i \in 1 .. n : f[i] = D[i][f[i - 1]]

LEMMA Iterates ==
  ASSUME NEW S, NEW c \in S, NEW n \in Nat, NEW D \in [1 .. n -> [S -> S]]
  PROVE  \E f : Iteration(f, S, c, n, D)
  <1> DEFINE Good(m, f) == f \in [0 .. n -> S] /\ f[0] = c /\ \A i \in 1 .. m : f[i] = D[i][f[i - 1]]
             T == {m \in 0 .. n : \E f \in [0 .. n -> S] : Good(m, f)}
  <1>1. 0 \in T
    <2> DEFINE f == [i \in 0 .. n |-> c]
    <2>1. f \in [0 .. n -> S] /\ f[0] = c /\ \A i \in 1 .. 0 : f[i] = D[i][f[i - 1]]
      OBVIOUS
    <2> HIDE DEF f
    <2> QED BY <2>1
  <1>2. \A m \in 1 .. n : m - 1 \in T => m \in T
    <2> SUFFICES ASSUME NEW m \in 1 .. n, m - 1 \in T PROVE m \in T
      OBVIOUS
    <2> PICK f \in [0 .. n -> S] : Good(m - 1, f)
      OBVIOUS
    <2> DEFINE g == [f EXCEPT ![m] = D[m][f[m - 1]]]
    <2>1. f[m - 1] \in S /\ D[m] \in [S -> S]
      OBVIOUS
    <2>2. g \in [0 .. n -> S] /\ g[m] = D[m][f[m - 1]]
      BY <2>1
    <2>3. \A i \in 0 .. n : i # m => g[i] = f[i]
      OBVIOUS
    <2>4. ASSUME NEW i \in 1 .. m PROVE g[i] = D[i][g[i - 1]]
      <3>1. g[i - 1] = f[i - 1]
        BY <2>3
      <3>2. CASE i = m
        BY <3>1, <3>2, <2>2
      <3>3. CASE i # m
        BY <3>1, <3>3, <2>3
      <3> QED BY <3>2, <3>3
    <2>5. g[0] = c
      BY <2>3
    <2> HIDE DEF g
    <2>6. Good(m, g)
      BY <2>2, <2>4, <2>5
    <2> HIDE DEF Good
    <2> QED BY <2>2, <2>6
  <1> HIDE DEF T
  <1>3. 0 .. n \subseteq T
    BY <1>1, <1>2, Induction
  <1>4. n \in T
    BY <1>3
  <1> QED BY <1>4 DEF T, Iteration

LEMMA SumsGive ==
  ASSUME NEW s \in Seq(Nat)
  PROVE  /\ Sums(s) \in [0 .. Len(s) -> Nat] /\ Sums(s)[0] = 0
         /\ \A i \in 1 .. Len(s) : Sums(s)[i] = Sums(s)[i - 1] + s[i]
  <1> DEFINE n == Len(s)
             F(f) == [i \in 0 .. n |-> IF i = 0 THEN 0 ELSE f[i - 1] + s[i]]
             D == [i \in 1 .. n |-> [x \in Nat |-> x + s[i]]]
  <1>1. n \in Nat /\ D \in [1 .. n -> [Nat -> Nat]]
    OBVIOUS
  <1>2. PICK f \in [0 .. n -> Nat] : f[0] = 0 /\ \A i \in 1 .. n : f[i] = D[i][f[i - 1]]
    <2> HIDE DEF D, n
    <2>1. 0 \in Nat
      OBVIOUS
    <2>2. \E f : Iteration(f, Nat, 0, n, D)
      BY <1>1, <2>1, Iterates
    <2> QED BY <2>2 DEF Iteration
  <1>3. ASSUME NEW i \in 1 .. n PROVE f[i] = f[i - 1] + s[i]
    <2>1. i - 1 \in 0 .. n
      BY <1>1
    <2>2. f[i - 1] \in Nat /\ i \in 1 .. Len(s)
      BY <2>1
    <2>3. D[i][f[i - 1]] = f[i - 1] + s[i]
      BY <2>2
    <2> QED BY <1>2, <2>3
  <1>4. f = F(f)
    BY <1>2, <1>3
  <1>5. Sums(s) = CHOOSE g : g = F(g)
    BY DEF Sums
  <1>6. Sums(s) = F(Sums(s))
    <2> HIDE DEF F
    <2> QED BY <1>4, <1>5
  <1> DEFINE S == Sums(s)
             T == {i \in 0 .. n : S[i] = f[i]}
  <1>7. S[0] = 0 /\ \A i \in 1 .. n : S[i] = S[i - 1] + s[i]
    <2>1. \A i \in 0 .. n : S[i] = IF i = 0 THEN 0 ELSE S[i - 1] + s[i]
      BY <1>6
    <2>2. 0 \in 0 .. n /\ \A i \in 1 .. n : i \in 0 .. n /\ i # 0
      BY <1>1
    <2> HIDE DEF S
    <2> QED BY <2>1, <2>2
  <1>8. DOMAIN S = 0 .. n /\ S = [i \in 0 .. n |-> S[i]]
    BY <1>6
  <1> HIDE DEF S
  <1>9. 0 .. n \subseteq T
    <2>1. 0 \in T
      BY <1>2, <1>7
    <2>2. \A i \in 1 .. n : i - 1 \in T => i \in T
      BY <1>3, <1>7
    <2> HIDE DEF T
    <2> QED BY <1>1, <2>1, <2>2, Induction
  <1>10. S \in [0 .. n -> Nat]
    BY <1>8, <1>9
  <1> QED BY <1>7, <1>10 DEF S
(* Sums of greater numbers are greater, and of the same the same.          *)
LEMMA SumsBelow ==
  ASSUME NEW s \in Seq(Nat), NEW t \in Seq(Nat), Len(s) = Len(t),
         \A i \in 1 .. Len(s) : s[i] <= t[i]
  PROVE  Total(s) <= Total(t)
  <1> DEFINE n == Len(s)
             T == {i \in 0 .. n : Sums(s)[i] <= Sums(t)[i]}
  <1>1. n \in Nat /\ n = Len(t)
    OBVIOUS
  <1>2. /\ Sums(s) \in [0 .. n -> Nat] /\ Sums(s)[0] = 0
        /\ \A i \in 1 .. n : Sums(s)[i] = Sums(s)[i - 1] + s[i]
    BY SumsGive
  <1>3. /\ Sums(t) \in [0 .. n -> Nat] /\ Sums(t)[0] = 0
        /\ \A i \in 1 .. n : Sums(t)[i] = Sums(t)[i - 1] + t[i]
    BY <1>1, SumsGive
  <1>4. 0 .. n \subseteq T
    <2>1. 0 \in T
      BY <1>1, <1>2, <1>3
    <2>2. ASSUME NEW i \in 1 .. n, i - 1 \in T PROVE i \in T
      <3>1. i - 1 \in 0 .. n /\ i \in 0 .. n /\ s[i] \in Nat /\ t[i] \in Nat /\ s[i] <= t[i]
        BY <1>1
      <3>2. Sums(s)[i - 1] \in Nat /\ Sums(t)[i - 1] \in Nat /\ Sums(s)[i - 1] <= Sums(t)[i - 1]
        BY <1>2, <1>3, <2>2, <3>1
      <3> QED BY <1>2, <1>3, <3>1, <3>2
    <2> HIDE DEF T
    <2> QED BY <1>1, <2>1, <2>2, Induction
  <1>5. n \in T
    BY <1>1, <1>4
  <1> QED BY <1>1, <1>5 DEF Total

LEMMA SumsGrow ==
  ASSUME NEW s \in Seq(Nat), NEW i \in 0 .. Len(s)
  PROVE  Sums(s)[i] <= Total(s)
  <1> DEFINE n == Len(s)
             T == {k \in 0 .. n : i <= k => Sums(s)[i] <= Sums(s)[k]}
  <1>1. n \in Nat /\ i \in 0 .. n
    OBVIOUS
  <1>2. /\ Sums(s) \in [0 .. n -> Nat] /\ Sums(s)[0] = 0
        /\ \A k \in 1 .. n : Sums(s)[k] = Sums(s)[k - 1] + s[k]
    BY SumsGive
  <1>3. 0 .. n \subseteq T
    <2>1. 0 \in T
      BY <1>1, <1>2
    <2>2. ASSUME NEW k \in 1 .. n, k - 1 \in T PROVE k \in T
      <3>1. k - 1 \in 0 .. n /\ k \in 0 .. n /\ s[k] \in Nat
        BY <1>1
      <3>2. Sums(s)[k - 1] \in Nat /\ Sums(s)[k] = Sums(s)[k - 1] + s[k] /\ Sums(s)[i] \in Nat
        BY <1>1, <1>2, <3>1
      <3>3. CASE i = k
        BY <3>1, <3>2, <3>3
      <3>4. CASE i # k
        BY <2>2, <3>1, <3>2, <3>4, <1>1
      <3> QED BY <3>3, <3>4
    <2> HIDE DEF T
    <2> QED BY <1>1, <2>1, <2>2, Induction
  <1>4. n \in T
    BY <1>1, <1>3
  <1> QED BY <1>1, <1>4 DEF Total

-----------------------------------------------------------------------------
(* Tiers: what is left in the first of them, and what n tokens cost there. *)

Upto(tiers, i)    == Sums(Remaining(tiers))[i]
Cost(tiers, n, i) == Sums(Paid(tiers, n))[i]

LEMMA TierTyped ==
  ASSUME NEW tiers \in Seq(Tier), NEW i \in 1 .. Len(tiers)
  PROVE  tiers[i] \in Tier /\ tiers[i].remaining \in Nat /\ tiers[i].price \in Nat
  <1>1. tiers[i] \in Tier
    OBVIOUS
  <1> QED BY <1>1 DEF Tier

LEMMA NumbersTyped ==
  ASSUME NEW tiers \in Seq(Tier)
  PROVE  /\ Remaining(tiers) \in Seq(Nat) /\ Len(Remaining(tiers)) = Len(tiers)
         /\ Values(tiers) \in Seq(Nat) /\ Len(Values(tiers)) = Len(tiers)
  <1>1. Len(tiers) \in Nat
    OBVIOUS
  <1>2. \A i \in 1 .. Len(tiers) : tiers[i].remaining \in Nat /\ tiers[i].price * tiers[i].remaining \in Nat
    BY TierTyped
  <1> QED BY <1>1, <1>2 DEF Remaining, Values

LEMMA UptoGives ==
  ASSUME NEW tiers \in Seq(Tier)
  PROVE  /\ \A i \in 0 .. Len(tiers) : Upto(tiers, i) \in Nat /\ Upto(tiers, i) <= Left(tiers)
         /\ Upto(tiers, 0) = 0 /\ Upto(tiers, Len(tiers)) = Left(tiers)
         /\ \A i \in 1 .. Len(tiers) : Upto(tiers, i) = Upto(tiers, i - 1) + tiers[i].remaining
  <1>1. Remaining(tiers) \in Seq(Nat) /\ Len(Remaining(tiers)) = Len(tiers)
    BY NumbersTyped
  <1>2. \A i \in 1 .. Len(tiers) : Remaining(tiers)[i] = tiers[i].remaining
    BY DEF Remaining
  <1>3. /\ Sums(Remaining(tiers)) \in [0 .. Len(tiers) -> Nat] /\ Sums(Remaining(tiers))[0] = 0
        /\ \A i \in 1 .. Len(tiers) :
             Sums(Remaining(tiers))[i] = Sums(Remaining(tiers))[i - 1] + Remaining(tiers)[i]
    BY <1>1, SumsGive
  <1>4. \A i \in 0 .. Len(tiers) : Sums(Remaining(tiers))[i] <= Total(Remaining(tiers))
    BY <1>1, SumsGrow
  <1> QED BY <1>1, <1>2, <1>3, <1>4 DEF Upto, Left, Total

(* What n tokens take of a tier: what they have not taken before, as far   *)
(* as there is.                                                            *)
LEMMA GoneGives ==
  ASSUME NEW tiers \in Seq(Tier), NEW n \in Nat, NEW i \in 1 .. Len(tiers)
  PROVE  /\ Gone(tiers, n, i) \in 0 .. tiers[i].remaining
         /\ Smaller(n, Upto(tiers, i)) = Smaller(n, Upto(tiers, i - 1)) + Gone(tiers, n, i)
         /\ n <= Upto(tiers, i - 1) => Gone(tiers, n, i) = 0
         /\ n > Upto(tiers, i - 1) =>
              Gone(tiers, n, i) = Smaller(n - Upto(tiers, i - 1), tiers[i].remaining)
  <1>1. i - 1 \in 0 .. Len(tiers) /\ i \in 0 .. Len(tiers)
    OBVIOUS
  <1>2. /\ Upto(tiers, i - 1) \in Nat /\ tiers[i].remaining \in Nat
        /\ Upto(tiers, i) = Upto(tiers, i - 1) + tiers[i].remaining
    BY <1>1, UptoGives, TierTyped
  <1>3. Gone(tiers, n, i) = IF n <= Upto(tiers, i - 1) THEN 0
                            ELSE Smaller(n - Upto(tiers, i - 1), tiers[i].remaining)
    BY DEF Gone, Upto
  <1> QED BY <1>2, <1>3 DEF Smaller

LEMMA CostGives ==
  ASSUME NEW tiers \in Seq(Tier), NEW n \in Nat
  PROVE  /\ Paid(tiers, n) \in Seq(Nat) /\ Len(Paid(tiers, n)) = Len(tiers)
         /\ \A i \in 0 .. Len(tiers) : Cost(tiers, n, i) \in Nat
         /\ Cost(tiers, n, 0) = 0 /\ Cost(tiers, n, Len(tiers)) = Bill(tiers, n)
         /\ Bill(tiers, n) \in Nat
         /\ \A i \in 1 .. Len(tiers) :
              Cost(tiers, n, i) = Cost(tiers, n, i - 1) + Gone(tiers, n, i) * tiers[i].price
  <1>1. Len(tiers) \in Nat
    OBVIOUS
  <1>2. \A i \in 1 .. Len(tiers) : Gone(tiers, n, i) * tiers[i].price \in Nat
    <2> TAKE i \in 1 .. Len(tiers)
    <2>1. Gone(tiers, n, i) \in 0 .. tiers[i].remaining /\ tiers[i].remaining \in Nat /\ tiers[i].price \in Nat
      BY GoneGives, TierTyped
    <2>2. Gone(tiers, n, i) \in Nat
      BY <2>1
    <2> QED BY <2>1, <2>2
  <1>3. Paid(tiers, n) \in Seq(Nat) /\ Len(Paid(tiers, n)) = Len(tiers)
    BY <1>1, <1>2 DEF Paid
  <1>4. \A i \in 1 .. Len(tiers) : Paid(tiers, n)[i] = Gone(tiers, n, i) * tiers[i].price
    BY DEF Paid
  <1>5. /\ Sums(Paid(tiers, n)) \in [0 .. Len(tiers) -> Nat] /\ Sums(Paid(tiers, n))[0] = 0
        /\ \A i \in 1 .. Len(tiers) :
             Sums(Paid(tiers, n))[i] = Sums(Paid(tiers, n))[i - 1] + Paid(tiers, n)[i]
    BY <1>3, SumsGive
  <1>6. Len(tiers) \in 0 .. Len(tiers)
    BY <1>1
  <1> QED BY <1>3, <1>4, <1>5, <1>6 DEF Cost, Bill, Total
(* All tokens cost the value that is left, fewer cost no more, none cost   *)
(* nothing.                                                                *)
LEMMA BillOfAll ==
  ASSUME NEW tiers \in Seq(Tier)
  PROVE  Left(tiers) \in Nat /\ ValueLeft(tiers) \in Nat /\ Bill(tiers, Left(tiers)) = ValueLeft(tiers)
  <1>1. Len(tiers) \in 0 .. Len(tiers)
    OBVIOUS
  <1>2. Left(tiers) \in Nat
    BY <1>1, UptoGives
  <1>3. ASSUME NEW i \in 1 .. Len(tiers)
        PROVE  Gone(tiers, Left(tiers), i) * tiers[i].price = tiers[i].price * tiers[i].remaining
    <2>1. i - 1 \in 0 .. Len(tiers) /\ i \in 0 .. Len(tiers)
      BY <1>1
    <2>2. /\ Upto(tiers, i) <= Left(tiers) /\ Upto(tiers, i - 1) \in Nat /\ Upto(tiers, i) \in Nat
          /\ Upto(tiers, i) = Upto(tiers, i - 1) + tiers[i].remaining
      BY <2>1, UptoGives
    <2>3. tiers[i].remaining \in Nat /\ tiers[i].price \in Nat
      BY TierTyped
    <2>4. Gone(tiers, Left(tiers), i) = tiers[i].remaining
      <3>1. CASE Left(tiers) <= Upto(tiers, i - 1)
        <4>1. Gone(tiers, Left(tiers), i) = 0
          BY <1>2, <3>1, GoneGives
        <4> QED BY <1>2, <2>2, <2>3, <3>1, <4>1
      <3>2. CASE Left(tiers) > Upto(tiers, i - 1)
        <4>1. Gone(tiers, Left(tiers), i) = Smaller(Left(tiers) - Upto(tiers, i - 1), tiers[i].remaining)
          BY <1>2, <3>2, GoneGives
        <4> QED BY <1>2, <2>2, <2>3, <4>1 DEF Smaller
      <3> QED BY <1>2, <2>2, <3>1, <3>2
    <2> QED BY <2>3, <2>4
  <1>4. Paid(tiers, Left(tiers)) = Values(tiers)
    BY <1>3 DEF Paid, Values
  <1>5. Bill(tiers, Left(tiers)) \in Nat
    BY <1>2, CostGives
  <1> QED BY <1>2, <1>4, <1>5 DEF Bill, ValueLeft

LEMMA BillBelow ==
  ASSUME NEW tiers \in Seq(Tier), NEW n \in Nat
  PROVE  Bill(tiers, n) \in Nat /\ Bill(tiers, n) <= ValueLeft(tiers)
  <1>1. /\ Paid(tiers, n) \in Seq(Nat) /\ Len(Paid(tiers, n)) = Len(tiers)
        /\ Values(tiers) \in Seq(Nat) /\ Len(Values(tiers)) = Len(tiers)
    BY CostGives, NumbersTyped
  <1>2. ASSUME NEW i \in 1 .. Len(tiers) PROVE Paid(tiers, n)[i] <= Values(tiers)[i]
    <2>1. Gone(tiers, n, i) \in 0 .. tiers[i].remaining /\ tiers[i].remaining \in Nat /\ tiers[i].price \in Nat
      BY GoneGives, TierTyped
    <2> DEFINE d == tiers[i].remaining - Gone(tiers, n, i)
    <2>2. d \in Nat /\ tiers[i].remaining = Gone(tiers, n, i) + d
      BY <2>1
    <2> HIDE DEF d
    <2>3. tiers[i].price * tiers[i].remaining = Gone(tiers, n, i) * tiers[i].price + tiers[i].price * d
      BY <2>1, <2>2
    <2>4. tiers[i].price * d \in Nat /\ Gone(tiers, n, i) * tiers[i].price \in Nat
      BY <2>1, <2>2
    <2>5. Gone(tiers, n, i) * tiers[i].price <= tiers[i].price * tiers[i].remaining
      BY <2>3, <2>4
    <2> QED BY <2>5 DEF Paid, Values
  <1>3. Total(Paid(tiers, n)) <= Total(Values(tiers))
    BY <1>1, <1>2, SumsBelow
  <1> QED BY <1>3, CostGives DEF Bill, ValueLeft

LEMMA BillOfNone ==
  ASSUME NEW tiers \in Seq(Tier)
  PROVE  Bill(tiers, 0) = 0
  <1> DEFINE T == {i \in 0 .. Len(tiers) : Cost(tiers, 0, i) = 0}
  <1>1. Len(tiers) \in Nat
    OBVIOUS
  <1>2. 0 .. Len(tiers) \subseteq T
    <2>1. 0 \in T
      BY <1>1, CostGives
    <2>2. ASSUME NEW i \in 1 .. Len(tiers), i - 1 \in T PROVE i \in T
      <3>1. i - 1 \in 0 .. Len(tiers) /\ i \in 0 .. Len(tiers)
        BY <1>1
      <3>2. Upto(tiers, i - 1) \in Nat /\ tiers[i].price \in Nat
        BY <3>1, UptoGives, TierTyped
      <3>3. Gone(tiers, 0, i) = 0
        BY <3>2, GoneGives
      <3>4. Cost(tiers, 0, i) = Cost(tiers, 0, i - 1) + 0 * tiers[i].price
        BY <3>3, CostGives
      <3> QED BY <2>2, <3>1, <3>2, <3>4
    <2> HIDE DEF T
    <2> QED BY <1>1, <2>1, <2>2, Induction
  <1>3. Len(tiers) \in T
    BY <1>1, <1>2
  <1> QED BY <1>3, CostGives

-----------------------------------------------------------------------------
(* calculateTierStats, tier by tier.                                       *)
Stats(n) == {x \in [left : Nat, total : Nat, price : Nat] : x.total + x.left = n}

LEMMA TakeTyped ==
  ASSUME NEW n \in Nat, NEW x \in Stats(n), NEW tier \in Tier, NEW limit \in Nat \cup {NoLimit}
  PROVE  Take(x, tier, n, limit) \in Stats(n)
  <1> DEFINE taken == Smaller(tier.remaining, x.left)
  <1>1. x.left \in Nat /\ x.total \in Nat /\ x.price \in Nat /\ x.total + x.left = n
    BY DEF Stats
  <1>2. tier.remaining \in Nat /\ tier.price \in Nat
    BY DEF Tier
  <1>3. taken \in Nat /\ x.left - taken \in Nat
    BY <1>1, <1>2 DEF Smaller
  <1>4. n - x.left + taken \in Nat /\ (n - x.left + taken) + (x.left - taken) = n
    BY <1>1, <1>3
  <1>5. x.price + taken * tier.price \in Nat
    BY <1>1, <1>2, <1>3
  <1> HIDE DEF taken
  <1>6. [left |-> x.left - taken, total |-> n - x.left + taken, price |-> x.price + taken * tier.price]
          \in Stats(n)
    BY <1>3, <1>4, <1>5 DEF Stats
  <1>7. \/ Take(x, tier, n, limit) = x
        \/ Take(x, tier, n, limit) =
             [left |-> x.left - taken, total |-> n - x.left + taken, price |-> x.price + taken * tier.price]
    BY DEF Take, taken
  <1> QED BY <1>6, <1>7

LEMMA StatsGive ==
  ASSUME NEW tiers \in Seq(Tier), NEW n \in Nat, NEW limit \in Nat \cup {NoLimit}
  PROVE  \E f \in [0 .. Len(tiers) -> Stats(n)] :
           /\ f[0] = [left |-> n, total |-> 0, price |-> 0]
           /\ \A i \in 1 .. Len(tiers) : f[i] = Take(f[i - 1], tiers[i], n, limit)
           /\ f[Len(tiers)] = TierStats(tiers, n, limit)
  <1> DEFINE N == Len(tiers)
             c == [left |-> n, total |-> 0, price |-> 0]
             F(f) == [i \in 0 .. N |-> IF i = 0 THEN c ELSE Take(f[i - 1], tiers[i], n, limit)]
             D == [i \in 1 .. N |-> [x \in Stats(n) |-> Take(x, tiers[i], n, limit)]]
  <1>1. N \in Nat /\ c \in Stats(n)
    BY DEF Stats
  <1>2. D \in [1 .. N -> [Stats(n) -> Stats(n)]]
    BY TierTyped, TakeTyped
  <1>3. PICK f \in [0 .. N -> Stats(n)] : f[0] = c /\ \A i \in 1 .. N : f[i] = D[i][f[i - 1]]
    <2> HIDE DEF D, N, c
    <2>1. \E f : Iteration(f, Stats(n), c, N, D)
      BY <1>1, <1>2, Iterates
    <2> QED BY <2>1 DEF Iteration
  <1>4. ASSUME NEW i \in 1 .. N PROVE f[i] = Take(f[i - 1], tiers[i], n, limit)
    <2>1. i - 1 \in 0 .. N
      BY <1>1
    <2>2. f[i - 1] \in Stats(n)
      BY <2>1
    <2>3. D[i][f[i - 1]] = Take(f[i - 1], tiers[i], n, limit)
      BY <2>2
    <2> QED BY <1>3, <2>3
  <1>5. f = F(f)
    BY <1>3, <1>4
  <1> DEFINE s == CHOOSE g : g = F(g)
  <1>6. s = F(s)
    <2> HIDE DEF F
    <2> QED BY <1>5
  <1>7. TierStats(tiers, n, limit) = s[N]
    BY DEF TierStats
  <1> HIDE DEF s
  <1> DEFINE T == {i \in 0 .. N : s[i] = f[i]}
  <1>8. 0 .. N \subseteq T
    <2>1. \A i \in 0 .. N : s[i] = IF i = 0 THEN c ELSE Take(s[i - 1], tiers[i], n, limit)
      BY <1>6
    <2>2. 0 \in T
      BY <1>1, <1>3, <2>1
    <2>3. ASSUME NEW i \in 1 .. N, i - 1 \in T PROVE i \in T
      <3>1. i \in 0 .. N /\ i # 0 /\ s[i - 1] = f[i - 1]
        BY <1>1, <2>3
      <3> QED BY <2>1, <3>1, <1>4
    <2> HIDE DEF T, N
    <2> QED BY <1>1, <2>2, <2>3, Induction
  <1>9. s[N] = f[N]
    BY <1>1, <1>8
  <1> QED BY <1>3, <1>4, <1>7, <1>9
LEMMA TierStatsTyped ==
  ASSUME NEW tiers \in Seq(Tier), NEW n \in Nat, NEW limit \in Nat \cup {NoLimit}
  PROVE  TierStats(tiers, n, limit) \in Stats(n)
  <1>1. PICK f \in [0 .. Len(tiers) -> Stats(n)] : f[Len(tiers)] = TierStats(tiers, n, limit)
    BY StatsGive
  <1>2. Len(tiers) \in 0 .. Len(tiers)
    OBVIOUS
  <1> QED BY <1>1, <1>2

(* Arithmetic *)
LEMMA Product == ASSUME NEW a \in Nat, NEW b \in Nat PROVE a * b \in Nat
  OBVIOUS

LEMMA More ==
  ASSUME NEW a \in Nat, NEW b \in Nat, NEW c \in Nat, NEW d \in Nat, NEW e \in Nat,
         a + (b + c) > e, b <= d
  PROVE  (a + d) + c > e
  OBVIOUS

LEMMA TimesMore ==
  ASSUME NEW a \in Nat, NEW b \in Nat, NEW c \in Nat, b <= c
  PROVE  a * b <= a * c
  <1> DEFINE d == c - b
  <1>1. d \in Nat /\ c = b + d
    OBVIOUS
  <1> HIDE DEF d
  <1>2. a * (b + d) = a * b + a * d /\ a * d \in Nat /\ a * b \in Nat
    BY <1>1
  <1>3. a * c = a * (b + d)
    BY <1>1
  <1> QED BY <1>2, <1>3

(* A tier that raises the average above the limit costs more than the      *)
(* limit, and so does all that is taken at its price.                      *)
LEMMA TooDear ==
  ASSUME NEW c \in Nat, NEW u \in Nat, NEW g \in Nat, NEW d \in Nat, NEW p \in Nat, NEW limit \in Nat,
         c <= limit * u, c + g * p > limit * (u + g)
  PROVE  c + (g + d) * p > limit * (u + g + d)
  <1>1. limit * (u + g) = limit * u + limit * g /\ limit * u \in Nat /\ limit * g \in Nat /\ g * p \in Nat
    OBVIOUS
  <1>2. g * p > limit * g
    BY <1>1
  <1>3. p > limit
    <2> SUFFICES ASSUME p <= limit PROVE FALSE
      OBVIOUS
    <2>1. g * p <= g * limit
      BY TimesMore
    <2>2. g * limit = limit * g
      OBVIOUS
    <2> QED BY <1>1, <1>2, <2>1, <2>2
  <1>4. d * limit <= d * p
    BY <1>3, TimesMore
  <1>5. (g + d) * p = g * p + d * p
    OBVIOUS
  <1>6. limit * (u + g + d) = limit * (u + g) + limit * d /\ limit * d = d * limit
    OBVIOUS
  <1>7. d * p \in Nat /\ d * limit \in Nat /\ limit * (u + g) \in Nat
    OBVIOUS
  <1> QED BY <1>1, <1>4, <1>5, <1>6, <1>7

-----------------------------------------------------------------------------
(* With the tiers in the order of their prices, what calculateTierStats    *)
(* works out after i tiers is what n tokens take of them and cost there;   *)
(* or a tier was passed over, and n tokens cost too much.                  *)
Exact(x, tiers, n, limit, i) ==
  /\ x.total = Smaller(n, Upto(tiers, i)) /\ x.price = Cost(tiers, n, i)
  /\ limit # NoLimit => x.price <= limit * x.total

Dear(tiers, n, limit, i) ==
  /\ Upto(tiers, i - 1) < n
  /\ Cost(tiers, n, i - 1) + (n - Upto(tiers, i - 1)) * tiers[i].price > limit * n

Failing(x, tiers, n, limit, i) ==
  /\ i # 0 /\ limit # NoLimit /\ x.left > 0
  /\ x.price + x.left * tiers[i].price > limit * n
  /\ \E k \in 1 .. i : Dear(tiers, n, limit, k)

LEMMA TakeExact ==
  ASSUME NEW tiers \in Seq(Tier), NEW n \in Nat, NEW limit \in Nat \cup {NoLimit},
         NEW i \in 1 .. Len(tiers), NEW x \in Stats(n), Exact(x, tiers, n, limit, i - 1)
  PROVE  LET y == Take(x, tiers[i], n, limit)
         IN  Exact(y, tiers, n, limit, i) \/ Failing(y, tiers, n, limit, i)
  <1> DEFINE u == Upto(tiers, i - 1)
             g == Gone(tiers, n, i)
             p == tiers[i].price
             c == Cost(tiers, n, i - 1)
             y == Take(x, tiers[i], n, limit)
  <1>1. i - 1 \in 0 .. Len(tiers) /\ i \in 0 .. Len(tiers)
    OBVIOUS
  <1>2. u \in Nat /\ c \in Nat /\ p \in Nat /\ tiers[i].remaining \in Nat
    BY <1>1, UptoGives, CostGives, TierTyped
  <1>3. /\ g \in 0 .. tiers[i].remaining /\ Smaller(n, Upto(tiers, i)) = Smaller(n, u) + g
        /\ n <= u => g = 0
        /\ n > u => g = Smaller(n - u, tiers[i].remaining)
    BY GoneGives
  <1>4. g \in Nat /\ g * p \in Nat
    <2>1. g \in Nat
      BY <1>2, <1>3
    <2> QED BY <1>2, <2>1
  <1>5. Cost(tiers, n, i) = c + g * p
    BY CostGives
  <1>6. x.left \in Nat /\ x.total \in Nat /\ x.price \in Nat /\ x.total + x.left = n
    BY DEF Stats
  <1>7. x.total = Smaller(n, u) /\ x.price = c /\ (limit # NoLimit => x.price <= limit * x.total)
    BY DEF Exact
  <1> HIDE DEF u, g, p, c, y
  <1>8. CASE g = 0 /\ y = x
    <2>1. g * p = 0
      BY <1>2, <1>8
    <2>2. Cost(tiers, n, i) = c /\ Smaller(n, Upto(tiers, i)) = Smaller(n, u)
      BY <1>2, <1>3, <1>5, <1>6, <1>7, <1>8, <2>1
    <2> QED BY <1>7, <1>8, <2>2 DEF Exact, y
  <1>9. CASE x.left = 0
    <2>1. n <= u
      BY <1>2, <1>6, <1>7, <1>9 DEF Smaller
    <2>2. y = x
      BY <1>9 DEF y, Take
    <2> QED BY <1>3, <1>8, <2>1, <2>2
  <1>10. CASE x.left # 0
    <2>1. u < n /\ x.total = u /\ x.left = n - u
      BY <1>2, <1>6, <1>7, <1>10 DEF Smaller
    <2>2. Smaller(tiers[i].remaining, x.left) = g /\ n - x.left + g = u + g /\ g <= x.left
      <3>1. g = Smaller(n - u, tiers[i].remaining) /\ n - u \in Nat
        BY <1>2, <1>3, <2>1
      <3>2. Smaller(tiers[i].remaining, n - u) = g /\ g <= n - u
        BY <1>2, <3>1 DEF Smaller
      <3>3. n - (n - u) + g = u + g
        BY <1>2, <1>4
      <3> QED BY <2>1, <3>2, <3>3
    <2>3. y = IF limit # NoLimit /\ (u + g = 0 \/ c + g * p > limit * (u + g)) THEN x
              ELSE [left |-> x.left - g, total |-> u + g, price |-> c + g * p]
      BY <1>7, <1>10, <2>2 DEF y, Take, p
    <2>4. CASE ~(limit # NoLimit /\ (u + g = 0 \/ c + g * p > limit * (u + g)))
      <3>1. y.total = u + g /\ y.price = c + g * p
        BY <2>3, <2>4
      <3>2. u + g = Smaller(n, Upto(tiers, i))
        BY <1>3, <1>7, <2>1
      <3>3. limit # NoLimit => c + g * p <= limit * (u + g)
        <4> SUFFICES ASSUME limit # NoLimit PROVE c + g * p <= limit * (u + g)
          OBVIOUS
        <4>1. limit \in Nat /\ u + g \in Nat
          BY <1>2, <1>4
        <4>2. limit * (u + g) \in Nat
          BY <4>1
        <4> QED BY <1>2, <1>4, <2>4, <4>2
      <3> QED BY <1>5, <3>1, <3>2, <3>3 DEF Exact, y
    <2>5. CASE limit # NoLimit /\ u + g = 0
      <3>1. g = 0
        BY <1>2, <1>4, <2>5
      <3> QED BY <1>8, <2>3, <2>5, <3>1
    <2>6. CASE limit # NoLimit /\ c + g * p > limit * (u + g)
      <3> DEFINE d == x.left - g
      <3>1. d \in Nat /\ x.left = g + d /\ n = u + g + d /\ n - u = g + d
        BY <1>2, <1>4, <1>6, <2>1, <2>2
      <3>2. limit \in Nat /\ c <= limit * u
        BY <1>7, <2>1, <2>6
      <3> HIDE DEF d
      <3>3. c + (g + d) * p > limit * (u + g + d)
        BY <1>2, <1>4, <2>6, <3>1, <3>2, TooDear
      <3>4. c + (n - u) * p > limit * n
        BY <3>1, <3>3
      <3>5. Dear(tiers, n, limit, i)
        BY <2>1, <3>4 DEF Dear, u, c, p
      <3>6. y = x /\ x.left > 0
        BY <1>6, <1>10, <2>3, <2>6
      <3>7. x.price + x.left * p > limit * n
        BY <1>7, <2>1, <3>4
      <3>8. i # 0 /\ i \in 1 .. i
        OBVIOUS
      <3> QED BY <2>6, <3>5, <3>6, <3>7, <3>8 DEF Failing, y, p
    <2> QED BY <2>4, <2>5, <2>6
  <1> QED BY <1>9, <1>10
LEMMA TakeFailing ==
  ASSUME NEW tiers \in Seq(Tier), NEW n \in Nat, NEW limit \in Nat \cup {NoLimit},
         NEW i \in 1 .. Len(tiers), NEW x \in Stats(n), Ascending(tiers),
         Failing(x, tiers, n, limit, i - 1)
  PROVE  Failing(Take(x, tiers[i], n, limit), tiers, n, limit, i)
  <1> DEFINE q == tiers[i - 1].price
             p == tiers[i].price
             t == Smaller(tiers[i].remaining, x.left)
             y == Take(x, tiers[i], n, limit)
  <1>1. i - 1 \in 1 .. Len(tiers) /\ i - 1 < i /\ DOMAIN tiers = 1 .. Len(tiers)
    BY DEF Failing
  <1>2. q \in Nat /\ p \in Nat /\ tiers[i].remaining \in Nat /\ q <= p
    BY <1>1, TierTyped DEF Ascending
  <1>3. x.left \in Nat /\ x.total \in Nat /\ x.price \in Nat /\ x.total + x.left = n
    BY DEF Stats
  <1>4. limit \in Nat /\ limit # NoLimit /\ x.left > 0 /\ x.price + x.left * q > limit * n
    BY DEF Failing
  <1>5. \E k \in 1 .. i : Dear(tiers, n, limit, k)
    BY <1>1 DEF Failing
  <1>6. t \in Nat /\ x.left - t \in Nat
    BY <1>2, <1>3 DEF Smaller
  <1> HIDE DEF q, p, t, y
  <1>7. x.price + x.left * p > limit * n
    <2>1. x.left * q <= x.left * p
      BY <1>2, <1>3, TimesMore
    <2>2. x.left * q \in Nat /\ x.left * p \in Nat /\ limit * n \in Nat
      BY <1>2, <1>3, <1>4, Product
    <2> QED BY <1>3, <1>4, <2>1, <2>2
  <1>8. CASE y = x
    BY <1>4, <1>5, <1>7, <1>8 DEF Failing, y, p
  <1>9. CASE y # x
    <2>1. /\ y = [left |-> x.left - t, total |-> n - x.left + t, price |-> x.price + t * p]
          /\ ~(x.price + t * p > limit * (n - x.left + t))
      BY <1>4, <1>9 DEF y, Take, t, p
    <2>2. y.left = x.left - t /\ y.price = x.price + t * p
      BY <2>1
    <2> DEFINE d == x.left - t
    <2>3. d \in Nat /\ x.left = t + d
      BY <1>3, <1>6
    <2> HIDE DEF d
    <2>4. x.left * p = t * p + d * p /\ t * p \in Nat /\ d * p \in Nat
      <3>1. (t + d) * p = t * p + d * p /\ t * p \in Nat /\ d * p \in Nat
        BY <1>2, <1>6, <2>3
      <3> QED BY <2>3, <3>1
    <2>5. y.left = d /\ y.price + d * p > limit * n
      BY <1>3, <1>7, <2>2, <2>3, <2>4 DEF d
    <2>6. d > 0
      <3> SUFFICES ASSUME d = 0 PROVE FALSE
        BY <2>3
      <3>1. n - x.left + t = n
        BY <1>3, <1>6, <2>3
      <3>2. x.price + t * p > limit * n
        BY <1>2, <1>3, <2>2, <2>4, <2>5
      <3> QED BY <2>1, <3>1, <3>2
    <2>7. i # 0
      OBVIOUS
    <2> QED BY <1>4, <1>5, <2>5, <2>6, <2>7 DEF Failing, y, p
  <1> QED BY <1>8, <1>9

(* What is dear from some tier on is dear in the end.                      *)
LEMMA DearCosts ==
  ASSUME NEW tiers \in Seq(Tier), NEW n \in Nat, NEW limit \in Nat, NEW k \in 1 .. Len(tiers),
         Ascending(tiers), Dear(tiers, n, limit, k), n <= Left(tiers)
  PROVE  Bill(tiers, n) > limit * n
  <1> DEFINE q == tiers[k].price
             Rest(i) == n - Smaller(n, Upto(tiers, i))
             T == {i \in 0 .. Len(tiers) : i >= k - 1 => Cost(tiers, n, i) + Rest(i) * q > limit * n}
  <1>1. Len(tiers) \in Nat /\ k - 1 \in 0 .. Len(tiers) /\ q \in Nat /\ limit * n \in Nat
    BY TierTyped
  <1>2. ASSUME NEW i \in 0 .. Len(tiers) PROVE Rest(i) \in Nat /\ Cost(tiers, n, i) \in Nat
    <2>1. Upto(tiers, i) \in Nat /\ Cost(tiers, n, i) \in Nat
      BY UptoGives, CostGives
    <2> QED BY <2>1 DEF Smaller
  <1>3. k - 1 \in T
    <2>1. Upto(tiers, k - 1) \in Nat /\ Upto(tiers, k - 1) < n
      BY <1>1, UptoGives DEF Dear
    <2>2. Rest(k - 1) = n - Upto(tiers, k - 1)
      BY <2>1 DEF Smaller
    <2> HIDE DEF Rest
    <2>3. Cost(tiers, n, k - 1) + Rest(k - 1) * q > limit * n
      BY <2>2 DEF Dear
    <2> QED BY <1>1, <2>3
  <1>4. ASSUME NEW i \in 1 .. Len(tiers), i - 1 \in T PROVE i \in T
    <2> SUFFICES ASSUME i >= k - 1 PROVE Cost(tiers, n, i) + Rest(i) * q > limit * n
      OBVIOUS
    <2>1. CASE i = k - 1
      BY <1>3, <2>1
    <2>2. CASE i # k - 1
      <3> DEFINE g == Gone(tiers, n, i)
                 p == tiers[i].price
      <3>1. i - 1 \in 0 .. Len(tiers) /\ i \in 0 .. Len(tiers) /\ i - 1 >= k - 1 /\ DOMAIN tiers = 1 .. Len(tiers)
        BY <1>1, <2>2
      <3>2. p \in Nat /\ q <= p
        <4>1. p \in Nat /\ q \in Nat
          BY TierTyped
        <4>2. CASE i = k
          BY <4>1, <4>2
        <4>3. CASE i # k
          <5>1. k < i /\ k \in DOMAIN tiers /\ i \in DOMAIN tiers
            BY <3>1, <4>3
          <5> QED BY <4>1, <5>1 DEF Ascending
        <4> QED BY <4>2, <4>3
      <3>3. /\ g \in 0 .. tiers[i].remaining /\ tiers[i].remaining \in Nat
            /\ Smaller(n, Upto(tiers, i)) = Smaller(n, Upto(tiers, i - 1)) + g
        BY GoneGives, TierTyped
      <3>4. Cost(tiers, n, i) = Cost(tiers, n, i - 1) + g * p
        BY CostGives
      <3>5. g \in Nat /\ Rest(i) \in Nat /\ Rest(i - 1) \in Nat /\ Cost(tiers, n, i - 1) \in Nat
        BY <1>2, <3>1, <3>3
      <3>6. Upto(tiers, i) \in Nat /\ Upto(tiers, i - 1) \in Nat
        BY <3>1, UptoGives
      <3>7. Rest(i - 1) = g + Rest(i)
        BY <3>3, <3>5, <3>6 DEF Smaller
      <3>8. Cost(tiers, n, i - 1) + Rest(i - 1) * q > limit * n
        BY <1>4, <3>1
      <3> HIDE DEF g, p, Rest, q
      <3>9. (g + Rest(i)) * q = g * q + Rest(i) * q /\ g * q \in Nat /\ Rest(i) * q \in Nat
        BY <1>1, <3>5
      <3>10. g * q <= g * p /\ g * p \in Nat
        BY <1>1, <3>2, <3>5, TimesMore
      <3>11. Cost(tiers, n, i - 1) + (g * q + Rest(i) * q) > limit * n
        BY <3>7, <3>8, <3>9
      <3>12. (Cost(tiers, n, i - 1) + g * p) + Rest(i) * q > limit * n
        BY <1>1, <3>5, <3>9, <3>10, <3>11, More
      <3> QED BY <3>4, <3>12
    <2> QED BY <2>1, <2>2
  <1>5. 0 \in T
    <2>1. CASE k - 1 = 0
      BY <1>3, <2>1
    <2>2. CASE k - 1 # 0
      BY <1>1, <2>2
    <2> QED BY <2>1, <2>2
  <1>6. 0 .. Len(tiers) \subseteq T
    <2> HIDE DEF T
    <2> QED BY <1>1, <1>4, <1>5, Induction
  <1>7. Len(tiers) \in 0 .. Len(tiers) /\ Len(tiers) >= k - 1
    BY <1>1
  <1>8. Cost(tiers, n, Len(tiers)) + Rest(Len(tiers)) * q > limit * n
    BY <1>6, <1>7
  <1>9. Rest(Len(tiers)) = 0
    BY UptoGives, <1>7, BillOfAll DEF Smaller
  <1>10. 0 * q = 0
    BY <1>1
  <1>11. Cost(tiers, n, Len(tiers)) = Bill(tiers, n) /\ Bill(tiers, n) \in Nat
    BY CostGives
  <1> HIDE DEF Rest, q
  <1> QED BY <1>1, <1>8, <1>9, <1>10, <1>11

(* calculateTierStats finds enough tokens if and only if the chain has     *)
(* them and takes the price, and it finds the price the chain charges.     *)
THEOREM TiersAgree ==
  ASSUME NEW tiers \in Seq(Tier), NEW n \in Nat, NEW limit \in Nat \cup {NoLimit},
         limit # NoLimit => Ascending(tiers)
  PROVE  LET stats == TierStats(tiers, n, limit)
         IN  /\ stats \in Stats(n)
             /\ (stats.total >= n) <=>
                  (n <= Left(tiers) /\ (limit # NoLimit => Bill(tiers, n) <= limit * n))
             /\ stats.total >= n => stats.price = Bill(tiers, n)
  <1>1. PICK f \in [0 .. Len(tiers) -> Stats(n)] :
          /\ f[0] = [left |-> n, total |-> 0, price |-> 0]
          /\ \A i \in 1 .. Len(tiers) : f[i] = Take(f[i - 1], tiers[i], n, limit)
          /\ f[Len(tiers)] = TierStats(tiers, n, limit)
    BY StatsGive
  <1> DEFINE Good(i) == Exact(f[i], tiers, n, limit, i) \/ Failing(f[i], tiers, n, limit, i)
             T == {i \in 0 .. Len(tiers) : Good(i)}
             x == f[Len(tiers)]
  <1>2. Len(tiers) \in Nat /\ Len(tiers) \in 0 .. Len(tiers)
    OBVIOUS
  <1>3. 0 .. Len(tiers) \subseteq T
    <2>1. 0 \in T
      <3>1. Smaller(n, 0) = 0 /\ (limit # NoLimit => 0 <= limit * 0)
        BY DEF Smaller
      <3>2. Exact(f[0], tiers, n, limit, 0)
        BY <1>1, <3>1, UptoGives, CostGives DEF Exact
      <3> QED BY <1>2, <3>2
    <2>2. ASSUME NEW i \in 1 .. Len(tiers), i - 1 \in T PROVE i \in T
      <3>1. i - 1 \in 0 .. Len(tiers) /\ i \in 0 .. Len(tiers)
        BY <1>2
      <3>2. f[i - 1] \in Stats(n) /\ f[i] = Take(f[i - 1], tiers[i], n, limit)
        BY <1>1, <3>1
      <3>3. CASE Exact(f[i - 1], tiers, n, limit, i - 1)
        BY <3>1, <3>2, <3>3, TakeExact
      <3>4. CASE Failing(f[i - 1], tiers, n, limit, i - 1)
        <4>1. Ascending(tiers)
          BY <3>4 DEF Failing
        <4> QED BY <3>1, <3>2, <3>4, <4>1, TakeFailing
      <3> QED BY <2>2, <3>3, <3>4
    <2> HIDE DEF T
    <2> QED BY <1>2, <2>1, <2>2, Induction
  <1>4. Good(Len(tiers)) /\ x \in Stats(n)
    BY <1>2, <1>3
  <1>5. x.left \in Nat /\ x.total \in Nat /\ x.price \in Nat /\ x.total + x.left = n
    BY <1>4 DEF Stats
  <1>6. Left(tiers) \in Nat /\ Bill(tiers, n) \in Nat
    BY BillOfAll, CostGives
  <1> HIDE DEF x
  <1>7. CASE Exact(x, tiers, n, limit, Len(tiers))
    <2>1. x.total = Smaller(n, Left(tiers)) /\ x.price = Bill(tiers, n)
      BY <1>7, UptoGives, CostGives DEF Exact
    <2>2. x.total >= n <=> n <= Left(tiers)
      BY <1>6, <2>1 DEF Smaller
    <2>3. x.total >= n => x.total = n
      BY <1>5
    <2>4. limit # NoLimit => Bill(tiers, n) <= limit * x.total
      BY <1>7, <2>1 DEF Exact
    <2> QED BY <1>1, <1>4, <2>1, <2>2, <2>3, <2>4 DEF x
  <1>8. CASE Failing(x, tiers, n, limit, Len(tiers))
    <2>1. limit # NoLimit /\ limit \in Nat /\ Ascending(tiers) /\ x.left > 0
      BY <1>8 DEF Failing
    <2>2. ~(x.total >= n)
      BY <1>5, <2>1
    <2>3. PICK k \in 1 .. Len(tiers) : Dear(tiers, n, limit, k)
      BY <1>8 DEF Failing
    <2>4. n <= Left(tiers) => ~(Bill(tiers, n) <= limit * n)
      <3> SUFFICES ASSUME n <= Left(tiers) PROVE ~(Bill(tiers, n) <= limit * n)
        OBVIOUS
      <3>1. Bill(tiers, n) > limit * n /\ limit * n \in Nat
        BY <2>1, <2>3, DearCosts
      <3> QED BY <1>6, <3>1
    <2> QED BY <1>1, <1>4, <2>1, <2>2, <2>4 DEF x
  <1> QED BY <1>4, <1>7, <1>8 DEF x
-----------------------------------------------------------------------------
(* The inductive invariant *)

ChainTyped ==
  /\ now \in 1 .. MaxTime
  /\ sale \in Sales \cup {"none"} /\ terms \in Plan
  /\ stock \in Nat /\ funds \in Nat
  /\ places \in [portfolios : BOOLEAN, venue : Venues]

Typed == ChainTyped /\ call \in Call

(* Which calls make which reads.                                           *)
Form ==
  /\ call.at = "details" => call.op # "launch"
  /\ call.at = "balance" => call.op = "invest"
  /\ call.at \in {"portfolios", "venue"} => call.op = "launch"

(* What a call knows, if nothing has changed since it began.               *)
KnownSale == call.op = "launch" <=> sale = "none"
KnownDetails == call.at = "balance" => call.read = Details /\ call.terms = terms
KnownStock == call.at = "venue" => places.portfolios /\ call.free = stock

KnownInvestment ==
  LET stats == TierStats(terms.tiers, call.amount, call.limit)
  IN  /\ Accepting(Details)
      /\ stats.price >= terms.min /\ stats.price <= funds /\ stats.total >= call.amount
      /\ call.price = stats.price
KnownLaunch == places.portfolios /\ VenueFound /\ Left(call.plan.tiers) <= stock

KnownBuilt ==
  call.at = "built" =>
    /\ call.op = "invest" => KnownInvestment
    /\ call.op = "close" => MayClose(Details)
    /\ call.op \in {"freeze", "unfreeze"} => MayToggle(Details)
    /\ call.op = "modify" => MayModify(Details) /\ call.terms = NewWindow(terms)
    /\ call.op = "launch" => KnownLaunch

Knowledge == KnownSale /\ KnownDetails /\ KnownStock /\ KnownBuilt
Known == call.at # "idle" /\ Fresh => Knowledge

Inv == Typed /\ Form /\ Known

-----------------------------------------------------------------------------
(* Types *)

LEMMA TypedEnough == Typed => TypeOK
  BY DEF Typed, ChainTyped, TypeOK

LEMMA PlanTyped ==
  ASSUME NEW t \in Plan
  PROVE  t.tiers \in Seq(Tier) /\ t.min \in Nat /\ t.start \in Times /\ t.end \in Times
  BY DEF Plan

LEMMA TimesTyped == Times = 1 .. MaxTime + 1 /\ Never = MaxTime + 1 /\ MaxTime \in Nat \ {0}
  BY NumbersAssumption DEF Times, Never

LEMMA IdleTyped ==
  ASSUME Plans # {}
  PROVE  Idle \in Call /\ Idle.at = "idle" /\ Idle.stale = FALSE
  <1>1. (CHOOSE p \in Plans : TRUE) \in Plans /\ (CHOOSE p \in Plans : TRUE) \in Plan
    BY PlansAssumption
  <1>2. 0 \in 0 .. MaxTime /\ 0 \in 0 .. Never
    BY TimesTyped
  <1> QED BY <1>1, <1>2 DEF Idle, Call

LEMMA PlansThere == Typed => Plans # {}
  BY DEF Typed, Call

LEMMA InitInv == Init => Inv
  <1> SUFFICES ASSUME Init PROVE Inv
    OBVIOUS
  <1>1. terms \in Plan /\ Plans # {} /\ stock \in Nat /\ funds \in Nat
    BY PlansAssumption, NumbersAssumption DEF Init
  <1>2. call \in Call /\ call.at = "idle"
    BY <1>1, IdleTyped DEF Init
  <1>3. places \in [portfolios : BOOLEAN, venue : Venues]
    BY DEF Init
  <1>4. 1 \in 1 .. MaxTime /\ "none" \in Sales \cup {"none"}
    BY TimesTyped
  <1>5. ChainTyped
    BY <1>1, <1>3, <1>4 DEF Init, ChainTyped
  <1> QED BY <1>2, <1>5 DEF Inv, Typed, Form, Known

(* What n tokens leave of the tiers.                                       *)
LEMMA SellTyped ==
  ASSUME ChainTyped, NEW n \in Nat, NEW max, AcceptsInvest(n, max), Sell(n)
  PROVE  terms' \in Plan /\ funds' \in Nat
  <1>1. terms.tiers \in Seq(Tier) /\ Len(terms.tiers) \in Nat
    BY PlanTyped DEF ChainTyped
  <1>2. ASSUME NEW i \in 1 .. Len(terms.tiers)
        PROVE  [terms.tiers[i] EXCEPT !.remaining = @ - Gone(terms.tiers, n, i)] \in Tier
    <2>1. terms.tiers[i] \in Tier /\ terms.tiers[i].remaining \in Nat
      BY <1>1, TierTyped
    <2>2. Gone(terms.tiers, n, i) \in 0 .. terms.tiers[i].remaining
      BY <1>1, GoneGives
    <2>3. terms.tiers[i].remaining - Gone(terms.tiers, n, i) \in Nat
      BY <2>1, <2>2
    <2> QED BY <2>1, <2>3 DEF Tier
  <1>3. After(terms.tiers, n) \in Seq(Tier)
    BY <1>1, <1>2 DEF After
  <1>4. terms' = [terms EXCEPT !.tiers = After(@, n)]
    BY DEF Sell
  <1>5. terms' \in Plan
    BY <1>3, <1>4 DEF ChainTyped, Plan
  <1>6. Bill(terms.tiers, n) \in Nat /\ Bill(terms.tiers, n) <= funds /\ funds \in Nat
    BY <1>1, BillBelow DEF AcceptsInvest, ChainTyped
  <1>7. funds' = funds - Bill(terms.tiers, n)
    BY DEF Sell
  <1>8. funds' \in Nat
    BY <1>6, <1>7
  <1> QED BY <1>5, <1>8

LEMMA WindowTyped ==
  ASSUME ChainTyped, NEW t \in Plan, SetWindow(t)
  PROVE  terms' \in Plan
  <1>1. terms' = [terms EXCEPT !.start = t.start, !.end = t.end]
    BY DEF SetWindow
  <1>2. t.start \in Times /\ t.end \in Times
    BY PlanTyped
  <1> QED BY <1>1, <1>2 DEF ChainTyped, Plan

LEMMA NewWindowTyped ==
  ASSUME Typed PROVE NewWindow(terms) \in Plan
  <1>1. call.start \in 0 .. MaxTime /\ call.end \in 0 .. Never /\ terms \in Plan
    BY DEF Typed, ChainTyped, Call
  <1>2. (IF call.start = 0 THEN terms.start ELSE call.start) \in Times
    BY <1>1, PlanTyped, TimesTyped
  <1>3. (IF call.end = 0 THEN terms.end ELSE call.end) \in Times
    BY <1>1, PlanTyped, TimesTyped
  <1> QED BY <1>1, <1>2, <1>3 DEF NewWindow, Plan

LEMMA CreateTyped ==
  ASSUME ChainTyped, NEW plan \in Plans, AcceptsLaunch(plan), Create(plan)
  PROVE  terms' \in Plan /\ stock' \in Nat
  <1>1. plan \in Plan /\ plan.tiers \in Seq(Tier)
    BY PlansAssumption, PlanTyped
  <1>2. Left(plan.tiers) \in Nat /\ Left(plan.tiers) <= stock /\ stock \in Nat
    BY <1>1, BillOfAll DEF AcceptsLaunch, ChainTyped
  <1> QED BY <1>1, <1>2 DEF Create

-----------------------------------------------------------------------------
(* Steps by their form: the call begins, goes on or ends, or something     *)
(* else happens.                                                           *)
Calling == Begin \/ ReadDetails \/ ReadBalance \/ ReadPortfolios \/ ReadVenue \/ Revert
Dispatching == DispatchInvest \/ DispatchClose \/ DispatchToggle \/ DispatchModify \/ DispatchLaunch
Others ==
  \/ \E n \in Amounts : OthersInvest(n)
  \/ \E s \in Sales : OthersSet(s)
  \/ \E w \in Windows : OthersMove(w[1], w[2])
  \/ Transfer \/ Tick

LEMMA StepForms == Next <=> Calling \/ Dispatching \/ Others
  BY DEF Next, Calling, Dispatching, Others

LEMMA ReadDetailsCases ==
  ASSUME Typed, Form, ReadDetails
  PROVE  /\ call.at = "details"
         /\ \/ call.op = "close" /\ Check(MayClose(Details), "built")
            \/ call.op \in {"freeze", "unfreeze"} /\ Check(MayToggle(Details), "built")
            \/ /\ call.op = "modify" /\ MayModify(Details) /\ UNCHANGED <<now, market>>
               /\ call' = [call EXCEPT !.at = "built", !.terms = NewWindow(terms)]
            \/ call.op = "modify" /\ ~MayModify(Details) /\ Refuse
            \/ /\ call.op = "invest" /\ UNCHANGED <<now, market>>
               /\ call' = [call EXCEPT !.at = "balance", !.read = Details, !.terms = terms]
  <1>1. call.op \in {"invest", "close", "freeze", "unfreeze", "modify"}
    BY DEF Typed, Call, Form, ReadDetails
  <1>2. CASE call.op = "close"
    BY <1>2 DEF ReadDetails
  <1>3. CASE call.op \in {"freeze", "unfreeze"}
    BY <1>3 DEF ReadDetails
  <1>4. CASE call.op = "modify"
    BY <1>4 DEF ReadDetails
  <1>5. CASE call.op = "invest"
    BY <1>5 DEF ReadDetails
  <1> QED BY <1>1, <1>2, <1>3, <1>4, <1>5

LEMMA CallingChain ==
  ASSUME Typed, Form, Calling
  PROVE  UNCHANGED <<now, sale, terms, stock, funds, places>>
  <1>1. Begin => UNCHANGED <<now, market>>
    BY DEF Begin, Invest, CloseIt, ToggleFreeze, ModifyTimes, Launch, Start
  <1>2. ReadDetails => UNCHANGED <<now, market>>
    BY ReadDetailsCases DEF Check, Goto, Refuse
  <1>3. ReadBalance \/ ReadPortfolios \/ ReadVenue \/ Revert => UNCHANGED <<now, market>>
    BY DEF ReadBalance, ReadPortfolios, ReadVenue, Revert, Check, Goto, Refuse
  <1> QED BY <1>1, <1>2, <1>3 DEF Calling, market

LEMMA DispatchingCall == Dispatching => call' = Idle /\ call.at = "built" /\ Accepted /\ now' = now
  BY DEF Dispatching, DispatchInvest, DispatchClose, DispatchToggle, DispatchModify,
         DispatchLaunch, Takes

LEMMA OthersCall == Others => Aging
  BY DEF Others, OthersInvest, OthersSet, OthersMove, Transfer, Tick

LEMMA DispatchingTyped == ASSUME Typed, Dispatching PROVE ChainTyped'
  <1>1. now' = now
    BY DispatchingCall
  <1>2. CASE DispatchInvest
    <2>1. call.amount \in Nat /\ AcceptsInvest(call.amount, call.limit) /\ Sell(call.amount)
      BY <1>2 DEF DispatchInvest, Takes, Accepted, Typed, Call
    <2>2. terms' \in Plan /\ funds' \in Nat
      BY <2>1, SellTyped DEF Typed
    <2> QED BY <1>1, <2>1, <2>2 DEF Sell, Typed, ChainTyped
  <1>3. CASE DispatchClose \/ DispatchToggle
    <2>1. PICK s \in Sales : SetSale(s)
      BY <1>3 DEF DispatchClose, DispatchToggle, Closing, Sales
    <2> QED BY <1>1, <2>1 DEF SetSale, Typed, ChainTyped
  <1>4. CASE DispatchModify
    <2>1. call.terms \in Plan /\ SetWindow(call.terms)
      BY <1>4 DEF DispatchModify, Typed, Call
    <2>2. terms' \in Plan
      BY <2>1, WindowTyped DEF Typed
    <2> QED BY <1>1, <2>1, <2>2 DEF SetWindow, Typed, ChainTyped
  <1>5. CASE DispatchLaunch
    <2>1. call.plan \in Plans /\ AcceptsLaunch(call.plan) /\ Create(call.plan)
      BY <1>5 DEF DispatchLaunch, Takes, Accepted, Typed, Call
    <2>2. terms' \in Plan /\ stock' \in Nat
      BY <2>1, CreateTyped DEF Typed
    <2> QED BY <1>1, <2>1, <2>2 DEF Create, Sales, Typed, ChainTyped
  <1> QED BY <1>2, <1>3, <1>4, <1>5 DEF Dispatching

LEMMA OthersTyped == ASSUME Typed, Others PROVE ChainTyped'
  <1>1. ASSUME NEW n \in Amounts, OthersInvest(n) PROVE ChainTyped'
    <2>1. n \in Nat /\ AcceptsInvest(n, NoLimit) /\ Sell(n) /\ now' = now
      BY <1>1, NumbersAssumption DEF OthersInvest
    <2>2. terms' \in Plan /\ funds' \in Nat
      BY <2>1, SellTyped DEF Typed
    <2> QED BY <2>1, <2>2 DEF Sell, Typed, ChainTyped
  <1>2. ASSUME NEW s \in Sales, OthersSet(s) PROVE ChainTyped'
    BY <1>2 DEF OthersSet, SetSale, Typed, ChainTyped
  <1>3. ASSUME NEW w \in Windows, OthersMove(w[1], w[2]) PROVE ChainTyped'
    <2> DEFINE t == [terms EXCEPT !.start = IF w[1] = 0 THEN @ ELSE w[1],
                                  !.end = IF w[2] = 0 THEN @ ELSE w[2]]
    <2>1. w[1] \in 0 .. MaxTime /\ w[2] \in 0 .. Never /\ terms \in Plan
      BY NumbersAssumption DEF Typed, ChainTyped
    <2>2. (IF w[1] = 0 THEN terms.start ELSE w[1]) \in Times
      BY <2>1, PlanTyped, TimesTyped
    <2>3. (IF w[2] = 0 THEN terms.end ELSE w[2]) \in Times
      BY <2>1, PlanTyped, TimesTyped
    <2>4. t \in Plan
      BY <2>1, <2>2, <2>3 DEF Plan
    <2>5. SetWindow(t) /\ now' = now
      BY <1>3 DEF OthersMove
    <2> HIDE DEF t
    <2>6. terms' \in Plan
      BY <2>4, <2>5, WindowTyped DEF Typed
    <2> QED BY <2>5, <2>6 DEF SetWindow, Typed, ChainTyped
  <1>4. CASE Transfer
    <2>1. Balances \subseteq Nat
      BY NumbersAssumption
    <2>2. now' = now /\ sale' = sale /\ terms' = terms
      BY <1>4 DEF Transfer
    <2>3. stock' \in Nat /\ funds' \in Nat
      BY <1>4, <2>1 DEF Transfer, Typed, ChainTyped
    <2>4. [places EXCEPT !.portfolios = FALSE] \in [portfolios : BOOLEAN, venue : Venues]
      BY DEF Typed, ChainTyped
    <2>5. places' \in [portfolios : BOOLEAN, venue : Venues]
      BY <1>4, <2>4 DEF Transfer, Typed, ChainTyped
    <2> QED BY <2>2, <2>3, <2>5 DEF Typed, ChainTyped
  <1>5. CASE Tick
    <2>1. now' \in 1 .. MaxTime /\ UNCHANGED <<sale, terms, stock, funds, places>>
      BY <1>5, TimesTyped DEF Tick, market, Typed, ChainTyped
    <2> QED BY <2>1 DEF Typed, ChainTyped
  <1> QED BY <1>1, <1>2, <1>3, <1>4, <1>5 DEF Others
-----------------------------------------------------------------------------
(* The steps of the call *)

Held == UNCHANGED <<now, sale, terms, stock, funds, places>>

LEMMA ChainHeld == ASSUME ChainTyped, Held PROVE ChainTyped'
  BY DEF ChainTyped, Held

LEMMA IdleInv == ASSUME Plans # {}, ChainTyped', call' = Idle PROVE Inv'
  <1>1. call' \in Call /\ call'.at = "idle"
    BY IdleTyped
  <1> QED BY <1>1 DEF Inv, Typed, Form, Known

(* What the code asked is asked of the same chain, with the same call.     *)
SameCall(c, d) ==
  /\ d.op = c.op /\ d.plan = c.plan /\ d.amount = c.amount /\ d.limit = c.limit
  /\ d.start = c.start /\ d.end = c.end /\ d.named = c.named /\ d.stale = c.stale

LEMMA SameQuestions ==
  ASSUME Held, SameCall(call, call')
  PROVE  /\ Details' = Details /\ (KnownSale' <=> KnownSale)
         /\ (MayClose(Details)' <=> MayClose(Details))
         /\ (MayToggle(Details)' <=> MayToggle(Details))
         /\ (MayModify(Details)' <=> MayModify(Details))
         /\ NewWindow(terms)' = NewWindow(terms)
         /\ (VenueFound' <=> VenueFound)
  <1>1. Details' = Details
    BY DEF Held, Details, Timing, BalanceStatus
  <1>2. KnownSale' <=> KnownSale
    BY DEF Held, SameCall, KnownSale
  <1>3. MayClose(Details)' <=> MayClose(Details)
    BY <1>1 DEF MayClose
  <1>4. MayToggle(Details)' <=> MayToggle(Details)
    BY <1>1 DEF MayToggle, SameCall
  <1>5. SameTimes' <=> SameTimes
    BY DEF SameTimes, SameCall, Held
  <1>6. MayModify(Details)' <=> MayModify(Details)
    BY <1>1, <1>5 DEF MayModify, SameCall, Held
  <1>7. NewWindow(terms)' = NewWindow(terms)
    BY DEF NewWindow, SameCall, Held
  <1>8. VenueFound' <=> VenueFound
    BY DEF VenueFound, SameCall, Held
  <1> QED BY <1>1, <1>2, <1>3, <1>4, <1>6, <1>7, <1>8

LEMMA CallFields ==
  ASSUME NEW c \in Call
  PROVE  /\ c.op \in {"invest", "close", "freeze", "unfreeze", "modify", "launch"}
         /\ c.plan \in Plans /\ c.amount \in Nat /\ c.limit \in Nat \cup {NoLimit}
         /\ c.start \in 0 .. MaxTime /\ c.end \in 0 .. Never /\ c.terms \in Plan
         /\ c.free \in Nat /\ c.price \in Nat /\ c.stale \in BOOLEAN
  BY DEF Call

LEMMA GotoGives ==
  ASSUME NEW c \in Call, NEW stage \in {"details", "balance", "portfolios", "venue", "built"}
  PROVE  LET d == [c EXCEPT !.at = stage]
         IN  /\ d \in Call /\ SameCall(c, d) /\ d.at = stage
             /\ d.terms = c.terms /\ d.read = c.read /\ d.free = c.free /\ d.price = c.price
  BY DEF Call, SameCall

LEMMA StartInv ==
  ASSUME Inv, NEW op, NEW args \in Call, ~args.stale, Start(op, args),
         op \in {"invest", "close", "freeze", "unfreeze", "modify", "launch"},
         op = "launch" <=> sale = "none"
  PROVE  Inv'
  <1>1. Held /\ call' = [args EXCEPT !.op = op, !.at = IF op = "launch" THEN "portfolios" ELSE "details"]
    BY DEF Start, Held, market
  <1>2. call' \in Call /\ call'.op = op /\ call'.at = IF op = "launch" THEN "portfolios" ELSE "details"
    BY <1>1 DEF Call
  <1>3. ChainTyped'
    BY <1>1, ChainHeld DEF Inv, Typed
  <1>4. Form'
    BY <1>2 DEF Form
  <1>5. Knowledge'
    BY <1>1, <1>2 DEF Held, Knowledge, KnownSale, KnownDetails, KnownStock, KnownBuilt
  <1> QED BY <1>2, <1>3, <1>4, <1>5 DEF Inv, Typed, Known

LEMMA BeginInv == ASSUME Inv, Begin PROVE Inv'
  <1>1. Idle \in Call /\ Idle.stale = FALSE
    BY PlansThere, IdleTyped DEF Inv
  <1>2. ASSUME NEW n \in Amounts, NEW max \in MaxPrices, Invest(n, max) PROVE Inv'
    <2>1. n \in Nat /\ max \in Nat \cup {NoLimit}
      BY NumbersAssumption
    <2> DEFINE args == [Idle EXCEPT !.amount = n, !.limit = max]
    <2>2. args \in Call /\ ~args.stale
      BY <1>1, <2>1 DEF Call
    <2>3. sale # "none" /\ Start("invest", args)
      BY <1>2 DEF Invest
    <2> HIDE DEF args
    <2> QED BY <2>2, <2>3, StartInv
  <1>3. ASSUME CloseIt PROVE Inv'
    BY <1>1, <1>3, StartInv DEF CloseIt
  <1>4. ASSUME NEW op \in {"freeze", "unfreeze"}, ToggleFreeze(op) PROVE Inv'
    BY <1>1, <1>4, StartInv DEF ToggleFreeze
  <1>5. ASSUME NEW w \in Windows, ModifyTimes(w[1], w[2]) PROVE Inv'
    <2>1. w[1] \in 0 .. MaxTime /\ w[2] \in 0 .. Never
      BY NumbersAssumption
    <2> DEFINE args == [Idle EXCEPT !.start = w[1], !.end = w[2]]
    <2>2. args \in Call /\ ~args.stale
      BY <1>1, <2>1 DEF Call
    <2>3. sale # "none" /\ Start("modify", args)
      BY <1>5 DEF ModifyTimes
    <2> HIDE DEF args
    <2> QED BY <2>2, <2>3, StartInv
  <1>6. ASSUME NEW plan \in Plans, NEW own \in BOOLEAN, Launch(plan, own) PROVE Inv'
    <2>1. [Idle EXCEPT !.plan = plan, !.named = own] \in Call
          /\ ~[Idle EXCEPT !.plan = plan, !.named = own].stale
      BY <1>1 DEF Call
    <2> QED BY <1>6, <2>1, StartInv DEF Launch
  <1> QED BY <1>2, <1>3, <1>4, <1>5, <1>6 DEF Begin

(* A call that ends leaves the chain as it is.                             *)
LEMMA RefuseInv == ASSUME Inv, Refuse PROVE Inv'
  <1>1. Held /\ call' = Idle
    BY DEF Refuse, Held, market
  <1>2. ChainTyped'
    BY <1>1, ChainHeld DEF Inv, Typed
  <1>3. Plans # {}
    BY PlansThere DEF Inv
  <1> QED BY <1>1, <1>2, <1>3, IdleInv

(* A call whose transaction is built on what has been read.                *)
LEMMA BuiltInv ==
  ASSUME Inv, Held, call' \in Call, call'.at = "built", SameCall(call, call'),
         Fresh /\ Knowledge => KnownBuilt', call.at # "idle"
  PROVE  Inv'
  <1>1. ChainTyped'
    BY ChainHeld DEF Inv, Typed
  <1>2. Form'
    BY DEF Form
  <1>3. Fresh' => Fresh
    BY DEF Fresh, SameCall
  <1>4. Fresh /\ Knowledge => Knowledge'
    BY SameQuestions DEF Knowledge, KnownDetails, KnownStock
  <1>5. Fresh => Knowledge
    BY DEF Inv, Known
  <1> QED BY <1>1, <1>2, <1>3, <1>4, <1>5 DEF Inv, Typed, Known

LEMMA ReadDetailsInv == ASSUME Inv, ReadDetails PROVE Inv'
  <1>1. Typed /\ Form /\ call \in Call /\ call.at = "details" /\ terms \in Plan
    BY ReadDetailsCases DEF Inv, Typed, ChainTyped
  <1>2. CASE Refuse
    BY <1>2, RefuseInv
  <1>3. CASE call.op = "close" /\ MayClose(Details) /\ Goto("built")
    <2>1. Held /\ call' = [call EXCEPT !.at = "built"]
      BY <1>3 DEF Goto, Held, market
    <2>2. call' \in Call /\ SameCall(call, call') /\ call'.at = "built" /\ call'.op = "close"
      BY <1>1, <1>3, <2>1, GotoGives DEF SameCall
    <2>3. KnownBuilt'
      BY <1>3, <2>1, <2>2, SameQuestions DEF KnownBuilt
    <2> QED BY <1>1, <2>1, <2>2, <2>3, BuiltInv
  <1>4. CASE call.op \in {"freeze", "unfreeze"} /\ MayToggle(Details) /\ Goto("built")
    <2>1. Held /\ call' = [call EXCEPT !.at = "built"]
      BY <1>4 DEF Goto, Held, market
    <2>2. call' \in Call /\ SameCall(call, call') /\ call'.at = "built" /\ call'.op \in {"freeze", "unfreeze"}
      BY <1>1, <1>4, <2>1, GotoGives DEF SameCall
    <2>3. KnownBuilt'
      BY <1>4, <2>1, <2>2, SameQuestions DEF KnownBuilt
    <2> QED BY <1>1, <2>1, <2>2, <2>3, BuiltInv
  <1>5. CASE /\ call.op = "modify" /\ MayModify(Details) /\ UNCHANGED <<now, market>>
             /\ call' = [call EXCEPT !.at = "built", !.terms = NewWindow(terms)]
    <2>1. Held /\ NewWindow(terms) \in Plan
      BY <1>1, <1>5, NewWindowTyped DEF Held, market
    <2>2. /\ call' \in Call /\ SameCall(call, call') /\ call'.at = "built" /\ call'.op = "modify"
          /\ call'.terms = NewWindow(terms)
      BY <1>1, <1>5, <2>1 DEF Call, SameCall
    <2>3. KnownBuilt'
      BY <1>5, <2>1, <2>2, SameQuestions DEF KnownBuilt
    <2> QED BY <1>1, <2>1, <2>2, <2>3, BuiltInv
  <1>6. CASE /\ call.op = "invest" /\ UNCHANGED <<now, market>>
             /\ call' = [call EXCEPT !.at = "balance", !.read = Details, !.terms = terms]
    <2>1. Held
      BY <1>6 DEF Held, market
    <2>2. Details \in [sale : Sales \cup {"none"}, timing : {"none", "NotStarted", "Started", "Expired"},
                       balance : {"none", "SoldOut", "Residual", "Available"}]
      BY <1>1 DEF Details, Timing, BalanceStatus, Typed, ChainTyped
    <2>3. /\ call' \in Call /\ SameCall(call, call') /\ call'.at = "balance" /\ call'.op = "invest"
          /\ call'.read = Details /\ call'.terms = terms
      BY <1>1, <1>6, <2>2 DEF Call, SameCall
    <2>4. ChainTyped' /\ Form'
      BY <1>1, <2>1, <2>3, ChainHeld DEF Typed, Form
    <2>5. Knowledge => Knowledge'
      BY <2>1, <2>3, SameQuestions DEF Knowledge, KnownDetails, KnownStock, KnownBuilt, Held
    <2>6. Known'
      BY <1>1, <2>3, <2>5 DEF Inv, Known, Fresh, SameCall
    <2> QED BY <2>3, <2>4, <2>6 DEF Inv, Typed
  <1> QED BY <1>1, <1>2, <1>3, <1>4, <1>5, <1>6, ReadDetailsCases DEF Check

LEMMA ReadBalanceInv == ASSUME Inv, ReadBalance PROVE Inv'
  <1> DEFINE stats == TierStats(call.terms.tiers, call.amount, call.limit)
  <1>1. call \in Call /\ call.at = "balance" /\ call.op = "invest"
    BY DEF Inv, Typed, Form, ReadBalance
  <1>2. CASE Refuse
    BY <1>2, RefuseInv
  <1>3. CASE ~Refuse
    <2>1. /\ Accepting(call.read)
          /\ stats.price >= call.terms.min /\ stats.price <= funds /\ stats.total >= call.amount
          /\ call' = [call EXCEPT !.at = "built", !.price = stats.price] /\ UNCHANGED <<now, market>>
      BY <1>3 DEF ReadBalance
    <2>2. stats.price \in Nat
      <3>1. call.terms.tiers \in Seq(Tier) /\ call.amount \in Nat /\ call.limit \in Nat \cup {NoLimit}
        BY <1>1, CallFields, PlanTyped
      <3>2. stats \in Stats(call.amount)
        BY <3>1, TierStatsTyped
      <3> QED BY <3>2 DEF Stats
    <2> HIDE DEF stats
    <2>3. Held
      BY <2>1 DEF Held, market
    <2>4. /\ call' \in Call /\ SameCall(call, call') /\ call'.at = "built" /\ call'.op = "invest"
          /\ call'.price = stats.price
      BY <1>1, <2>1, <2>2 DEF Call, SameCall
    <2>5. Fresh /\ Knowledge => KnownBuilt'
      <3> SUFFICES ASSUME Fresh, Knowledge PROVE KnownBuilt'
        OBVIOUS
      <3>1. call.read = Details /\ call.terms = terms
        BY <1>1 DEF Knowledge, KnownDetails
      <3>2. Details' = Details /\ terms' = terms /\ funds' = funds
        BY <2>3, <2>4, SameQuestions DEF Held
      <3>3. call'.amount = call.amount /\ call'.limit = call.limit
        BY <2>4 DEF SameCall
      <3>4. TierStats(terms.tiers, call.amount, call.limit)' = stats
        BY <3>1, <3>2, <3>3 DEF stats
      <3>5. KnownInvestment'
        BY <2>1, <2>4, <3>1, <3>2, <3>4 DEF KnownInvestment, Accepting
      <3> QED BY <2>4, <3>5 DEF KnownBuilt
    <2> QED BY <1>1, <2>3, <2>4, <2>5, BuiltInv
  <1> QED BY <1>2, <1>3

LEMMA ReadPortfoliosInv == ASSUME Inv, ReadPortfolios PROVE Inv'
  <1>1. call \in Call /\ call.at = "portfolios" /\ call.op = "launch" /\ ChainTyped
    BY DEF Inv, Typed, Form, ReadPortfolios
  <1>2. CASE Refuse
    BY <1>2, RefuseInv
  <1>3. CASE ~Refuse
    <2>1. /\ places.portfolios /\ UNCHANGED <<now, market>>
          /\ call' = [call EXCEPT !.at = "venue", !.free = stock]
      BY <1>3 DEF ReadPortfolios
    <2>2. Held /\ stock \in Nat
      BY <1>1, <2>1 DEF Held, market, ChainTyped
    <2>3. /\ call' \in Call /\ SameCall(call, call') /\ call'.at = "venue" /\ call'.op = "launch"
          /\ call'.free = stock
      BY <1>1, <2>1, <2>2 DEF Call, SameCall
    <2>4. ChainTyped' /\ Form'
      BY <1>1, <2>2, <2>3, ChainHeld DEF Form
    <2>5. Knowledge => Knowledge'
      BY <2>1, <2>2, <2>3, SameQuestions DEF Knowledge, KnownDetails, KnownStock, KnownBuilt, Held
    <2>6. Known'
      BY <1>1, <2>3, <2>5 DEF Inv, Known, Fresh, SameCall
    <2> QED BY <2>3, <2>4, <2>6 DEF Inv, Typed
  <1> QED BY <1>2, <1>3

LEMMA ReadVenueInv == ASSUME Inv, ReadVenue PROVE Inv'
  <1>1. call \in Call /\ call.at = "venue" /\ call.op = "launch"
    BY DEF Inv, Typed, Form, ReadVenue
  <1>2. CASE Refuse
    BY <1>2, RefuseInv
  <1>3. CASE ~Refuse
    <2>1. VenueFound /\ Left(call.plan.tiers) <= call.free /\ Goto("built")
      BY <1>3 DEF ReadVenue, Check
    <2>2. Held /\ call' = [call EXCEPT !.at = "built"]
      BY <2>1 DEF Goto, Held, market
    <2>3. call' \in Call /\ SameCall(call, call') /\ call'.at = "built" /\ call'.op = "launch"
      BY <1>1, <2>2, GotoGives DEF SameCall
    <2>4. Fresh /\ Knowledge => KnownBuilt'
      <3> SUFFICES ASSUME Fresh, Knowledge PROVE KnownBuilt'
        OBVIOUS
      <3>1. places.portfolios /\ call.free = stock
        BY <1>1 DEF Knowledge, KnownStock
      <3>2. VenueFound' /\ stock' = stock /\ places' = places /\ call'.plan = call.plan
        BY <2>1, <2>2, <2>3, SameQuestions DEF Held, SameCall
      <3>3. KnownLaunch'
        BY <2>1, <3>1, <3>2 DEF KnownLaunch
      <3> QED BY <2>3, <3>3 DEF KnownBuilt
    <2> QED BY <1>1, <2>2, <2>3, <2>4, BuiltInv
  <1> QED BY <1>2, <1>3

(* What others do makes a call stale, whatever it is.                      *)
LEMMA OthersInv == ASSUME Inv, Others PROVE Inv'
  <1>1. call \in Call /\ ChainTyped'
    BY OthersTyped DEF Inv, Typed
  <1>2. call' = IF call.at = "idle" THEN call ELSE [call EXCEPT !.stale = TRUE]
    BY OthersCall DEF Aging
  <1>3. CASE call.at = "idle"
    BY <1>1, <1>2, <1>3 DEF Inv, Typed, Form, Known
  <1>4. CASE call.at # "idle"
    <2>1. call' = [call EXCEPT !.stale = TRUE]
      BY <1>2, <1>4
    <2>2. call' \in Call /\ call'.at = call.at /\ call'.op = call.op /\ call'.stale
      BY <1>1, <2>1 DEF Call
    <2>3. Form'
      BY <2>2 DEF Inv, Form
    <2> QED BY <1>1, <2>2, <2>3 DEF Inv, Typed, Known, Fresh
  <1> QED BY <1>3, <1>4

LEMMA NextInv == Inv /\ [Next]_vars => Inv'
  <1> SUFFICES ASSUME Inv, [Next]_vars PROVE Inv'
    OBVIOUS
  <1>1. CASE Calling
    <2>1. Revert => Refuse
      BY DEF Revert
    <2> QED BY <1>1, <2>1, BeginInv, ReadDetailsInv, ReadBalanceInv, ReadPortfoliosInv, ReadVenueInv,
               RefuseInv DEF Calling
  <1>2. CASE Dispatching
    BY <1>2, DispatchingCall, DispatchingTyped, IdleInv, PlansThere DEF Inv
  <1>3. CASE Others
    BY <1>3, OthersInv
  <1>4. CASE UNCHANGED vars
    <2>1. Held /\ call' = call
      BY <1>4 DEF vars, market, Held
    <2>2. ChainTyped' /\ Form' /\ call' \in Call
      BY <2>1, ChainHeld DEF Inv, Typed, Form
    <2>3. SameCall(call, call')
      BY <2>1 DEF SameCall
    <2>4. Knowledge => Knowledge'
      <3>1. (KnownDetails' <=> KnownDetails) /\ (KnownStock' <=> KnownStock) /\ (KnownSale' <=> KnownSale)
        BY <2>1, <2>3, SameQuestions DEF KnownDetails, KnownStock, Held
      <3>2. KnownBuilt' <=> KnownBuilt
        BY <2>1 DEF KnownBuilt, KnownInvestment, KnownLaunch, Held, Accepting, MayClose, MayToggle,
                    MayModify, NewWindow, VenueFound, Details, Timing, BalanceStatus, SameTimes
      <3> QED BY <3>1, <3>2 DEF Knowledge
    <2> QED BY <2>1, <2>2, <2>4 DEF Inv, Typed, Known, Fresh
  <1> QED BY <1>1, <1>2, <1>3, <1>4, StepForms

(* What is found out of an Offering stays true until it changes.           *)
LEMMA Invariance == Spec => []Inv
  BY InitInv, NextInv, PTL DEF Spec
-----------------------------------------------------------------------------
(* The theorems *)

(* Types: status, terms, balances and clock of the Offering, and every     *)
(* value a call holds between its reads, are what the code takes them for. *)
THEOREM TypeCorrect == Spec => []TypeOK
  BY Invariance, TypedEnough, PTL DEF Inv

(* Away from its edges an Offering that was found started is open, and one *)
(* that was not found expired has not ended.                               *)
LEMMA Edges ==
  ASSUME ChainTyped, ~AtEdge
  PROVE  /\ Accepting(Details) <=> Open(terms)
         /\ Details.timing # "Expired" <=> (terms.end = Never \/ now < terms.end)
         /\ Details.timing = "NotStarted" => now < terms.start
         /\ Details.sale = sale
  <1>1. now \in Nat /\ terms.start \in Nat /\ terms.end \in Nat /\ Never \in Nat
    BY PlanTyped, TimesTyped DEF ChainTyped
  <1>2. now # terms.start /\ now # terms.end
    BY DEF AtEdge
  <1>3. Details.timing = Timing(terms.start, terms.end) /\ Details.sale = sale
    BY DEF Details
  <1> QED BY <1>1, <1>2, <1>3 DEF Timing, Accepting, Open

LEMMA CallTiers ==
  ASSUME Typed
  PROVE  terms.tiers \in Seq(Tier) /\ call.amount \in Nat /\ call.limit \in Nat \cup {NoLimit}
  BY CallFields, PlanTyped DEF Typed, ChainTyped

(* The checks of an investment, on an Offering that has not changed, are   *)
(* those of the chain.                                                     *)
LEMMA InvestAgrees ==
  ASSUME Typed, ~AtEdge, Comparable(terms.tiers)
  PROVE  LET stats == TierStats(terms.tiers, call.amount, call.limit)
         IN  (/\ Accepting(Details) /\ stats.price >= terms.min /\ stats.price <= funds
              /\ stats.total >= call.amount) <=> AcceptsInvest(call.amount, call.limit)
  <1> DEFINE stats == TierStats(terms.tiers, call.amount, call.limit)
             bill == Bill(terms.tiers, call.amount)
  <1>1. Accepting(Details) <=> Open(terms)
    BY Edges DEF Typed
  <1>2. /\ (stats.total >= call.amount) <=>
             (/\ call.amount <= Left(terms.tiers)
              /\ call.limit # NoLimit => bill <= call.limit * call.amount)
        /\ stats.total >= call.amount => stats.price = bill
    BY CallTiers, TiersAgree DEF Comparable
  <1>3. AcceptsInvest(call.amount, call.limit) <=>
          /\ Open(terms) /\ call.amount <= Left(terms.tiers) /\ bill >= terms.min /\ bill <= funds
          /\ call.limit # NoLimit => bill <= call.limit * call.amount
    BY DEF AcceptsInvest
  <1> HIDE DEF stats, bill
  <1> QED BY <1>1, <1>2, <1>3 DEF stats

LEMMA ToldApart ==
  /\ "invest" \notin {"close", "freeze", "unfreeze", "modify", "launch"}
  /\ "close" \notin {"freeze", "unfreeze", "modify", "launch"}
  /\ "freeze" \notin {"unfreeze", "modify", "launch"}
  /\ "unfreeze" \notin {"modify", "launch"} /\ "modify" # "launch"
  OBVIOUS

LEMMA WhatIsAccepted ==
  /\ call.op = "invest" => (Accepted <=> AcceptsInvest(call.amount, call.limit))
  /\ call.op = "close" => (Accepted <=> AcceptsClose)
  /\ call.op \in {"freeze", "unfreeze"} => (Accepted <=> AcceptsToggle)
  /\ call.op = "modify" => (Accepted <=> AcceptsModify(call.terms))
  /\ call.op = "launch" => (Accepted <=> AcceptsLaunch(call.plan))
  BY DEF Accepted

LEMMA ReadyAccepted == ASSUME Inv PROVE RevertedOnlyIfStale
  <1> SUFFICES ASSUME Ready, Fresh, ~AtEdge, Comparable(terms.tiers)
               PROVE  \/ Accepted
                      \/ call.op = "launch" /\ call.named /\ places.venue = "other"
                      \/ call.op = "modify" /\ call.terms.start >= call.terms.end
                      \/ call.op = "freeze" /\ sale \in Ended
    BY DEF RevertedOnlyIfStale
  <1>1. Typed /\ ChainTyped /\ call \in Call /\ KnownSale /\ KnownBuilt /\ call.at = "built"
    BY DEF Inv, Known, Knowledge, Ready, Typed
  <1>2. CASE call.op = "invest"
    <2>1. AcceptsInvest(call.amount, call.limit)
      BY <1>1, <1>2, InvestAgrees DEF KnownBuilt, KnownInvestment
    <2> QED BY <1>2, <2>1, WhatIsAccepted
  <1>3. CASE call.op = "close"
    <2>1. AcceptsClose
      BY <1>1, <1>3 DEF KnownBuilt, MayClose, AcceptsClose, Details
    <2> QED BY <1>3, <2>1, WhatIsAccepted
  <1>4. CASE call.op \in {"freeze", "unfreeze"}
    <2>1. MayToggle(Details)
      BY <1>1, <1>4 DEF KnownBuilt
    <2>2. terms.end = Never \/ now < terms.end
      BY <1>1, <2>1, Edges DEF MayToggle
    <2>3. sale \notin Ended \/ call.op = "freeze"
      BY <1>1, <1>4, <2>1, Edges DEF MayToggle, Ended
    <2> QED BY <1>4, <2>2, <2>3, WhatIsAccepted DEF AcceptsToggle
  <1>5. CASE call.op = "modify"
    <2>1. MayModify(Details) /\ call.terms = NewWindow(terms)
      BY <1>1, <1>5 DEF KnownBuilt
    <2>2. sale \notin Ended /\ (terms.end = Never \/ now < terms.end)
      BY <1>1, <2>1, Edges DEF MayModify
    <2>3. call.terms.start # terms.start => now < terms.start
      <3>1. call.start = 0 => call.terms.start = terms.start
        BY <1>1, <2>1 DEF NewWindow, ChainTyped, Plan
      <3> QED BY <1>1, <2>1, <3>1, Edges DEF MayModify
    <2>4. call.terms.start \in Nat /\ call.terms.end \in Nat
      BY <1>1, CallFields, PlanTyped, TimesTyped
    <2> QED BY <1>5, <2>2, <2>3, <2>4, WhatIsAccepted DEF AcceptsModify
  <1>6. CASE call.op = "launch"
    <2>1. KnownLaunch /\ sale = "none"
      BY <1>1, <1>6 DEF KnownBuilt, KnownSale
    <2>2. places.venue \in Venues
      BY <1>1 DEF ChainTyped
    <2> QED BY <1>6, <2>1, <2>2, WhatIsAccepted DEF KnownLaunch, VenueFound, AcceptsLaunch, Venues
  <1> QED BY <1>1, <1>2, <1>3, <1>4, <1>5, <1>6, CallFields

(* launchOffering, investInOffering, closeOffering, toggleFreezeOffering   *)
(* and modifyOfferingTimes: what their checks let through the chain takes, *)
(* unless it has changed since, whatever the tiers, amounts and balances;  *)
(* but for the edges and the exceptions that RevertedOnlyIfStale names.    *)
THEOREM ChecksSuffice == Spec => []RevertedOnlyIfStale
  BY Invariance, ReadyAccepted, PTL

(* OfferingBalanceStatus, as fundraiserToOfferingDetails works it out from *)
(* the value that is left, says Available of the Offerings that somebody   *)
(* with the funds can buy from, and of no others.                          *)
LEMMA Buyable == ASSUME Inv PROVE AvailableIfBuyable
  <1> DEFINE tiers == terms.tiers
  <1>1. tiers \in Seq(Tier) /\ terms.min \in Nat
    BY PlanTyped DEF Inv, Typed, ChainTyped
  <1> HIDE DEF tiers
  <1>2. Left(tiers) \in Nat /\ ValueLeft(tiers) \in Nat /\ Bill(tiers, Left(tiers)) = ValueLeft(tiers)
    BY <1>1, BillOfAll
  <1>3. Details.balance = "Available" <=> ValueLeft(tiers) > 0 /\ ValueLeft(tiers) >= terms.min
    <2>1. Details.balance = BalanceStatus(terms)
      BY DEF Details
    <2> QED BY <1>1, <1>2, <2>1 DEF BalanceStatus, tiers
  <1>4. ASSUME NEW n \in 1 .. Left(tiers), Bill(tiers, n) > 0 /\ Bill(tiers, n) >= terms.min
        PROVE  ValueLeft(tiers) > 0 /\ ValueLeft(tiers) >= terms.min
    <2>1. n \in Nat
      BY <1>2
    <2>2. Bill(tiers, n) \in Nat /\ Bill(tiers, n) <= ValueLeft(tiers)
      BY <1>1, <2>1, BillBelow
    <2> QED BY <1>1, <1>2, <1>4, <2>2
  <1>5. ASSUME ValueLeft(tiers) > 0 /\ ValueLeft(tiers) >= terms.min
        PROVE  \E n \in 1 .. Left(tiers) : Bill(tiers, n) > 0 /\ Bill(tiers, n) >= terms.min
    <2>1. Left(tiers) # 0
      BY <1>1, <1>2, <1>5, BillOfNone
    <2>2. Left(tiers) \in 1 .. Left(tiers)
      BY <1>2, <2>1
    <2> WITNESS Left(tiers) \in 1 .. Left(tiers)
    <2> QED BY <1>2, <1>5
  <1>6. Details.balance = "Available" <=>
          \E n \in 1 .. Left(tiers) : Bill(tiers, n) > 0 /\ Bill(tiers, n) >= terms.min
    BY <1>3, <1>4, <1>5
  <1> QED BY <1>6 DEF AvailableIfBuyable, tiers

(* The balance an Offering reports, OfferingBalanceStatus, is Available if *)
(* and only if an investment can be made of it, whatever its tiers.        *)
THEOREM AvailableTruly == Spec => []AvailableIfBuyable
  BY Invariance, Buyable, PTL
(* Only a read that finds something against it, or the chain, ends a call. *)
LEMMA EndsBefore ==
  ASSUME Inv, Next, call.at \notin {"idle", "built"}, Ends
  PROVE  ReadDetails \/ ReadBalance \/ ReadPortfolios \/ ReadVenue
  <1>1. ~Begin
    BY DEF Begin, Invest, CloseIt, ToggleFreeze, ModifyTimes, Launch, Start
  <1>2. ~Revert
    BY DEF Revert
  <1>3. ~Dispatching
    BY DispatchingCall
  <1>4. ~Others
    <2> SUFFICES ASSUME Others PROVE FALSE
      OBVIOUS
    <2>1. call' = [call EXCEPT !.stale = TRUE]
      BY OthersCall DEF Aging
    <2>2. call'.at = call.at
      BY <2>1 DEF Inv, Typed, Call
    <2> QED BY <2>2 DEF Ends
  <1> QED BY <1>1, <1>2, <1>3, <1>4, StepForms DEF Calling

LEMMA GotoGoesOn ==
  ASSUME call \in Call, NEW stage, Goto(stage) PROVE call'.at = stage
  BY DEF Goto, Call

WouldFail ==
  CASE call.op = "invest" ->
         Comparable(terms.tiers) => ~AcceptsInvest(call.amount, call.limit)
    [] call.op = "close"    -> ~AcceptsClose
    [] call.op = "freeze"   -> sale = "Frozen" \/ ~AcceptsToggle
    [] call.op = "unfreeze" -> sale = "Live" \/ ~AcceptsToggle
    [] call.op = "launch"   -> ~AcceptsLaunch(call.plan)
    [] OTHER -> TRUE

LEMMA WouldFailGives ==
  /\ call.op = "invest" =>
       (WouldFail <=> (Comparable(terms.tiers) => ~AcceptsInvest(call.amount, call.limit)))
  /\ call.op = "close" => (WouldFail <=> ~AcceptsClose)
  /\ call.op = "freeze" => (WouldFail <=> sale = "Frozen" \/ ~AcceptsToggle)
  /\ call.op = "unfreeze" => (WouldFail <=> sale = "Live" \/ ~AcceptsToggle)
  /\ call.op = "launch" => (WouldFail <=> ~AcceptsLaunch(call.plan))
  /\ call.op = "modify" => WouldFail
  BY DEF WouldFail

LEMMA TurnedAway ==
  ASSUME Inv, Next, call.at # "idle", ~Ready, Ends, Fresh, ~AtEdge PROVE WouldFail
  <1>1. Typed /\ ChainTyped /\ call \in Call /\ Form /\ KnownSale /\ KnownDetails /\ KnownStock
    BY DEF Inv, Typed, Known, Knowledge
  <1>2. CASE ReadDetails
    <2>1. call.at = "details" /\ ~Goto("built")
      BY <1>1, <1>2, ReadDetailsCases, GotoGoesOn DEF Ends
    <2>2. call.op # "invest"
      <3> SUFFICES ASSUME call.op = "invest" PROVE FALSE
        OBVIOUS
      <3>1. call' = [call EXCEPT !.at = "balance", !.read = Details, !.terms = terms]
        BY <1>1, <1>2, ReadDetailsCases, ToldApart
      <3> QED BY <1>1, <3>1 DEF Ends, Call
    <2>3. CASE call.op = "close"
      <3>1. ~MayClose(Details)
        BY <1>1, <1>2, <2>1, <2>3, ReadDetailsCases, ToldApart DEF Check
      <3> QED BY <2>3, <3>1, WouldFailGives DEF MayClose, AcceptsClose, Details
    <2>4. CASE call.op \in {"freeze", "unfreeze"}
      <3>1. ~MayToggle(Details)
        BY <1>1, <1>2, <2>1, <2>4, ReadDetailsCases, ToldApart DEF Check
      <3>2. sale \in Sales
        BY <1>1, <2>4 DEF KnownSale, ChainTyped
      <3>3. CASE Details.timing = "Expired"
        BY <1>1, <2>4, <3>3, Edges, WouldFailGives DEF AcceptsToggle
      <3>4. CASE call.op = "freeze" /\ sale = "Frozen"
        BY <3>4, WouldFailGives
      <3>5. CASE call.op = "unfreeze" /\ sale # "Frozen"
        BY <3>2, <3>5, WouldFailGives DEF Sales, Ended, AcceptsToggle
      <3> QED BY <1>1, <2>4, <3>1, <3>3, <3>4, <3>5, Edges DEF MayToggle
    <2>5. CASE call.op \in {"modify", "launch"}
      BY <1>1, <2>1, <2>5, WouldFailGives DEF Form
    <2> QED BY <1>1, <2>2, <2>3, <2>4, <2>5, CallFields
  <1>3. CASE ReadBalance
    <2> DEFINE stats == TierStats(call.terms.tiers, call.amount, call.limit)
               Found == /\ Accepting(call.read) /\ stats.price >= call.terms.min
                        /\ stats.price <= funds /\ stats.total >= call.amount
    <2>1. ~Found
      <3> SUFFICES ASSUME Found PROVE FALSE
        OBVIOUS
      <3>1. call' = [call EXCEPT !.at = "built", !.price = stats.price]
        BY <1>3 DEF ReadBalance
      <3> QED BY <1>1, <3>1 DEF Ends, Call
    <2>2. call.at = "balance" /\ call.op = "invest" /\ call.read = Details /\ call.terms = terms
      BY <1>1, <1>3 DEF ReadBalance, Form, KnownDetails
    <2>3. Comparable(terms.tiers) => ~AcceptsInvest(call.amount, call.limit)
      BY <1>1, <2>1, <2>2, InvestAgrees
    <2> QED BY <2>2, <2>3, WouldFailGives
  <1>4. CASE ReadPortfolios
    <2>1. call.at = "portfolios" /\ call.op = "launch"
      BY <1>1, <1>4 DEF ReadPortfolios, Form
    <2>2. ~places.portfolios
      <3> SUFFICES ASSUME places.portfolios PROVE FALSE
        OBVIOUS
      <3>1. call' = [call EXCEPT !.at = "venue", !.free = stock]
        BY <1>4 DEF ReadPortfolios
      <3>2. call'.at = "venue"
        BY <1>1, <3>1 DEF Call
      <3> QED BY <3>2 DEF Ends
    <2> QED BY <2>1, <2>2, WouldFailGives DEF AcceptsLaunch
  <1>5. CASE ReadVenue
    <2>1. call.at = "venue" /\ call.op = "launch" /\ call.free = stock
      BY <1>1, <1>5 DEF ReadVenue, Form, KnownStock
    <2>2. ~(VenueFound /\ Left(call.plan.tiers) <= call.free)
      BY <1>1, <1>5, GotoGoesOn DEF ReadVenue, Check, Ends
    <2>3. ~AcceptsLaunch(call.plan)
      BY <2>1, <2>2 DEF AcceptsLaunch, VenueFound
    <2> QED BY <2>1, <2>3, WouldFailGives
  <1> QED BY <1>2, <1>3, <1>4, <1>5, EndsBefore DEF Ready

(* Who launches, invests in, closes, freezes or unfreezes an Offering and  *)
(* is refused by the checks of the procedures would have been refused by   *)
(* the chain, or would have changed nothing, unless it changed meanwhile.  *)
THEOREM RefusedOnlyRightly == Spec => TurnedAwayRightly
  <1>1. Inv /\ [Next]_vars =>
          [call.at # "idle" /\ ~Ready /\ Ends /\ Fresh /\ ~AtEdge => WouldFail]_vars
    BY TurnedAway
  <1> QED BY Invariance, <1>1, PTL DEF Spec, TurnedAwayRightly, WouldFail

(* What the transaction does, when it is the one whose price or window was *)
(* worked out of what has not changed since.                               *)
LEMMA Done ==
  ASSUME Inv, Next, Ready, Ends, Fresh, Accepted
  PROVE  /\ call.op = "invest" /\ Comparable(terms.tiers) => funds - funds' = call.price
         /\ call.op = "modify" =>
              /\ call.start = 0 => terms'.start = terms.start
              /\ call.end = 0 => terms'.end = terms.end
  <1>1. Typed /\ ChainTyped /\ call \in Call /\ KnownBuilt /\ call.at = "built"
    BY DEF Inv, Typed, Known, Knowledge, Ready
  <1>2. Dispatching
    <2>1. ~Calling
      BY <1>1 DEF Calling, Begin, Invest, CloseIt, ToggleFreeze, ModifyTimes, Launch, Start,
                  ReadDetails, ReadBalance, ReadPortfolios, ReadVenue, Revert
    <2>2. ~Others
      <3> SUFFICES ASSUME Others PROVE FALSE
        OBVIOUS
      <3>1. call' = [call EXCEPT !.stale = TRUE]
        BY <1>1, OthersCall DEF Aging
      <3>2. call'.at = call.at
        BY <1>1, <3>1 DEF Call
      <3> QED BY <1>1, <3>2 DEF Ends
    <2> QED BY <2>1, <2>2, StepForms
  <1>3. ASSUME call.op = "invest", Comparable(terms.tiers) PROVE funds - funds' = call.price
    <2>1. Sell(call.amount)
      BY <1>2, <1>3 DEF Dispatching, DispatchInvest, DispatchClose, DispatchToggle, DispatchModify,
                        DispatchLaunch, Takes
    <2>2. KnownInvestment
      BY <1>1, <1>3 DEF KnownBuilt
    <2>3. call.price = Bill(terms.tiers, call.amount)
      BY <1>1, <1>3, <2>2, CallTiers, TiersAgree DEF KnownInvestment, Comparable
    <2>4. Bill(terms.tiers, call.amount) \in Nat /\ funds \in Nat
      BY <1>1, CallTiers, CostGives DEF ChainTyped
    <2>5. funds' = funds - Bill(terms.tiers, call.amount)
      BY <2>1 DEF Sell
    <2> QED BY <2>3, <2>4, <2>5
  <1>4. ASSUME call.op = "modify"
        PROVE  /\ call.start = 0 => terms'.start = terms.start
               /\ call.end = 0 => terms'.end = terms.end
    <2>1. SetWindow(call.terms)
      BY <1>2, <1>4 DEF Dispatching, DispatchInvest, DispatchClose, DispatchToggle, DispatchModify,
                        DispatchLaunch, Takes
    <2>2. call.terms = NewWindow(terms)
      BY <1>1, <1>4 DEF KnownBuilt
    <2>3. /\ call.start = 0 => call.terms.start = terms.start
          /\ call.end = 0 => call.terms.end = terms.end
      BY <1>1, <2>2 DEF NewWindow, ChainTyped, Plan
    <2>4. terms'.start = call.terms.start /\ terms'.end = call.terms.end
      BY <1>1, <2>1 DEF SetWindow, ChainTyped, Plan
    <2> QED BY <2>3, <2>4
  <1> QED BY <1>3, <1>4

(* investInOffering: the price that calculateTierStats works out is what   *)
(* the chain takes, whatever the tiers, the amount and the limit, if no    *)
(* tier had to be passed over; modifyOfferingTimes leaves what it was not  *)
(* given the same.                                                         *)
THEOREM DoneRightly == Spec => DoneAsAsked
  <1>1. Inv /\ [Next]_vars =>
          [Ready /\ Ends /\ Fresh /\ Accepted =>
             /\ call.op = "invest" /\ Comparable(terms.tiers) => funds - funds' = call.price
             /\ call.op = "modify" =>
                  /\ call.start = 0 => terms'.start = terms.start
                  /\ call.end = 0 => terms'.end = terms.end]_vars
    BY Done
  <1> QED BY Invariance, <1>1, PTL DEF Spec, DoneAsAsked
===============================================================================
