------------------------------ MODULE MCOfferings ------------------------------
(* Offerings of one and two tiers, in and out of the order of their prices:*)
(* one leaves a residue below the minimum investment, one gives the tokens *)
(* of a tier away.                                                         *)
EXTENDS Offerings

Of(tiers, min, start, end) == [tiers |-> tiers, min |-> min, start |-> start, end |-> end]
T(remaining, price) == [remaining |-> remaining, price |-> price]

MCPlans == {Of(<<T(1, 1), T(2, 2)>>, 2, 2, 4),
            Of(<<T(1, 3), T(2, 1)>>, 0, 1, Never),
            Of(<<T(2, 0)>>, 0, 1, Never)}
MCMaxPrices == {NoLimit, 1}
MCWindows   == {<<3, 0>>, <<0, Never>>, <<3, 2>>}
================================================================================
