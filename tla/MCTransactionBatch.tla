-------------------------- MODULE MCTransactionBatch --------------------------
(* Four extrinsics: a and c make one thing each and emit other events on   *)
(* either side, b makes two, d makes none.                                 *)
EXTENDS TransactionBatch

CONSTANTS a, b, c, d

MCTxs   == {a, b, c, d}
MCEmits == a :> <<"other", "made">> @@ b :> <<"made", "made">>
             @@ c :> <<"made", "other", "other">> @@ d :> <<>>

Leaves == {Plain(a), Plain(b), Plain(c), Void(<<d>>), Void(<<a, b>>),
           Procedure(<<a, c>>), Procedure(<<d, b>>), Procedure(<<c>>)}

Batches == {Procedure(<<x, y, z>>) : x \in MCTxs, y \in MCTxs \ {d}, z \in MCTxs}
             \cup {Procedure(<<a, b>>), Void(<<c, d>>)}

(* Lists of three have up to four extrinsics: one of the first two items   *)
(* at most has several.                                                    *)
Singles == {Plain(a), Void(<<d>>), Procedure(<<c>>)}
Doubles == {Void(<<a, b>>), Procedure(<<d, b>>)}
Lists   == {List(<<x, y>>) : x \in Leaves, y \in Leaves}
             \cup {List(<<x, y, Plain(b)>>) : x \in Singles, y \in Singles \cup Doubles}
             \cup {List(<<x, y, Plain(b)>>) : x \in Doubles, y \in Singles}

Every  == Batches \cup Lists
=============================================================================
