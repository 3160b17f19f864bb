----------------------------- MODULE MCV2Pools -----------------------------
(* Model-checking instances of V2Pools: two Velar pairs of one contract,   *)
(* one of them named in the other order, an ALEX and an Arkadiko pair, and *)
(* xyk pools.                                                              *)
EXTENDS V2Pools, TLC

Kinds5 ==
    "velar" :> "velar" @@ "velar2" :> "velar" @@ "alex" :> "alex" @@ "ark" :> "arkadiko" @@
    "xyk" :> "xyk"
Emitters5 ==
    "velar" :> "core" @@ "velar2" :> "core" @@ "alex" :> "amm" @@ "ark" :> "swap" @@ "xyk" :> "xyk"
Fees5 ==
    "velar" :> [i \in Side |-> [num |-> 997, den |-> 1000]] @@
    "velar2" :> [i \in Side |-> [num |-> 1, den |-> 2]] @@
    "alex" :> [i \in Side |-> [rate |-> IF i = 1 THEN 10000000 ELSE 60000000]] @@
    "ark" :> [i \in Side |-> <<>>] @@
    "xyk" :> [i \in Side |-> [protocol |-> 3000, provider |-> IF i = 1 THEN 0 ELSE 3000]]
Starts5 ==
    "velar" :> <<9, 2>> @@ "velar2" :> <<6, 4>> @@ "alex" :> <<8, 2>> @@ "ark" :> <<4, 6>> @@
    "xyk" :> <<9, 2>>
=============================================================================
