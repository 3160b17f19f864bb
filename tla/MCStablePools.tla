--------------------------- MODULE MCStablePools ---------------------------
(* Model-checking instance of StablePools: two V2 pools of one core, one   *)
(* of an older core, and a V1 pool of either generation.                   *)
EXTENDS StablePools, TLC

Kinds5 == "sts" :> "v2" @@ "usd" :> "v2" @@ "btc" :> "v2" @@ "bug" :> "bug" @@ "fix" :> "fixed"
Cores5 == "sts" :> "core" @@ "usd" :> "core" @@ "btc" :> "oldcore"
Decimals5 ==
    "sts" :> <<0, 0>> @@ "usd" :> <<1, 0>> @@ "btc" :> <<0, 0>> @@ "bug" :> <<0, 0>> @@ "fix" :> <<0, 1>>
Amps5 == "sts" :> 2 @@ "usd" :> 5 @@ "btc" :> 5 @@ "bug" :> 2 @@ "fix" :> 2
Thresholds5 == "sts" :> 2 @@ "usd" :> 2 @@ "btc" :> 2 @@ "bug" :> 2 @@ "fix" :> 1

Changes5 == "sts" :> 2 @@ "usd" :> 1 @@ "btc" :> 3 @@ "bug" :> 2 @@ "fix" :> 2

V2Fee == [protocol |-> 3, provider |-> 2]
Three == "lps" :> 1 @@ "stacking-dao" :> 1 @@ "bitflow" :> 1
Two == [lps |-> 2, protocol |-> 1]
SomeGarbled == {<<"usd", "midpoint">>, <<"btc", "balances">>}
SomeMidpoints == {<<1, 2>>}
OnStart(bal, mid, fee) == [bal |-> bal, mid |-> mid, on |-> TRUE, fee |-> <<fee, fee>>]
Starts5 ==
    "sts" :> OnStart(<<24, 16>>, <<2, 3>>, V2Fee) @@
    "usd" :> OnStart(<<90, 9>>, <<1, 1>>, V2Fee) @@
    "btc" :> OnStart(<<18, 22>>, <<1, 1>>, V2Fee) @@
    "bug" :> OnStart(<<20, 16>>, <<1, 1>>, Three) @@
    "fix" :> OnStart(<<9, 90>>, <<1, 1>>, Two)
=============================================================================
